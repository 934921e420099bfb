---------------------------- MODULE MC_L3Compiler ----------------------------
(* Rule inputs for createL3: every combination of version, protocol and    *)
(* source/destination specs built from lists of one or two addresses and  *)
(* ranges with both, one or no end given.                                 *)
EXTENDS L3Compiler, SequencesExt

CONSTANTS ipv4, ipv6

Lists(fams) == BoundedSeq(fams, 2) \ {<<>>}

AddrSpecs(fams) ==
    {[given |-> FALSE, hasList |-> FALSE, list |-> <<>>, range |-> "nil"]}
    \cup {[given |-> TRUE, hasList |-> h, list |-> l, range |-> r] :
            h \in BOOLEAN, l \in Lists(fams), r \in {"nil", "half", "both"}}

RulesOf(fams) ==
    {[version |-> v, protocol |-> p, src |-> s, dst |-> d, exclude |-> x] :
       v \in BOOLEAN, p \in BOOLEAN, s \in AddrSpecs(fams), d \in AddrSpecs(fams),
       x \in BOOLEAN}

\* Address lists of one family only.
V4Rules == RulesOf({"v4"})
V6Rules == RulesOf({"v6"})
AllRules == RulesOf({"v4", "v6"})

\* IPv4 and IPv6 tables given addresses of their own family.
SameFamilyInputs == ({ipv4} \X V4Rules) \cup ({ipv6} \X V6Rules)

\* IPv4 tables given addresses of either family.
MixedInputs == {ipv4} \X AllRules
=============================================================================
