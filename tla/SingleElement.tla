---------------------------- MODULE SingleElement ----------------------------
(***************************************************************************)
(* MakeElement (src/nfsets.go:230-268): the element of a plain set, map or *)
(* verdict map keyed by one IPv4 or IPv6 address or prefix.                *)
(*                                                                         *)
(* An address text is abstracted to its lexical class: an IPv4 or IPv6     *)
(* address, with or without a /prefix, or text that is no address. An      *)
(* element key is abstracted to its address family, a map value to the    *)
(* family of the address it holds or to "port" (two big-endian bytes).     *)
(* NewIPAddr and buildElementRanges are not under src/: they are modelled  *)
(* by what spec sections 3 and 4.2 say they do.                            *)
(***************************************************************************)
EXTENDS Naturals, Sequences

CONSTANTS
    Nil,            \* a nil *string, *uint16 or *RuleAction argument
    ElementInputs   \* the ElementValue arguments MakeElement is checked on

\* An address text: [fam |-> "v4" | "v6" | "junk", cidr |-> BOOLEAN].
AddrTexts == [fam : {"v4", "v6", "junk"}, cidr : BOOLEAN]

\* NewIPAddr: parse an address or a prefix; text that is neither fails.
NewIPAddr(text) ==
    IF text.fam = "junk" THEN [err |-> TRUE]
    ELSE [err |-> FALSE, v6 |-> text.fam = "v6", cidr |-> text.cidr]

Fam(addr) == IF addr.v6 THEN "v6" ELSE "v4"

NoValue(k) == [key |-> k, end |-> FALSE, val |-> "none", verdict |-> FALSE]

\* buildElementRanges of one address: its canonical range. A single address
\* is a degenerate one-element range; a prefix is its first address and an
\* IntervalEnd element.
buildElementRanges(addr) ==
    IF addr.cidr
    THEN <<NoValue(Fam(addr)), [NoValue(Fam(addr)) EXCEPT !.end = TRUE]>>
    ELSE <<NoValue(Fam(addr))>>

ElemErr == [err |-> TRUE, elements |-> <<>>]
ElemOK(els) == [err |-> FALSE, elements |-> els]

\* Mutant: an IPv4 key accepts an IPv6 value (the second family check lost).
MakeElementV4Unchecked(in) ==
    LET addr == NewIPAddr(in.Addr) IN
    IF addr.err THEN ElemErr
    ELSE LET els == buildElementRanges(addr)
             val == NewIPAddr(in.AddrIP)
         IN CASE in.AddrIP # Nil /\ val.err           -> ElemErr
              [] in.AddrIP # Nil /\ addr.v6 /\ ~val.v6 -> ElemErr
              [] in.AddrIP # Nil -> ElemOK([els EXCEPT ![1].val = Fam(val)])
              [] in.Port # Nil   -> ElemOK([els EXCEPT ![1].val = "port"])
              [] in.Action # Nil -> ElemOK([els EXCEPT ![1].verdict = TRUE])
              [] OTHER           -> ElemOK(els)

\* MakeElement: parse the key address and expand it into its range, then
\* attach to the range's first element the first value given, in the
\* switch's order AddrIP, Port, Action; an address value must parse and be
\* of the key's family.
MakeElement(in) ==
    LET addr == NewIPAddr(in.Addr) IN
    IF addr.err THEN ElemErr
    ELSE LET els == buildElementRanges(addr)
             val == NewIPAddr(in.AddrIP)
         IN CASE in.AddrIP # Nil /\ val.err           -> ElemErr
              [] in.AddrIP # Nil /\ addr.v6 /\ ~val.v6 -> ElemErr
              [] in.AddrIP # Nil /\ ~addr.v6 /\ val.v6 -> ElemErr
              [] in.AddrIP # Nil -> ElemOK([els EXCEPT ![1].val = Fam(val)])
              [] in.Port # Nil   -> ElemOK([els EXCEPT ![1].val = "port"])
              [] in.Action # Nil -> ElemOK([els EXCEPT ![1].verdict = TRUE])
              [] OTHER           -> ElemOK(els)

-----------------------------------------------------------------------------
(* Properties.                                                             *)

\* The arguments the specification describes: one address plus at most one
\* of an address value, a port value and an action.
OneValue(in) ==
    LET given == {f \in {"AddrIP", "Port", "Action"} : in[f] # Nil}
    IN \A f, g \in given : f = g

\* Spec sections 4.2 and 7: MakeElement fails exactly when the key does not
\* parse, or an address value does not parse or mixes IPv4 and IPv6 with
\* the key; otherwise every element of the key's range is keyed by the
\* key's family, a prefix gives a start and an IntervalEnd element, and the
\* value given is carried by the range's first element and by no other.
\* MakeElement keeps no state: the check is made in each state satisfying
\* When, which the module using this one chooses.
MakeElementMatchesSpec(When) ==
    When =>
    \A in \in ElementInputs :
        OneValue(in) =>
            LET r  == MakeElement(in)
                k  == NewIPAddr(in.Addr)
                v  == NewIPAddr(in.AddrIP)
                ok == ~k.err /\ (in.AddrIP # Nil => ~v.err /\ v.v6 = k.v6)
                want == CASE in.AddrIP # Nil -> Fam(v)
                          [] in.Port # Nil   -> "port"
                          [] OTHER           -> "none"
            IN /\ r.err = ~ok
               /\ ok =>
                    /\ Len(r.elements) = IF k.cidr THEN 2 ELSE 1
                    /\ \A j \in DOMAIN r.elements :
                          /\ r.elements[j].key = Fam(k)
                          /\ r.elements[j].end = (j = 2)
                          /\ r.elements[j].val = IF j = 1 THEN want ELSE "none"
                          /\ r.elements[j].verdict = (j = 1 /\ in.Action # Nil)

=============================================================================
