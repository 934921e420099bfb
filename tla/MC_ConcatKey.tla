----------------------------- MODULE MC_ConcatKey -----------------------------
(* The datatypes google/nftables defines for set keys, and the argument     *)
(* sets MakeConcatElement and GenSetKeyType are checked over.               *)
EXTENDS ConcatKey, SingleElement

TypeInteger     == [name |-> "integer",      magic |-> 4,  bytes |-> 4]
TypeIPAddr      == [name |-> "ipv4_addr",    magic |-> 7,  bytes |-> 4]
TypeIP6Addr     == [name |-> "ipv6_addr",    magic |-> 8,  bytes |-> 16]
TypeEtherAddr   == [name |-> "ether_addr",   magic |-> 9,  bytes |-> 6]
TypeInetProto   == [name |-> "inet_proto",   magic |-> 12, bytes |-> 1]
TypeInetService == [name |-> "inet_service", magic |-> 13, bytes |-> 2]
TypeMark        == [name |-> "mark",         magic |-> 19, bytes |-> 4]
TypeVerdict     == [name |-> "verdict",      magic |-> 1,  bytes |-> 0]

MCTypeInvalid == [name |-> "invalid", magic |-> 0, bytes |-> 0]

MCTypes == {TypeInteger, TypeIPAddr, TypeIP6Addr, TypeEtherAddr,
            TypeInetProto, TypeInetService, TypeMark, TypeVerdict}

\* ElementValues: one field set (or none); byte slices of the lengths
\* callers produce (net.IP is 4 or 16 bytes long, a MAC 6).
Vals == {[field |-> f, len |-> 0] : f \in {"none", "Integer", "Mark", "InetProto", "InetService"}}
        \cup {[field |-> "IPAddr", len |-> l] : l \in {4, 16}}
        \cup {[field |-> "EtherAddr", len |-> 6]}

AllArgs == BoundedSeq(MCTypes, 2) \X BoundedSeq(Vals, 2)

\* Arguments whose address slices have the width of the datatype they are
\* passed for (IPv4 addresses passed through To4()).
WellSized(a) ==
    \A j \in DOMAIN a[1] \cap DOMAIN a[2] :
        a[2][j].field \in {"IPAddr", "EtherAddr"} => a[2][j].len = a[1][j].bytes

WellSizedArgs == {a \in AllArgs : WellSized(a)}

\* MakeElement's arguments: every address text as the key, and a nil or
\* any address text as the AddrIP value, a nil or a given port and action.
MCElementInputs ==
    [Addr : AddrTexts, AddrIP : AddrTexts \cup {Nil}, Port : {Nil, "port"},
     Action : {Nil, "action"}]

\* Spec sections 4.2 and 7, MakeElementMatchesSpec: MakeElement rejects a
\* bad or mixed-family address and otherwise attaches the one value given
\* to its key's range. MakeElement keeps no state, so the check is made in
\* the initial states of an empty key list only.
MakeElementOK == MakeElementMatchesSpec(pc = "check" /\ keys = <<>> /\ vals = <<>>)
=============================================================================
