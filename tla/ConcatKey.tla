------------------------------- MODULE ConcatKey -------------------------------
(***************************************************************************)
(* Composite set keys (src/nfsets.go): MakeConcatElement building an       *)
(* element key component by component with processElementValue, and       *)
(* GenSetKeyType deriving the set's key datatype from the component types. *)
(*                                                                         *)
(* MakeConcatElement is modelled as the loop it is: one step per key       *)
(* component, then the final 4-byte alignment. A byte is "v" (a byte of    *)
(* the caller's value) or "0" (zero padding). A datatype is a record       *)
(* [name, magic, bytes] as google/nftables defines it; an ElementValue is  *)
(* abstracted to the one field it sets and, for byte-slice fields, the     *)
(* slice's length.                                                         *)
(***************************************************************************)
EXTENDS Naturals, Sequences, SequencesExt

CONSTANTS
    Types,           \* the nftables.SetDatatype values callers use
    TypeInvalid,     \* nftables.TypeInvalid
    SetConcatTypeBits, \* nftables.SetConcatTypeBits
    Args,            \* the <<keys, vals>> argument pairs checked
    Actions          \* whether the *RuleAction argument is non-nil

(* GenSetKeyType packs magics into a uint32 c with c<<SetConcatTypeBits | m.
   TLC's integers are narrower, so c is kept as its SetConcatTypeBits-wide
   fields, most significant first, truncated to 32 bits: Fields full fields
   and, above them, one partial field of TopBits bits. *)
Fields  == 32 \div SetConcatTypeBits
TopBits == 32 % SetConcatTypeBits

\* c<<SetConcatTypeBits | m on the field representation.
ShiftIn(c, m) ==
    LET d == Append(c, m) IN
    IF Len(d) <= Fields THEN d
    ELSE <<d[Len(d) - Fields] % 2^TopBits>> \o SubSeq(d, Len(d) - Fields + 1, Len(d))

\* ElementValue fields, by the datatype name whose value they carry.
FieldOf == [integer |-> "Integer", mark |-> "Mark", ipv4_addr |-> "IPAddr",
            ipv6_addr |-> "IPAddr", ether_addr |-> "EtherAddr",
            inet_proto |-> "InetProto", inet_service |-> "InetService"]

\* Bytes binaryutil.BigEndian / a one-byte slice produce for fixed-size fields.
FixedLen == [Integer |-> 4, Mark |-> 4, InetProto |-> 1, InetService |-> 2]

VARIABLES
    keys, vals, ra,   \* the arguments
    i,                \* loop index (1-based)
    key,              \* the concatenated bytes so far
    kl,               \* their length
    offs,             \* where each component starts in key
    out,              \* the result: an error, or the element built
    pc

vars == <<keys, vals, ra, i, key, kl, offs, out, pc>>

-----------------------------------------------------------------------------

\* Round a length up to a multiple of 4 (the l%4 != 0 adjustment).
Align4(l) == IF l % 4 # 0 THEN l + (4 - (l % 4)) ELSE l

Zeros(n) == [j \in 1..n |-> "0"]

\* Mutant: the component is not padded to 4 bytes.
processElementValueUnpadded(kt, kv) ==
    IF kt.name \notin DOMAIN FieldOf \/ kv.field # FieldOf[kt.name]
    THEN [err |-> TRUE, b |-> <<>>]
    ELSE LET n == IF kv.field \in DOMAIN FixedLen THEN FixedLen[kv.field] ELSE kv.len
         IN  [err |-> FALSE, b |-> [j \in 1..n |-> "v"]]

\* processElementValue: encode one component per its datatype, failing when
\* the field that datatype needs is nil or the datatype is unsupported, and
\* pad it with zeros to a 4-byte boundary.
processElementValue(kt, kv) ==
    IF kt.name \notin DOMAIN FieldOf \/ kv.field # FieldOf[kt.name]
    THEN [err |-> TRUE, b |-> <<>>]
    ELSE LET n == IF kv.field \in DOMAIN FixedLen THEN FixedLen[kv.field] ELSE kv.len
             b == [j \in 1..n |-> "v"]
         IN  [err |-> FALSE, b |-> b \o Zeros(Align4(n) - n)]

\* Mutant: a wider type's width not rounded up in the composite case.
GenSetKeyTypeUnrounded(types) ==
    LET Width(ty) == IF ty.bytes <= 4 THEN 4 ELSE ty.bytes
        Acc(a, ty) == [name |-> a.name, magic |-> a.magic, bytes |-> a.bytes + Width(ty)]
    IN CASE Len(types) = 0 -> TypeInvalid
         [] Len(types) = 1 -> [name |-> types[1].name, magic |-> types[1].magic,
                               bytes |-> Align4(types[1].bytes)]
         [] OTHER -> FoldLeft(Acc, [name |-> "concat", magic |-> <<>>, bytes |-> 0], types)

\* GenSetKeyType: no type gives TypeInvalid; one type keeps its name and
\* magic with its width rounded up to 4 (at least 4); several types give a
\* "concat" name, the magics packed SetConcatTypeBits apart in a uint32,
\* and the sum of the rounded widths. The name is built exactly as the
\* loop does: "_" + name, then name again, then "_" (i < len(types) always).
GenSetKeyType(types) ==
    LET Width(ty) == IF ty.bytes <= 4 THEN 4 ELSE Align4(ty.bytes)
        Acc(a, ty) == [name  |-> a.name \o "_" \o ty.name \o ty.name \o "_",
                       magic |-> ShiftIn(a.magic, ty.magic),
                       bytes |-> a.bytes + Width(ty)]
    IN CASE Len(types) = 0 -> TypeInvalid
         [] Len(types) = 1 -> [name |-> types[1].name, magic |-> types[1].magic,
                               bytes |-> Width(types[1])]
         [] OTHER -> FoldLeft(Acc, [name |-> "concat", magic |-> <<>>, bytes |-> 0], types)

-----------------------------------------------------------------------------
(* MakeConcatElement.                                                      *)

Init ==
    /\ \E a \in Args : keys = a[1] /\ vals = a[2]
    /\ ra \in Actions
    /\ i = 1
    /\ key = <<>>
    /\ kl = 0
    /\ offs = <<>>
    /\ out = [err |-> FALSE, key |-> <<>>, verdict |-> FALSE]
    /\ pc = "check"

\* The argument checks, in the code's order: nil action, no keys, length
\* mismatch.
Check ==
    /\ pc = "check"
    /\ IF ~ra \/ Len(keys) = 0 \/ Len(keys) # Len(vals)
       THEN out' = [out EXCEPT !.err = TRUE] /\ pc' = "done"
       ELSE pc' = "loop" /\ UNCHANGED out
    /\ UNCHANGED <<keys, vals, ra, i, key, kl, offs>>

\* One iteration: encode component i and append it.
Component ==
    LET r == processElementValue(keys[i], vals[i]) IN
    /\ pc = "loop"
    /\ i <= Len(keys)
    /\ IF r.err
       THEN out' = [out EXCEPT !.err = TRUE] /\ pc' = "done" /\ UNCHANGED <<i, key, kl, offs>>
       ELSE /\ offs' = Append(offs, Len(key))
            /\ key' = key \o r.b
            /\ kl' = kl + Len(r.b)
            /\ i' = i + 1
            /\ UNCHANGED <<out, pc>>
    /\ UNCHANGED <<keys, vals, ra>>

\* After the loop: allocate a key of the aligned length, copy the bytes in,
\* attach the verdict.
Finish ==
    /\ pc = "loop"
    /\ i > Len(keys)
    /\ out' = [err |-> FALSE, key |-> key \o Zeros(Align4(kl) - Len(key)), verdict |-> TRUE]
    /\ pc' = "done"
    /\ UNCHANGED <<keys, vals, ra, i, key, kl, offs>>

Next == Check \/ Component \/ Finish

Spec == Init /\ [][Next]_vars

-----------------------------------------------------------------------------
(* Properties.                                                             *)

Built == pc = "done" /\ ~out.err

\* Spec section 8 (round trip): the key of a built element is exactly as
\* long as the width GenSetKeyType gives the set's key type for the same
\* component types; the kernel compares keys of that width.
KeyMatchesKeyType == Built => Len(out.key) = GenSetKeyType(keys).bytes

\* Spec section 3: every component starts on a 4-byte boundary of the key,
\* at the offset the key type's field layout gives it (the sum of the
\* rounded widths of the components before it).
ComponentsAligned ==
    Built =>
        \A j \in 1..Len(keys) :
            offs[j] = IF j = 1 THEN 0 ELSE GenSetKeyType(SubSeq(keys, 1, j - 1)).bytes

\* Spec sections 4.2 and 8: a composite type's name is "concat" followed by
\* "_" and each component's name: "concat_" + name1 + "_" + name2.
KeyTypeName ==
    Len(keys) >= 2 =>
        GenSetKeyType(keys).name =
            FoldLeft(LAMBDA a, ty : a \o "_" \o ty.name, "concat", keys)

=============================================================================
