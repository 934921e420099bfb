------------------------------ MODULE L3Compiler ------------------------------
(***************************************************************************)
(* The L3 predicate compiler (src/unnamed/part_000): createL3 compiling a  *)
(* rule's IP version, protocol, source and destination fields in that      *)
(* order, processIPAddr choosing the header offset and key datatype by     *)
(* table family, and processAddrList building the anonymous lookup set.    *)
(*                                                                         *)
(* A rule's optional fields carry a flag saying whether they are set; an   *)
(* address spec records whether its list is non-nil. An address is        *)
(* abstracted to its family ("v4" or "v6"); a set element                 *)
(* key to its byte length (To4 of an IPv6 address is nil, length 0). The   *)
(* expression builders getExprFor* live outside this package: each is      *)
(* modelled by the one abstract expression the specification gives it.     *)
(***************************************************************************)
EXTENDS Naturals, Sequences, FiniteSets

CONSTANTS
    IPv4, IPv6,   \* nftables.TableFamilyIPv4 / TableFamilyIPv6
    Inputs        \* the <<l3proto, rule>> pairs createL3 is checked on

\* nftables.TypeIPAddr / TypeIP6Addr, by key width.
TypeIPAddr  == [name |-> "ipv4_addr", bytes |-> 4]
TypeIP6Addr == [name |-> "ipv6_addr", bytes |-> 16]
TypeZero    == [name |-> "", bytes |-> 0]   \* a zero nftables.SetDatatype

VARIABLES
    fam,    \* l3proto
    rule,   \* the rule
    pc,     \* the next field createL3 compiles
    re,     \* the expressions so far
    sets,   \* the sets so far
    err     \* whether createL3 returned an error

vars == <<fam, rule, pc, re, sets, err>>

-----------------------------------------------------------------------------
(* Expression builders (outside src/).                                     *)

Op(excl) == IF excl THEN "neq" ELSE "eq"

getExprForIPVersion(excl) == <<[kind |-> "version", offset |-> 0, op |-> Op(excl)]>>
getExprForProtocol(excl)  == <<[kind |-> "protocol", offset |-> 9, op |-> Op(excl)]>>
getExprForListIPV2(offset, excl) == <<[kind |-> "lookup", offset |-> offset, op |-> Op(excl)]>>
getExprForRangeIP(offset, excl)  == <<[kind |-> "range", offset |-> offset, op |-> Op(excl)]>>

-----------------------------------------------------------------------------
(* The address compilers.                                                  *)

\* net.IP.To4 / To16, by the length of the key they give.
To4(a)  == IF a = "v4" THEN 4 ELSE 0
To16(a) == 16

\* processAddrList: one element per address, its key converted for the
\* table family (left nil for any other family); an error only when there
\* is no element at all.
processAddrList(l3proto, offset, list, excl) ==
    LET se == [j \in DOMAIN list |->
                 CASE l3proto = IPv4 -> To4(list[j])
                   [] l3proto = IPv6 -> To16(list[j])
                   [] OTHER -> 0]
    IN IF Len(se) = 0 THEN [err |-> TRUE]
       ELSE [err |-> FALSE, re |-> getExprForListIPV2(offset, excl), elements |-> se]

\* Mutant: the IPv6 source and destination offsets swapped.
AddrOffsetSwapped(l3proto, src) ==
    CASE l3proto = IPv4 -> IF src THEN 12 ELSE 16
      [] l3proto = IPv6 -> IF src THEN 24 ELSE 8
      [] OTHER -> 0

\* The header offset processIPAddr picks (zero for other families).
AddrOffset(l3proto, src) ==
    CASE l3proto = IPv4 -> IF src THEN 12 ELSE 16
      [] l3proto = IPv6 -> IF src THEN 8 ELSE 24
      [] OTHER -> 0

KeyTypeOf(l3proto) ==
    CASE l3proto = IPv4 -> TypeIPAddr
      [] l3proto = IPv6 -> TypeIP6Addr
      [] OTHER -> TypeZero

\* processIPAddr: the list (if non-nil) then the range (if both ends are
\* given); a list's set gets the family's key type.
processIPAddr(l3proto, addrs, src, exclude) ==
    LET off == AddrOffset(l3proto, src)
        l   == IF ~addrs.hasList THEN [err |-> FALSE, re |-> <<>>]
               ELSE processAddrList(l3proto, off, addrs.list, exclude)
        lset == IF ~addrs.hasList THEN <<>>
                ELSE <<[keyType |-> KeyTypeOf(l3proto), elements |-> l.elements]>>
        r   == IF addrs.range = "both" THEN getExprForRangeIP(off, exclude) ELSE <<>>
    IN IF l.err THEN [err |-> TRUE]
       ELSE [err |-> FALSE, re |-> l.re \o r, sets |-> lset]

-----------------------------------------------------------------------------
(* createL3, one field per step.                                           *)

Init ==
    /\ \E in \in Inputs : fam = in[1] /\ rule = in[2]
    /\ pc = "version"
    /\ re = <<>>
    /\ sets = <<>>
    /\ err = FALSE

Version ==
    /\ pc = "version"
    /\ re' = IF rule.version THEN re \o getExprForIPVersion(rule.exclude) ELSE re
    /\ pc' = "protocol"
    /\ UNCHANGED <<fam, rule, sets, err>>

Protocol ==
    /\ pc = "protocol"
    /\ re' = IF rule.protocol THEN re \o getExprForProtocol(rule.exclude) ELSE re
    /\ pc' = "src"
    /\ UNCHANGED <<fam, rule, sets, err>>

\* The source (src = TRUE) or destination address field.
Addr(field, src, next) ==
    LET r == processIPAddr(fam, rule[field], src, rule.exclude) IN
    /\ pc = field
    /\ IF ~rule[field].given
       THEN pc' = next /\ UNCHANGED <<re, sets, err>>
       ELSE IF r.err
            THEN err' = TRUE /\ pc' = "done" /\ UNCHANGED <<re, sets>>
            ELSE re' = re \o r.re /\ sets' = sets \o r.sets /\ pc' = next /\ UNCHANGED err
    /\ UNCHANGED <<fam, rule>>

Src == Addr("src", TRUE, "dst")
Dst == Addr("dst", FALSE, "done")

Next == Version \/ Protocol \/ Src \/ Dst

Spec == Init /\ [][Next]_vars

-----------------------------------------------------------------------------
(* Properties.                                                             *)

(* The reference compile, from the specification: header byte offsets of
   the source and destination addresses per family, the family's 4- or
   16-byte address key type, and the field order version, protocol,
   source, destination, every expression equality- or inequality-flavoured
   by the rule's exclusion flag. *)
HeaderOffset == [r \in {IPv4, IPv6} |->
                   IF r = IPv4 THEN [src |-> 12, dst |-> 16] ELSE [src |-> 8, dst |-> 24]]
AddrWidth == [r \in {IPv4, IPv6} |-> IF r = IPv4 THEN 4 ELSE 16]

RefExpr(kind, offset) == <<[kind |-> kind, offset |-> offset, op |-> Op(rule.exclude)]>>

RefAddr(f, a) ==
    IF ~a.given THEN <<>>
    ELSE (IF a.hasList THEN RefExpr("lookup", HeaderOffset[fam][f]) ELSE <<>>)
         \o (IF a.range = "both" THEN RefExpr("range", HeaderOffset[fam][f]) ELSE <<>>)

RefExprs ==
    (IF rule.version THEN RefExpr("version", 0) ELSE <<>>)
    \o (IF rule.protocol THEN RefExpr("protocol", 9) ELSE <<>>)
    \o RefAddr("src", rule.src) \o RefAddr("dst", rule.dst)

\* How many address fields carry a list.
RefSetCount ==
    Cardinality({f \in {"src", "dst"} : rule[f].given /\ rule[f].hasList})

\* Spec sections 5 and 8: for an IPv4 or IPv6 table and address lists of
\* the table's family, createL3 succeeds with exactly the reference
\* expressions, in the reference order, and one set per address list whose
\* key type is the family's address type and whose every element key has
\* that type's width.
CompiledMatchesReference ==
    pc = "done" =>
        /\ ~err
        /\ re = RefExprs
        /\ Len(sets) = RefSetCount
        /\ \A j \in DOMAIN sets :
              /\ sets[j].keyType.bytes = AddrWidth[fam]
              /\ \A k \in DOMAIN sets[j].elements : sets[j].elements[k] = AddrWidth[fam]

=============================================================================
