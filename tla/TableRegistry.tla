---------------------------- MODULE TableRegistry ----------------------------
(***************************************************************************)
(* What the Table Store promises a caller (spec sections 3, 4.1 and 5),    *)
(* with every call taking effect in one atomic step: the registry is a set *)
(* of (family, name) pairs, at most one record per pair.                   *)
(*                                                                         *)
(*  - Create / CreateImm register the pair and enqueue "add table";        *)
(*  - Delete unregisters it and enqueues "delete table" only when the      *)
(*    kernel confirms the table exists (a failed kernel query confirms     *)
(*    nothing);                                                            *)
(*  - Sync only adds: it absorbs tables the kernel holds and the registry  *)
(*    lacks, and never removes one;                                        *)
(*  - a flush applies all queued messages or none of them, and empties the *)
(*    queue either way.                                                    *)
(***************************************************************************)
EXTENDS Sequences, SequencesExt

CONSTANTS
    Tables,        \* the (family, name) pairs
    KernelFaults   \* kernel queries may fail

VARIABLES
    reg,       \* the registered pairs
    queue,     \* messages enqueued since the last flush
    kTables    \* the tables the kernel holds

avars == <<reg, queue, kTables>>

AddMsg(x) == [op |-> "add", t |-> x]
DelMsg(x) == [op |-> "del", t |-> x]

\* The kernel's tables once every queued message is applied.
AllApplied(k, q) ==
    FoldLeft(LAMBDA a, m : IF m.op = "add" THEN a \cup {m.t} ELSE a \ {m.t}, k, q)

Register(x) ==
    /\ reg' = reg \cup {x}
    /\ queue' = Append(queue, AddMsg(x))
    /\ UNCHANGED kTables

Unregister(x) ==
    /\ reg' = reg \ {x}
    /\ \/ x \in kTables /\ queue' = Append(queue, DelMsg(x))
       \/ (x \notin kTables \/ KernelFaults) /\ UNCHANGED queue
    /\ UNCHANGED kTables

Absorb(x) ==
    /\ x \in kTables \ reg
    /\ reg' = reg \cup {x}
    /\ UNCHANGED <<queue, kTables>>

Commit ==
    /\ kTables' \in {AllApplied(kTables, queue), kTables}
    /\ queue' = <<>>
    /\ UNCHANGED reg

Init ==
    /\ reg = {}
    /\ queue = <<>>
    /\ kTables \subseteq Tables

Next ==
    \/ \E x \in Tables : Register(x) \/ Unregister(x) \/ Absorb(x)
    \/ Commit

Spec == Init /\ [][Next]_avars

=============================================================================
