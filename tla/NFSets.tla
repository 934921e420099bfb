-------------------------------- MODULE NFSets --------------------------------
(***************************************************************************)
(* The Set Store of one table (src/nfsets.go, type nfSets) used by         *)
(* concurrent goroutines, with the connection it shares with every other   *)
(* store of the process and the sets the kernel holds in the table.        *)
(*                                                                         *)
(* nfSets.sets maps a set name to the *nftables.Set it created or          *)
(* absorbed; `sets` is its key set. A set's content is abstracted to a few *)
(* element values and the interval-end sentinel Zero that CreateSet builds *)
(* for interval sets keyed by an address type.                             *)
(*                                                                         *)
(* Each Lock()..Unlock() section of the code is one step guarded by the    *)
(* mutex being free; the steps between them, and each call on the          *)
(* connection, are separate steps where other goroutines interleave.       *)
(***************************************************************************)
EXTENDS Naturals, Sequences, FiniteSets, SequencesExt

CONSTANTS
    Threads,       \* goroutines calling the Set Store
    SetNames,      \* set names used
    Elems,         \* element keys callers pass
    Zero,          \* the 0.0.0.0 / :: IntervalEnd element CreateSet builds
    NoOwner,       \* owner of a free mutex
    ExclusiveAdd,  \* the kernel answers EEXIST to an add of an existing set
    KernelFaults,  \* connection calls may fail for reasons opaque to the library
    OutOfBand,     \* another program may change the table's sets meanwhile
    MapRaces       \* the Go runtime detects unsynchronised nfs.sets accesses

ASSUME Zero \notin Elems /\ NoOwner \notin Threads
ASSUME {ExclusiveAdd, KernelFaults, OutOfBand, MapRaces} \subseteq BOOLEAN

AllElems == Elems \cup {Zero}

VARIABLES
    sets,     \* keys of nfSets.sets
    lock,     \* nfSets' sync.Mutex: holding goroutine or NoOwner
    queue,    \* messages enqueued on the connection since the last Flush
    kHas,     \* sets the kernel holds in the table
    kElems,   \* their elements
    kIv,      \* their Interval flag
    pc,       \* per goroutine: the step it is about to take
    op,       \* per goroutine: the call it is in
    name,     \* per goroutine: the set name argument
    elems,    \* per goroutine: the elements argument
    ival,     \* per goroutine: CreateSet with Interval and an address KeyType
    todo,     \* per goroutine: names Sync's loop has still to visit
    ret       \* per goroutine: the result of its last call

kernel == <<kHas, kElems, kIv>>
procs  == <<pc, op, name, elems, ival, todo, ret>>
vars   == <<sets, lock, queue, kernel, procs>>

-----------------------------------------------------------------------------
(* The connection, modelled from spec section 6.                           *)

Msg == [kind : {"addset", "delset", "addel", "delel"}, s : SetNames,
        e : SUBSET AllElems, iv : BOOLEAN]

Enqueue(kind, s, e, iv) ==
    queue' = Append(queue, [kind |-> kind, s |-> s, e |-> e, iv |-> iv])

\* Mutant: deleting a set leaves its elements behind.
ApplyMsgKeepElems(acc, m) ==
    LET k == acc.k
        absent == m.s \notin k.has
    IN
    IF acc.err # "none" THEN acc
    ELSE CASE m.kind = "addset" /\ absent ->
                [acc EXCEPT !.k = [has |-> k.has \cup {m.s},
                                   el |-> [k.el EXCEPT ![m.s] = m.e],
                                   iv |-> [k.iv EXCEPT ![m.s] = m.iv]]]
           [] m.kind = "addset" /\ ExclusiveAdd -> [acc EXCEPT !.err = "EEXIST"]
           [] (m.kind = "addset" \/ m.kind = "addel") /\ ~absent ->
                [acc EXCEPT !.k.el[m.s] = @ \cup m.e]
           [] m.kind = "delset" /\ ~absent -> [acc EXCEPT !.k.has = @ \ {m.s}]
           [] m.kind = "delel" /\ ~absent /\ m.e \subseteq k.el[m.s] ->
                [acc EXCEPT !.k.el[m.s] = @ \ m.e]
           [] OTHER -> [acc EXCEPT !.err = "ENOENT"]

\* The kernel applies a batch in order and aborts it at the first error.
ApplyMsg(acc, m) ==
    LET k == acc.k
        absent == m.s \notin k.has
    IN
    IF acc.err # "none" THEN acc
    ELSE CASE m.kind = "addset" /\ absent ->
                [acc EXCEPT !.k = [has |-> k.has \cup {m.s},
                                   el |-> [k.el EXCEPT ![m.s] = m.e],
                                   iv |-> [k.iv EXCEPT ![m.s] = m.iv]]]
           [] m.kind = "addset" /\ ExclusiveAdd -> [acc EXCEPT !.err = "EEXIST"]
           [] (m.kind = "addset" \/ m.kind = "addel") /\ ~absent ->
                [acc EXCEPT !.k.el[m.s] = @ \cup m.e]
           [] m.kind = "delset" /\ ~absent ->
                [acc EXCEPT !.k = [has |-> k.has \ {m.s},
                                   el |-> [k.el EXCEPT ![m.s] = {}],
                                   iv |-> k.iv]]
           [] m.kind = "delel" /\ ~absent /\ m.e \subseteq k.el[m.s] ->
                [acc EXCEPT !.k.el[m.s] = @ \ m.e]
           [] OTHER -> [acc EXCEPT !.err = "ENOENT"]

Batch(q) == FoldLeft(ApplyMsg, [err |-> "none", k |-> [has |-> kHas, el |-> kElems, iv |-> kIv]], q)

\* The possible answers to Flush: the batch's own, or an opaque failure.
FlushResults ==
    {Batch(queue)} \cup
    (IF KernelFaults THEN {[err |-> "EFAULT", k |-> Batch(<<>>).k]} ELSE {})

\* Flush: all-or-nothing; the Conn drops its messages whatever the answer.
Flush(res) ==
    /\ IF res.err = "none"
       THEN /\ kHas' = res.k.has
            /\ kElems' = res.k.el
            /\ kIv' = res.k.iv
       ELSE UNCHANGED kernel
    /\ queue' = <<>>

\* Whether a call answered by the library or a kernel query succeeds.
CallOK == IF KernelFaults THEN BOOLEAN ELSE {TRUE}

-----------------------------------------------------------------------------
(* Goroutines.                                                             *)

Alive == \A t \in Threads : pc[t] \notin {"panicked", "fatal"}

Return(t, r) ==
    /\ pc' = [pc EXCEPT ![t] = "idle"]
    /\ ret' = [ret EXCEPT ![t] = r]

\* A caller starts a call.
Call(t) ==
    /\ pc[t] = "idle"
    /\ \/ \E s \in SetNames, e \in SUBSET Elems, iv \in BOOLEAN :
            /\ pc' = [pc EXCEPT ![t] = "csAdd"]
            /\ op' = [op EXCEPT ![t] = "create"]
            /\ name' = [name EXCEPT ![t] = s]
            /\ elems' = [elems EXCEPT ![t] = e]
            /\ ival' = [ival EXCEPT ![t] = iv]
       \/ \E s \in SetNames, o \in {"del", "get", "byname", "add", "delel"}, e \in SUBSET Elems :
            /\ o \in {"add", "delel"} <=> e # {}
            /\ pc' = [pc EXCEPT ![t] = "exist"]
            /\ op' = [op EXCEPT ![t] = o]
            /\ name' = [name EXCEPT ![t] = s]
            /\ elems' = [elems EXCEPT ![t] = e]
            /\ UNCHANGED ival
       \/ /\ pc' = [pc EXCEPT ![t] = "syncList"]
          /\ op' = [op EXCEPT ![t] = "sync"]
          /\ UNCHANGED <<name, elems, ival>>
    /\ ret' = [ret EXCEPT ![t] = "none"]
    /\ UNCHANGED <<sets, lock, queue, kernel, todo>>

\* CreateSet, first part: build the *nftables.Set and call conn.AddSet.
\* The code prepends the IntervalEnd sentinel to a local slice `se` but
\* passes the caller's `elements` to AddSet, so the message carries those.
CsAdd(t) ==
    /\ pc[t] = "csAdd"
    /\ \E ok \in CallOK :
         IF ok THEN /\ Enqueue("addset", name[t], elems[t], ival[t])
                    /\ pc' = [pc EXCEPT ![t] = "csFlush"]
                    /\ UNCHANGED ret
               ELSE /\ Return(t, "err")
                    /\ UNCHANGED queue
    /\ UNCHANGED <<sets, lock, kernel, op, name, elems, ival, todo>>

\* Mutant: the result of Flush is not checked.
CsFlushUnchecked(t) ==
    /\ pc[t] = "csFlush"
    /\ \E res \in FlushResults :
         /\ Flush(res)
         /\ pc' = [pc EXCEPT ![t] = "csStore"]
         /\ UNCHANGED ret
    /\ UNCHANGED <<sets, lock, op, name, elems, ival, todo>>

\* CreateSet, second part: Flush; on error return it.
CsFlush(t) ==
    /\ pc[t] = "csFlush"
    /\ \E res \in FlushResults :
         /\ Flush(res)
         /\ IF res.err = "none"
            THEN /\ pc' = [pc EXCEPT ![t] = "csStore"]
                 /\ UNCHANGED ret
            ELSE Return(t, "err")
    /\ UNCHANGED <<sets, lock, op, name, elems, ival, todo>>

\* Mutant: the deferred Unlock is missing.
CsStoreNoUnlock(t) ==
    /\ pc[t] = "csStore"
    /\ lock = NoOwner
    /\ lock' = t
    /\ sets' = sets \cup {name[t]}
    /\ Return(t, "ok")
    /\ UNCHANGED <<queue, kernel, op, name, elems, ival, todo>>

\* CreateSet, last part: nfs.Lock(); nfs.sets[attrs.Name] = s; unlock.
CsStore(t) ==
    /\ pc[t] = "csStore"
    /\ lock = NoOwner
    /\ sets' = sets \cup {name[t]}
    /\ Return(t, "ok")
    /\ UNCHANGED <<lock, queue, kernel, op, name, elems, ival, todo>>

\* What DelSet answers when the set does not exist (nil); the other calls
\* answer "set ... does not exist".
Missing(t) == IF op[t] = "del" THEN "ok" ELSE "err"

\* nfSets.Exist, first part: look the name up under the mutex.
ExistLocal(t) ==
    /\ pc[t] = "exist"
    /\ lock = NoOwner
    /\ IF name[t] \in sets
       THEN pc' = [pc EXCEPT ![t] = "existK"] /\ UNCHANGED ret
       ELSE Return(t, Missing(t))
    /\ UNCHANGED <<sets, lock, queue, kernel, op, name, elems, ival, todo>>

\* nfSets.Exist, second part: conn.GetSetByName on the owning table.
\* GetSetByName makes the same two checks and returns the kernel's set.
ExistKernel(t) ==
    /\ pc[t] = "existK"
    /\ \E ok \in CallOK :
         CASE ~ok \/ name[t] \notin kHas -> Return(t, Missing(t))
           [] op[t] = "byname"            -> Return(t, "ok")
           [] OTHER                       -> pc' = [pc EXCEPT ![t] = "use"] /\ UNCHANGED ret
    /\ UNCHANGED <<sets, lock, queue, kernel, op, name, elems, ival, todo>>

\* After Exist answered true: read nfs.sets[name] without the mutex and
\* hand it to the connection (DelSet, GetSetElements, SetAddElements,
\* SetDeleteElements). If the entry has gone meanwhile the pointer is nil
\* and the connection dereferences it: the process panics. A failing
\* GetSetElements or SetAdd/DeleteElements call is returned.
Use(t) ==
    /\ pc[t] = "use"
    /\ IF name[t] \notin sets
       THEN /\ pc' = [pc EXCEPT ![t] = "panicked"]
            /\ UNCHANGED <<queue, ret>>
       ELSE CASE op[t] = "get" ->
                   \E ok \in CallOK : Return(t, IF ok THEN "ok" ELSE "err") /\ UNCHANGED queue
              [] op[t] = "del" ->
                   /\ Enqueue("delset", name[t], {}, FALSE)
                   /\ pc' = [pc EXCEPT ![t] = "flush"]
                   /\ UNCHANGED ret
              [] OTHER ->
                   \E ok \in CallOK :
                     IF ok THEN /\ Enqueue(IF op[t] = "add" THEN "addel" ELSE "delel",
                                           name[t], elems[t], FALSE)
                                /\ pc' = [pc EXCEPT ![t] = "flush"]
                                /\ UNCHANGED ret
                           ELSE Return(t, "err") /\ UNCHANGED queue
    /\ UNCHANGED <<sets, lock, kernel, op, name, elems, ival, todo>>

\* Mutant: the result of Flush is not checked.
FlushStepUnchecked(t) ==
    /\ pc[t] = "flush"
    /\ \E res \in FlushResults :
         /\ Flush(res)
         /\ IF op[t] = "del" THEN pc' = [pc EXCEPT ![t] = "remove"] /\ UNCHANGED ret
            ELSE Return(t, "ok")
    /\ UNCHANGED <<sets, lock, op, name, elems, ival, todo>>

\* DelSet / SetAddElements / SetDelElements: Flush; DelSet then removes
\* the local entry, the others return.
FlushStep(t) ==
    /\ pc[t] = "flush"
    /\ \E res \in FlushResults :
         /\ Flush(res)
         /\ IF res.err # "none" THEN Return(t, "err")
            ELSE IF op[t] = "del" THEN pc' = [pc EXCEPT ![t] = "remove"] /\ UNCHANGED ret
            ELSE Return(t, "ok")
    /\ UNCHANGED <<sets, lock, op, name, elems, ival, todo>>

\* DelSet, last part: nfs.Lock(); delete(nfs.sets, name); unlock.
DelSetLocal(t) ==
    /\ pc[t] = "remove"
    /\ lock = NoOwner
    /\ sets' = sets \ {name[t]}
    /\ Return(t, "ok")
    /\ UNCHANGED <<lock, queue, kernel, op, name, elems, ival, todo>>

\* nfSets.Sync, first part: conn.GetSets for the table.
SyncList(t) ==
    /\ pc[t] = "syncList"
    /\ \E ok \in CallOK :
         IF ok THEN /\ todo' = [todo EXCEPT ![t] = kHas]
                    /\ pc' = [pc EXCEPT ![t] = "syncLoop"]
                    /\ UNCHANGED ret
               ELSE Return(t, "err") /\ UNCHANGED todo
    /\ UNCHANGED <<sets, lock, queue, kernel, op, name, elems, ival>>

\* nfSets.Sync's loop: a set already known (read without the mutex) is
\* skipped; an unknown one is stored after nfs.Lock(), and the loop then
\* calls nfs.Lock() again where it should unlock, blocking for good on the
\* mutex it holds ("relock" has no step).
SyncNext(t) ==
    /\ pc[t] = "syncLoop"
    /\ \/ /\ todo[t] = {}
          /\ Return(t, "ok")
          /\ UNCHANGED <<sets, lock, todo>>
       \/ \E s \in todo[t] :
            /\ todo' = [todo EXCEPT ![t] = @ \ {s}]
            /\ IF s \in sets
               THEN UNCHANGED <<sets, lock, pc, ret>>
               ELSE /\ lock = NoOwner
                    /\ lock' = t
                    /\ sets' = sets \cup {s}
                    /\ pc' = [pc EXCEPT ![t] = "relock"]
                    /\ UNCHANGED ret
    /\ UNCHANGED <<queue, kernel, op, name, elems, ival>>

-----------------------------------------------------------------------------
(* Unsynchronised accesses to nfs.sets. Use and Sync's loop read the map   *)
(* without the mutex; CreateSet, DelSet and Sync write it under the mutex, *)
(* which does not order them against those reads. When a read or write     *)
(* overlaps a write the runtime may abort the process ("concurrent map     *)
(* read and map write"); whether it notices is left open by MapRaces.      *)

\* The goroutine is about to read nfs.sets without the mutex.
ReadsUnlocked(t) == pc[t] = "use" \/ (pc[t] = "syncLoop" /\ todo[t] # {})

\* The goroutine is writing nfs.sets, always under the mutex: an assignment
\* always sets the map's writing flag, delete on an empty map returns
\* before setting it, and Sync's loop writes when a listed set is unknown.
Writes(t) ==
    /\ lock = NoOwner
    /\ \/ pc[t] = "csStore"
       \/ pc[t] = "remove" /\ sets # {}
       \/ pc[t] = "syncLoop" /\ todo[t] \ sets # {}

\* Goroutine t's unlocked read overlaps u's write; the runtime aborts t.
RaceCrash ==
    /\ MapRaces
    /\ \E t, u \in Threads :
         /\ t # u
         /\ ReadsUnlocked(t)
         /\ Writes(u)
         /\ pc' = [pc EXCEPT ![t] = "fatal"]
    /\ UNCHANGED <<sets, lock, queue, kernel, op, name, elems, ival, todo, ret>>

-----------------------------------------------------------------------------
(* Another program (nft, another process) adding or deleting sets.         *)

OutOfBandChange ==
    /\ OutOfBand
    /\ \/ \E s \in SetNames \ kHas :
            /\ kHas' = kHas \cup {s}
            /\ UNCHANGED <<kElems, kIv>>
       \/ \E s \in kHas :
            /\ kHas' = kHas \ {s}
            /\ kElems' = [kElems EXCEPT ![s] = {}]
            /\ kIv' = [kIv EXCEPT ![s] = FALSE]
    /\ UNCHANGED <<sets, lock, queue, procs>>

-----------------------------------------------------------------------------

Init ==
    /\ sets = {}
    /\ lock = NoOwner
    /\ queue = <<>>
    \* The kernel may already hold plain sets when the process starts.
    /\ kHas \in SUBSET SetNames
    /\ kElems \in [SetNames -> SUBSET Elems]
    /\ \A s \in SetNames \ kHas : kElems[s] = {}
    /\ kIv = [s \in SetNames |-> FALSE]
    /\ pc = [t \in Threads |-> "idle"]
    /\ op = [t \in Threads |-> "get"]
    /\ name = [t \in Threads |-> CHOOSE s \in SetNames : TRUE]
    /\ elems = [t \in Threads |-> {}]
    /\ ival = [t \in Threads |-> FALSE]
    /\ todo = [t \in Threads |-> {}]
    /\ ret = [t \in Threads |-> "none"]

Step(t) ==
    \/ Call(t)
    \/ CsAdd(t) \/ CsFlush(t) \/ CsStore(t)
    \/ ExistLocal(t) \/ ExistKernel(t) \/ Use(t) \/ FlushStep(t) \/ DelSetLocal(t)
    \/ SyncList(t) \/ SyncNext(t)

Next ==
    /\ Alive
    /\ \/ \E t \in Threads : Step(t)
       \/ RaceCrash
       \/ OutOfBandChange

\* Goroutines inside a call are scheduled fairly while the process runs;
\* nothing obliges a caller to call or another program to act.
Fairness == \A t \in Threads : WF_vars(Alive /\ Step(t) /\ pc[t] # "idle")

Spec == Init /\ [][Next]_vars /\ Fairness

-----------------------------------------------------------------------------
(* Properties.                                                             *)

PCs == {"idle", "panicked", "fatal", "relock", "csAdd", "csFlush", "csStore", "exist",
        "existK", "use", "flush", "remove", "syncList", "syncLoop"}

\* Types, and the kernel holding no elements for a set it does not hold.
TypeOK ==
    /\ sets \subseteq SetNames
    /\ lock \in Threads \cup {NoOwner}
    /\ queue \in Seq(Msg)
    /\ kHas \subseteq SetNames
    /\ kElems \in [SetNames -> SUBSET AllElems]
    /\ kIv \in [SetNames -> BOOLEAN]
    /\ \A s \in SetNames \ kHas : kElems[s] = {}
    /\ pc \in [Threads -> PCs]
    /\ ret \in [Threads -> {"none", "ok", "err"}]

\* The local map mirrors the kernel: a set the store knows is one the
\* kernel holds (CreateSet registers a set only after its flush succeeded,
\* DelSet forgets it right after its flush deleted it, Sync absorbs only
\* listed sets). The one exception is a DelSet of the set that has passed
\* Exist and not yet removed the entry.
LocalSetsOnKernel ==
    \A s \in sets :
        \/ s \in kHas
        \/ \E t \in Threads : op[t] = "del" /\ pc[t] \in {"use", "flush", "remove"} /\ name[t] = s

\* Spec section 4.2: the mutating calls flush before returning and are
\* synchronous with the kernel: when SetAddElements returns nil the
\* kernel's set holds the elements.
ElementsAddedOnSuccess ==
    [][\A t \in Threads :
         (pc[t] = "flush" /\ op[t] = "add" /\ ret'[t] = "ok") =>
             elems[t] \subseteq kElems'[name[t]]]_vars

\* Spec sections 3 and 4.2: an interval set keyed by an address type
\* carries the zero-address IntervalEnd element that closes its intervals
\* (CreateSet's auto-prepended sentinel).
IntervalSetsClosed == \A s \in kHas : kIv[s] => Zero \in kElems[s]

\* No call of the Set Store crashes the process: neither a nil
\* *nftables.Set read from nfs.sets after Exist and handed to the
\* connection, nor the runtime aborting an unsynchronised map access.
NoPanic == \A t \in Threads : pc[t] \notin {"panicked", "fatal"}

\* Every Set Store call returns, unless the process has crashed or a Sync
\* has blocked for good on its own mutex (nfsets.go:215): every other
\* Lock() is paired with an Unlock(), so no call waits forever.
CallsReturn ==
    \A t \in Threads :
        pc[t] # "idle" ~> (pc[t] = "idle" \/ ~Alive \/ \E u \in Threads : pc[u] = "relock")

=============================================================================
