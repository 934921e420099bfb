------------------------------- MODULE NFTables -------------------------------
(***************************************************************************)
(* The Table Store of nftableslib (src/nftables.go, type nfTables) used by *)
(* concurrent goroutines, together with the shared connection it enqueues  *)
(* kernel messages on and the kernel tables those messages change.         *)
(*                                                                         *)
(* The registry nfTables.tables is a two-level Go map family -> name ->    *)
(* *nfTable; here `tables` is a function whose domain is the set of        *)
(* allocated family buckets and whose value is the set of names in each.   *)
(* Every table record owns a Set Store (nfSets); of it this module keeps   *)
(* only what Sync touches: the locally known set names and its mutex.      *)
(*                                                                         *)
(* A goroutine's call is split into steps wherever another goroutine can   *)
(* interleave: at every Lock, and at every access the code makes without   *)
(* holding nfTables' mutex. Calls on the connection are atomic (the        *)
(* google/nftables Conn serialises them with its own mutex).               *)
(***************************************************************************)
EXTENDS Naturals, Sequences, FiniteSets, SequencesExt

CONSTANTS
    Threads,       \* goroutines calling the Table Store
    Families,      \* nftables.TableFamily values used
    Names,         \* table names used
    SetNames,      \* names of sets the kernel may hold in a table
    NoOwner,       \* owner of a free mutex
    ExclusiveAdd,  \* the kernel answers EEXIST to an add of an existing table
    KernelFaults,  \* list and flush calls may fail for reasons opaque to the library
    OutOfBand      \* another program may change the kernel's tables meanwhile

ASSUME NoOwner \notin Threads
ASSUME {ExclusiveAdd, KernelFaults, OutOfBand} \subseteq BOOLEAN

Tables == Families \X Names

VARIABLES
    tables,   \* nfTables.tables: allocated family buckets -> names in the bucket
    tsets,    \* per table record: keys of its nfSets.sets map
    lock,     \* nfTables' sync.Mutex: holding goroutine or NoOwner
    setLock,  \* per table record: its nfSets sync.Mutex
    queue,    \* messages enqueued on the connection since the last Flush
    kTables,  \* tables the kernel holds
    kSets,    \* sets the kernel holds, per table
    pc,       \* per goroutine: the step it is about to take
    arg,      \* per goroutine: the table (or, for Sync, the family) of its call
    cur,      \* per goroutine: the table name Sync's loop is absorbing
    todo,     \* per goroutine: names Sync's loop over ListTables has still to visit
    stodo,    \* per goroutine: set names nfSets.Sync's loop has still to visit
    ret       \* per goroutine: the result of its last call

kernel == <<kTables, kSets>>
local  == <<tables, tsets, lock, setLock>>
procs  == <<pc, arg, cur, todo, stodo, ret>>
vars   == <<local, queue, kernel, procs>>

-----------------------------------------------------------------------------
(* Registry helpers.                                                       *)

\* The tables the registry holds, as (family, name) pairs.
Local == {x \in Tables : x[1] \in DOMAIN tables /\ x[2] \in tables[x[1]]}

\* nft.tables[f][name] = r: allocate the bucket if needed and put a name in it.
PutName(f, n) ==
    [g \in DOMAIN tables \cup {f} |->
        IF g = f THEN (IF f \in DOMAIN tables THEN tables[f] ELSE {}) \cup {n}
                 ELSE tables[g]]

\* A fresh nfTable record: newSets gives it an empty set map and a free mutex.
FreshRecord(x) ==
    /\ tsets' = [tsets EXCEPT ![x] = {}]
    /\ setLock' = [setLock EXCEPT ![x] = NoOwner]

\* nfTables.create: return the existing record, or allocate and register one.
\* The record's ChainsInterface and SetsInterface are never nil, so an
\* existing record is always returned unchanged.
create(x) ==
    IF x \in Local
    THEN UNCHANGED <<tables, tsets, setLock>>
    ELSE /\ tables' = PutName(x[1], x[2])
         /\ FreshRecord(x)

-----------------------------------------------------------------------------
(* The connection (google/nftables Conn), modelled from spec section 6.    *)

Msg == [op : {"add", "del"}, t : Tables]

\* AddTable / DelTable append a message; nothing reaches the kernel.
Enqueue(op, x) == queue' = Append(queue, [op |-> op, t |-> x])

\* The kernel applies a batch in order and aborts it at the first error.
ApplyMsg(acc, m) ==
    IF acc.err # "none" THEN acc
    ELSE IF m.op = "add"
         THEN IF m.t \in acc.k
              THEN IF ExclusiveAdd THEN [acc EXCEPT !.err = "EEXIST"] ELSE acc
              ELSE [acc EXCEPT !.k = @ \cup {m.t}]
         ELSE IF m.t \in acc.k
              THEN [acc EXCEPT !.k = @ \ {m.t}]
              ELSE [acc EXCEPT !.err = "ENOENT"]

Batch(q) == FoldLeft(ApplyMsg, [err |-> "none", k |-> kTables], q)

\* The possible answers to Flush: the batch's own, or an opaque failure.
FlushResults ==
    {Batch(queue)} \cup
    (IF KernelFaults THEN {[err |-> "EFAULT", k |-> kTables]} ELSE {})

\* Mutant: deleting a table leaves its sets behind on the kernel.
FlushKeepSets(res) ==
    /\ kTables' = IF res.err = "none" THEN res.k ELSE kTables
    /\ kSets' = kSets
    /\ queue' = <<>>

\* Flush: all-or-nothing; the Conn drops its messages whatever the answer.
Flush(res) ==
    /\ kTables' = IF res.err = "none" THEN res.k ELSE kTables
    /\ kSets' = [x \in Tables |-> IF x \in kTables' THEN kSets[x] ELSE {}]
    /\ queue' = <<>>

\* Whether a ListTables / GetSets call succeeds.
ListOK == IF KernelFaults THEN BOOLEAN ELSE {TRUE}

-----------------------------------------------------------------------------
(* Goroutines.                                                             *)

\* The step a goroutine takes once nft.Lock() returns.
AfterLock == [create |-> "createBody", createImm |-> "createImmAdd",
              delete |-> "deleteBody", deleteImm |-> "deleteImmBody",
              sync |-> "syncList", lookup |-> "lookupBody", get |-> "getBody",
              dump |-> "dumpBody"]

\* A goroutine whose Lock call is waiting for the mutex.
Waiting(t) == pc[t] \in DOMAIN AfterLock

\* A panic (a write into a nil map) or a fatal runtime error (a detected
\* concurrent map access) ends the process: nothing runs after it.
Alive == \A t \in Threads : pc[t] \notin {"panicked", "fatal"}

\* A caller starts a call.
Call(t) ==
    /\ pc[t] = "idle"
    /\ \/ \E x \in Tables, op \in {"create", "createImm", "delete", "deleteImm", "exist", "lookup"} :
            /\ pc' = [pc EXCEPT ![t] = op]
            /\ arg' = [arg EXCEPT ![t] = x]
       \/ pc' = [pc EXCEPT ![t] = "dump"] /\ UNCHANGED arg
       \/ \E f \in Families, op \in {"sync", "get"} :
            /\ pc' = [pc EXCEPT ![t] = op]
            /\ arg' = [arg EXCEPT ![t] = f]
    /\ ret' = [ret EXCEPT ![t] = "none"]
    /\ UNCHANGED <<local, queue, kernel, cur, todo, stodo>>

\* nft.Lock() returns once the mutex is free.
Acquire(t) ==
    /\ Waiting(t)
    /\ lock = NoOwner
    /\ lock' = t
    /\ pc' = [pc EXCEPT ![t] = AfterLock[pc[t]]]
    /\ UNCHANGED <<tables, tsets, setLock, queue, kernel, arg, cur, todo, stodo, ret>>

\* Create: register the table and enqueue "add table"; no flush.
Create(t) ==
    /\ pc[t] = "createBody"
    /\ create(arg[t])
    /\ Enqueue("add", arg[t])
    /\ lock' = NoOwner
    /\ pc' = [pc EXCEPT ![t] = "idle"]
    /\ ret' = [ret EXCEPT ![t] = "ok"]
    /\ UNCHANGED <<kernel, arg, cur, todo, stodo>>

\* CreateImm, first part: as Create, with the mutex still held.
CreateImmAdd(t) ==
    /\ pc[t] = "createImmAdd"
    /\ create(arg[t])
    /\ Enqueue("add", arg[t])
    /\ pc' = [pc EXCEPT ![t] = "createImmFlush"]
    /\ UNCHANGED <<lock, kernel, arg, cur, todo, stodo, ret>>

\* CreateImm, second part: Flush; EEXIST is reported as success.
CreateImmFlush(t) ==
    /\ pc[t] = "createImmFlush"
    /\ \E res \in FlushResults :
         /\ Flush(res)
         /\ ret' = [ret EXCEPT ![t] = IF res.err \in {"none", "EEXIST"} THEN "ok" ELSE "err"]
    /\ lock' = NoOwner
    /\ pc' = [pc EXCEPT ![t] = "idle"]
    /\ UNCHANGED <<tables, tsets, setLock, arg, cur, todo, stodo>>

\* Exist called by a caller, without the mutex: a registry hit answers
\* true; a miss lists the kernel's tables (a failed list answers false).
Exist(t) ==
    /\ pc[t] = "exist"
    /\ \E listed \in ListOK :
         ret' = [ret EXCEPT ![t] = IF arg[t] \in Local \/ (listed /\ arg[t] \in kTables)
                                   THEN "true" ELSE "false"]
    /\ pc' = [pc EXCEPT ![t] = "idle"]
    /\ UNCHANGED <<local, queue, kernel, arg, cur, todo, stodo>>

\* Table, TableChains and TableSets: under the mutex, the table's record if
\* the registry holds it, an error otherwise; the deferred Unlock releases.
Lookup(t) ==
    /\ pc[t] = "lookupBody"
    /\ ret' = [ret EXCEPT ![t] = IF arg[t] \in Local THEN "ok" ELSE "err"]
    /\ lock' = NoOwner
    /\ pc' = [pc EXCEPT ![t] = "idle"]
    /\ UNCHANGED <<tables, tsets, setLock, queue, kernel, arg, cur, todo, stodo>>

\* Get: under the mutex, list the kernel's tables of the family; a failed
\* list is returned as the error. The deferred Unlock releases.
Get(t) ==
    /\ pc[t] = "getBody"
    /\ \E listed \in ListOK : ret' = [ret EXCEPT ![t] = IF listed THEN "ok" ELSE "err"]
    /\ lock' = NoOwner
    /\ pc' = [pc EXCEPT ![t] = "idle"]
    /\ UNCHANGED <<tables, tsets, setLock, queue, kernel, arg, cur, todo, stodo>>

\* Dump: under the mutex, marshal every registered table and its chains;
\* the JSON itself is not modelled. The deferred Unlock releases.
Dump(t) ==
    /\ pc[t] = "dumpBody"
    /\ ret' = [ret EXCEPT ![t] = "ok"]
    /\ lock' = NoOwner
    /\ pc' = [pc EXCEPT ![t] = "idle"]
    /\ UNCHANGED <<tables, tsets, setLock, queue, kernel, arg, cur, todo, stodo>>

\* Mutant: Delete never prunes an emptied family bucket.
DeleteNoPrune(t) ==
    LET x == arg[t] IN
    /\ pc[t] \in {"deleteBody", "deleteImmBody"}
    /\ tables' = [g \in DOMAIN tables |-> IF g = x[1] THEN tables[g] \ {x[2]} ELSE tables[g]]
    /\ \E listed \in ListOK :
         IF listed /\ x \in kTables THEN Enqueue("del", x) ELSE UNCHANGED queue
    /\ lock' = NoOwner
    /\ pc' = [pc EXCEPT ![t] = IF pc[t] = "deleteImmBody" THEN "deleteImmFlush" ELSE "idle"]
    /\ ret' = [ret EXCEPT ![t] = "ok"]
    /\ UNCHANGED <<tsets, setLock, kernel, arg, cur, todo, stodo>>

\* Mutant: Exist asked before the local record is dropped, so a registry
\* hit enqueues "delete table" whether or not the kernel holds the table.
DeleteExistFirst(t) ==
    LET x == arg[t]
        f == x[1]
        rest == IF f \in DOMAIN tables THEN tables[f] \ {x[2]} ELSE {}
    IN
    /\ pc[t] \in {"deleteBody", "deleteImmBody"}
    /\ tables' = [g \in {h \in DOMAIN tables : h # f \/ rest # {}} |->
                    IF g = f THEN rest ELSE tables[g]]
    /\ \E listed \in ListOK :
         IF x \in Local \/ (listed /\ x \in kTables) THEN Enqueue("del", x) ELSE UNCHANGED queue
    /\ lock' = NoOwner
    /\ pc' = [pc EXCEPT ![t] = IF pc[t] = "deleteImmBody" THEN "deleteImmFlush" ELSE "idle"]
    /\ ret' = [ret EXCEPT ![t] = "ok"]
    /\ UNCHANGED <<tsets, setLock, kernel, arg, cur, todo, stodo>>

\* Mutant: the Exist Delete calls locks nft's mutex, which Delete holds.
DeleteLockedExist(t) ==
    LET x == arg[t]
        f == x[1]
        rest == IF f \in DOMAIN tables THEN tables[f] \ {x[2]} ELSE {}
    IN
    /\ pc[t] \in {"deleteBody", "deleteImmBody"}
    /\ lock = NoOwner
    /\ tables' = [g \in {h \in DOMAIN tables : h # f \/ rest # {}} |->
                    IF g = f THEN rest ELSE tables[g]]
    /\ \E listed \in ListOK :
         IF listed /\ x \in kTables THEN Enqueue("del", x) ELSE UNCHANGED queue
    /\ lock' = NoOwner
    /\ pc' = [pc EXCEPT ![t] = IF pc[t] = "deleteImmBody" THEN "deleteImmFlush" ELSE "idle"]
    /\ ret' = [ret EXCEPT ![t] = "ok"]
    /\ UNCHANGED <<tsets, setLock, kernel, arg, cur, todo, stodo>>

\* Delete: drop the local record, then enqueue "delete table" only if
\* Exist still reports the table (a local miss falls back to ListTables;
\* a failed list answers false), then prune an empty family bucket.
\* DeleteImm runs the same body and flushes after the mutex is released.
Delete(t) ==
    LET x == arg[t]
        f == x[1]
        rest == IF f \in DOMAIN tables THEN tables[f] \ {x[2]} ELSE {}
    IN
    /\ pc[t] \in {"deleteBody", "deleteImmBody"}
    /\ tables' = [g \in {h \in DOMAIN tables : h # f \/ rest # {}} |->
                    IF g = f THEN rest ELSE tables[g]]
    /\ \E listed \in ListOK :
         IF listed /\ x \in kTables THEN Enqueue("del", x) ELSE UNCHANGED queue
    /\ lock' = NoOwner
    /\ pc' = [pc EXCEPT ![t] = IF pc[t] = "deleteImmBody" THEN "deleteImmFlush" ELSE "idle"]
    /\ ret' = [ret EXCEPT ![t] = "ok"]
    /\ UNCHANGED <<tsets, setLock, kernel, arg, cur, todo, stodo>>

\* DeleteImm, after Delete returned: Flush without holding the mutex.
DeleteImmFlush(t) ==
    /\ pc[t] = "deleteImmFlush"
    /\ \E res \in FlushResults :
         /\ Flush(res)
         /\ ret' = [ret EXCEPT ![t] = IF res.err = "none" THEN "ok" ELSE "err"]
    /\ pc' = [pc EXCEPT ![t] = "idle"]
    /\ UNCHANGED <<local, arg, cur, todo, stodo>>

\* Sync, under the mutex: ListTables. On error Sync returns at once and
\* never unlocks; otherwise it keeps the family's names and unlocks.
SyncList(t) ==
    /\ pc[t] = "syncList"
    /\ \/ /\ FALSE \in ListOK
          /\ pc' = [pc EXCEPT ![t] = "idle"]
          /\ ret' = [ret EXCEPT ![t] = "err"]
          /\ UNCHANGED <<lock, todo>>
       \/ /\ todo' = [todo EXCEPT ![t] = {x[2] : x \in {y \in kTables : y[1] = arg[t]}}]
          /\ lock' = NoOwner
          /\ pc' = [pc EXCEPT ![t] = "syncLoop"]
          /\ UNCHANGED ret
    /\ UNCHANGED <<tables, tsets, setLock, queue, kernel, arg, cur, stodo>>

\* Sync's loop, without the mutex: done, or visit the next listed name and
\* absorb it unless the registry already has it. (The kernel's listing
\* order is left open: any remaining name may come next.)
SyncNext(t) ==
    /\ pc[t] = "syncLoop"
    /\ \/ /\ todo[t] = {}
          /\ pc' = [pc EXCEPT ![t] = "idle"]
          /\ ret' = [ret EXCEPT ![t] = "ok"]
          /\ UNCHANGED <<todo, cur>>
       \/ \E n \in todo[t] :
            /\ todo' = [todo EXCEPT ![t] = @ \ {n}]
            /\ cur' = [cur EXCEPT ![t] = n]
            /\ pc' = [pc EXCEPT ![t] = IF <<arg[t], n>> \in Local THEN "syncLoop" ELSE "syncAlloc"]
            /\ UNCHANGED ret
    /\ UNCHANGED <<local, queue, kernel, arg, stodo>>

\* nfTables.create called by Sync without the mutex, first part: return an
\* existing record, or allocate the family bucket if there is none.
SyncAlloc(t) ==
    LET f == arg[t] IN
    /\ pc[t] = "syncAlloc"
    /\ IF <<f, cur[t]>> \in Local
       THEN /\ pc' = [pc EXCEPT ![t] = "chainSync"]
            /\ UNCHANGED tables
       ELSE /\ tables' = IF f \in DOMAIN tables THEN tables
                         ELSE [g \in DOMAIN tables \cup {f} |-> IF g = f THEN {} ELSE tables[g]]
            /\ pc' = [pc EXCEPT ![t] = "syncInsert"]
    /\ UNCHANGED <<tsets, lock, setLock, queue, kernel, arg, cur, todo, stodo, ret>>

\* nfTables.create, second part: store a fresh record. If Delete pruned the
\* bucket in between, the assignment writes into a nil map and panics.
SyncInsert(t) ==
    LET f == arg[t] IN
    /\ pc[t] = "syncInsert"
    /\ IF f \in DOMAIN tables
       THEN /\ tables' = PutName(f, cur[t])
            /\ FreshRecord(<<f, cur[t]>>)
            /\ pc' = [pc EXCEPT ![t] = "chainSync"]
       ELSE /\ pc' = [pc EXCEPT ![t] = "panicked"]
            /\ UNCHANGED <<tables, tsets, setLock>>
    /\ UNCHANGED <<lock, queue, kernel, arg, cur, todo, stodo, ret>>

\* nt.Chains().Sync(): the Chain Store is not under src/; of it only its
\* possible failure, which makes Sync return the error, is kept.
ChainSync(t) ==
    /\ pc[t] = "chainSync"
    /\ \E ok \in ListOK :
         /\ pc' = [pc EXCEPT ![t] = IF ok THEN "setSyncList" ELSE "idle"]
         /\ ret' = [ret EXCEPT ![t] = IF ok THEN "none" ELSE "err"]
    /\ UNCHANGED <<local, queue, kernel, arg, cur, todo, stodo>>

\* nt.Sets().Sync(), first part: GetSets on the table.
SetSyncList(t) ==
    LET x == <<arg[t], cur[t]>> IN
    /\ pc[t] = "setSyncList"
    /\ \E listed \in ListOK :
         \* GetSets of a table the kernel no longer holds fails as well.
         LET ok == listed /\ x \in kTables IN
         /\ pc' = [pc EXCEPT ![t] = IF ok THEN "setSyncLoop" ELSE "idle"]
         /\ ret' = [ret EXCEPT ![t] = IF ok THEN "none" ELSE "err"]
         /\ stodo' = [stodo EXCEPT ![t] = IF ok THEN kSets[x] ELSE {}]
    /\ UNCHANGED <<local, queue, kernel, arg, cur, todo>>

\* nfSets.Sync's loop: back to the table loop when done; a set already known
\* is skipped; an unknown one is stored after nfs.Lock(), and the loop then
\* calls nfs.Lock() again where it should unlock: the goroutine blocks for
\* good on the mutex it holds ("setRelock" has no step).
SetSyncNext(t) ==
    LET x == <<arg[t], cur[t]>> IN
    /\ pc[t] = "setSyncLoop"
    /\ \/ /\ stodo[t] = {}
          /\ pc' = [pc EXCEPT ![t] = "syncLoop"]
          /\ UNCHANGED <<tsets, setLock, stodo>>
       \/ \E s \in stodo[t] :
            /\ stodo' = [stodo EXCEPT ![t] = @ \ {s}]
            /\ IF s \in tsets[x]
               THEN UNCHANGED <<tsets, setLock, pc>>
               ELSE /\ setLock[x] = NoOwner
                    /\ setLock' = [setLock EXCEPT ![x] = t]
                    /\ tsets' = [tsets EXCEPT ![x] = @ \cup {s}]
                    /\ pc' = [pc EXCEPT ![t] = "setRelock"]
    /\ UNCHANGED <<tables, lock, queue, kernel, arg, cur, todo, ret>>

-----------------------------------------------------------------------------
(* Unsynchronised registry accesses. Exist called by a caller, and Sync's  *)
(* loop and its create, access nfTables.tables without the mutex, so they  *)
(* are unordered with every other goroutine's accesses. A Go map access    *)
(* that overlaps a write to the same map makes the runtime abort the       *)
(* process ("concurrent map read and map write", "concurrent map writes"); *)
(* otherwise the two accesses happen in some order, as the steps do. A map *)
(* is "outer" (nft.tables) or a family (its bucket nft.tables[f]).          *)

\* The family a goroutine's step works on (Sync's argument is a family).
FamOf(t) == IF pc[t] \in {"syncLoop", "syncAlloc", "syncInsert"} THEN arg[t] ELSE arg[t][1]

\* The maps the goroutine's next step reads.
Reads(t) ==
    IF \/ pc[t] \in {"exist", "lookupBody", "createBody", "createImmAdd", "deleteBody",
                     "deleteImmBody", "syncAlloc", "syncInsert"}
       \/ pc[t] = "syncLoop" /\ todo[t] # {}
    THEN {"outer", FamOf(t)}
    ELSE IF pc[t] = "dumpBody" THEN {"outer"} \cup DOMAIN tables ELSE {}

\* The maps the goroutine's next step writes. Delete's delete(nft.tables, f)
\* runs whenever the bucket is empty or absent, and deleting from a
\* non-empty map is a write even when the key is absent.
Writes(t) ==
    LET f == FamOf(t) IN
    CASE pc[t] \in {"createBody", "createImmAdd"} ->
           IF arg[t] \in Local THEN {}
           ELSE {f} \cup (IF f \in DOMAIN tables THEN {} ELSE {"outer"})
      [] pc[t] \in {"deleteBody", "deleteImmBody"} ->
           (IF arg[t] \in Local THEN {f} ELSE {})
           \cup (IF /\ DOMAIN tables # {}
                    /\ f \in DOMAIN tables => tables[f] \subseteq {arg[t][2]}
                 THEN {"outer"} ELSE {})
      [] pc[t] = "syncAlloc" ->
           IF <<f, cur[t]>> \notin Local /\ f \notin DOMAIN tables THEN {"outer"} ELSE {}
      [] pc[t] = "syncInsert" ->
           IF f \in DOMAIN tables THEN {f} ELSE {}
      [] OTHER -> {}

Unlocked(t) == pc[t] \in {"exist", "syncLoop", "syncAlloc", "syncInsert"}

\* Two goroutines' next steps touch a common map, one of them writing it.
Conflict(t, u) ==
    \/ Writes(t) \cap (Reads(u) \cup Writes(u)) # {}
    \/ Writes(u) \cap Reads(t) # {}

\* The two accesses overlap, and at least one is made without the mutex:
\* the runtime aborts the process.
RaceCrash ==
    /\ \E t, u \in Threads :
         /\ t # u
         /\ Unlocked(t) \/ Unlocked(u)
         /\ Conflict(t, u)
         /\ pc' = [pc EXCEPT ![t] = "fatal"]
    /\ UNCHANGED <<local, queue, kernel, arg, cur, todo, stodo, ret>>

-----------------------------------------------------------------------------
(* Another program (nft, another process) changing the kernel's tables.    *)

OutOfBandChange ==
    /\ OutOfBand
    /\ \/ \E x \in Tables \ kTables :
            kTables' = kTables \cup {x} /\ UNCHANGED kSets
       \/ \E x \in kTables :
            kTables' = kTables \ {x} /\ kSets' = [kSets EXCEPT ![x] = {}]
       \/ \E x \in kTables, s \in SetNames :
            kSets' = [kSets EXCEPT ![x] = @ \cup {s}] /\ UNCHANGED kTables
    /\ UNCHANGED <<local, queue, procs>>

-----------------------------------------------------------------------------

Init ==
    /\ tables = [f \in {} |-> {}]
    /\ tsets = [x \in Tables |-> {}]
    /\ lock = NoOwner
    /\ setLock = [x \in Tables |-> NoOwner]
    /\ queue = <<>>
    \* The kernel may hold any tables and sets when the process starts.
    /\ kTables \in SUBSET Tables
    /\ kSets \in [Tables -> SUBSET SetNames]
    /\ \A x \in Tables \ kTables : kSets[x] = {}
    /\ pc = [t \in Threads |-> "idle"]
    /\ arg \in [Threads -> Tables]
    /\ cur = [t \in Threads |-> CHOOSE n \in Names : TRUE]
    /\ todo = [t \in Threads |-> {}]
    /\ stodo = [t \in Threads |-> {}]
    /\ ret = [t \in Threads |-> "none"]

Step(t) ==
    \/ Call(t) \/ Acquire(t)
    \/ Create(t) \/ CreateImmAdd(t) \/ CreateImmFlush(t)
    \/ Delete(t) \/ DeleteImmFlush(t) \/ Exist(t) \/ Lookup(t) \/ Get(t) \/ Dump(t)
    \/ SyncList(t) \/ SyncNext(t) \/ SyncAlloc(t) \/ SyncInsert(t)
    \/ ChainSync(t) \/ SetSyncList(t) \/ SetSyncNext(t)

Next ==
    /\ Alive
    /\ \/ \E t \in Threads : Step(t)
       \/ RaceCrash
       \/ OutOfBandChange

\* Goroutines are scheduled fairly; nothing obliges a caller to call.
Fairness == \A t \in Threads : WF_vars(Alive /\ Step(t) /\ pc[t] # "idle")

Spec == Init /\ [][Next]_vars /\ Fairness

-----------------------------------------------------------------------------
(* Properties.                                                             *)

PCs == {"idle", "panicked", "fatal", "exist", "setRelock", "createBody", "createImmAdd",
        "createImmFlush", "deleteBody", "deleteImmBody", "deleteImmFlush",
        "syncList", "syncLoop", "syncAlloc", "syncInsert", "chainSync",
        "setSyncList", "setSyncLoop", "lookupBody", "getBody", "dumpBody"} \cup DOMAIN AfterLock

\* Types, and the kernel never holding sets of a table it does not hold
\* (deleting a table deletes its sets).
TypeOK ==
    /\ DOMAIN tables \subseteq Families
    /\ \A f \in DOMAIN tables : tables[f] \subseteq Names
    /\ tsets \in [Tables -> SUBSET SetNames]
    /\ lock \in Threads \cup {NoOwner}
    /\ setLock \in [Tables -> Threads \cup {NoOwner}]
    /\ queue \in Seq(Msg)
    /\ kTables \subseteq Tables
    /\ kSets \in [Tables -> SUBSET SetNames]
    /\ \A x \in Tables \ kTables : kSets[x] = {}
    /\ pc \in [Threads -> PCs]
    /\ ret \in [Threads -> {"none", "ok", "err", "true", "false"}]

\* Spec section 3: emptying a family's inner map removes the family from
\* the outer map; no empty bucket persists. The only exception is the
\* instant inside nfTables.create between allocating a bucket and storing
\* the record in it (Sync's SyncAlloc .. SyncInsert). A crashed process has
\* no registry left to speak of.
NoEmptyBucket ==
    Alive =>
        \A f \in DOMAIN tables :
            tables[f] # {} \/ \E t \in Threads : pc[t] = "syncInsert" /\ arg[t] = f

\* The refinement mapping: the abstract registry is the set of pairs the
\* two-level map holds; the queue and the kernel's tables are the same.
Registry == INSTANCE TableRegistry WITH reg <- Local

\* Spec sections 3, 4.1 and 5: used by one goroutine, the Table Store is
\* the atomic registry of TableRegistry. Every step of a call either leaves
\* the registry, queue and kernel tables alone or is one abstract step:
\* Create registers and enqueues an add; Delete unregisters and enqueues a
\* delete only for a table the kernel holds (its Exist runs after the local
\* record is gone, so it asks the kernel); each table Sync's unlocked loop
\* adds is one the kernel holds and the registry lacks; Flush is all or
\* nothing.
TableStoreRefinement == Registry!Spec

\* No call of the Table Store crashes the process: neither nfTables.create
\* writing into a family bucket that Delete has pruned, nor an access to
\* nfTables.tables made without the mutex overlapping another goroutine's
\* write to the same map.
NoPanic == \A t \in Threads : pc[t] \notin {"panicked", "fatal"}

\* nftables.go:129 and :143: CreateImm and DeleteImm "request to program
\* it immediately": when CreateImm returns nil the kernel holds the table,
\* and when DeleteImm returns nil it does not.
ImmCallsTakeEffect ==
    [][\A t \in Threads :
         /\ (pc[t] = "createImmFlush" /\ ret'[t] = "ok") => arg[t] \in kTables'
         /\ (pc[t] = "deleteImmFlush" /\ ret'[t] = "ok") => arg[t] \notin kTables']_vars

\* nft's mutex is held by a goroutine that has returned from the call that
\* locked it: idle, or waiting in a later call's Lock() for itself.
MutexLeaked == \E u \in Threads : lock = u /\ (pc[u] = "idle" \/ Waiting(u))

\* Every call of the Table Store returns unless a call returned with nft's
\* mutex held (Sync on a list error) or a table's Set Store sync blocked
\* on its own mutex: no other path waits forever. In particular Delete's
\* Exist must not lock the mutex Delete holds (spec section 4.1: Exist is
\* lock-free when called from a locked method; sync.Mutex is not reentrant).
CallsReturnOrLeak ==
    \A t \in Threads :
        pc[t] # "idle" ~>
            \/ pc[t] = "idle"
            \/ ~Alive
            \/ MutexLeaked
            \/ \E u \in Threads : pc[u] = "setRelock"

\* Every call of the Table Store returns.
CallsReturn == \A t \in Threads : pc[t] # "idle" ~> pc[t] = "idle"

=============================================================================
