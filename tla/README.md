# TLA+ models of nftableslib

This directory holds TLA+ specifications of the nftableslib Go library
(`src/`), the TLC configurations that check them, and `PROJECT.json`, which
lists the components, runs, mutants, the map from definitions to source
lines, the findings and the hazards.

## The system

| Part | Source | State | Operations |
|---|---|---|---|
| Table Store | `src/nftables.go` | `nfTables.tables`, a map from family to name to `*nfTable`, behind one `sync.Mutex` | Create, CreateImm, Delete, DeleteImm, Exist, Get, Sync, Table/TableChains/TableSets, Dump |
| Set Store (one per table) | `src/nfsets.go:45-228` | `nfSets.sets`, a map from name to `*nftables.Set`, behind its own `sync.Mutex` | CreateSet, DelSet, Exist, GetSetByName, GetSets, GetSetElements, SetAddElements, SetDelElements, Sync |
| Element encoding | `src/nfsets.go:230-402` | none (pure) | MakeElement, MakeConcatElement, processElementValue, GenSetKeyType |
| L3 predicate compiler | `src/unnamed/part_000` | none (pure) | createL3, processIPAddr, processAddrList, processAddrRange, processVersion, processProtocol |
| Connection and kernel | google/nftables (external) | a queue of messages and the kernel's tables and sets | Add*/Del* enqueue; Flush applies the batch; List* query |
| Chain Store | not under `src/` | none modelled | only `Chains().Sync()` is called from here |
| Diagnostics | `src/nftables.go:249-286` | none | Dump (locks and reads the registry), printTable, IsNFTablesOn |
| Mock tests | `src/unnamed/part_001` | test code | none |

How the parts interact:

- Every table record owns a Set Store.
- All stores share one connection.
- `Add*`/`Del*` calls only append to the connection's queue.
- `Flush` sends everyone's queued messages as one batch. The kernel applies the batch in order and aborts it at the first error (EEXIST, ENOENT). Either way, the queue is emptied.
- The Table Store's `Sync` lists the kernel's tables and absorbs the unknown ones. For each one it creates a record, then calls the Chain Store's and the new Set Store's `Sync`.

What makes the system hard:

- Several goroutines call the stores. The stores release their mutex in the middle of operations.
- `Sync`, and most Set Store calls, read the maps without the mutex.
- The shared queue makes one caller's `Flush` carry other callers' messages.
- Another program can change the kernel at any moment.
- The encoders must produce byte layouts that match the key type exactly, or the kernel silently never matches.

## Modules

| Module | Models | MC module |
|---|---|---|
| `NFTables` | Table Store with the connection, the kernel's tables and sets, and the part of each table's Set Store that Sync touches | `MC_NFTables` |
| `TableRegistry` | what the Table Store promises: an atomic registry of (family, name) pairs with the connection's queue and the kernel's tables | instantiated by `NFTables` |
| `NFSets` | Set Store of one table with the connection and the kernel's sets | `MC_NFSets` |
| `ConcatKey` | MakeConcatElement, processElementValue, GenSetKeyType | `MC_ConcatKey` |
| `SingleElement` | MakeElement | `MC_ConcatKey` (with `ConcatKey`) |
| `L3Compiler` | createL3 and the address compilers | `MC_L3Compiler` |

### NFTables

**State.**
- `tables` is the registry: a function from the allocated family buckets to their name sets. A bucket can exist and be empty, exactly as a Go inner map can.
- `tsets` and `setLock` are each record's Set Store map keys and mutex.
- `lock` is nfTables' mutex.
- `queue` is the connection's queue.
- `kTables` and `kSets` are the kernel's state.

**Goroutines.** Each goroutine has a `pc` and the arguments of its call. An operation is split into steps at every `Lock()` (the `Acquire` step) and at every access made without the mutex:
- `Create`: `nftables.go:92-98`.
- `CreateImmAdd`/`CreateImmFlush`: `:130-141`.
- `Delete`: `:153-193`. This step includes the `Exist` fallback to `ListTables`.
- `DeleteImmFlush`: `:144-150`. It flushes after the mutex is released.
- `SyncList`: `:221-228`. On a list error it returns without unlocking, as the code does.
- `SyncNext`, `SyncAlloc`, `SyncInsert`: the unlocked loop and the two halves of `create` at `:100-126`.
- `ChainSync`: Chain Store sync, which may fail.
- `SetSyncList`/`SetSyncNext`: `nfsets.go:206-219`, including its second `Lock()`. GetSets fails for a table the kernel no longer holds.

- `Exist`: a caller's own `Exist` (`:175-193`), which reads the registry without the mutex.
- `Lookup`: `Table`, `TableChains` and `TableSets` (`:52-89`, identical bodies). It looks the pair up under the mutex and returns; the deferred `Unlock` releases the mutex.
- `Get`: `Get`/`get` (`:195-217`). It lists the kernel's tables under the mutex; a failed list is the error.
- `Dump`: `:249-271`. It reads the outer map and every family bucket under the mutex. The JSON it builds is not modelled.

These calls change no state, but they take the mutex. So they wait behind Sync's leaked mutex, which `CallsReturnOrLeak` excuses and `CallsReturn` does not. A `Lookup` or `Dump` also reads the registry while Sync's unlocked loop may be writing it.

A write into a pruned (nil) bucket takes the goroutine to `panicked`, which stops the model.

**Unsynchronised map accesses.** `Reads(t)` and `Writes(t)` say which Go maps (the outer map or one family bucket) the goroutine's next step reads or writes:
- `mapdelete` on a non-empty map sets the writing flag even for an absent key.
- Allocating a bucket writes the outer map.

`RaceCrash` takes a goroutine to `fatal` when its access overlaps another goroutine's write to the same map and at least one of them holds no mutex. This is the runtime's "concurrent map read and map write". It is not fair: the runtime may also miss the overlap.

**Refinement.** `TableRegistry` is the abstract specification (spec sections 3, 4.1, 5). In it, Create/CreateImm register a pair, Delete unregisters it, Sync only absorbs tables, and a flush applies the queue or nothing. `NFTables` instantiates it with `reg <- Local`, the set of registered (family, name) pairs. `queue` and `kTables` are shared. `TableStoreRefinement == Registry!Spec` is checked for one goroutine. Spec section 5 exempts the live-query paths from linearizability, so the concurrent case is not claimed.

**Connection.** `Enqueue`, `ApplyMsg`, `Batch` (a `FoldLeft` over the queue) and `Flush` are modelled from spec section 6. `OutOfBandChange` is another program adding or deleting kernel tables and sets.

**Switches.** `ExclusiveAdd` (the kernel answers EEXIST to an add of an existing object), `KernelFaults` (list and flush may fail opaquely) and `OutOfBand` are constants that each run sets. google/nftables sends AddTable without NLM_F_EXCL, so a repeated table add is accepted. `imm_calls_no_effect` therefore sets `ExclusiveAdd` FALSE, and no finding rests on it. The other runs keep it TRUE, so that a refused add also reaches CreateImm's EEXIST branch (nftables.go:136) and CreateSet's failed flush (nfsets.go:109).

### NFSets

**State.** `sets` holds the keys of `nfs.sets`. `kHas`, `kElems` and `kIv` are the kernel's sets, their elements and their Interval flags.

**Steps:**
- `CsAdd`, `CsFlush`, `CsStore`: CreateSet at `:74-116`. Only the caller's elements are sent (`:104-105`).
- `ExistLocal`, `ExistKernel`: Exist at `:121-134`.
- `Use`: the unlocked `nfs.sets[name]` read and the connection call of DelSet, GetSetElements, SetAddElements and SetDelElements. A failing connection call is returned.
- `FlushStep`: their flush.
- `DelSetLocal`: DelSet's final delete.
- `SyncList`/`SyncNext`: Sync.
- `ExistKernel` also ends `GetSetByName` (`:136-150`), which makes the same two checks.

`RaceCrash` is the runtime's abort when an unlocked read (`Use`, Sync's loop) overlaps a write made under the mutex (`CsStore`, `DelSetLocal`, Sync's store). `MapRaces` switches the runtime's detection on or off. It is on in `sets_conc` and off in `sets_toctou_panic`, so that run shows the nil read reached with no overlapping access.

### ConcatKey

**MakeConcatElement** is its own loop:
- `Check` runs the argument checks.
- `Component` runs one iteration. It calls `processElementValue` and appends the result.
- `Finish` does the final alignment.

**Abstractions.**
- A byte is `"v"` (value) or `"0"` (padding).
- A datatype is the record `[name, magic, bytes]` with google/nftables' values (set in `MC_ConcatKey`).
- An ElementValue is the field it sets plus the length of a byte slice.

**GenSetKeyType** is an operator. Its name is built with TLC string concatenation, exactly as the loop does. Its uint32 magic is held as its 6-bit fields, truncated to 32 bits, because TLC's integers are narrower than uint32.

### SingleElement

`MakeElement` (`nfsets.go:234-268`) is an operator. It keeps no state.
- An address text is abstracted to its lexical class: IPv4 or IPv6, with or without a prefix, or not an address.
- `NewIPAddr` and `buildElementRanges` are not under `src/`. They are modelled from spec sections 3 and 4.2: a single address is a one-element range; a prefix is a start element and an IntervalEnd element.
- The code's switch, the two family checks and the attachment of the value to `elements[0]` are translated as they are.

`MC_ConcatKey` extends both element modules. The `concat_keys` run checks MakeElement in its initial states with an empty key list, because MakeElement has no state of its own.

### L3Compiler

- `createL3` takes one step per field, in the code's order: `Version`, `Protocol`, `Src`, `Dst`.
- `processIPAddr` and `processAddrList` are operators.
- Addresses are abstracted to their family. A set element key is abstracted to its byte length: `To4` of an IPv6 address is nil, length 0.
- The `getExprFor*` builders are not under `src/`. Each returns the one abstract expression the spec gives it: kind, header offset, and eq/neq by the exclusion flag.

## Runs

A "pass" run must finish with no error. A "violation" run checks one property that the spec or a code comment states, and TLC refutes it. Every property of a passing run has a mutant in `PROJECT.json` that TLC catches.

| Run | Expect | Checks | Shows |
|---|---|---|---|
| tables_seq | pass | TypeOK, NoEmptyBucket, TableStoreRefinement, CallsReturnOrLeak | one goroutine: the Table Store refines `TableRegistry` (atomic registry, Delete only of confirmed tables, Sync only absorbs); every call returns unless Sync leaked the mutex, so Delete's internal `Exist` never waits on the mutex Delete holds |
| tables_conc | pass | NoEmptyBucket | two goroutines with out-of-band changes, faults and map-race aborts; every action and branch fires, and no empty bucket survives while the process runs |
| imm_calls_no_effect | violation | ImmCallsTakeEffect | `Create; DeleteImm` of one table: Exist misses the table on the kernel, no DelTable is queued, DeleteImm returns nil, and its flush installs the table. The kernel accepts repeated adds (`ExclusiveAdd` FALSE), as it does for AddTable, which google/nftables sends without NLM_F_EXCL |
| registry_race_crash | violation | NoPanic | a caller's unlocked `Exist` overlaps a Create writing the registry: the runtime aborts the process |
| sync_hangs | violation | CallsReturn | Sync returns on a list error holding the mutex, and the next call waits forever |
| sets_seq | pass | TypeOK, LocalSetsOnKernel, ElementsAddedOnSuccess | sequential Set Store keeps its map on the kernel; successful adds are on the kernel |
| sets_conc | pass | CallsReturn | two goroutines with faults, out-of-band changes and map-race aborts; under fair scheduling every call returns unless the process crashed or Sync blocked on its own mutex |
| sets_toctou_panic | violation | NoPanic | a set deleted between Exist and the unlocked map read reaches the connection as nil |
| sets_interval_sentinel | violation | IntervalSetsClosed | interval address sets are installed without the sentinel |
| concat_keys | pass | KeyMatchesKeyType, ComponentsAligned, MakeElementOK | key width equals GenSetKeyType's, components aligned; MakeElement rejects bad and mixed-family addresses and attaches the one value given to its key's range |
| keytype_name | violation | KeyTypeName | the composite name is `concat_n1n1__n2n2_`, not `concat_n1_n2` |
| l3_same_family | pass | CompiledMatchesReference | createL3 equals the reference compile of spec section 5 |

Other defects were met while modelling and are recorded as hazards in
`PROJECT.json`, with notes on how the model reaches them:
- A double Delete dooms the batch to ENOENT.
- Sync registers a table before its chain and set syncs, which may fail.
- A stale Set Store Sync re-absorbs a deleted set. With two goroutines, `LocalSetsOnKernel` fails even when the kernel never fails and no other program changes it.
- A failing flush drops another goroutine's queued messages. With two goroutines and kernel faults, `ElementsAddedOnSuccess` fails: a SetAddElements returns nil after its elements were dropped.
- CreateImm reads EEXIST from an aborted shared batch as success. This needs a kernel that refuses a duplicate add (`ExclusiveAdd` TRUE), which AddTable does not ask for, so it is not claimed.
- The Set Store's unlocked map reads racing its writes.
- `nfSets.Sync` locks its mutex twice. `CallsReturn` of `NFTables` reaches it when the kernel does not fail (`KernelFaults` FALSE); `sync_hangs` keeps faults on and finds the leaked mutex first.
- A 16-byte IPv4 address breaks the key width.
- IPv6 addresses in an IPv4 list become nil keys.

`PROJECT.json` "findings" says what each violation means for the code.

## Bounds

- **NFTables.**
  - Families `{ipv4, ipv6}`, one table name, one set name.
  - One goroutine (`tables_seq`, queue ≤ 3) or two goroutines (`tables_conc`, queue ≤ 2). `QueueBound` is a state constraint.
  - `tables_conc` declares the goroutines and the two families symmetric (`Symmetry` in `MC_NFTables`). No step tests either by identity, and the run checks invariants only. This cuts the run to 1.6 million states (53 s) with `Lookup`, `Get` and `Dump` included. A queue of 3 takes 3.9 million states and reaches no case that its invariants tell apart.
  - Two families are needed to see a bucket pruned while another stays. One name per family is enough for every race above: each involves one table. A second name multiplied the state space by 40 without reaching a new branch.
- **NFSets.**
  - One element, two set names sequentially, one set name with two goroutines, queue ≤ 2.
  - One name is enough for the map races: a write sets the whole map's writing flag, whatever its key, so `Writes` does not depend on the name. A second name with two goroutines did not finish in 30 minutes.
- **SingleElement.** Every key text class (6), a nil or any text as AddrIP (7), a nil or given Port and Action: 168 arguments. The spec's domain is one address plus at most one value, and the property is stated on that domain. When several values are given, the code silently takes AddrIP, then Port, then Action.
- **ConcatKey.**
  - All eight datatypes, including one unsupported type (verdict).
  - Every key list and value list of up to two components whose address slices have their datatype's width (5,870 pairs). Keys of six or more components, where the magic loses bits, are outside these bounds, and the spec states no limit.
- **L3Compiler.**
  - Every rule combining absent or present version and protocol with source and destination specs. A spec is absent, or has a list of one or two addresses and a range with none, one or both ends.
  - Both exclusion values, on IPv4 and IPv6 tables (2,704 inputs).

The NFTables and NFSets runs set `CHECK_DEADLOCK FALSE`. The code really can stop:
- `nfSets.Sync` blocks on its own mutex.
- `nfTables.Sync` can return holding the Table Store's mutex.
- A panic ends the process.

The pure-function modules stop when their computation is done.

## Fairness

`NFTables` and `NFSets` assume weak fairness for every goroutine that is inside a call, while the process runs (`Alive`). Go's scheduler runs every runnable goroutine eventually, and no step of a call waits on anything but a mutex. Callers are not obliged to call, so idle goroutines have no fairness. Another program's changes and the runtime's race aborts are not fair either. In `NFSets`, `CallsReturn` excuses only a crash and the known relock of `nfSets.Sync`. In `NFTables`, `CallsReturn` excuses nothing and fails through Sync's leaked mutex (`sync_hangs`). `CallsReturnOrLeak` excuses a mutex held by a goroutine that has returned (`MutexLeaked`), and the set relock. It holds (`tables_seq`). `MutexLeaked` does not say which call leaked the mutex. Every other locked method defers its Unlock, as the model's steps do.

## Not modelled

- **The Chain Store.** It is not under `src/`.
- **Set attributes** other than Interval, and the random set ID. The kernel looks sets up by name.
- **Read-only calls** that change no state and take no lock the model tracks (`GetSets`, which only asks the kernel). **The JSON that Dump builds** (its locking and reads are modelled). Its error returns are left out too: json.Marshal of a table does not fail, and the Chain Store's Dump is not under `src/`. **I/O** (IsNFTablesOn, printTable): these use their own connection or format text and keep no state of the library.
- **The mock tests.**

## Plan

Most important first; done items are marked.

1. [done] `NFTables` and `NFSets`: the concurrent stores with the shared connection, and their races against the kernel.
2. [done] `ConcatKey` and `L3Compiler`: the encoders, checked against reference definitions from the spec.
3. Composing `NFTables` with the full `NFSets` of each table, so that Create/Delete of a table and set calls on it interleave (Delete leaves the table's set map orphaned while calls on it are in flight). Still open: the product of the two state spaces is beyond a five-minute run at bounds where both interleave. `sets_conc` with one set name is already near its limit.
4. [done] An abstract `TableRegistry` specification (a set of (family, name) pairs with atomic create/delete), with `NFTables` shown to refine it for the sequential case under a refinement mapping.
5. [done] Liveness of Set Store calls under fairness.
6. [done] `MakeElement`, with `NewIPAddr` and range building modelled from the spec.
7. [done] The locked read-only calls (`Table*`, `Get`, `Dump`) as `NFTables` steps.
