# TiXeL: a verification development

TiXeL is a C++ library of transactional sorted lists, a variant of TL2 for
linked data structures. Several threads call `Contains`, `Get`, `Insert` and
`Remove` on shared lists, in transactions (`TransactionDispatcher::Dispatch`,
`TryDispatch`) or one at a time ("singletons"). This directory models the
library in TLA+, checks the models with TLC and proves facts about them with
TLAPS. Paths below are under `src/Source/` unless they begin with
`Documentation/`, which is under `src/`.

Contents: the system; the modules; the runs; the departures from the
documentation; bounds, fairness and abstractions; the proofs; what is left out;
the plan.

## The system

| Component | State | Operations | Correct when |
|---|---|---|---|
| `VersionLock`, `Locker`, `LockBase` (`Infrastructure/`) | one atomic 64-bit word: locked, deleted and singleton flags, version | `TryAcquire`, `Release`, `SetVersion`, `SetIsDeleted`, `SetSingleton`, readers; a `Locker` releases on destruction | one possessor; no update of the word is lost; each method atomic |
| `GlobalVersionClock` | one atomic counter | `Read`, `AddAndFetch` | never behind a version in a node |
| `TxnListStorage` (thread-local) | read version, write version, read set, write set, index additions and removals | prologue, epilogue (lock, validate, increment, write, unlock, update the index), cleanup | commits are serializable; a rollback leaves nothing |
| `TxnListOperator` | locals | `Contains`, `Get`, `Insert`, `Remove` in a transaction | results as in some serial order |
| `TransactionDispatcher`, `TxnListTransaction` | - | `Dispatch` (retries), `TryDispatch`, `Begin`, `Commit`, `Rollback` | every attempt ends committed or rolled back |
| `SingleListOperator` | locals | the same operations outside a transaction, which retry and never abort | atomic, and seen as such by transactions |
| `TxnList` | sentinel, index | routes each call to one of the two operators; `Size`, `Sum`, `Empty` from the index | index = list when nothing runs |
| `Index` | map from keys to nodes | `GetPrevious`, `Insert`, `Remove`, `Size`, `Sum`, `Empty` | any entry is a valid entry point into the list |
| `SkipList`, `SkipListMap` (`DataTypes/`, adapted from another project): the concurrent ordered map behind `Index` | per node: next pointers under a reader-writer spin lock, flags, a reference count; per list: counters, top layer | insert, erase by key, search for the previous key, iteration, empty, size | no node lost from a layer, used after it is freed, or left locked; inserts and erases at one instant; no search misses a key that is there all the time |
| tracing, console, tests, benchmark | - | workloads | - |

How they interact. A node (`IndexNode`) holds a key, a value, a `_next` pointer
and a `VersionLock`. A transaction copies the clock into its read version, finds
the place of each key (index, then chain), checks the version of every node it
passes, keeps its effects in the write set of its thread, and commits: it takes
a `Locker` on every node of the write set, validates the read set, increments
the clock, writes, destroys the Lockers, and only then updates the index. Any
failed check throws `TransactionException`; the dispatcher rolls back. Nothing
is persisted and nothing is sent: the system's hard behaviour is all in the
interleaving of threads at the grain of single loads and stores, and in failed
attempts. Single operations lock at most two nodes and leave
nodes flagged *singleton* at the version the clock had; a transaction that meets
such a node at its own read version advances the clock itself and retries.

The skip list is concurrent in its own right. A search walks from layer to layer
and takes a reference on each node before it leaves the one before. An insert or
an erase flags the node before its place in every layer (`is_being_modified`),
looks whether the pointers are still those it found, and swings them from the
bottom up; whoever meets the flag of another clears its own and starts over.
An erased node is deleted once nobody refers to it any more.

`PROJECT.json` lists the hazards this leads to, each at its line.

## The modules

| Module | Models | Grain |
|---|---|---|
| `VersionWord` | the lock word as a record, the pure updates of it, `ValidVersionAndReleased` | operators |
| `AtomicVersionLock` | what a version lock promises: each method happens at one instant | abstract |
| `VersionLock` | `Infrastructure/VersionLock.cpp` used through `Locker` | one load, store or compare-exchange per action |
| `VersionLockProofs` | theorems about `VersionLock` | - |
| `TxnStorage` | shared memory; `TxnListStorage.hpp`: commit and rollback | one racing access per action |
| `TxnListOperator` (extends `TxnStorage`) | `TxnListOperator.hpp` | one racing access per action |
| `SingleListOperator` (extends `TxnListOperator`) | `SingleListOperator.hpp` | one read of `_next`, one store into a word per action |
| `TransactionDispatcher` (extends `SingleListOperator`) | dispatcher, transaction, the routing of `TxnList`, jobs of each thread, initial list; the specification | - |
| `TxnListProperties` | the properties of the composition | - |
| `TxnListInvariant` | `IInv`, the inductive invariant of programs of transactions | - |
| `TxnListMixed` (extends `TxnListInvariant`) | `MixedInv`, the inductive invariant of programs that also call single operations; `ClearsKeepLock` | - |
| `TxnListShape` | `ListInv`, what keeps the chain a sorted list: the decided list, and what each transaction makes of it | - |
| `TxnListSerial` (extends `TxnListShape`) | `ReadInv` and `SerialInv`, why transactions are serializable: the maps that the lists hold, what a transaction has read, its place in the order | - |
| `TxnListProofs` | theorems about `TransactionDispatcher` without single operations, up to the one that its chain stays a sorted list | - |
| `TxnListMixedProofs` | theorems about it with single operations: types, private nodes and locks | - |
| `TxnListReadProofs` | the theorem that its transactions are serializable | - |
| `AtomicAccessLock` | what the lock on a skip list node's next pointers promises | abstract |
| `AccessLock` | that lock, `_sl_read_lock_an` to `_sl_write_unlock_an` in `DataTypes/SkipList.cpp` | one load or fetch-and-add per action |
| `AccessLockProofs` | theorems about `AccessLock` | - |
| `SkipList` | `_sl_next`, `_sl_find`, insert, erase of a node, in `DataTypes/SkipList.cpp` | one racing access per action |
| `SkipListMap` (extends `SkipList`) | `DataTypes/SkipListMap.hpp` as `Index` and `TxnList` call it, with its reference counts; the jobs of each thread; the specification | one racing access per action |
| `OrderedIndex` | what the index promises: inserts and erases at one instant, answers that fit what was there during the call | abstract |
| `SkipListProperties` | the properties of the skip list, among them the refinement of `OrderedIndex` | - |
| `SkipListInvariant` | `IInv`, the inductive invariant of the skip list; `CallsApart`, the condition it needs | - |
| `SkipListSearchProofs` | the parts of that invariant, and the steps of searches | - |
| `SkipListProofs` | the other steps, and theorems about `SkipListMap` | - |
| `SkipListPromise` (extends `SkipListInvariant`) | `PInv`, what each call on the skip list knows of the keys | - |
| `SkipListPromiseProofs` | the theorem that the skip list implements `OrderedIndex` | - |
| `MCVersionLock`, `MCTxnList`, `MCTxnConflict`, `MCTxnMixed`, `MCAccessLock`, `MCSkipList` | instances for TLC | - |

State and code. `lock[n]` is the node's `VersionLock`, `node[n]` its key, value
and `_next`, `alloc` the nodes that some `shared_ptr` keeps alive, `index` the
map in `Index`, `gvc` the clock, `txn[t]` the `thread_local` `TxnListStorage` of
thread `t`, `held[t]` the Lockers in the vector of the epilogue, `frame[t]` the
locals of the operation `t` executes, `pc[t]` where it is, `jobs[t]` the
transactions and single operations it is still to run. `todo`, `cur` and `saw` are locals of the loops
of the commit. `initial`, `hist`, `ended`, `since` and the field `fresh` are
history: no guard of a program step reads them, except that `fresh` tells a
rollback which nodes die with the write set. Actions have the names of the
functions they belong to.

**Lock methods as single actions.** `TxnStorage` takes a `VersionLock` method
of the possessor as one action, though the code loads, then stores. The theorem
`Refinement` justifies it while only the possessor writes the word. One foreign
writer exists: `ValidateReadSet` calls `SetSingleton` on nodes that it may not
hold, so there the load and the store are two actions (`ClearSingletonLoad`,
`ClearSingletonStore`). A foreign store between the load and store of a
possessor's setter would be overwritten; the model orders it before or after the
setter. The commit's last setter always clears the singleton flag, which is the
same bit the foreign store clears, so the difference shows only in a word the
possessor overwrites. A foreign store that drops the lock flag is kept.

**The skip list.** `snode[n]` is a node: key, top layer, next pointers, the flags
`linked` (`is_fully_linked`), `modified` (`is_being_modified`), `removed`, the
reference count, and the writer's part of `accessing_next`; its readers are the
threads at `"grab"`. `slist` is `num_entries`, `layer_entries` and `top_layer`,
`frame[t]` the locals, `pc[t]` where thread `t` is. The theorem `Refinement` of
`AccessLockProofs` is why a section under the write lock that stores one field
is one action, and a section under the read lock two (the load of the pointer
and the reference on what it points to). `call` is history for `OrderedIndex`.

**The index, twice.** `TxnStorage` takes `Index` as an atomic map; `SkipListMap`
is the code behind it. `OrderedIndex` is what connects them: inserts and erases
are atomic there too, and the weaker answer of a search (a key that was there at
some moment of the call, with no key in between that was there throughout) is
enough, because `GetPrevious` only says where the walk along the chain begins.

**Assertions.** The composed model is the `_DEBUG` build: an assertion that
fails stops every thread (`crashed`). `VersionLock` has the constant `Asserts`
for both builds.

## The runs

| Run | Instance | Shows |
|---|---|---|
| `version_lock` | 3 threads, versions 0 and 1 | `MutualExclusion`; the flag is set exactly while a Locker possesses (`LockedWhilePossessed`); nobody writes the word under a possessor's load-then-store (`PossessorSeesLatest`); `Linearizable`: refinement of `AtomicVersionLock` |
| `txn_conflict` | 2 threads, 33 assignments of conflicting transactions, empty and populated lists | `Serializable`, `LocksMatchLockers`, `VersionsAdvance`, `ListWellFormed`, `FreshIsPrivate`, `ReleaseAssertion`, `CallsReplayable`, `TypeOK`; two invariants of the proofs, `IInv` and `ListInv`, and a condition of the theorems, `CopiesCurrent` |
| `txn_mixed` | routines that throw, `TryDispatch`, nodes left by single operations, several jobs per thread; 2 threads of one to three single operations on lists of up to three keys; one thread that alternates single operations and transactions; a single operation and a transaction on different nodes; fair | `Serializable` (for single operations: linearizability), `ListWellFormed`, `PlaceIsRight`, `LocksMatchLockers`, `IndexMatchesList`, `AttemptsEnd`, `Termination`; the invariant of the proofs, `MixedInv` |
| `access_lock` | 4 threads, counts of up to 4; fair | `CountsMatch`, `Exclusion`, `Linearizable` (refinement of `AtomicAccessLock`), `WriterGetsIn` |
| `skip_list` | 2 threads, nine pairs of calls on a list of two layers; fair | `NodesOutliveTheirUse`, `EachLayerIsWhole`, `CountersFollow`, `NothingLeftBehind`, `SuccessorIsGreater`, `KeepsPromise` (refinement of `OrderedIndex`), `NobodyIsStranded`, `TypeOK`; the invariants of the proofs, `IInv` and `PInv`, and the condition of the theorems, `CallsApart` |
| `version_lock_release_build`, `txn_insert_existing`, `txn_write_skew`, `txn_index`, `txn_singles`, `skip_list_greater`, `skip_list_reuse` | one scenario each | a departure from the documentation or a comment, below |

The properties, in words:

- `Serializable`: when nothing runs, some order of the committed transactions
  and the single operations that respects real time, executed one by one on a plain map (`Replay`), gives
  every result each of them returned and the contents the list has now. A single
  operation that throws counts as one that did nothing. This is
  the documentation's claim that runs have "a straightforward linearization".
- `LocksMatchLockers`: the lock flags are exactly the Lockers the commits keep,
  each node is held by one commit, and a commit writes only what it holds.
- `ReleaseAssertion`: no `Release` finds its word unlocked. It holds for
  transactions on lists without singleton nodes, and fails with them (5).
- `IInv`, `ListInv`, `MixedInv`: the invariants explained under the proofs.
- `CopiesCurrent`: what an `Insert` of a present key copies from the node is what
  the last decided commit has for it (false in the scenario of 2).
- `CallsReplayable`: at every moment, a running transaction that has read nothing
  outdated (`AllOld`) has got the results that its calls give one after the other on
  the map that has been committed so far, and has in mind the map they leave. So a
  routine acts on anything else only if its transaction cannot commit any more.
- `VersionsAdvance`: no step lowers the version of a live node or hands out a
  version ahead of the clock, so a check against a read version stays meaningful.
- `SinglesCannotAbort`: no single operation ends with an exception.
- `ListWellFormed`: whenever nothing is locked, the chain is strictly sorted and
  holds no deleted node.
- `PlaceIsRight`: a single operation that has passed its checks under the lock, and is
  about to unlink or link, is where its key belongs: between two neighbours that are
  still in the list, whatever others have unlinked or linked since its search.
- `FreshIsPrivate`: nodes of an uncommitted transaction are reachable from
  nowhere else, so a rollback may destroy them.
- `IndexMatchesList`: in quiescence the index holds exactly the list's nodes.
- `AttemptsEnd`, `Termination`: every attempt gets back to the dispatcher with
  its locks released; jobs that nothing hinders get done.
- `CountsMatch`, `Exclusion`, `WriterGetsIn`: the word of the spin lock counts
  exactly the threads that have added themselves and not taken themselves back;
  nobody is inside beside a writer; a writer that has found itself the only one
  gets in although readers keep coming.
- `NodesOutliveTheirUse`: no thread reads or writes a deleted node, however long
  ago it loaded the pointer, and nothing undefined is done.
- `EachLayerIsWhole`: at every moment each layer leads from head to tail in the
  order of keys through all linked nodes that reach up to it.
- `CountersFollow`: the counters are the linked nodes, but for those that an
  insert or erase is just about to count.
- `NothingLeftBehind`: when all calls have returned no reference, flag or lock is
  left that a later erase would wait for.
- `KeepsPromise`: the skip list implements `OrderedIndex`.
- `PInv`: what each call knows, at its place in the code, of the keys that were in the
  index all the time, or at some time, since it began.
- `NobodyIsStranded`: a call ends once the other threads have returned.
- `SuccessorIsGreater`: the search for a greater node returns one (false in the
  scenario of 6).
- `CallsApart`: no erase starts on a node that another call works on (false with two
  erases of one key, 12), and the memory of a new node is nothing that a thread still has
  as the node after its place (false in the scenario of 7).

Every property of a passing run has a mutant of the code in `PROJECT.json`,
defined beside the definition it changes, under which that run fails.

## Departures from the documentation

Each of the first seven is a run that TLC ends with a counterexample;
`PROJECT.json` (`findings`) quotes the text each contradicts.

1. `version_lock_release_build`: `Release` compare-exchanges *inside*
   `TIXEL_ASSERT`, which is `((void)(0))` without `_DEBUG`. In that build no lock
   is ever released.
2. `txn_insert_existing`: `Insert` of a present key reads the successor's
   `_next` without looking at its lock or version. A transaction that begins
   after another's clock increment and before its write-back copies the old
   pointer, validates, and links a removed node in again.
3. `txn_write_skew`: `Get` returns the successor's value, and only the
   predecessor enters the read set. Two transactions that each read what the
   other overwrites both commit.
4. `txn_index`: the index is updated after unlocking, by key; a remove that is
   late erases the entry of a newer node.
5. `txn_singles`: the foreign `SetSingleton` store takes away another commit's
   lock, and that commit's `Release` asserts.
6. `skip_list_greater`: when the node after one is being erased,
   `skiplist_next` falls back on `_sl_find(..., GT)` with the node itself as the
   query; at the bottom layer the search returns that very node. `erase` then
   keeps a reference on the node it frees and waits for it for ever; an iteration
   counts the node twice.
7. `skip_list_reuse`: an insert compares the next pointer with the one it found,
   without a reference on that node. If the node was erased meanwhile and its
   memory holds a smaller key at the same place, the comparison succeeds and the
   new node is linked in front of a smaller key.

The same models show more, which has no run of its own. The scenarios named here
are in `MCTxnList`; give `Scenario` that value in `MCTxnIndex.cfg`, with the
constants and property named.

8. `RemovedNodeScenario` (`Key <- KeysAboveDefault`, `Serializable`):
   `GetValidatedSuccessor` copies `_next` after its check; a removed node points
   to a default-constructed one. `Contains` of a present key above `TKey{}`
   commits with false.
9. `SingleContainsScenario` (`Key <- ThreeKeysBelowDefault`, `Serializable`):
   `TraverseTo` of the single operations holds a *reference* to `_next` and reads
   it again for each use. A node that another operation links in between is
   returned without its key having been compared, so `Contains` of a present key
   answers false; in the same way two `Insert`s into one gap leave an unsorted
   list, and a search beside the removal of the last node dereferences null.
10. `SingleThrowsScenario` (`Key <- ThreeKeysBelowDefault`, `SinglesCannotAbort`):
    `GetValidatedPredecessor` returns a locked or deleted predecessor as it is,
    and asks a locked sentinel for its key, which throws.
11. A single `Insert` of a present key does not check, once it has the lock, that
    the node was not removed, so the value can be lost; and a single `Insert` does
    not touch the word of the predecessor, so a transaction that looked a key up in
    that gap before and after commits with both answers.
12. Two erases of one key both find the node; the second comes back from
    `skiplist_erase_node` with -1 at once, and both wait and delete it. `Sum` beside
    an erase counts a node twice (6).
13. `slist->top_layer` is stored from counters read before, so it may end below the
    highest layer in use; an erase of a higher node then uses entries of `prevs` that
    were never set. The models keep it from falling with a sentinel of full height.
14. Two changes next to each other can send each other back again and again, each
    by the flags of the other: `<>Done(t)` fails for two colliding inserts, though
    `NobodyIsStranded` holds.

The passing runs would be meaningless if they met these interleavings and
dishonest if they hid them, so each is excluded by the scenario alone, never by
a guard. Passing scenarios have keys below
`TKey{}` (8); on a populated list no transaction inserts a key that another one
unlinks or links a node to meanwhile (2) or reads a value another overwrites (3);
the index is compared where one thread inserts and removes a given key (4);
lists populated by single operations meet one transactional writer alone or two
readers, and single operations meet transactions on other nodes only (5, 11). Among
single operations no key is linked right before a present one that the other
thread looks up, nor before one that it inserts, the last key is not removed (9), and no present key is
inserted that the other thread removes (11). Every other pair of single operations on
those lists was tried, and passes. The scenarios of the skip list have no two erases
of one key or of adjacent keys (6, 12), no iteration beside an erase (12), no
insert beside a thread that erases and then inserts another key (7), and one node of
full height that nobody erases (13). All 66 pairs of one call each from insert of
1, 2, 3 and 5, erase of 2 and 4, search before 3, 4 and 5, sum and empty were tried on
lists of 2 and 4 at every height: those pass but for these; the nine pairs of the run
are the ones that differ most, with second calls added.

## Bounds, and why they are enough

- Two threads: every conflict of the commit protocol is between a holder and one
  other thread; three threads run in `version_lock`, the only place where a third
  can matter to a word.
- Two keys, both present or both absent at first, and the sentinel: the shortest
  list in which a node has a predecessor and a successor that are both ordinary
  nodes, and in which transactions touch adjacent, equal and disjoint nodes.
- Three keys for the single operations: removing adjacent nodes takes three, so
  that the lock of one is the predecessor of the other and a node remains behind
  both.
- Two values; routines of one to three operations: two reads make a snapshot,
  read-write pairs make the anomalies of findings 2 and 3.
- Memory of eight nodes. `Construct` needs a free one; nodes come back only when
  a transaction rolls back, as no scenario creates more than that (TLC would
  report the deadlock).
- The clock is unbounded in the model and finite in these runs, as each attempt
  of a retried transaction is sent back by a commit or by a clock advance, of
  which there are finitely many. In the code it has 60 bits below the flags.
- `version_lock`, `access_lock`: each thread may acquire again for ever; the state
  space is finite without a bound. Four threads in `access_lock`: a writer, one
  that collides with it, and two readers, of which one is inside and one on its way.
- The skip list: two layers, so that a change has an upper and a lower place that
  may be before the same node or before different ones; two nodes and the sentinel
  at first; memory for five nodes, so that memory of deleted nodes is used again;
  every coin an insert throws for its height. Two threads: a flag, a
  reference or a lock concerns its owner and one other thread. One run
  with three (an insert, an erase and a search) was made, 400 thousand states, and
  passes; it takes too long to be kept.

## Fairness

`FairSpec` has `WF_vars(Step(t))` for each thread: the operating system schedules
a thread that can take a step, and no step of a thread waits for another one
(`TryAcquire` fails at once, there is no blocking lock and no back-off), so a
thread inside an attempt always can. Nothing stronger is assumed. Two
transactions may therefore abort each other for ever, as in the code: `Dispatch` has
no back-off and the documentation states no progress for contended
transactions. `Termination` is stated for programs where no job retries or one
thread works alone; single operations retry too, but one of those that contend
always gets its locks, which the run confirms. `AttemptsEnd` has no such
condition.

In `AccessLock` and `SkipListMap` fairness is again weak, per thread
(`WF_vars(Continue(t))`, `WF_vars(Step(t))`). The spin loops are actions that are
enabled when the loop would end. A thread that calls the lock again for
ever may keep others out, so `WriterGetsIn` speaks of the writer that is alone and
`NobodyIsStranded` of what happens once the others have returned, which no
scheduling can spoil; that no call is sent back for ever is false (14).

## Abstractions

- Sequential consistency. The atomics of the transactions (`VersionLock`, the clock) use
  the default memory order, so there it is what the code asks for. Those of the skip list
  do not: `SkipList.cpp` accesses them with `memory_order_relaxed` (`MOR`). On x86 its
  read-modify-write operations act as fences all the same; what another processor may
  reorder is not modelled. The plain fields `_next` and `_value` are read while a commit may write them, a
  data race; the model lets a read return the value before or after the write,
  and leaves out torn reads of the two-word `shared_ptr` and a node that is
  destroyed between the read of the pointer and its use. Each use of the reference
  in the single `TraverseTo` is one read, as in a build without optimisation (the
  `_DEBUG` build); an optimised build may merge some of them.
- Loops over `unordered_map` and `unordered_set` visit elements in any order,
  which includes the order of any hash function; so does the destruction of the
  vector of Lockers.
- A removed node is never reclaimed: reference counting keeps whatever is still
  referred to, and what is not is invisible.
- One list. The maps from lists to storages in `TxnListStorage` have one entry,
  which exists from the start.
- In the transactional models `Index` operations are atomic, and its entry for the
  sentinel is implicit.
- The skip list. A weak compare-exchange fails only when the value differs.
  A reference is dropped in the step before the code does, and the references on
  head and tail, which nobody waits for, are left out. `num_entries` and
  `layer_entries` change in one step, as only sums of both are looked at. What a
  freed node reads like is left open (`Valid`). `Sum` skips the entry of the
  sentinel in the code; here it is part of the answer. The height of a node is any
  layer: the code throws coins.
- A routine is a fixed sequence of operations, the reads of which do not choose
  the next: the scenario sets enumerate sequences instead.
- Exceptions: a routine's own (`Throw`), and `Key()` on the sentinel. Running out of
  memory is not modelled.

## The proofs

`VersionLockProofs`, for any set of threads and any set of versions (natural
numbers; no other assumption):

| Theorem | States | Build |
|---|---|---|
| `TypeCorrect` | `TypeOK` | any |
| `MutualExclusionHolds` | `MutualExclusion` | any |
| `PossessorSeesLatestHolds` | `PossessorSeesLatest` | any |
| `LockedWhilePossessedHolds` | `LockedWhilePossessed` | `Asserts` |
| `Refinement` | `Linearizable`: implements `AtomicVersionLock` | `Asserts` |

The argument. Mutual exclusion is not inductive: a thread about to
compare-exchange with a stale free word might succeed next to a possessor.
The inductive invariant therefore says, besides the types, that a word loaded by
`TryAcquire` is a free one, that while a Locker possesses the word is locked (so
every stale exchange fails), and that a possessor between its load and its
store has loaded the word as it is now. `InitIInv` and `NextIInv` show that it is
inductive, one step per action; `Invariance` is the temporal conclusion. Without
assertions a word stays locked when its possessor is gone, so only the direction
"possessed implies locked" belongs to the invariant and the equality needs `Asserts`;
finding 1 is the counterexample without it. Refinement maps a lock to its word
and its possessors: the exchange of `TryAcquire`, the store of a setter and the
exchange of `Release` are the abstract steps, everything else stutters.

`AccessLockProofs`, for any finite set of threads, provided that there are not more
of them than either count can hold (`ThreadAssumption`, `WidthAssumption`; in the
code 2^12 - 1 writers and 2^20 - 1 readers):

| Theorem | States |
|---|---|
| `TypeCorrect` | `TypeOK` |
| `CountsMatchHolds` | `CountsMatch` |
| `ExclusionHolds` | `Exclusion` |
| `Refinement` | `Linearizable`: implements `AtomicAccessLock` |

The argument. That the counts are those of the threads at certain labels
(`CountsMatch`) is inductive as long as nothing overflows, for which there is room
while a thread is not yet counted (`Room`); `Moved` says what one thread's step
does to such a count. Exclusion needs `Holders` in addition: whoever has found
itself the only writer, waiting for readers or inside, is the only one that has,
because it stays counted and the next writer finds two. The reader that finds no
writer and the writer that finds no reader enter at the step in which they look,
which is the abstract step; everything else stutters.

`TxnListProofs`, about the composed specification (`TransactionDispatcher`): any
number of threads, nodes and values, any keys, any jobs and initial lists, every
interleaving. Two kinds of assumption. About the constants, the sentinel is a
node and `Null` is none (`NodeAssumption`), memory is finite (`MemoryAssumption`),
`DefaultValue` is a value
(`ValueAssumption`), keys are integers (`KeyAssumption`) and, being of a type
with finitely many values, any set of them has a smallest and a largest one
(`KeyOrderAssumption`; `GetPrevious` needs the largest below a key). About the
program, `OnlyTransactions`: jobs are transactions, the list was populated by
one, and there is memory for the initial list. It is a hypothesis of each
theorem. TLC evaluates all of these on the run `txn_conflict`, in
`MCTxnConflict` (`ScenarioAssumption`), and checks `IInv` there.

| Theorem | States |
|---|---|
| `Invariance` | `IInv` |
| `TypeCorrect` | `TypeOK` |
| `LocksMatch` | `LocksMatchLockers` |
| `NeverCrashes` | `ReleaseAssertion` |
| `FreshPrivate` | `FreshIsPrivate` |
| `VersionsOnlyAdvance` | `VersionsAdvance` |

The invariant `IInv` has four parts, none of which is inductive alone.

- `Types` ties the locals of a thread to its place in the code: after `findPrevious`
  there is a predecessor, at the places that update it there is a successor, an
  idle thread has nothing left in its storage. Without it a step that uses a local
  could not be shown to write a node at all.
- `References`: what anything refers to exists, and no thread refers to a node that
  another one has created and not yet published (`Hidden`). `FreshIsPrivate` speaks
  of the list only. That a rollback frees nothing in use needs all the routes:
  locals, write sets, index additions, `_next` pointers, the index.
- `Ownership`: a word is locked exactly while one thread keeps its Locker, and, for
  each place of a commit, which nodes of the write set that thread holds and has
  still to visit (`HoldsOK`). It implies `LocksMatchLockers`, and that `Release`
  finds its word locked.
- `Versions`: no node is ahead of the clock, and a commit that has incremented
  the clock holds no node that is ahead of the version it will write
  (`WritesAhead`). The second is what makes `VersionsAdvance` true: it holds because
  a node is locked before the increment and nobody else may write a locked node.

`TxnListProofs` has one lemma for each step of an operation. They rest on
`QuietStep` (nothing that others see changes, and the thread refers only to what
was in its `Reach` before) and on `ConstructStep` (a free node is taken and
hidden). Then there is one for each step of commit, rollback and end
of attempt, resting on `WordStep` (a possessor writes a word), `NodeStep` (a
possessor writes a node), `IndexStep` and `CleanupStep`. Then come
the initial states (`InitIInv`), the steps together (`StepIInv`,
`NextIInv`), and the properties that follow from the invariant; `VersionsAdvance` is
an action property, and `LockAdvance` goes through the few steps that write a
word.

What the hypothesis is for: with single operations `NeverCrashes` and
`LocksMatch` are false (5), because a transaction that meets a singleton node
stores into a word it does not hold. `Types` says that no node is flagged.

The second part of `TxnListProofs` has two conditions more. They name exactly what departures 2
and 8 are about, without which the theorems are false: `CopiesCurrent` (whenever an
`Insert` finds its key, what it copies from the node is not about to be overwritten)
and `KeysPrecedeDefault` (every key is below `TKey{}`). The first is a condition on the
behaviour and not on the program, so that it also covers programs in which that
race is possible and does not happen. The run `txn_conflict` satisfies both.

| Theorem | States |
|---|---|
| `ListInvariance` | `ListInv` |
| `StaysSorted` | `ListWellFormed` |
| `JointList`, `DecideLive`, `ChainLive` | what these rest on, below |

The argument. The chain in memory is not a list while commits write to it, and
several commits may write at once. The invariant is therefore about the *decided*
list: the nodes with the links and marks that they will have when all commits that
have incremented the clock have written what they decided (`DecidedNext`,
`DecidedMark`, `Live`). It changes in one step of a transaction only,
`PassValidation`, and there becomes what the transaction has in mind (`View`,
`ViewNext`: the decided list with the write set on top), which is `DecideLive`.

So what a transaction has in mind must be a sorted list too (`ViewOK`). It is
not always: after another commit has changed a node that the transaction
wants to change, anything may happen until the validation fails. `ViewOK` speaks of
transactions that are `Consistent`: nobody has decided on a node of their write set
since they began. That the others stay consistent lists when one of them is decided
is a theorem about lists (`JointList`): two sets of changes to disjoint
nodes of a sorted list, each of which leaves a sorted list, leave one together.
It fails if a node is unlinked without being changed itself, which is why
`Remove` links the removed node to a dummy and puts it into both sets.

A traversal reads memory, not the decided list. `Settled` is what its checks of lock
and version give: whoever is still writing to the node decided after the transaction
began, so that the node is either as decided or no longer `Old`. `PredecessorOK`,
`SuccessorOK` and `PlaceFound` say what the traversal knows at each of its steps: it
is on a node of its own list, its key is above that node's, the next node is the one
its list has there (`Between`). `Checked` says how far the validation has come,
`Written` how far the write-back. Nothing in this depends on the index being right:
any entry with a smaller key will do.

The proof has first the facts about lists, what a step that decides nothing
leaves to the other threads (`SilentStep`) and what a decision does
(`DecideView`, `DecideOther`); then one lemma for each step, their
combination (`StepListInv`) and the initial states. `Chain` is a recursive function.
The induction theorems of the library cannot be used with this prover, but
well-founded induction on a set of numbers can (`NatSets`); from it follow that
the recursive definition defines something (`Iterates`, `ChainIs`) and that whatever
the chain reaches is in the decided list (`ChainLive`), which is that of memory when
nothing is locked.

`TxnListMixedProofs`, about the same specification, is about *any* program: threads that run transactions
and call single operations, in any order and mixture, on a list that either have
populated (`AnyPrograms`, which asks only for memory for that list; `MCTxnMixed`
evaluates it on the run `txn_mixed`). Every interleaving counts, also those of the
departures 2 to 5 and 8 to 11, and steps after them.

| Theorem | States | Condition |
|---|---|---|
| `MixedInvariance` | `MixedInv` | |
| `MixedTypeCorrect` | `TypeOK` | |
| `MixedFreshPrivate` | `FreshIsPrivate` | |
| `MixedLocksMatch` | `LocksMatchLockers` | `ClearsKeepLock` |

The argument. `MixedInv` has the types (`Memory`, `Threads`), the `References` of `IInv`,
and for each thread what its locals are at its place in the code (`MixedFits`) and which
nodes its Lockers may be on (`Lockers`): in a single operation none but the place that the
traverse has found, in a commit the write set. It says nothing of lock words, so that
it holds whatever departure 5 does to them; also a single operation that reads
a node anew at each use (9) or writes to one that has been removed (11) keeps it, as
whatever it reads exists and is not hidden. Each step is shown to keep `MixedInv` and to be
a `LockStep`: it leaves flags and Lockers alone, but on nodes that come or go, or it creates
or destroys one Locker together with the flag. That one thread has a Locker for
each flag (`LockInv`) follows from this for any step but one, `ClearSingletonStore`, which
stores a word from before (`KeepsLock`). So departure 5 is the only way in which the flags
and the Lockers of this code can come apart. `ClearsKeepLock` says that it does not
happen: that nobody locks or releases the node between that load and that store. It is an
assumption of the theorem and no property of a run, as nothing in the code keeps
others from doing so: any program in which another thread may lock a node of which
a transaction clears the flag violates it, and where that happens (`txn_singles`) the
conclusion is false too. It holds of the programs of `txn_mixed`, where the flag is cleared
by the only thread that works or beside a thread that only reads.

The lemmas are those of the first part of `TxnListProofs` again, beside single operations: first the
steps of single operations (`ChangeStep` for those that write to a node), then the
operations of transactions (`OperationGoes`, `ConstructGoes`), the commit (`CommitGoes`,
`WriteWordGoes`) and what follows it, and the initial states (`InitMixed`); all of them
rest on `MixedStep`.

`TxnListReadProofs`, about the same specification, under the assumptions and conditions of
the second part of `TxnListProofs` and with one condition more: `GotUnchanged`. `Get` returns the value of a node that it does not put into the read
set, so a transaction that overwrites it is not noticed (departure 3); without such
`Insert`s the theorems below hold, with them they are false. `GotUnchanged` says that no
`Insert` copies a node of a key that some `Get` is still to ask for. It is an
assumption of the theorems and no property of a run: it depends on the jobs alone
whether such an `Insert` can happen. Those of `txn_conflict`
satisfy it: there one transaction gets both
keys while the other one removes them, removes one and inserts it again, or looks them up.

| Theorem | States |
|---|---|
| `TransactionsSerializable` | `Serializable` |
| `CallsAreReplayable` | `CallsReplayable` |
| `ReadInvariance`, `SerialInvariance` | the invariants `ReadInv`, `SerialInv` |
| `CourseWidens` | what the last rests on, below |

The argument. A list of nodes with keys and values is a map, and two maps matter: the
map of the decided list (`DecidedMap`), which changes at `PassValidation` only, and for
each transaction the map of its view (`ViewMap`), which becomes the decided one
there. The sequence `hist` has the decided transactions in the order of their clock
increments.

*What a transaction has read* (`ReadInv`). As long as a running transaction has read nothing
outdated, its calls, replayed on the decided map, return what they have returned and give
the map of its view (`ResultsOK`). Others may well decide meanwhile, and change
the decided map. What keeps `ResultsOK` true is that the read set covers what the calls have
told (`ReadsOK`): of each key the node before it, and of one that was removed its
own. A decision that adds or removes a key changes the node before it
(`LocksOK`), so either it leaves the keys alone that the calls have asked about or
something in the read set is outdated. A value that is overwritten changes only the node
itself; that is where `Get` needs `GotUnchanged`. `Remove` changes its
view in two steps; between them (`Removing`) its key is missing from the view and
not yet called.

*The order* (`SerialInv`). The order of the clock increments is not the serial
order, and not even the order of validation is: a transaction validates its nodes one
by one, before its own increment, while others increment. It gets its place when
it has locked all its nodes and begins to validate: `place[t]` is how many of the decided
ones come before it, and `rank` is the order in which transactions began to validate.
The invariant says that an order exists of those that are decided, with the maps
between them (`Ordered`); that a transaction that is validating *fits* at its
place as long as it may still pass (`Fits`): its calls return what they have on the
map there, and none of those behind it have asked about what it changes
(`Indifferent`); and that of two that are validating the one that was there first
*hinders* the other (`Hinders`): the second has still to validate
every node that the first holds and that it has read, and will fail there.
So when one is decided, those that came later and can still pass have not read what it
has changed, those that came earlier keep their places in front, and it is put
into the order at its place. `CourseWidens` is that insertion, a fact about sequences of calls
and maps alone; `WaitsBefore` and `WaitsBehind` are the same for the places of those that still
wait. `real time` is in `Fits`: whoever ended before the transaction began
(`since`) is in front of its place.

The steps are two kinds. One that decides nothing (`Steady`) leaves the decided map,
and what a transaction had in mind unless it is its own: one "...Reads" lemma for
each action, resting on `SilentReads` and `QuietReads`. The other is
`PassValidation` (`DecideReads`, `DecideResults`, `DecideSerial`). `ReplayIs` and `AfterIs` tie
the maps to the recursive functions that `Serializable` is stated with, and `ContentsAre`
the decided map to the chain in memory when nothing runs (`ChainReaches`: the chain
reaches every node of the decided list).

`ReadInv` and `SerialInv` say that functions exist from positions to maps; TLC cannot
evaluate them and checks `CallsReplayable` and `Serializable`, which follow from them.

`SkipListProofs`, about `SkipListMap`: any finite set of threads, any finite memory, any
keys (integers), any number of layers and heights, any jobs and initial lists, every
interleaving of single accesses. The assumptions about the constants are
`NodesAssumption`, `KeysAssumption`, `LayerAssumption`, `NodeMemory` and `ThreadsFinite`. The
theorems have two conditions, which name what departures 7, 12 and 13 are about and
without which they are false:

- `SentinelStays`, about the scenarios: the node of the key without a value is there and
  reaches up to the top layer, no job inserts or erases that key (as `TxnList` never
  does), and there is memory for the list it starts with. So `slist->top_layer`
  stays at the top (13). TLC evaluates it on the scenarios of the runs
  (`ScenarioAssumption` in `MCSkipList`).
- `CallsApart`, about the behaviour: no erase starts on a node that another call still
  works on (12; in particular an insert that has linked its node and not yet taken the
  reference for its iterator), and the memory of a new node is nobody's "next
  node" from before (7). The run `skip_list` satisfies it.

| Theorem | States |
|---|---|
| `Invariance` | `IInv` |
| `TypeCorrect` | `TypeOK` |
| `NoUseAfterDelete` | `NodesOutliveTheirUse` |
| `LayersStayWhole` | `EachLayerIsWhole` |
| `CountersAreRight` | `CountersFollow` |
| `CallsCleanUp` | `NothingLeftBehind` |

The argument. None of the properties is inductive: that a layer is whole depends on
pointers that a thread is about to swing, and those on what it has read and flagged
before. `IInv` says so for each thread at each place of the code.

- `Owners`, `NodesFollow`: a node that is being inserted or erased is the business of one
  thread, and its fields `writing`, `linked` and `removed` say how far that has come.
- `RefsFollow`, `HeldStay`: the reference count of a node is the number of references
  that threads have at their places in the code (`HoldsCur`, `HoldsNext`, `HoldsPassed`,
  `HoldsNode`, `HoldsCursor`), and whoever has one refers to a node that is there. An
  erase that sees the count at zero is therefore alone with the node.
- `FlagsFollow`: a node's flag `modified` is that of exactly one thread, which has it in
  `prevs` in one of its `FlagLayers`, or owns the node.
- `Sorted`, about the nodes `In` each layer: the linked ones, and those of a thread that is
  in between (`Half`: an insert that has come past this layer, an erase that has not yet).
  From each of them the pointer leads to the next greater one.
- `Fits`, about the locals of each thread: its search is before its place (`CurFits`), what
  comes next is after it (`NextFits`, `FoundFits`), and in the layers that are
  `Settled` the node in `prevs` leads to the thread's node, or past it to `nexts`
  (`SettledFits`); `FlagsFit` says that the flagged nodes stay linked and come closer from
  layer to layer.

What makes it inductive is one fact (`FlaggedNext`, `OtherKept`): nobody but its owner
changes the pointers of a flagged node in a layer in which it is linked, or unlinks it, and
what comes after a flagged node is not unlinked either, as an erase needs the flag of the
node before its own. So a failed compare-exchange, which the code ignores, does
not happen (`SwingIs`). The pointer that is loaded again after the flag has been set
(`AgainFits`) is what settles a layer, and there memory that is used again could
deceive (7).

The proofs are laid out along that (`SkipListSearchProofs` up to the searches, `SkipListProofs` from the writes on): `Spares` collects what a step of one thread leaves
to the others, and `OtherFits` shows that all of the locals still fit; `OwnersStep`, `RefsStep`,
`FlagsStep`, `SortedStep` and the like reduce each part to what the thread
itself does; then each action has a lemma, most by way of `QuietStep` (nothing but reference
counts changes). `Initially` is about the list that a scenario starts with.
`LayersStayWhole` speaks of a recursive function again: every node of a layer but the head
comes right after another one (`HasPrevious`), so that by induction on the number of nodes
before it each one is reached (`ReachedIn`).

`SkipListPromiseProofs`, about the same specification, under the same assumptions and
conditions and with one condition more: `[]SuccessorIsGreater`. With a search for a
greater node that returns the node itself (departure 6) an iteration returns a key twice,
and the theorems are false. The run `skip_list` checks all three conditions of
the theorems and what they conclude.

| Theorem | States |
|---|---|
| `MapKeepsPromise` | `KeepsPromise`, the refinement of `OrderedIndex` |
| `CallsKnow` | `PInv` |

The argument. `call[t]` has the keys that were in the index during all of the call (`always`)
and at some time during it (`ever`), and the answer must fit these. `PInv` says for
each place of the code what the call knows of them.

- The instants. An insert takes effect where it sets `linked`, an erase where it clears it
  (`InsertActs`, `EraseActs`); `ActedIs` ties `acted` to the place. That the key was
  absent, or present, before needs `Sorted` of `IInv`: no two nodes have one key
  (`OneNode`).
- A search (`WalkIs`). In the bottom layer no key of `always` lies between `cur` and the
  node that it has loaded as the next one (`Missed`). When the pointer is loaded, that
  is because the linked nodes are all in the bottom layer and nothing is between a node
  and the one that its pointer leads to (`NothingBetween`). Afterwards it stays, as
  `always` only shrinks. A node that turns out not to be linked
  is skipped, and its key has then left `always`. In the upper layers a search
  may well miss keys, and does: only the bottom layer decides that a key is absent.
- What was found (`CursorIs`) follows when the search returns (`FindReturns`,
  `SuccessorKnows`): a node of that key, the greatest smaller one, or the next one with
  no key of `always` in between. A node was linked when it was found, so its key is in `ever`,
  even if it has been erased since.
- An iteration (`VisitedIs`) has visited keys of `ever` in ascending order, and every key of
  `always` that is not greater than the last of them.

Steps of others change `always` and `ever` only by one key that they link or unlink
(`OtherKnows`); a step that links or unlinks nothing leaves `Contents` alone (`SkipListCalm`,
`MapCalm`), and `WorkKnows` says which parts of the knowledge are left to show for it.
`WorkPromised`, `BeginPromised`, `FinishPromised` and `ReturnPromised` map each step of the
program to one of `OrderedIndex` or to none, and `PromiseGoesOn` combines
them.

Only model-checked: `IndexMatchesList`,
`AttemptsEnd` and `Termination`, that single operations are linearizable and leave a sorted
list (`Serializable`, `ListWellFormed`), and of the skip
list `SuccessorIsGreater` and `NobodyIsStranded`, on the bounds above.
Liveness cannot be proved with this prover.
`IndexMatchesList` is false in general (4), `SuccessorIsGreater` too (6).

## Not modelled

- The layout of the word in 64 bits and the overflow of the version: a version
  beyond 2^60 is out of reach.
- `LockBase::Acquire`, which nothing calls.
- Of the skip list what the library does not call: insert with duplicates,
  `skiplist_erase`, erase by iterator, the backward iterator, `set_config`,
  `sl_map_gc`. `Print` is the iteration of `Sum`.
- That a doomed transaction sees consistent states (the documentation claims
  it): pointers and values are read after their check, and between two operations
  another transaction may commit. `CallsReplayable` covers running transactions that
  can still commit, `Serializable` committed ones.
- The index step by step *inside* a transaction: both are modelled, and joined
  through `OrderedIndex` by argument, not by one composed run; the product of their
  states is out of TLC's reach.
- Tracing, console, workload generation: no protocol.

## Plan

Done: the version lock, the transactions, the single operations, the access lock
and the skip list, with their abstract specifications and refinements; the proofs
about both locks, about programs of transactions (types, locks, versions, the
shape of the list, and that they are serializable), about programs that mix them with
single operations (types, private nodes, locks), and about the skip list (no use of
a deleted node, the shape of each layer, the counters, nothing left behind, and that it
implements `OrderedIndex`).

1. The word in 64 bits: flags and version as sums, round trip, the boundary.
2. Single operations next to transactions that read the same nodes: what the
   singleton flag detects and what it misses (stale read versions, inserts that
   leave the predecessor's word as it was).
