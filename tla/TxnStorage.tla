------------------------------ MODULE TxnStorage ------------------------------
(***************************************************************************)
(* The shared memory of one TxnList and the thread-local TxnListStorage of *)
(* every thread (Transactions/TxnListStorage.hpp): the global version      *)
(* clock, the nodes with their lock words, the index, the read and write   *)
(* sets, and the commit and rollback protocols, one action per access to   *)
(* shared memory that can race.                                            *)
(*                                                                         *)
(* A VersionLock method called by the possessor of the lock is one action: *)
(* VersionLockProofs shows that it takes effect at one instant.  The       *)
(* SetSingleton of ValidateReadSet is called by a thread that need not     *)
(* possess the lock, so its load and its store are two actions.            *)
(*                                                                         *)
(* The loops over unordered containers visit their elements in any order.  *)
(* Assertions are evaluated (the _DEBUG build): one that fails stops every *)
(* thread.                                                                 *)
(***************************************************************************)
EXTENDS VersionWord, Sequences, FiniteSets

CONSTANTS Thread,        \* the threads
          Node,          \* the nodes there is memory for
          Sentinel,      \* the sentinel node, first in the list
          Null,          \* nullptr, and the empty optional
          Key, Value,    \* the keys and values of the list
          DefaultKey,    \* TKey{}, the key of a default-constructed node
          DefaultValue   \* TValue{}

ASSUME NodeAssumption == Sentinel \in Node /\ Null \notin Node
ASSUME KeyAssumption == Key \subseteq Int /\ DefaultKey \in Int
\* Any set of keys has a smallest and a largest one: a key type has finitely many
\* values.
ASSUME KeyOrderAssumption ==
    \A keys \in SUBSET Key : keys # {} =>
        /\ \E k \in keys : \A j \in keys : j <= k
        /\ \E k \in keys : \A j \in keys : k <= j
ASSUME ValueAssumption == DefaultValue \in Value /\ Null \notin Value

VARIABLES gvc,     \* GlobalVersionClock
          lock,    \* the VersionLock word of each node
          node,    \* key, value and next of each node
          alloc,   \* the nodes that exist
          index,   \* the node the index holds under each key; the sentinel's
                   \* own entry, before every key, is left implicit
          txn,     \* the TxnListStorage of each thread
          held,    \* the nodes whose Lockers each thread keeps
          pc,      \* where each thread is
          todo,    \* the nodes a loop of the commit still has to visit
          cur,     \* the node it is visiting
          saw      \* the word loaded by ValidateReadSet's SetSingleton

sharedVars == <<gvc, lock, node, alloc, index>>
commitVars == <<held, todo, cur, saw>>

WriteSetElement == [next : Node \cup {Null}, deleted : BOOLEAN, value : Value]

\* TxnListStorage after LocalTxnCleanup.  "fresh" records the nodes that the
\* transaction has created: nobody else refers to them until it commits.
EmptyTxn == [active |-> FALSE, readVersion |-> 0, writeVersion |-> 0,
             readSet |-> {}, writeSet |-> <<>>,
             indexAdd |-> <<>>, indexRemove |-> {}, fresh |-> {}]

NewNode == [key |-> DefaultKey, value |-> DefaultValue, next |-> Null]

StorageInit ==
    /\ txn = [t \in Thread |-> EmptyTxn]
    /\ held = [t \in Thread |-> {}]
    /\ pc = [t \in Thread |-> "idle"]
    /\ todo = [t \in Thread |-> {}]
    /\ cur = [t \in Thread |-> Sentinel]
    /\ saw = [t \in Thread |-> NewWord]

-----------------------------------------------------------------------------
(* Helpers. *)

Goto(t, label) == pc' = [pc EXCEPT ![t] = label]
Visit(t, nodes) == todo' = [todo EXCEPT ![t] = nodes]
Visited(t) == Visit(t, todo[t] \ {cur[t]})

\* A TransactionException leaves the routine or the commit: the Lockers are
\* destroyed, then the dispatcher rolls back.
Abort(t) == Goto(t, "abort")

InWriteSet(t, n) == n \in DOMAIN txn[t].writeSet

GetUpdatedNext(t, n) ==
    IF InWriteSet(t, n) THEN txn[t].writeSet[n].next ELSE node[n].next
GetUpdatedValue(t, n) ==
    IF InWriteSet(t, n) THEN txn[t].writeSet[n].value ELSE node[n].value
GetUpdatedIsDeleted(t, n) ==
    IF InWriteSet(t, n) THEN txn[t].writeSet[n].deleted ELSE lock[n].deleted

\* Index::GetPrevious: the entry with the largest key below k.
GetPrevious(k) ==
    LET below == {j \in Key : index[j] # Null /\ j < k}
    IN  IF below = {} THEN Sentinel
        ELSE index[CHOOSE j \in below : \A i \in below : i <= j]

\* Index::Insert leaves an entry that is already there; Index::Remove erases by
\* key, whatever node the entry holds.
IndexInsert(ix, n) == IF ix[node[n].key] = Null THEN [ix EXCEPT ![node[n].key] = n] ELSE ix
IndexErase(ix, n) == [ix EXCEPT ![node[n].key] = Null]

-----------------------------------------------------------------------------
(* LocalTxnPrologue *)

LocalTxnPrologue(t) ==
    /\ pc[t] = "idle"
    /\ txn' = [txn EXCEPT ![t].active = TRUE, ![t].readVersion = gvc]
    /\ Goto(t, "next")
    /\ UNCHANGED <<sharedVars, commitVars>>

-----------------------------------------------------------------------------
(* LockWriteSet *)

LockWriteSet(t) ==
    /\ pc[t] = "next"
    /\ Visit(t, DOMAIN txn[t].writeSet)
    /\ Goto(t, "lock")
    /\ UNCHANGED <<sharedVars, txn, held, cur, saw>>

LockNode(t) ==
    /\ pc[t] = "lock"
    /\ \E n \in todo[t] :
        IF lock[n].locked
        THEN /\ Abort(t)
             /\ UNCHANGED <<lock, held, todo>>
        ELSE /\ lock' = [lock EXCEPT ![n] = Acquired(@)]
             /\ held' = [held EXCEPT ![t] = @ \cup {n}]
             /\ Visit(t, todo[t] \ {n})
             /\ UNCHANGED pc
    /\ UNCHANGED <<gvc, node, alloc, index, txn, cur, saw>>

-----------------------------------------------------------------------------
(* ValidateReadSet *)

ValidateReadSet(t) ==
    /\ pc[t] = "lock" /\ todo[t] = {}
    /\ Visit(t, txn[t].readSet)
    /\ Goto(t, "validate")
    /\ UNCHANGED <<sharedVars, txn, held, cur, saw>>

LockedByOther(t, n) == ~InWriteSet(t, n) /\ lock[n].locked

ValidateNode(t) ==
    /\ pc[t] = "validate"
    /\ \E n \in todo[t] :
        /\ cur' = [cur EXCEPT ![t] = n]
        /\ Goto(t, IF LockedByOther(t, n) THEN "abort" ELSE "validateVersion")
    /\ UNCHANGED <<sharedVars, txn, held, todo, saw>>

\* Mutant: a read set validated without looking at the versions.
ValidateNoVersion(t) ==
    /\ pc[t] = "validateVersion"
    /\ Goto(t, "validateEqual")
    /\ UNCHANGED <<sharedVars, txn, commitVars>>

ValidateVersion(t) ==
    /\ pc[t] = "validateVersion"
    /\ Goto(t, IF lock[cur[t]].version > txn[t].readVersion
               THEN "abort" ELSE "validateEqual")
    /\ UNCHANGED <<sharedVars, txn, commitVars>>

\* GetVersion() == readVersion && IsSingleton(), two loads.
ValidateEqual(t) ==
    /\ pc[t] = "validateEqual"
    /\ Goto(t, IF lock[cur[t]].version = txn[t].readVersion
               THEN "validateSingleton" ELSE "validateRelocked")
    /\ UNCHANGED <<sharedVars, txn, commitVars>>

ValidateSingleton(t) ==
    /\ pc[t] = "validateSingleton"
    /\ Goto(t, IF lock[cur[t]].singleton THEN "advance" ELSE "validateRelocked")
    /\ UNCHANGED <<sharedVars, txn, commitVars>>


\* A singleton at the read version: advance the clock, then SetSingleton, a load
\* and a store without taking the lock.
AdvanceClock(t) ==
    /\ pc[t] = "advance"
    /\ gvc' = gvc + 1
    /\ Goto(t, "clearLoad")
    /\ UNCHANGED <<lock, node, alloc, index, txn, commitVars>>

ClearSingletonLoad(t) ==
    /\ pc[t] = "clearLoad"
    /\ saw' = [saw EXCEPT ![t] = lock[cur[t]]]
    /\ Goto(t, "clearStore")
    /\ UNCHANGED <<sharedVars, txn, held, todo, cur>>

ClearSingletonStore(t) ==
    /\ pc[t] = "clearStore"
    /\ lock' = [lock EXCEPT ![cur[t]] = WithSingleton(saw[t], FALSE)]
    /\ saw' = [saw EXCEPT ![t] = NewWord]
    /\ Abort(t)
    /\ UNCHANGED <<gvc, node, alloc, index, txn, held, todo, cur>>

ValidateRelocked(t) ==
    /\ pc[t] = "validateRelocked"
    /\ IF LockedByOther(t, cur[t])
       THEN Abort(t) /\ UNCHANGED todo
       ELSE Goto(t, "validate") /\ Visited(t)
    /\ UNCHANGED <<sharedVars, txn, held, cur, saw>>

-----------------------------------------------------------------------------
(* IncrementWriteVersion and UpdateWriteSet *)

\* Mutant: takes the next version without advancing the clock.
ReadWriteVersion(t) ==
    /\ pc[t] = "validate" /\ todo[t] = {}
    /\ txn' = [txn EXCEPT ![t].readSet = {}, ![t].writeVersion = gvc + 1]
    /\ Visit(t, DOMAIN txn[t].writeSet)
    /\ Goto(t, "write")
    /\ UNCHANGED <<sharedVars, held, cur, saw>>

IncrementWriteVersion(t) ==
    /\ pc[t] = "validate" /\ todo[t] = {}
    /\ gvc' = gvc + 1
    /\ txn' = [txn EXCEPT ![t].readSet = {}, ![t].writeVersion = gvc + 1]
    /\ Visit(t, DOMAIN txn[t].writeSet)
    /\ Goto(t, "write")
    /\ UNCHANGED <<lock, node, alloc, index, held, cur, saw>>

WriteNext(t) ==
    /\ pc[t] = "write"
    /\ \E n \in todo[t] :
        /\ cur' = [cur EXCEPT ![t] = n]
        /\ node' = [node EXCEPT ![n].next = txn[t].writeSet[n].next]
    /\ Goto(t, "writeValue")
    /\ UNCHANGED <<gvc, lock, alloc, index, txn, held, todo, saw>>

WriteValue(t) ==
    /\ pc[t] = "writeValue"
    /\ node' = [node EXCEPT ![cur[t]].value = txn[t].writeSet[cur[t]].value]
    /\ Goto(t, IF txn[t].writeSet[cur[t]].deleted THEN "writeDeleted" ELSE "writeVersion")
    /\ UNCHANGED <<gvc, lock, alloc, index, txn, commitVars>>

WriteDeleted(t) ==
    /\ pc[t] = "writeDeleted"
    /\ lock' = [lock EXCEPT ![cur[t]] = WithDeleted(@, TRUE)]
    /\ Goto(t, "writeVersion")
    /\ UNCHANGED <<gvc, node, alloc, index, txn, commitVars>>

WriteVersion(t) ==
    /\ pc[t] = "writeVersion"
    /\ lock' = [lock EXCEPT ![cur[t]] = WithVersion(@, txn[t].writeVersion)]
    /\ Goto(t, "writeSingleton")
    /\ UNCHANGED <<gvc, node, alloc, index, txn, commitVars>>

WriteSingleton(t) ==
    /\ pc[t] = "writeSingleton"
    /\ lock' = [lock EXCEPT ![cur[t]] = WithSingleton(@, FALSE)]
    /\ Visited(t)
    /\ Goto(t, "write")
    /\ UNCHANGED <<gvc, node, alloc, index, txn, held, cur, saw>>

UpdateWriteSetDone(t) ==
    /\ pc[t] = "write" /\ todo[t] = {}
    /\ txn' = [txn EXCEPT ![t].writeSet = <<>>]
    /\ Goto(t, "finish")
    /\ UNCHANGED <<sharedVars, commitVars>>

-----------------------------------------------------------------------------
(* The Lockers are destroyed, after the commit or on an exception. *)

\* Mutant: the Lockers are destroyed after a commit only.
ReleaseAfterCommit(t) ==
    /\ pc[t] = "finish"
    /\ \E n \in held[t] :
        /\ lock' = [lock EXCEPT ![n] = Released(@)]
        /\ held' = [held EXCEPT ![t] = @ \ {n}]
    /\ UNCHANGED <<gvc, node, alloc, index, txn, pc, todo, cur, saw>>

\* Release asserts that the word it loads is locked.
Release(t) ==
    /\ pc[t] \in {"finish", "abort"}
    /\ \E n \in held[t] :
        IF lock[n].locked
        THEN /\ lock' = [lock EXCEPT ![n] = Released(@)]
             /\ held' = [held EXCEPT ![t] = @ \ {n}]
             /\ UNCHANGED pc
        ELSE /\ pc' = [u \in Thread |-> "crashed"]
             /\ UNCHANGED <<lock, held>>
    /\ UNCHANGED <<gvc, node, alloc, index, txn, todo, cur, saw>>

-----------------------------------------------------------------------------
(* LazyUpdateIndexAdd, LazyUpdateIndexRemove and LocalTxnCleanup *)

LazyUpdateIndexAdd(t) ==
    /\ pc[t] = "finish" /\ held[t] = {} /\ txn[t].indexAdd # <<>>
    /\ index' = IndexInsert(index, Head(txn[t].indexAdd))
    /\ txn' = [txn EXCEPT ![t].indexAdd = Tail(@)]
    /\ UNCHANGED <<gvc, lock, node, alloc, pc, commitVars>>

LazyUpdateIndexRemove(t) ==
    /\ pc[t] = "finish" /\ held[t] = {} /\ txn[t].indexAdd = <<>>
    /\ \E n \in txn[t].indexRemove :
        /\ index' = IndexErase(index, n)
        /\ txn' = [txn EXCEPT ![t].indexRemove = @ \ {n}]
    /\ UNCHANGED <<gvc, lock, node, alloc, pc, commitVars>>

\* Mutants: a cleanup that forgets the read set, or the write set.
CleanupKeepsReadSet(t) ==
    /\ txn' = [txn EXCEPT ![t] = [EmptyTxn EXCEPT !.readSet = txn[t].readSet]]
    /\ todo' = [todo EXCEPT ![t] = {}]
    /\ cur' = [cur EXCEPT ![t] = Sentinel]
    /\ Goto(t, "idle")

CleanupKeepsWriteSet(t) ==
    /\ txn' = [txn EXCEPT ![t] = [EmptyTxn EXCEPT !.writeSet = txn[t].writeSet]]
    /\ todo' = [todo EXCEPT ![t] = {}]
    /\ cur' = [cur EXCEPT ![t] = Sentinel]
    /\ Goto(t, "idle")

Cleanup(t) ==
    /\ txn' = [txn EXCEPT ![t] = EmptyTxn]
    /\ todo' = [todo EXCEPT ![t] = {}]
    /\ cur' = [cur EXCEPT ![t] = Sentinel]
    /\ Goto(t, "idle")

LocalTxnCleanup(t) ==
    /\ pc[t] = "finish" /\ held[t] = {}
    /\ txn[t].indexAdd = <<>> /\ txn[t].indexRemove = {}
    /\ Cleanup(t)
    /\ UNCHANGED <<sharedVars, held, saw>>

\* TxnListTransaction::Rollback.  The nodes that only the write set and the index
\* additions referred to are destroyed with them.
Rollback(t) ==
    /\ pc[t] \in {"abort", "fault"} /\ held[t] = {}
    /\ Cleanup(t)
    /\ alloc' = alloc \ txn[t].fresh
    /\ node' = [n \in Node |-> IF n \in txn[t].fresh THEN NewNode ELSE node[n]]
    /\ lock' = [n \in Node |-> IF n \in txn[t].fresh THEN NewWord ELSE lock[n]]
    /\ UNCHANGED <<gvc, index, held, saw>>
=============================================================================
