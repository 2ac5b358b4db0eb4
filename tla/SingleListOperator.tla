-------------------------- MODULE SingleListOperator --------------------------
(***************************************************************************)
(* The operations on the list outside a transaction                        *)
(* (Transactions/SingleListOperator.hpp): they lock at most two nodes,     *)
(* leave them marked as singletons at the version of the clock they read   *)
(* at first, and start again when a lock or a check fails.                 *)
(*                                                                         *)
(* TraverseTo keeps a reference to predecessor->_next and reads the        *)
(* pointer through it again for each use: every use is an action, and a    *)
(* null pointer met after the test for null stops the program.             *)
(*                                                                         *)
(* What the possessor of the locks writes to the nodes it holds is one     *)
(* action per store that others can see.                                   *)
(***************************************************************************)
EXTENDS TxnListOperator

singleVars == <<gvc, alloc, txn, todo, cur, saw>>
readOnly == <<sharedVars, txn, commitVars>>

Pred(t) == frame[t].pred
Succ(t) == frame[t].succ
Kind(t) == frame[t].op.kind

\* The operation is to return r once its Lockers are destroyed.
Respond(t, r) ==
    /\ frame' = [frame EXCEPT ![t].results = <<r>>]
    /\ Goto(t, "singleReturn")

\* Dereferencing a null pointer stops the program.
Crash == pc' = [u \in Thread |-> "crashed"]

-----------------------------------------------------------------------------
(* The call, and GlobalVersionClock::Read in Insert and Remove. *)

CallSingle(t, op) ==
    /\ pc[t] = "idle"
    /\ frame' = [frame EXCEPT ![t].op = op]
    /\ Goto(t, IF op.kind \in {"Insert", "Remove"} THEN "singleVersion" ELSE "singleFind")
    /\ UNCHANGED readOnly

SingleReadVersion(t) ==
    /\ pc[t] = "singleVersion"
    /\ frame' = [frame EXCEPT ![t].readVersion = gvc]
    /\ Goto(t, "singleFind")
    /\ UNCHANGED readOnly

-----------------------------------------------------------------------------
(* GetValidatedPredecessor: any ordinary node is returned, locked or deleted *)
(* as it may be; a locked sentinel is asked for its key, and Key() throws.   *)

SingleFindPrevious(t) ==
    /\ pc[t] = "singleFind"
    /\ frame' = [frame EXCEPT ![t].pred = GetPrevious(frame[t].op.key)]
    /\ Goto(t, "singlePredecessor")
    /\ UNCHANGED readOnly

SinglePredecessor(t) ==
    /\ pc[t] = "singlePredecessor"
    /\ Goto(t, IF Pred(t) = Sentinel /\ IsLockedOrDeleted(lock[Sentinel])
               THEN "threw" ELSE "singleUnlocked")
    /\ UNCHANGED <<readOnly, frame>>

-----------------------------------------------------------------------------
(* TraverseTo *)

SingleUnlocked(t) ==
    /\ pc[t] = "singleUnlocked"
    /\ Goto(t, IF lock[Pred(t)].locked THEN "singleFind" ELSE "singleHasNext")
    /\ UNCHANGED <<readOnly, frame>>

\* successor != nullptr
SingleHasNext(t) ==
    /\ pc[t] = "singleHasNext"
    /\ Goto(t, IF node[Pred(t)].next = Null THEN "singleAtEnd" ELSE "singleNextLocked")
    /\ UNCHANGED <<readOnly, frame>>

\* successor->IsLockedOrDeleted()
SingleNextLocked(t) ==
    /\ pc[t] = "singleNextLocked"
    /\ LET next == node[Pred(t)].next IN
        IF next = Null THEN Crash
        ELSE Goto(t, IF IsLockedOrDeleted(lock[next]) THEN "singleFind" ELSE "singleAtEnd")
    /\ UNCHANGED <<readOnly, frame>>

\* successor == nullptr
SingleAtEnd(t) ==
    /\ pc[t] = "singleAtEnd"
    /\ Goto(t, IF node[Pred(t)].next = Null THEN "singleFound" ELSE "singleNextKey")
    /\ UNCHANGED <<readOnly, frame>>

\* successor->_key >= key
SingleNextKey(t) ==
    /\ pc[t] = "singleNextKey"
    /\ LET next == node[Pred(t)].next IN
        IF next = Null THEN Crash
        ELSE Goto(t, IF node[next].key >= frame[t].op.key THEN "singleFound" ELSE "singleAdvance")
    /\ UNCHANGED <<readOnly, frame>>

\* return { predecessor, successor }
SingleFound(t) ==
    /\ pc[t] = "singleFound"
    /\ frame' = [frame EXCEPT ![t].succ = node[Pred(t)].next]
    /\ Goto(t, "singleApply")
    /\ UNCHANGED readOnly

\* predecessor = successor
SingleAdvance(t) ==
    /\ pc[t] = "singleAdvance"
    /\ LET next == node[Pred(t)].next IN
        IF next = Null
        THEN Crash /\ UNCHANGED frame
        ELSE /\ frame' = [frame EXCEPT ![t].pred = next]
             /\ Goto(t, "singleUnlocked")
    /\ UNCHANGED readOnly

-----------------------------------------------------------------------------
(* Contains, Get, and Remove of an absent key. *)

SingleContains(t) ==
    /\ pc[t] = "singleApply" /\ Kind(t) = "Contains"
    /\ Respond(t, Found(t))
    /\ UNCHANGED readOnly

SingleGet(t) ==
    /\ pc[t] = "singleApply" /\ Kind(t) = "Get"
    /\ Respond(t, IF Found(t) THEN node[Succ(t)].value ELSE Null)
    /\ UNCHANGED readOnly

SingleRemoveNothing(t) ==
    /\ pc[t] = "singleApply" /\ Kind(t) = "Remove" /\ ~Found(t)
    /\ Respond(t, Null)
    /\ UNCHANGED readOnly

-----------------------------------------------------------------------------
(* The Lockers of Remove and Insert, and their checks. *)

\* Mutant: goes on whether or not the lock was free.
LockAnyway(t, n, label) ==
    /\ lock' = [lock EXCEPT ![n] = Acquired(@)]
    /\ held' = [held EXCEPT ![t] = @ \cup {n}]
    /\ Goto(t, label)
    /\ UNCHANGED <<singleVars, node, index, frame>>

\* Locker on n, then go on at label; without the lock the loop starts again.
LockOrRetry(t, n, label) ==
    /\ IF lock[n].locked
       THEN Goto(t, "singleRetry") /\ UNCHANGED <<lock, held>>
       ELSE /\ lock' = [lock EXCEPT ![n] = Acquired(@)]
            /\ held' = [held EXCEPT ![t] = @ \cup {n}]
            /\ Goto(t, label)
    /\ UNCHANGED <<singleVars, node, index, frame>>

SingleLockPredecessor(t) ==
    /\ pc[t] = "singleApply"
    /\ \/ Kind(t) = "Remove" /\ Found(t)
       \/ Kind(t) = "Insert" /\ ~Found(t)
    /\ LockOrRetry(t, Pred(t), "singleNotDeleted")

\* Mutant: the predecessor may have been removed meanwhile.
SingleDeletedUnchecked(t) ==
    /\ pc[t] = "singleNotDeleted"
    /\ Goto(t, "singleStillNext")
    /\ UNCHANGED <<readOnly, frame>>

SingleNotDeleted(t) ==
    /\ pc[t] = "singleNotDeleted"
    /\ Goto(t, IF lock[Pred(t)].deleted THEN "singleRetry" ELSE "singleStillNext")
    /\ UNCHANGED <<readOnly, frame>>

\* Mutant: the successor may not be the next node any more.
SingleNextUnchecked(t) ==
    /\ pc[t] = "singleStillNext"
    /\ Goto(t, IF Kind(t) = "Remove" THEN "singleLockSuccessor" ELSE "singleLink")
    /\ UNCHANGED <<readOnly, frame>>

SingleStillNext(t) ==
    /\ pc[t] = "singleStillNext"
    /\ Goto(t, IF node[Pred(t)].next # Succ(t) THEN "singleRetry"
               ELSE IF Kind(t) = "Remove" THEN "singleLockSuccessor" ELSE "singleLink")
    /\ UNCHANGED <<readOnly, frame>>

SingleLockSuccessor(t) ==
    /\ pc[t] = "singleLockSuccessor"
    /\ LockOrRetry(t, Succ(t), "singleUnlink")

\* Insert of a present key; nothing checks that the node is still in the list.
SingleLockExisting(t) ==
    /\ pc[t] = "singleApply" /\ Kind(t) = "Insert" /\ Found(t)
    /\ LockOrRetry(t, Succ(t), "singleOverwrite")

-----------------------------------------------------------------------------
(* The stores of Remove and Insert into the words of nodes they hold. *)

Then(t, stores) ==
    /\ frame' = [frame EXCEPT ![t].stores = stores]
    /\ Goto(t, "singleStore")

Store(n, field) == [node |-> n, field |-> field]

\* Mutant: the removed node is not flagged.
SingleUnlinkUnflagged(t) ==
    /\ pc[t] = "singleUnlink"
    /\ node' = [node EXCEPT ![Pred(t)].next = node[Succ(t)].next]
    /\ frame' = [frame EXCEPT
            ![t].results = <<node[Succ(t)].value>>,
            ![t].stores = <<Store(Pred(t), "version"), Store(Pred(t), "singleton"),
                            Store(Succ(t), "version"), Store(Succ(t), "singleton")>>]
    /\ Goto(t, "singleStore")
    /\ UNCHANGED <<singleVars, lock, index, held>>

SingleUnlink(t) ==
    /\ pc[t] = "singleUnlink"
    /\ node' = [node EXCEPT ![Pred(t)].next = node[Succ(t)].next]
    /\ frame' = [frame EXCEPT
            ![t].results = <<node[Succ(t)].value>>,
            ![t].stores = <<Store(Pred(t), "version"), Store(Pred(t), "singleton"),
                            Store(Succ(t), "version"), Store(Succ(t), "singleton"),
                            Store(Succ(t), "deleted")>>]
    /\ Goto(t, "singleStore")
    /\ UNCHANGED <<singleVars, lock, index, held>>

SingleOverwrite(t) ==
    /\ pc[t] = "singleOverwrite"
    /\ node' = [node EXCEPT ![Succ(t)].value = frame[t].op.value]
    /\ frame' = [frame EXCEPT
            ![t].results = <<Null>>,
            ![t].stores = <<Store(Succ(t), "singleton"), Store(Succ(t), "version")>>]
    /\ Goto(t, "singleStore")
    /\ UNCHANGED <<singleVars, lock, index, held>>

SingleStore(t) ==
    /\ pc[t] = "singleStore" /\ frame[t].stores # <<>>
    /\ LET store == Head(frame[t].stores) IN
        lock' = [lock EXCEPT ![store.node] =
                    CASE store.field = "version" -> WithVersion(@, frame[t].readVersion)
                      [] store.field = "singleton" -> WithSingleton(@, TRUE)
                      [] store.field = "deleted" -> WithDeleted(@, TRUE)]
    /\ frame' = [frame EXCEPT ![t].stores = Tail(@)]
    /\ UNCHANGED <<singleVars, node, index, held, pc>>

\* Mutant: Remove leaves the index to the next operation that meets the node.
SingleStoredOnly(t) ==
    /\ pc[t] = "singleStore" /\ frame[t].stores = <<>>
    /\ Goto(t, "singleReturn")
    /\ UNCHANGED <<readOnly, frame>>

\* IndexRemove in Remove, while both nodes are locked.
SingleStored(t) ==
    /\ pc[t] = "singleStore" /\ frame[t].stores = <<>>
    /\ index' = IF Kind(t) = "Remove" THEN IndexErase(index, Succ(t)) ELSE index
    /\ Goto(t, "singleReturn")
    /\ UNCHANGED <<singleVars, node, lock, held, frame>>

\* The candidate is complete before the store that links it.
SingleLink(t) ==
    /\ pc[t] = "singleLink" /\ alloc # Node
    /\ LET candidate == FreshNode IN
        /\ alloc' = alloc \cup {candidate}
        /\ node' = [node EXCEPT ![candidate] = [key |-> frame[t].op.key,
                                                value |-> frame[t].op.value,
                                                next |-> Succ(t)],
                                ![Pred(t)].next = candidate]
        /\ lock' = [lock EXCEPT ![candidate] =
                        WithVersion(WithSingleton(NewWord, TRUE), frame[t].readVersion)]
        /\ frame' = [frame EXCEPT ![t].link = candidate]
    /\ Goto(t, "singleIndexAdd")
    /\ UNCHANGED <<gvc, index, txn, commitVars>>

SingleIndexAdd(t) ==
    /\ pc[t] = "singleIndexAdd"
    /\ index' = IndexInsert(index, frame[t].link)
    /\ Goto(t, "singleIndexCheck")
    /\ UNCHANGED <<gvc, lock, node, alloc, txn, commitVars, frame>>

SingleIndexCheck(t) ==
    /\ pc[t] = "singleIndexCheck"
    /\ index' = IF lock[frame[t].link].deleted THEN IndexErase(index, frame[t].link) ELSE index
    /\ Respond(t, Null)
    /\ UNCHANGED <<gvc, lock, node, alloc, txn, commitVars>>

-----------------------------------------------------------------------------
(* The Lockers are destroyed, the successor's first. *)

\* Mutant: starts again without destroying the Lockers.
SingleRetryHolding(t) ==
    /\ pc[t] = "singleRetry"
    /\ Goto(t, "singleVersion")
    /\ UNCHANGED <<readOnly, frame>>

SingleRetry(t) ==
    /\ pc[t] = "singleRetry" /\ held[t] = {}
    /\ Goto(t, "singleVersion")
    /\ UNCHANGED <<readOnly, frame>>

SingleRelease(t) ==
    /\ pc[t] \in {"singleRetry", "singleReturn"} /\ held[t] # {}
    /\ LET n == IF Succ(t) \in held[t] THEN Succ(t) ELSE Pred(t) IN
        IF lock[n].locked
        THEN /\ lock' = [lock EXCEPT ![n] = Released(@)]
             /\ held' = [held EXCEPT ![t] = @ \ {n}]
             /\ UNCHANGED pc
        ELSE Crash /\ UNCHANGED <<lock, held>>
    /\ UNCHANGED <<singleVars, node, index, frame>>
=============================================================================
