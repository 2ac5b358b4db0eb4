------------------------ MODULE TransactionDispatcher ------------------------
(***************************************************************************)
(* Threads that use one list: the composition of TransactionDispatcher.hpp *)
(* and TxnListTransaction.hpp with the operations of the list, inside and  *)
(* outside transactions, and the commit protocol.  Each thread runs its    *)
(* jobs in turn; a job is a transaction routine (a sequence of operations) *)
(* given to Dispatch, which retries until it commits, or to TryDispatch,   *)
(* which does not, or it is a single operation, called without a           *)
(* transaction.  The list is as the program may have built it before:      *)
(* empty, or populated by single operations or by a transaction.           *)
(***************************************************************************)
EXTENDS SingleListOperator

CONSTANT Scenario    \* what to consider: the keys of the initial list, "by" whom
                     \* it was populated, and the jobs of each thread

VARIABLES jobs,      \* the jobs each thread still has to do, the current first
          initial,   \* history: the contents of the initial list
          hist,      \* history: the committed transactions and the single
                     \* operations that returned
          ended,     \* history: those of them whose call has returned
          since      \* history: "ended" when each thread's attempt began

historyVars == <<initial, hist, ended, since>>
vars == <<sharedVars, txn, commitVars, pc, frame, jobs, historyVars>>

Job(t) == jobs[t][1]
Results(t) == frame[t].results

\* What the current attempt has called so far, with the results.
Calls(t) == [i \in DOMAIN Results(t) |->
                [op |-> Job(t).body[i], result |-> Results(t)[i]]]

-----------------------------------------------------------------------------
(* Initial lists.  Single insertions leave singleton nodes of version 0 and  *)
(* do not touch their predecessors.  A transaction that inserts the keys in  *)
(* ascending order leaves write version 1 in every node it linked another    *)
(* node to, and version 0 in the last.                                       *)

Place(keys) == CHOOSE f \in [keys -> Node \ {Sentinel}] :
                  \A j, k \in keys : f[j] = f[k] => j = k

FirstAbove(keys, k) ==
    CHOOSE j \in keys : j > k /\ \A i \in keys : i > k => j <= i

NodeAbove(keys, k) ==
    IF \A j \in keys : j <= k THEN Null ELSE Place(keys)[FirstAbove(keys, k)]

NodeAtOrAbove(keys) ==
    IF keys = {} THEN Null ELSE Place(keys)[CHOOSE j \in keys : \A i \in keys : j <= i]

InitialList(keys, by) ==
    LET place == Place(keys)
        used == {place[k] : k \in keys}
        keyOf(n) == CHOOSE k \in keys : place[k] = n
        linked(n) == by = "transaction" /\ node[n].next # Null
    IN  /\ alloc = {Sentinel} \cup used
        /\ node = [n \in Node |->
                    CASE n = Sentinel -> [NewNode EXCEPT !.next = NodeAtOrAbove(keys)]
                      [] n \in used -> [NewNode EXCEPT !.key = keyOf(n),
                                                       !.next = NodeAbove(keys, keyOf(n))]
                      [] OTHER -> NewNode]
        /\ lock = [n \in Node |->
                    [NewWord EXCEPT !.version = IF linked(n) THEN 1 ELSE 0,
                                    !.singleton = (by = "singles" /\ n \in used)]]
        /\ index = [k \in Key |-> IF k \in keys THEN place[k] ELSE Null]
        /\ gvc = IF by = "transaction" /\ keys # {} THEN 1 ELSE 0
        /\ initial = [k \in Key |-> IF k \in keys THEN DefaultValue ELSE Null]

Init ==
    /\ \E s \in Scenario : InitialList(s.keys, s.by) /\ jobs = s.jobs
    /\ StorageInit
    /\ FrameInit
    /\ hist = <<>>
    /\ ended = {}
    /\ since = [t \in Thread |-> {}]

-----------------------------------------------------------------------------

\* TryDispatch calls TxnListTransaction::Begin.
Begin(t) ==
    /\ jobs[t] # <<>> /\ Job(t).call \in {"Dispatch", "TryDispatch"}
    /\ LocalTxnPrologue(t)
    /\ since' = [since EXCEPT ![t] = ended]
    /\ UNCHANGED <<frame, jobs, initial, hist, ended>>

\* The routine calls its next operation.
Execute(t) ==
    /\ pc[t] = "next"
    /\ Len(Results(t)) < Len(Job(t).body)
    /\ CallOperation(t, Job(t).body[Len(Results(t)) + 1])
    /\ UNCHANGED <<jobs, historyVars>>

\* The routine has returned: TxnListTransaction::Commit.
Commit(t) ==
    /\ pc[t] = "next"
    /\ Len(Results(t)) = Len(Job(t).body)
    /\ LockWriteSet(t)
    /\ UNCHANGED <<frame, jobs, historyVars>>

\* From here on the transaction cannot fail.
PassValidation(t) ==
    /\ IncrementWriteVersion(t)
    /\ hist' = Append(hist, [thread |-> t, calls |-> Calls(t), after |-> since[t]])
    /\ UNCHANGED <<frame, jobs, initial, ended, since>>

\* The epilogue is over and TryDispatch returns true.
Succeed(t) ==
    /\ LocalTxnCleanup(t)
    /\ frame' = [frame EXCEPT ![t] = EmptyFrame]
    /\ jobs' = [jobs EXCEPT ![t] = Tail(@)]
    /\ ended' = ended \cup {i \in DOMAIN hist : hist[i].thread = t}
    /\ since' = [since EXCEPT ![t] = {}]
    /\ UNCHANGED <<initial, hist>>

\* After a TransactionException Dispatch tries again and TryDispatch returns
\* false; any other exception is thrown on to the caller.
Fail(t) ==
    /\ Rollback(t)
    /\ frame' = [frame EXCEPT ![t] = EmptyFrame]
    /\ jobs' = IF pc[t] = "abort" /\ Job(t).call = "Dispatch"
               THEN jobs ELSE [jobs EXCEPT ![t] = Tail(@)]
    /\ since' = [since EXCEPT ![t] = {}]
    /\ UNCHANGED <<initial, hist, ended>>

-----------------------------------------------------------------------------
(* TxnList calls the operator for single operations while the thread has no  *)
(* active transaction.                                                       *)

SingleCall(t) ==
    /\ jobs[t] # <<>> /\ Job(t).call = "single"
    /\ CallSingle(t, Job(t).body[1])
    /\ since' = [since EXCEPT ![t] = ended]
    /\ UNCHANGED <<jobs, initial, hist, ended>>

SingleEnds(t) ==
    /\ Goto(t, "idle")
    /\ frame' = [frame EXCEPT ![t] = EmptyFrame]
    /\ jobs' = [jobs EXCEPT ![t] = Tail(@)]
    /\ since' = [since EXCEPT ![t] = {}]
    /\ UNCHANGED <<readOnly, initial>>

SingleReturn(t) ==
    /\ pc[t] = "singleReturn" /\ held[t] = {}
    /\ hist' = Append(hist, [thread |-> t, calls |-> Calls(t), after |-> since[t]])
    /\ ended' = ended \cup {Len(hist) + 1}
    /\ SingleEnds(t)

\* The exception leaves the operation, which has changed nothing.
SingleThrow(t) ==
    /\ pc[t] = "threw"
    /\ SingleEnds(t)
    /\ UNCHANGED <<hist, ended>>

-----------------------------------------------------------------------------

Step(t) ==
    \/ Begin(t) \/ Execute(t) \/ Commit(t) \/ PassValidation(t)
    \/ Succeed(t) \/ Fail(t)
    \/ SingleCall(t) \/ SingleReturn(t) \/ SingleThrow(t)
    \/ FindPrevious(t) /\ UNCHANGED <<jobs, historyVars>>
    \/ PredecessorVersion(t) /\ UNCHANGED <<jobs, historyVars>>
    \/ PredecessorDeleted(t) /\ UNCHANGED <<jobs, historyVars>>
    \/ SuccessorLocked(t) /\ UNCHANGED <<jobs, historyVars>>
    \/ SuccessorVersion(t) /\ UNCHANGED <<jobs, historyVars>>
    \/ SuccessorNext(t) /\ UNCHANGED <<jobs, historyVars>>
    \/ Contains(t) /\ UNCHANGED <<jobs, historyVars>>
    \/ Get(t) /\ UNCHANGED <<jobs, historyVars>>
    \/ RemoveNothing(t) /\ UNCHANGED <<jobs, historyVars>>
    \/ RemoveFound(t) /\ UNCHANGED <<jobs, historyVars>>
    \/ RemovePredecessor(t) /\ UNCHANGED <<jobs, historyVars>>
    \/ RemoveSuccessor(t) /\ UNCHANGED <<jobs, historyVars>>
    \/ InsertExisting(t) /\ UNCHANGED <<jobs, historyVars>>
    \/ InsertExistingDeleted(t) /\ UNCHANGED <<jobs, historyVars>>
    \/ InsertNew(t) /\ UNCHANGED <<jobs, historyVars>>
    \/ LockNode(t) /\ UNCHANGED <<frame, jobs, historyVars>>
    \/ ValidateReadSet(t) /\ UNCHANGED <<frame, jobs, historyVars>>
    \/ ValidateNode(t) /\ UNCHANGED <<frame, jobs, historyVars>>
    \/ ValidateVersion(t) /\ UNCHANGED <<frame, jobs, historyVars>>
    \/ ValidateEqual(t) /\ UNCHANGED <<frame, jobs, historyVars>>
    \/ ValidateSingleton(t) /\ UNCHANGED <<frame, jobs, historyVars>>
    \/ ValidateRelocked(t) /\ UNCHANGED <<frame, jobs, historyVars>>
    \/ AdvanceClock(t) /\ UNCHANGED <<frame, jobs, historyVars>>
    \/ ClearSingletonLoad(t) /\ UNCHANGED <<frame, jobs, historyVars>>
    \/ ClearSingletonStore(t) /\ UNCHANGED <<frame, jobs, historyVars>>
    \/ WriteNext(t) /\ UNCHANGED <<frame, jobs, historyVars>>
    \/ WriteValue(t) /\ UNCHANGED <<frame, jobs, historyVars>>
    \/ WriteDeleted(t) /\ UNCHANGED <<frame, jobs, historyVars>>
    \/ WriteVersion(t) /\ UNCHANGED <<frame, jobs, historyVars>>
    \/ WriteSingleton(t) /\ UNCHANGED <<frame, jobs, historyVars>>
    \/ UpdateWriteSetDone(t) /\ UNCHANGED <<frame, jobs, historyVars>>
    \/ Release(t) /\ UNCHANGED <<frame, jobs, historyVars>>
    \/ LazyUpdateIndexAdd(t) /\ UNCHANGED <<frame, jobs, historyVars>>
    \/ LazyUpdateIndexRemove(t) /\ UNCHANGED <<frame, jobs, historyVars>>
    \/ SingleReadVersion(t) /\ UNCHANGED <<jobs, historyVars>>
    \/ SingleFindPrevious(t) /\ UNCHANGED <<jobs, historyVars>>
    \/ SinglePredecessor(t) /\ UNCHANGED <<jobs, historyVars>>
    \/ SingleUnlocked(t) /\ UNCHANGED <<jobs, historyVars>>
    \/ SingleHasNext(t) /\ UNCHANGED <<jobs, historyVars>>
    \/ SingleNextLocked(t) /\ UNCHANGED <<jobs, historyVars>>
    \/ SingleAtEnd(t) /\ UNCHANGED <<jobs, historyVars>>
    \/ SingleNextKey(t) /\ UNCHANGED <<jobs, historyVars>>
    \/ SingleFound(t) /\ UNCHANGED <<jobs, historyVars>>
    \/ SingleAdvance(t) /\ UNCHANGED <<jobs, historyVars>>
    \/ SingleContains(t) /\ UNCHANGED <<jobs, historyVars>>
    \/ SingleGet(t) /\ UNCHANGED <<jobs, historyVars>>
    \/ SingleRemoveNothing(t) /\ UNCHANGED <<jobs, historyVars>>
    \/ SingleLockPredecessor(t) /\ UNCHANGED <<jobs, historyVars>>
    \/ SingleNotDeleted(t) /\ UNCHANGED <<jobs, historyVars>>
    \/ SingleStillNext(t) /\ UNCHANGED <<jobs, historyVars>>
    \/ SingleLockSuccessor(t) /\ UNCHANGED <<jobs, historyVars>>
    \/ SingleLockExisting(t) /\ UNCHANGED <<jobs, historyVars>>
    \/ SingleUnlink(t) /\ UNCHANGED <<jobs, historyVars>>
    \/ SingleOverwrite(t) /\ UNCHANGED <<jobs, historyVars>>
    \/ SingleStore(t) /\ UNCHANGED <<jobs, historyVars>>
    \/ SingleStored(t) /\ UNCHANGED <<jobs, historyVars>>
    \/ SingleLink(t) /\ UNCHANGED <<jobs, historyVars>>
    \/ SingleIndexAdd(t) /\ UNCHANGED <<jobs, historyVars>>
    \/ SingleIndexCheck(t) /\ UNCHANGED <<jobs, historyVars>>
    \/ SingleRetry(t) /\ UNCHANGED <<jobs, historyVars>>
    \/ SingleRelease(t) /\ UNCHANGED <<jobs, historyVars>>

Done == \A t \in Thread : pc[t] = "idle" /\ jobs[t] = <<>>

\* Every thread has done its jobs.
Finished == Done /\ UNCHANGED vars

Next == (\E t \in Thread : Step(t)) \/ Finished

Spec == Init /\ [][Next]_vars

\* The operating system schedules every thread that can take a step.
FairSpec == Spec /\ \A t \in Thread : WF_vars(Step(t))
=============================================================================
