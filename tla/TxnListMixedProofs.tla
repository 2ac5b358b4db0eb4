-------------------------- MODULE TxnListMixedProofs ---------------------------
(***************************************************************************)
(* Any program keeps the types, the nodes that are still private and the   *)
(* locks in order: threads that run transactions and call operations       *)
(* outside transactions, in any order and mixture (AnyPrograms).  The      *)
(* invariant is MixedInv of TxnListMixed.                                  *)
(*                                                                         *)
(* A step goes well (Goes) when it keeps MixedInv, and when what it does   *)
(* to lock words goes with what it does to Lockers (LockStep); that one    *)
(* thread keeps a Locker for each lock that is taken follows from the      *)
(* second alone.  First come the steps of SingleListOperator, then those   *)
(* of TxnListOperator, the commit and the rollback in TxnStorage and the   *)
(* ends of an attempt, once more and beside single operations.             *)
(***************************************************************************)
EXTENDS TxnListProofs, TxnListMixed

-----------------------------------------------------------------------------
(* Programs that also call operations outside transactions: the steps of one *)
(* thread, and what they leave to the others.                                *)

\* The others keep what is theirs.
Others(t) ==
    \A u \in Thread \ {t} :
        /\ pc'[u] = pc[u] /\ txn'[u] = txn[u] /\ frame'[u] = frame[u] /\ jobs'[u] = jobs[u]
        /\ held'[u] = held[u] /\ todo'[u] = todo[u] /\ cur'[u] = cur[u]

\* What the step does to locks and Lockers: nothing, but for nodes that come or go
\* and that nobody holds; or a Locker is created, or destroyed.
LockStep(t) ==
    \/ /\ UNCHANGED held
       /\ \A n \in Node : \/ lock'[n].locked = lock[n].locked
                          \/ ~lock'[n].locked /\ \A u \in Thread : n \notin held[u]
    \/ \E n \in Node : /\ ~lock[n].locked /\ lock' = [lock EXCEPT ![n] = Acquired(@)]
                       /\ held' = [held EXCEPT ![t] = @ \cup {n}]
    \/ \E n \in held[t] : /\ lock' = [lock EXCEPT ![n] = Released(@)]
                          /\ held' = [held EXCEPT ![t] = @ \ {n}]

\* The step of thread t keeps the invariant, and locks and Lockers together.
Goes(t) == MixedInv' /\ LockStep(t)

\* What the invariant says of one thread: its storage, its locals, its Lockers and
\* the nodes that it refers to.
LEMMA MixedUse ==
  ASSUME MixedInv, NEW t \in Thread
  PROVE  /\ TxnTyped(txn[t]) /\ Locals(frame[t]) /\ MixedFits(pc[t], frame[t]) /\ Lockers(t)
         /\ held[t] \subseteq Node /\ todo[t] \subseteq Node /\ cur[t] \in Node /\ saw[t] \in Word
         /\ pc[t] \notin {"idle", "crashed"} => jobs[t] # <<>>
         /\ pc[t] \in Outside \cup {"idle"} => txn[t] = EmptyTxn
         /\ Refs(t) \subseteq Reach(t) /\ Refs(t) \subseteq alloc \cup {Null}
  <1>1. MixedThread(t) BY DEF MixedInv
  <1> QED BY <1>1 DEF MixedInv, MixedThread, MixedFits, Threads, References, Reach

\* A step that leaves the flag of every lock word as it is, and every Locker alone.
LEMMA LocksSame ==
  ASSUME NEW t \in Thread, UNCHANGED held, \A n \in Node : lock'[n].locked = lock[n].locked
  PROVE  LockStep(t)
  BY DEF LockStep

\* What a thread can get hold of exists, and no other thread hides it.
LEMMA MixedReach ==
  ASSUME MixedInv, NEW t \in Thread
  PROVE  /\ Reach(t) \subseteq alloc \cup {Null}
         /\ \A u \in Thread \ {t} : Reach(t) \cap Hidden(u) = {}
         /\ \A u \in Thread : Null \notin Hidden(u) /\ Sentinel \notin Hidden(u)
         /\ \A u \in Thread : Hidden(u) \subseteq txn[u].fresh
  <1>1. Reach(t) \subseteq alloc \cup {Null}
     BY NodeAssumption DEF Reach, References, MixedInv, Memory, Link
  <1>2. ASSUME NEW u \in Thread \ {t}, NEW n \in Refs(t) \cap Node PROVE node[n].next \notin Hidden(u)
    <2>1. n \notin Hidden(u) BY <1>2 DEF References, MixedInv
    <2> QED BY <1>2, <2>1 DEF References, Hidden, MixedInv
  <1>3. ASSUME NEW u \in Thread PROVE Null \notin Hidden(u) /\ Sentinel \notin Hidden(u)
    <2>1. alloc \subseteq Node BY DEF MixedInv, Memory
    <2> QED BY <2>1, NodeAssumption DEF References, Hidden, MixedInv
  <1>4. \A u \in Thread : Hidden(u) \subseteq txn[u].fresh BY DEF Hidden
  <1> QED BY <1>1, <1>2, <1>3, <1>4 DEF Reach, References, MixedInv

\* The parts of the invariant after a step of thread t.
LEMMA MixedStep ==
  ASSUME MixedInv, NEW t \in Thread, Memory', Threads', Others(t), MixedThread(t)', References'
  PROVE  MixedInv'
  <1>1. ASSUME NEW u \in Thread \ {t} PROVE MixedThread(u)'
    <2>1. MixedThread(u) BY DEF MixedInv
    <2> QED BY <2>1 DEF Others, MixedThread, Lockers
  <1> QED BY <1>1 DEF MixedInv

\* A step that creates and destroys no node, and links and enters only what the thread
\* can get hold of, once it hides nothing.
LEMMA LinkStep ==
  ASSUME MixedInv, NEW t \in Thread, Memory', Threads', Others(t), MixedThread(t)',
         alloc' = alloc, txn'[t].fresh = txn[t].fresh, Hidden(t)' \subseteq Hidden(t),
         Refs(t)' \subseteq Reach(t),
         \A n \in Node : \/ node'[n].next = node[n].next
                         \/ node'[n].next \in Reach(t) /\ Hidden(t) = {},
         \A k \in Key : \/ index'[k] = index[k]
                        \/ index'[k] \in Reach(t) /\ Hidden(t) = {}
  PROVE  MixedInv'
  <1>1. \A u \in Thread : txn'[u].fresh = txn[u].fresh BY DEF Others
  <1>2. \A u \in Thread \ {t} : Hidden(u)' = Hidden(u) /\ Refs(u)' = Refs(u)
    BY DEF Others, Hidden, Refs
  <1>3. /\ Reach(t) \subseteq alloc \cup {Null}
        /\ \A u \in Thread \ {t} : Reach(t) \cap Hidden(u) = {}
    BY MixedReach
  <1>4. \A u \in Thread : \A v \in Thread \ {u} : Refs(v)' \cap Hidden(u)' = {}
    BY <1>2, <1>3 DEF References, MixedInv
  <1>5. /\ \A n \in Node : node'[n].next \in alloc \cup {Null}
        /\ \A k \in Key : index'[k] \in alloc \cup {Null}
    BY <1>3 DEF References, MixedInv
  <1>6. \A u \in Thread : /\ \A n \in Node \ txn[u].fresh : node'[n].next \notin Hidden(u)'
                          /\ \A k \in Key : index'[k] \notin Hidden(u)'
    BY <1>2, <1>3 DEF References, MixedInv
  <1>7. \A u \in Thread : Refs(u)' \subseteq alloc \cup {Null}
    BY <1>2, <1>3 DEF References, MixedInv
  <1>8. References' BY <1>1, <1>4, <1>5, <1>6, <1>7 DEF References, MixedInv
  <1> QED BY <1>8, MixedStep

\* Shared memory stays as it is.
LEMMA LocalStep ==
  ASSUME MixedInv, NEW t \in Thread, UNCHANGED sharedVars, Threads', Others(t), MixedThread(t)',
         txn'[t].fresh = txn[t].fresh, Hidden(t)' \subseteq Hidden(t), Refs(t)' \subseteq Reach(t)
  PROVE  MixedInv'
  <1>1. Memory' BY DEF MixedInv, Memory, sharedVars
  <1> QED BY <1>1, LinkStep DEF sharedVars

\* Thread t goes on at a label.
LEMMA Going ==
  ASSUME MixedInv, NEW t \in Thread, NEW label \in Label, Goto(t, label)
  PROVE  /\ pc' \in [Thread -> Label] /\ pc'[t] = label /\ \A u \in Thread \ {t} : pc'[u] = pc[u]
  BY DEF MixedInv, Threads, Goto

\* Nothing changes but where thread t is and its locals.
LEMMA FrameStep ==
  ASSUME MixedInv, NEW t \in Thread, UNCHANGED <<sharedVars, commitVars, txn, jobs>>,
         pc' \in [Thread -> Label], DOMAIN frame' = Thread,
         \A u \in Thread \ {t} : pc'[u] = pc[u] /\ frame'[u] = frame[u],
         jobs[t] # <<>>, pc'[t] \notin {"idle", "crashed"},
         MixedFits(pc'[t], frame'[t]), Lockers(t)',
         pc'[t] \in Outside => pc[t] \in Outside \cup {"idle"},
         Hidden(t)' \subseteq Hidden(t),
         {frame'[t].pred, frame'[t].succ, frame'[t].at, frame'[t].link} \subseteq Reach(t)
  PROVE  Goes(t)
  <1>1. Threads' /\ Others(t) BY DEF MixedInv, Threads, Others, commitVars
  <1>2. MixedThread(t)' BY MixedUse DEF MixedThread, MixedInv
  <1>3. Refs(t)' \subseteq Reach(t) BY MixedUse DEF Refs, commitVars
  <1>4. MixedInv' BY <1>1, <1>2, <1>3, LocalStep
  <1> QED BY <1>4, LocksSame DEF Goes, sharedVars, commitVars

\* The program stops.
LEMMA CrashStep ==
  ASSUME MixedInv, NEW t \in Thread, Crash, UNCHANGED <<sharedVars, txn, commitVars, frame, jobs>>
  PROVE  Goes(t)
  <1>1. Threads' BY DEF MixedInv, Threads, Crash, Label, commitVars
  <1>2. \A u \in Thread : pc'[u] = "crashed" BY DEF Crash
  <1>3. ASSUME NEW u \in Thread PROVE MixedThread(u)'
    <2>1. MixedThread(u) BY DEF MixedInv
    <2>2. Locals(frame[u]) /\ (frame[u].removing => frame[u].succ \in Node)
      BY <2>1 DEF MixedThread, MixedFits
    <2>3. MixedFits("crashed", frame[u])
      BY <2>2 DEF MixedFits, Operating, Placed, AtNode, AtFound, Outside, Looking, Changing,
                  Unplaced, Rechecking, ToSuccessor, Linking
    <2> QED BY <1>2, <2>1, <2>3
            DEF MixedThread, Lockers, Validating, Committing, Outside, Looking, Changing,
                Unplaced, Rechecking, ToSuccessor, Linking
  <1>4. Memory' BY DEF MixedInv, Memory, sharedVars
  <1>5. \A u \in Thread : Hidden(u)' = {} /\ Refs(u)' = Refs(u)
    BY <1>2 DEF Hidden, Refs, commitVars
  <1>6. References' BY <1>5 DEF MixedInv, References, sharedVars
  <1> QED BY <1>1, <1>3, <1>4, <1>6, LocksSame DEF MixedInv, Goes, sharedVars, commitVars

-----------------------------------------------------------------------------
(* Operations outside transactions: the steps that only look. *)

\* Where a thread outside a transaction is when it keeps no Lockers.
LEMMA LookingIs ==
  ASSUME NEW label
  PROVE  /\ label \in Looking => label \notin Changing /\ label \in Outside
         /\ label \in Outside => /\ label \notin Validating \cup Committing \cup Holding \cup Clearing
                               /\ label \notin {"lock", "idle", "crashed", "finish"}
                               /\ label \in Label /\ label \notin Operating
  BY DEF Looking, Unplaced, Changing, Rechecking, ToSuccessor, Linking, Outside, Validating,
         Committing, Holding, Clearing, Label, Operating, Placed

\* A step of an operation outside a transaction that others cannot see.
LEMMA OutsideStep ==
  ASSUME MixedInv, NEW t \in Thread, UNCHANGED <<readOnly, jobs>>, jobs[t] # <<>>,
         pc[t] \in Outside \cup {"idle"}, NEW label \in Outside, Goto(t, label),
         DOMAIN frame' = Thread, \A u \in Thread \ {t} : frame'[u] = frame[u],
         MixedFits(label, frame'[t]),
         label \in Looking => held[t] = {},
         label \in Changing => held[t] \subseteq {frame'[t].pred, frame'[t].succ},
         {frame'[t].pred, frame'[t].succ, frame'[t].at, frame'[t].link} \subseteq Reach(t)
  PROVE  Goes(t)
  <1>1. /\ pc' \in [Thread -> Label] /\ pc'[t] = label
        /\ \A u \in Thread \ {t} : pc'[u] = pc[u]
    BY LookingIs, Going
  <1>2. UNCHANGED <<sharedVars, commitVars, txn>> BY DEF readOnly
  <1>3. Lockers(t)' BY <1>1, <1>2, LookingIs DEF Lockers, Outside, commitVars
  <1>4. Hidden(t)' \subseteq Hidden(t)
    <2>1. txn[t] = EmptyTxn BY MixedUse
    <2> QED BY <1>2, <2>1, EmptyTxnOK DEF Hidden
  <1> QED BY <1>1, <1>2, <1>3, <1>4, LookingIs, FrameStep

\* The locals of a thread that is in an operation outside a transaction.
LEMMA OutsideUse ==
  ASSUME MixedInv, NEW t \in Thread, pc[t] \in Outside
  PROVE  /\ MixedFits(pc[t], frame[t]) /\ Locals(frame[t]) /\ frame[t].op \in Operation
         /\ txn[t] = EmptyTxn /\ Hidden(t) = {} /\ jobs[t] # <<>>
         /\ pc[t] \notin Unplaced => frame[t].pred \in Node
         /\ pc[t] \in Looking => held[t] = {}
         /\ pc[t] \in Changing => held[t] \subseteq {frame[t].pred, frame[t].succ}
         /\ {frame[t].pred, frame[t].succ, frame[t].at, frame[t].link} \subseteq Reach(t)
  <1>1. txn[t] = EmptyTxn /\ Hidden(t) = {} BY MixedUse, EmptyTxnOK DEF Hidden
  <1>2. pc[t] \in Looking => held[t] = {}
    BY MixedUse, LookingIs DEF Lockers
  <1>3. pc[t] \in Changing => held[t] \subseteq {frame[t].pred, frame[t].succ}
    BY MixedUse DEF Lockers
  <1> QED BY <1>1, <1>2, <1>3, MixedUse, LookingIs DEF MixedFits, Refs

\* The steps that only move on.
LEMMA MovesOn ==
  ASSUME MixedInv, NEW t \in Thread, UNCHANGED <<jobs, historyVars>>,
         \/ SinglePredecessor(t) \/ SingleUnlocked(t) \/ SingleHasNext(t) \/ SingleNextLocked(t)
         \/ SingleAtEnd(t) \/ SingleNextKey(t)
  PROVE  Goes(t)
  <1>1. /\ pc[t] \in Looking \ Unplaced /\ UNCHANGED <<readOnly, frame>>
        /\ Crash \/ \E label \in Looking : Goto(t, label)
    BY DEF SinglePredecessor, SingleUnlocked, SingleHasNext, SingleNextLocked, SingleAtEnd,
           SingleNextKey, Looking, Unplaced
  <1>2. CASE Crash BY <1>1, <1>2, CrashStep DEF readOnly
  <1>3. ASSUME NEW label \in Looking, Goto(t, label) PROVE Goes(t)
    <2>1. pc[t] \in Outside /\ label \in Outside BY <1>1 DEF Outside
    <2>2. MixedFits(label, frame[t])
      BY <1>1, <2>1, OutsideUse
         DEF MixedFits, Operating, Placed, AtNode, AtFound, Outside, Looking, Unplaced,
             Rechecking, ToSuccessor, Linking
    <2>3. DOMAIN frame = Thread BY DEF MixedInv, Threads
    <2> QED BY <1>1, <1>3, <2>1, <2>2, <2>3, OutsideUse, OutsideStep, LookingIs
  <1> QED BY <1>1, <1>2, <1>3

\* The entry before a key, or the sentinel.
LEMMA EntryBefore ==
  ASSUME MixedInv, NEW t \in Thread, NEW k \in Candidate
  PROVE  GetPrevious(k) \in Node /\ GetPrevious(k) \in Reach(t)
  <1> DEFINE below == {j \in Key : index[j] # Null /\ j < k}
  <1>1. CASE below = {} BY <1>1, NodeAssumption DEF GetPrevious, Reach
  <1>2. CASE below # {}
    <2>1. PICK j \in below : \A i \in below : i <= j BY <1>2, KeyOrderAssumption
    <2>2. (CHOOSE i \in below : \A h \in below : h <= i) \in below BY <2>1
    <2> QED BY <1>2, <2>2 DEF GetPrevious, MixedInv, Memory, Link, Reach
  <1> QED BY <1>1, <1>2

\* The operation is called, or reads the clock.
LEMMA SingleCallStep ==
  ASSUME MixedInv, NEW t \in Thread, SingleCall(t)
  PROVE  Goes(t)
  <1> DEFINE op == Job(t).body[1]
  <1>1. pc[t] = "idle" /\ CallSingle(t, op) /\ UNCHANGED <<readOnly, jobs>> /\ jobs[t] # <<>>
    BY DEF SingleCall, CallSingle
  <1>2. op \in Operation
    <2>1. Job(t) \in AnyJob BY <1>1, NonEmpty DEF MixedInv, Threads, Job
    <2>2. Job(t).call = "single" BY DEF SingleCall
    <2>3. PICK o \in Operation : Job(t).body = <<o>> BY <2>1, <2>2 DEF AnyJob
    <2> QED BY <2>3
  <1>3. frame[t] = EmptyFrame /\ held[t] = {}
    BY <1>1, MixedUse DEF MixedInv, MixedThread, Lockers, Holding, Clearing, Changing, Rechecking,
                          ToSuccessor, Linking, Validating, Committing
  <1>4. PICK label \in Unplaced : Goto(t, label) BY <1>1 DEF CallSingle, Unplaced
  <1>5. frame'[t] = [EmptyFrame EXCEPT !.op = op] /\ DOMAIN frame' = Thread
        /\ \A u \in Thread \ {t} : frame'[u] = frame[u]
    BY <1>1, <1>3 DEF CallSingle, MixedInv, Threads
  <1>6. label \in Looking BY <1>4 DEF Looking
  <1>7. MixedFits(label, frame'[t])
    <2>1. Locals(EmptyFrame) BY MixedUse, <1>3
    <2>2. Locals(frame'[t]) BY <2>1, <1>2, <1>5 DEF Locals, Called
    <2> QED BY <1>2, <1>4, <1>5, <2>2
            DEF EmptyFrame, MixedFits, Operating, Placed, AtNode, AtFound, Outside, Looking, Unplaced,
                Rechecking, ToSuccessor, Linking
  <1>8. {frame'[t].pred, frame'[t].succ, frame'[t].at, frame'[t].link} \subseteq Reach(t)
    BY <1>5 DEF EmptyFrame, Reach
  <1> QED BY <1>1, <1>3, <1>4, <1>5, <1>6, <1>7, <1>8, OutsideStep, LookingIs

\* The locals of a thread outside a transaction, and what an assignment does to them.
LEMMA Assigned ==
  ASSUME MixedInv, NEW t \in Thread, NEW f, frame' = [frame EXCEPT ![t] = f]
  PROVE  frame'[t] = f /\ DOMAIN frame' = Thread /\ \A u \in Thread \ {t} : frame'[u] = frame[u]
  BY DEF MixedInv, Threads

\* The read of the global version clock with which a single operation starts.
LEMMA SingleReadVersionStep ==
  ASSUME MixedInv, NEW t \in Thread, SingleReadVersion(t), UNCHANGED <<jobs, historyVars>>
  PROVE  Goes(t)
  <1>1. /\ pc[t] = "singleVersion" /\ UNCHANGED readOnly /\ Goto(t, "singleFind")
        /\ frame' = [frame EXCEPT ![t] = [@ EXCEPT !.readVersion = gvc]]
    BY DEF SingleReadVersion
  <1>2. pc[t] \in Outside /\ pc[t] \in Looking /\ "singleFind" \in Looking
    BY <1>1 DEF Outside, Looking, Unplaced
  <1>3. /\ frame'[t] = [frame[t] EXCEPT !.readVersion = gvc] /\ DOMAIN frame' = Thread
        /\ \A u \in Thread \ {t} : frame'[u] = frame[u]
    BY <1>1, Assigned
  <1>4. MixedFits("singleFind", frame'[t])
    <2>1. gvc \in Nat BY DEF MixedInv, Memory
    <2> QED BY <1>1, <1>2, <1>3, <2>1, OutsideUse
            DEF Locals, MixedFits, Operating, Placed, AtNode, AtFound, Outside, Looking, Unplaced,
                Rechecking, ToSuccessor, Linking
  <1>5. {frame'[t].pred, frame'[t].succ, frame'[t].at, frame'[t].link} \subseteq Reach(t)
    BY <1>2, <1>3, OutsideUse DEF Locals
  <1> QED BY <1>1, <1>2, <1>3, <1>4, <1>5, OutsideUse, OutsideStep, LookingIs

\* The search in the index for the node where the traverse starts.
LEMMA SingleFindPreviousStep ==
  ASSUME MixedInv, NEW t \in Thread, SingleFindPrevious(t), UNCHANGED <<jobs, historyVars>>
  PROVE  Goes(t)
  <1> DEFINE n == GetPrevious(frame[t].op.key)
  <1>1. /\ pc[t] = "singleFind" /\ UNCHANGED readOnly /\ Goto(t, "singlePredecessor")
        /\ frame' = [frame EXCEPT ![t] = [@ EXCEPT !.pred = n]]
    BY DEF SingleFindPrevious
  <1>2. pc[t] \in Outside /\ pc[t] \in Looking /\ "singlePredecessor" \in Looking
    BY <1>1 DEF Outside, Looking, Unplaced
  <1>3. /\ frame'[t] = [frame[t] EXCEPT !.pred = n] /\ DOMAIN frame' = Thread
        /\ \A u \in Thread \ {t} : frame'[u] = frame[u]
    BY <1>1, Assigned
  <1>4. n \in Node /\ n \in Reach(t)
    BY <1>2, OutsideUse, EntryBefore DEF Operation, Candidate
  <1> HIDE DEF n
  <1>5. MixedFits("singlePredecessor", frame'[t])
    BY <1>1, <1>2, <1>3, <1>4, OutsideUse
       DEF Locals, Link, MixedFits, Operating, Placed, AtNode, AtFound, Outside, Looking, Unplaced,
           Rechecking, ToSuccessor, Linking
  <1>6. {frame'[t].pred, frame'[t].succ, frame'[t].at, frame'[t].link} \subseteq Reach(t)
    BY <1>2, <1>3, <1>4, OutsideUse DEF Locals
  <1> QED BY <1>1, <1>2, <1>3, <1>5, <1>6, OutsideUse, OutsideStep, LookingIs

\* What a traversal reads through its reference.
LEMMA NextOf ==
  ASSUME MixedInv, NEW t \in Thread, pc[t] \in Outside \ Unplaced
  PROVE  /\ Pred(t) \in Node \cap Refs(t)
         /\ node[Pred(t)].next \in Link /\ node[Pred(t)].next \in Reach(t)
  <1>1. Pred(t) \in Node /\ Pred(t) \in Refs(t) BY OutsideUse DEF Pred, Refs
  <1> QED BY <1>1 DEF MixedInv, Memory, NodeType, Reach

\* The place is found: the operation goes on with its locks, or answers at once.
LEMMA SingleFoundStep ==
  ASSUME MixedInv, NEW t \in Thread, SingleFound(t), UNCHANGED <<jobs, historyVars>>
  PROVE  Goes(t)
  <1> DEFINE n == node[Pred(t)].next
  <1>1. /\ pc[t] = "singleFound" /\ UNCHANGED readOnly /\ Goto(t, "singleApply")
        /\ frame' = [frame EXCEPT ![t] = [@ EXCEPT !.succ = n]]
    BY DEF SingleFound
  <1>2. /\ pc[t] \in Outside \ Unplaced /\ pc[t] \in Looking /\ pc[t] \notin Unplaced
        /\ "singleApply" \in Looking
    BY <1>1 DEF Outside, Looking, Unplaced
  <1>3. /\ frame'[t] = [frame[t] EXCEPT !.succ = n] /\ DOMAIN frame' = Thread
        /\ \A u \in Thread \ {t} : frame'[u] = frame[u]
    BY <1>1, Assigned
  <1>4. n \in Link /\ n \in Reach(t) BY <1>2, NextOf
  <1> HIDE DEF n
  <1>5. MixedFits("singleApply", frame'[t])
    BY <1>1, <1>2, <1>3, <1>4, OutsideUse
       DEF Locals, MixedFits, Operating, Placed, AtNode, AtFound, Outside, Looking, Unplaced,
           Rechecking, ToSuccessor, Linking
  <1>6. {frame'[t].pred, frame'[t].succ, frame'[t].at, frame'[t].link} \subseteq Reach(t)
    BY <1>2, <1>3, <1>4, OutsideUse DEF Locals
  <1> QED BY <1>1, <1>2, <1>3, <1>5, <1>6, OutsideUse, OutsideStep, LookingIs

\* The traverse goes on to the next node.
LEMMA SingleAdvanceStep ==
  ASSUME MixedInv, NEW t \in Thread, SingleAdvance(t), UNCHANGED <<jobs, historyVars>>
  PROVE  Goes(t)
  <1> DEFINE n == node[Pred(t)].next
  <1>1. /\ pc[t] = "singleAdvance" /\ UNCHANGED readOnly
        /\ \/ Crash /\ UNCHANGED frame
           \/ /\ n # Null /\ Goto(t, "singleUnlocked")
              /\ frame' = [frame EXCEPT ![t] = [@ EXCEPT !.pred = n]]
    BY DEF SingleAdvance
  <1>2. /\ pc[t] \in Outside \ Unplaced /\ pc[t] \in Looking /\ pc[t] \notin Unplaced
        /\ "singleUnlocked" \in Looking
    BY <1>1 DEF Outside, Looking, Unplaced
  <1>3. CASE Crash /\ UNCHANGED frame BY <1>1, <1>3, CrashStep DEF readOnly
  <1>4. CASE /\ n # Null /\ Goto(t, "singleUnlocked")
             /\ frame' = [frame EXCEPT ![t] = [@ EXCEPT !.pred = n]]
    <2>1. /\ frame'[t] = [frame[t] EXCEPT !.pred = n] /\ DOMAIN frame' = Thread
          /\ \A u \in Thread \ {t} : frame'[u] = frame[u]
      BY <1>4, Assigned
    <2>2. n \in Node /\ n \in Reach(t) BY <1>2, <1>4, NextOf DEF Link
    <2> HIDE DEF n
    <2>3. MixedFits("singleUnlocked", frame'[t])
      BY <1>1, <1>2, <2>1, <2>2, OutsideUse
         DEF Locals, Link, MixedFits, Operating, Placed, AtNode, AtFound, Outside, Looking, Unplaced,
             Rechecking, ToSuccessor, Linking
    <2>4. {frame'[t].pred, frame'[t].succ, frame'[t].at, frame'[t].link} \subseteq Reach(t)
      BY <1>2, <2>1, <2>2, OutsideUse DEF Locals
    <2> QED BY <1>1, <1>2, <1>4, <2>1, <2>3, <2>4, OutsideUse, OutsideStep, LookingIs
  <1> QED BY <1>1, <1>3, <1>4

\* Operations that only return a result.
LEMMA SingleAnswerStep ==
  ASSUME MixedInv, NEW t \in Thread, UNCHANGED <<jobs, historyVars>>,
         SingleContains(t) \/ SingleGet(t) \/ SingleRemoveNothing(t)
  PROVE  Goes(t)
  <1>1. PICK r : Respond(t, r) BY DEF SingleContains, SingleGet, SingleRemoveNothing
  <1>2. /\ pc[t] = "singleApply" /\ UNCHANGED readOnly /\ Goto(t, "singleReturn")
        /\ frame' = [frame EXCEPT ![t] = [@ EXCEPT !.results = <<r>>]]
    BY <1>1 DEF SingleContains, SingleGet, SingleRemoveNothing, Respond
  <1>3. /\ pc[t] \in Looking /\ pc[t] \in Outside /\ pc[t] \notin Unplaced
        /\ "singleReturn" \in Outside /\ "singleReturn" \notin Looking
    BY <1>2 DEF Outside, Looking, Unplaced, Changing, Rechecking, ToSuccessor, Linking
  <1>4. /\ frame'[t] = [frame[t] EXCEPT !.results = <<r>>] /\ DOMAIN frame' = Thread
        /\ \A u \in Thread \ {t} : frame'[u] = frame[u]
    BY <1>2, Assigned
  <1>5. MixedFits("singleReturn", frame'[t])
    <2>1. Locals(frame'[t])
      <3>1. IsSeq(<<r>>) BY DEF IsSeq
      <3> QED BY <1>3, <1>4, <3>1, OutsideUse DEF Locals
    <2>2. /\ frame'[t].op \in Operation /\ ~frame'[t].removing /\ frame'[t].pred \in Node
      BY <1>3, <1>4, OutsideUse DEF Locals, MixedFits
    <2> QED BY <2>1, <2>2
            DEF MixedFits, Operating, Placed, AtNode, AtFound, Outside, Rechecking, ToSuccessor, Linking
  <1>6. {frame'[t].pred, frame'[t].succ, frame'[t].at, frame'[t].link} \subseteq Reach(t)
    BY <1>3, <1>4, OutsideUse DEF Locals
  <1> QED BY <1>2, <1>3, <1>4, <1>5, <1>6, OutsideUse, OutsideStep, LookingIs

\* The checks under the lock, and the start of another attempt.
LEMMA SingleCheckStep ==
  ASSUME MixedInv, NEW t \in Thread, UNCHANGED <<jobs, historyVars>>,
         SingleNotDeleted(t) \/ SingleStillNext(t) \/ SingleRetry(t)
  PROVE  Goes(t)
  <1>1. UNCHANGED <<readOnly, frame>> /\ DOMAIN frame = Thread
    BY DEF SingleNotDeleted, SingleStillNext, SingleRetry, MixedInv, Threads
  <1>2. pc[t] \in Changing /\ pc[t] \in Outside
    BY DEF SingleNotDeleted, SingleStillNext, SingleRetry, Outside, Changing, Rechecking
  <1>3. CASE SingleRetry(t)
    <2>1. /\ Goto(t, "singleVersion") /\ held[t] = {}
          /\ "singleVersion" \in Outside /\ "singleVersion" \in Looking
      BY <1>3 DEF SingleRetry, Outside, Looking, Unplaced
    <2>2. MixedFits("singleVersion", frame[t])
      BY <1>2, OutsideUse
         DEF MixedFits, Operating, Placed, AtNode, AtFound, Outside, Unplaced, Rechecking,
             ToSuccessor, Linking
    <2> QED BY <1>1, <1>2, <2>1, <2>2, OutsideUse, OutsideStep, LookingIs
  <1>4. CASE SingleNotDeleted(t) \/ SingleStillNext(t)
    <2>1. \E label \in {"singleRetry", "singleStillNext", "singleLockSuccessor", "singleLink"} :
            /\ Goto(t, label)
            /\ label = "singleStillNext" => pc[t] = "singleNotDeleted"
            /\ label = "singleLockSuccessor" => pc[t] = "singleStillNext" /\ Kind(t) = "Remove"
      BY <1>4 DEF SingleNotDeleted, SingleStillNext
    <2>2. PICK label \in {"singleRetry", "singleStillNext", "singleLockSuccessor", "singleLink"} :
            /\ Goto(t, label)
            /\ label = "singleStillNext" => pc[t] = "singleNotDeleted"
            /\ label = "singleLockSuccessor" => pc[t] = "singleStillNext" /\ Kind(t) = "Remove"
      BY <2>1
    <2>3. label \in Changing /\ label \in Outside /\ label \notin Looking
      BY DEF Outside, Changing, Rechecking, ToSuccessor, Looking, Unplaced
    <2>4. MixedFits(label, frame[t])
      <3>1. pc[t] \notin Unplaced /\ pc[t] \in Rechecking
        BY <1>4 DEF SingleNotDeleted, SingleStillNext, Unplaced, Rechecking
      <3>2. Kind(t) = "Remove" => frame[t].succ \in Node
        BY <1>2, <3>1, OutsideUse DEF MixedFits, Kind
      <3> QED BY <1>2, <2>2, <2>3, <3>1, <3>2, OutsideUse
              DEF MixedFits, Operating, Placed, AtNode, AtFound, Rechecking, ToSuccessor, Linking, Kind
    <2> QED BY <1>1, <1>2, <2>2, <2>3, <2>4, OutsideUse, OutsideStep
  <1> QED BY <1>3, <1>4

\* The operation ends.
LEMMA SingleEndsStep ==
  ASSUME MixedInv, NEW t \in Thread, SingleReturn(t) \/ SingleThrow(t)
  PROVE  Goes(t)
  <1>1. /\ pc[t] \in Outside /\ held[t] = {} /\ UNCHANGED readOnly /\ Goto(t, "idle")
        /\ frame' = [frame EXCEPT ![t] = EmptyFrame] /\ jobs' = [jobs EXCEPT ![t] = Tail(@)]
    <2>1. pc[t] \in {"singleReturn", "threw"} /\ SingleEnds(t) BY DEF SingleReturn, SingleThrow
    <2>2. pc[t] \in Outside BY <2>1 DEF Outside, Changing, Looking
    <2>3. pc[t] = "threw" => pc[t] \in Looking BY DEF Looking
    <2>4. held[t] = {} BY <2>1, <2>2, <2>3, OutsideUse DEF SingleReturn, SingleThrow
    <2> QED BY <2>1, <2>2, <2>4 DEF SingleEnds
  <1>2. /\ pc' \in [Thread -> Label] /\ pc'[t] = "idle" /\ \A u \in Thread \ {t} : pc'[u] = pc[u]
    BY <1>1, Going DEF Label
  <1>3. /\ frame'[t] = EmptyFrame /\ DOMAIN frame' = Thread
        /\ \A u \in Thread \ {t} : frame'[u] = frame[u]
    BY <1>1, Assigned
  <1>4. UNCHANGED <<sharedVars, txn, commitVars>> BY <1>1 DEF readOnly
  <1>5. Threads' /\ Others(t)
    <2>1. jobs[t] \in Seq(AnyJob) /\ jobs[t] # <<>> BY <1>1, OutsideUse DEF MixedInv, Threads
    <2>2. Tail(jobs[t]) \in Seq(AnyJob) BY <2>1, NonEmpty
    <2>3. jobs' \in [Thread -> Seq(AnyJob)] /\ \A u \in Thread \ {t} : jobs'[u] = jobs[u]
      BY <1>1, <2>2 DEF MixedInv, Threads
    <2> QED BY <1>2, <1>3, <1>4, <2>3 DEF MixedInv, Threads, Others, commitVars
  <1>6. txn'[t] = EmptyTxn /\ held'[t] = {} BY <1>1, <1>4, OutsideUse DEF commitVars
  <1>7. MixedThread(t)'
    <2>1. MixedFits("idle", EmptyFrame)
      <3>1. Locals(EmptyFrame)
        <4>1. <<>> \in Seq(StoreAt) /\ IsSeq(<<>>) BY DEF IsSeq
        <4> QED BY <4>1 DEF Locals, EmptyFrame, Called, Candidate, Link
      <3> QED BY <3>1
              DEF EmptyFrame, MixedFits, Operating, Placed, AtNode, AtFound, Outside, Looking,
                  Changing, Unplaced, Rechecking, ToSuccessor, Linking
    <2>2. Lockers(t)' BY <1>2, <1>6 DEF Lockers, Changing, Rechecking, ToSuccessor, Linking,
                                        Validating, Committing
    <2> QED BY <1>2, <1>3, <1>6, <2>1, <2>2, EmptyTxnOK, LookingIs DEF MixedThread
  <1>8. txn'[t].fresh = txn[t].fresh /\ Hidden(t)' \subseteq Hidden(t)
    BY <1>1, <1>4, OutsideUse, <1>6, EmptyTxnOK DEF Hidden
  <1>9. Refs(t)' \subseteq Reach(t)
    <2>1. {frame'[t].pred, frame'[t].succ, frame'[t].at, frame'[t].link} = {Null}
      BY <1>3 DEF EmptyFrame
    <2> QED BY <1>6, <2>1, EmptyTxnOK DEF Refs, Reach, EmptyTxn
  <1> QED BY <1>4, <1>5, <1>7, <1>8, <1>9, LocalStep, LocksSame DEF Goes, sharedVars, commitVars

\* A step of an operation outside a transaction that writes to memory but creates no
\* node: it links and enters only what the thread can get hold of.
LEMMA ChangeStep ==
  ASSUME MixedInv, NEW t \in Thread, UNCHANGED <<singleVars, jobs>>, Memory',
         pc[t] \in Outside, NEW label \in Outside, pc' = [pc EXCEPT ![t] = label],
         DOMAIN frame' = Thread, \A u \in Thread \ {t} : frame'[u] = frame[u],
         NEW h \in SUBSET Node, held' = [held EXCEPT ![t] = h],
         MixedFits(label, frame'[t]),
         label \in Looking => h = {},
         label \in Changing => h \subseteq {frame'[t].pred, frame'[t].succ},
         {frame'[t].pred, frame'[t].succ, frame'[t].at, frame'[t].link} \subseteq Reach(t),
         \A n \in Node : node'[n].next = node[n].next \/ node'[n].next \in Reach(t),
         \A k \in Key : index'[k] = index[k] \/ index'[k] \in Reach(t)
  PROVE  MixedInv'
  <1>1. /\ pc' \in [Thread -> Label] /\ pc'[t] = label
        /\ \A u \in Thread \ {t} : pc'[u] = pc[u]
    BY LookingIs DEF MixedInv, Threads
  <1>2. /\ held' \in [Thread -> SUBSET Node] /\ held'[t] = h
        /\ \A u \in Thread \ {t} : held'[u] = held[u]
    BY DEF MixedInv, Threads
  <1>3. UNCHANGED <<gvc, alloc, txn, todo, cur, saw>> BY DEF singleVars
  <1>4. Threads' /\ Others(t) BY <1>1, <1>2, <1>3 DEF MixedInv, Threads, Others
  <1>5. Lockers(t)' BY <1>1, <1>2, LookingIs DEF Lockers, Outside
  <1>6. txn[t] = EmptyTxn /\ Hidden(t) = {} /\ jobs[t] # <<>> BY OutsideUse
  <1>7. MixedThread(t)' BY <1>1, <1>3, <1>5, <1>6, EmptyTxnOK, LookingIs DEF MixedThread
  <1>8. Hidden(t)' = {} BY <1>3, <1>6, EmptyTxnOK DEF Hidden
  <1>9. Refs(t)' \subseteq Reach(t)
    <2>1. h \subseteq Reach(t) BY DEF Outside
    <2> QED BY <1>2, <1>3, <1>6, <2>1, EmptyTxnOK DEF Refs
  <1> QED BY <1>3, <1>4, <1>6, <1>7, <1>8, <1>9, LinkStep

\* A word that is written to.
LEMMA WordWritten ==
  ASSUME MixedInv, NEW n \in Node, NEW w \in Word, lock' = [lock EXCEPT ![n] = w],
         UNCHANGED <<gvc, node, alloc, index>>
  PROVE  Memory' /\ \A m \in Node : m # n => lock'[m] = lock[m]
  BY DEF MixedInv, Memory

\* Remove and Insert create their Lockers.
LEMMA SingleLockStep ==
  ASSUME MixedInv, NEW t \in Thread, UNCHANGED <<jobs, historyVars>>,
         pc[t] \in Outside, pc[t] \notin Unplaced, NEW n \in Node, n \in {Pred(t), Succ(t)},
         held[t] \subseteq {Pred(t), Succ(t)},
         NEW label \in Changing, MixedFits(label, frame[t]), LockOrRetry(t, n, label)
  PROVE  Goes(t)
  <1>1. UNCHANGED <<singleVars, node, index, frame>> /\ UNCHANGED <<gvc, node, alloc, index>>
    BY DEF LockOrRetry, singleVars
  <1>2. DOMAIN frame = Thread BY DEF MixedInv, Threads
  <1>3. /\ held[t] \in SUBSET Node /\ held = [held EXCEPT ![t] = held[t]]
    BY DEF MixedInv, Threads
  <1>4. {frame[t].pred, frame[t].succ, frame[t].at, frame[t].link} \subseteq Reach(t)
    BY OutsideUse
  <1>5. label \notin Looking /\ label \in Outside
    BY LookingIs DEF Outside
  <1>6. CASE lock[n].locked
    <2>1. Goto(t, "singleRetry") /\ UNCHANGED <<lock, held>> BY <1>6 DEF LockOrRetry
    <2>2. "singleRetry" \in Changing /\ "singleRetry" \in Outside /\ "singleRetry" \notin Looking
      BY LookingIs DEF Changing, Outside
    <2>3. MixedFits("singleRetry", frame[t])
      BY OutsideUse
         DEF MixedFits, Operating, Placed, AtNode, AtFound, Rechecking, ToSuccessor, Linking
    <2>4. Memory' BY <1>1, <2>1 DEF MixedInv, Memory
    <2>5. MixedInv'
      BY <1>1, <1>2, <1>3, <1>4, <2>1, <2>2, <2>3, <2>4, ChangeStep DEF Goto, Pred, Succ
    <2> QED BY <2>1, <2>5, LocksSame DEF Goes
  <1>7. CASE ~lock[n].locked
    <2>1. /\ lock' = [lock EXCEPT ![n] = Acquired(@)] /\ Goto(t, label)
          /\ held' = [held EXCEPT ![t] = @ \cup {n}]
      BY <1>7 DEF LockOrRetry
    <2>2. Acquired(lock[n]) \in Word BY DEF MixedInv, Memory, Acquired, Word
    <2>3. Memory' BY <1>1, <2>1, <2>2, WordWritten
    <2> DEFINE h == held[t] \cup {n}
    <2>4. /\ h \in SUBSET Node /\ held' = [held EXCEPT ![t] = h]
          /\ h \subseteq {frame[t].pred, frame[t].succ}
      BY <1>3, <2>1 DEF Pred, Succ
    <2>5. MixedInv'
      <3> HIDE DEF h
      <3> QED BY <1>1, <1>2, <1>4, <1>5, <2>1, <2>3, <2>4, ChangeStep DEF Goto
    <2> QED BY <1>7, <2>1, <2>5 DEF Goes, LockStep
  <1> QED BY <1>6, <1>7

\* A single operation tries to lock its predecessor, the node that it removes, or
\* the node whose value it overwrites; it starts over where another has the lock.
LEMMA SingleLockingStep ==
  ASSUME MixedInv, NEW t \in Thread, UNCHANGED <<jobs, historyVars>>,
         SingleLockPredecessor(t) \/ SingleLockSuccessor(t) \/ SingleLockExisting(t)
  PROVE  Goes(t)
  <1>1. CASE SingleLockSuccessor(t)
    <2>1. pc[t] = "singleLockSuccessor" /\ LockOrRetry(t, Succ(t), "singleUnlink")
      BY <1>1 DEF SingleLockSuccessor
    <2>2. /\ pc[t] \in Outside /\ pc[t] \in Changing /\ pc[t] \notin Unplaced
          /\ pc[t] \in ToSuccessor /\ "singleUnlink" \in ToSuccessor /\ "singleUnlink" \in Changing
      BY <2>1 DEF Outside, Changing, ToSuccessor, Unplaced
    <2>3. Succ(t) \in Node /\ held[t] \subseteq {Pred(t), Succ(t)}
      BY <2>2, OutsideUse DEF MixedFits, Pred, Succ
    <2>4. MixedFits("singleUnlink", frame[t])
      BY <2>2, <2>3, OutsideUse
         DEF MixedFits, Operating, Placed, AtNode, AtFound, Rechecking, Linking, Succ
    <2> QED BY <2>1, <2>2, <2>3, <2>4, SingleLockStep
  <1>2. CASE SingleLockPredecessor(t) \/ SingleLockExisting(t)
    <2>1. pc[t] = "singleApply" BY <1>2 DEF SingleLockPredecessor, SingleLockExisting
    <2>2. /\ pc[t] \in Outside /\ pc[t] \in Looking /\ pc[t] \notin Unplaced
          /\ "singleNotDeleted" \in Rechecking /\ "singleNotDeleted" \in Changing
          /\ "singleOverwrite" \in ToSuccessor /\ "singleOverwrite" \in Changing
      BY <2>1 DEF Outside, Looking, Changing, Rechecking, ToSuccessor, Unplaced
    <2>3. Found(t) => Succ(t) \in Node
      BY <2>2, OutsideUse DEF Locals, Link, Found, Succ
    <2>4. held[t] = {} /\ Pred(t) \in Node BY <2>2, OutsideUse DEF Pred
    <2>5. CASE SingleLockPredecessor(t)
      <3>1. LockOrRetry(t, Pred(t), "singleNotDeleted") /\ (Kind(t) = "Remove" => Found(t))
        BY <2>5 DEF SingleLockPredecessor
      <3>2. MixedFits("singleNotDeleted", frame[t])
        BY <2>2, <2>3, <2>4, <3>1, OutsideUse
           DEF MixedFits, Operating, Placed, AtNode, AtFound, ToSuccessor, Linking, Succ, Pred, Kind
      <3> QED BY <2>2, <2>4, <3>1, <3>2, SingleLockStep
    <2>6. CASE SingleLockExisting(t)
      <3>1. LockOrRetry(t, Succ(t), "singleOverwrite") /\ Found(t)
        BY <2>6 DEF SingleLockExisting
      <3>2. MixedFits("singleOverwrite", frame[t])
        BY <2>2, <2>3, <2>4, <3>1, OutsideUse
           DEF MixedFits, Operating, Placed, AtNode, AtFound, Rechecking, Linking, Succ, Pred
      <3> QED BY <2>2, <2>3, <2>4, <3>1, <3>2, SingleLockStep
    <2> QED BY <1>2, <2>5, <2>6
  <1> QED BY <1>1, <1>2

\* A node whose next node or value is written to.
LEMMA NodeWritten ==
  ASSUME MixedInv, NEW n \in Node, NEW c \in NodeType, node' = [node EXCEPT ![n] = c],
         UNCHANGED <<gvc, lock, alloc, index>>
  PROVE  Memory' /\ node'[n] = c /\ \A m \in Node : m # n => node'[m] = node[m]
  BY DEF MixedInv, Memory

\* Remove and Insert write to the nodes, under the Lockers.
LEMMA SingleWriteStep ==
  ASSUME MixedInv, NEW t \in Thread, UNCHANGED <<jobs, historyVars>>,
         SingleUnlink(t) \/ SingleOverwrite(t)
  PROVE  Goes(t)
  <1>1. /\ pc[t] \in ToSuccessor /\ UNCHANGED <<singleVars, lock, index, held>>
        /\ Goto(t, "singleStore")
    BY DEF SingleUnlink, SingleOverwrite, ToSuccessor
  <1>2. /\ pc[t] \in Outside /\ pc[t] \in Changing /\ pc[t] \notin Unplaced
        /\ "singleStore" \in Outside /\ "singleStore" \notin Looking
    BY <1>1 DEF Outside, Changing, ToSuccessor, Unplaced, Looking
  <1>3. /\ Pred(t) \in Node /\ Succ(t) \in Node /\ held[t] \subseteq {Pred(t), Succ(t)}
        /\ Succ(t) \in Refs(t)
    BY <1>1, <1>2, OutsideUse DEF MixedFits, Pred, Succ, Refs
  <1>4. DOMAIN frame = Thread BY DEF MixedInv, Threads
  <1>5. PICK r, stores :
          /\ stores \in Seq(StoreAt)
          /\ frame'[t] = [frame[t] EXCEPT !.results = <<r>>, !.stores = stores]
          /\ DOMAIN frame' = Thread /\ \A u \in Thread \ {t} : frame'[u] = frame[u]
    <2> DEFINE s1 == <<Store(Pred(t), "version"), Store(Pred(t), "singleton"),
                       Store(Succ(t), "version"), Store(Succ(t), "singleton"),
                       Store(Succ(t), "deleted")>>
               s2 == <<Store(Succ(t), "singleton"), Store(Succ(t), "version")>>
    <2>1. s1 \in Seq(StoreAt) /\ s2 \in Seq(StoreAt) BY <1>3 DEF Store, StoreAt
    <2>2. CASE SingleUnlink(t)
      <3>1. frame' = [frame EXCEPT ![t].results = <<node[Succ(t)].value>>, ![t].stores = s1]
        BY <2>2 DEF SingleUnlink
      <3> HIDE DEF s1
      <3> QED BY <1>4, <2>1, <3>1
    <2>3. CASE SingleOverwrite(t)
      <3>1. frame' = [frame EXCEPT ![t].results = <<Null>>, ![t].stores = s2]
        BY <2>3 DEF SingleOverwrite
      <3> HIDE DEF s2
      <3> QED BY <1>4, <2>1, <3>1
    <2> QED BY <2>2, <2>3
  <1>6. /\ frame'[t].pred = Pred(t) /\ frame'[t].succ = Succ(t) /\ frame'[t].at = frame[t].at
        /\ frame'[t].link = frame[t].link
    BY <1>2, <1>5, OutsideUse DEF Locals, Pred, Succ
  <1>7. MixedFits("singleStore", frame'[t])
    <2>1. Locals(frame'[t])
      <3>1. IsSeq(<<r>>) BY DEF IsSeq
      <3> QED BY <1>2, <1>5, <3>1, OutsideUse DEF Locals
    <2>2. /\ frame'[t].op \in Operation /\ ~frame'[t].removing /\ frame'[t].pred \in Node
      BY <1>2, <1>5, OutsideUse DEF Locals, MixedFits
    <2> QED BY <2>1, <2>2
            DEF MixedFits, Operating, Placed, AtNode, AtFound, Outside, Rechecking, ToSuccessor, Linking
  <1>8. /\ Memory' /\ \A n \in Node : \/ node'[n].next = node[n].next
                                      \/ node'[n].next \in Reach(t)
    <2>1. UNCHANGED <<gvc, lock, alloc, index>> BY <1>1 DEF singleVars
    <2>2. CASE SingleUnlink(t)
      <3> DEFINE c == [node[Pred(t)] EXCEPT !.next = node[Succ(t)].next]
      <3>1. node' = [node EXCEPT ![Pred(t)] = c] BY <2>2 DEF SingleUnlink
      <3>2. c \in NodeType /\ c.next = node[Succ(t)].next /\ c.next \in Reach(t)
        BY <1>3 DEF MixedInv, Memory, NodeType, Reach
      <3> HIDE DEF c
      <3> QED BY <1>3, <2>1, <3>1, <3>2, NodeWritten
    <2>3. CASE SingleOverwrite(t)
      <3> DEFINE c == [node[Succ(t)] EXCEPT !.value = frame[t].op.value]
      <3>1. node' = [node EXCEPT ![Succ(t)] = c] BY <2>3 DEF SingleOverwrite
      <3>2. c \in NodeType /\ c.next = node[Succ(t)].next
        BY <1>2, <1>3, OutsideUse DEF MixedInv, Memory, NodeType, Operation
      <3> HIDE DEF c
      <3> QED BY <1>3, <2>1, <3>1, <3>2, NodeWritten
    <2> QED BY <2>2, <2>3
  <1>9. held[t] \in SUBSET Node /\ held' = [held EXCEPT ![t] = held[t]]
    BY <1>1 DEF MixedInv, Threads
  <1>10. {frame'[t].pred, frame'[t].succ, frame'[t].at, frame'[t].link} \subseteq Reach(t)
    BY <1>2, <1>6, OutsideUse DEF Pred, Succ
  <1>11. MixedInv'
    BY <1>1, <1>2, <1>3, <1>5, <1>6, <1>7, <1>8, <1>9, <1>10, ChangeStep DEF Goto
  <1> QED BY <1>1, <1>11, LocksSame DEF Goes

\* The next setter is called.
LEMMA SingleStoreStep ==
  ASSUME MixedInv, NEW t \in Thread, SingleStore(t), UNCHANGED <<jobs, historyVars>>
  PROVE  Goes(t)
  <1> DEFINE stores == frame[t].stores
             n == Head(stores).node
             w == CASE Head(stores).field = "version" -> WithVersion(lock[n], frame[t].readVersion)
                    [] Head(stores).field = "singleton" -> WithSingleton(lock[n], TRUE)
                    [] Head(stores).field = "deleted" -> WithDeleted(lock[n], TRUE)
  <1>1. /\ pc[t] = "singleStore" /\ stores # <<>> /\ UNCHANGED <<singleVars, node, index, held, pc>>
        /\ UNCHANGED <<gvc, node, alloc, index>>
        /\ lock' = [lock EXCEPT ![n] = w]
        /\ frame' = [frame EXCEPT ![t] = [@ EXCEPT !.stores = Tail(frame[t].stores)]]
    BY DEF SingleStore, singleVars
  <1>2. /\ pc[t] \in Outside /\ pc[t] \in Changing /\ pc[t] \notin Unplaced
        /\ "singleStore" \in Outside /\ "singleStore" \notin Looking
    BY <1>1 DEF Outside, Changing, Unplaced, Looking
  <1>3. Head(stores) \in StoreAt /\ Tail(stores) \in Seq(StoreAt)
    <2>1. stores \in Seq(StoreAt) BY <1>2, OutsideUse DEF Locals
    <2> QED BY <1>1, <2>1, NonEmpty
  <1>4. n \in Node /\ w \in Word /\ w.locked = lock[n].locked
    <2>1. n \in Node /\ lock[n] \in Word /\ frame[t].readVersion \in Nat
      BY <1>2, <1>3, OutsideUse DEF MixedInv, Memory, Locals, StoreAt
    <2>2. Head(stores).field \in {"version", "singleton", "deleted"} BY <1>3 DEF StoreAt
    <2>3. CASE Head(stores).field = "version" BY <2>1, <2>3 DEF WithVersion, Word
    <2>4. CASE Head(stores).field = "singleton" BY <2>1, <2>4 DEF WithSingleton, Word
    <2>5. CASE Head(stores).field = "deleted" BY <2>1, <2>5 DEF WithDeleted, Word
    <2> QED BY <2>1, <2>2, <2>3, <2>4, <2>5
  <1>5. /\ frame'[t] = [frame[t] EXCEPT !.stores = Tail(stores)]
        /\ DOMAIN frame' = Thread /\ \A u \in Thread \ {t} : frame'[u] = frame[u]
    BY <1>1, Assigned
  <1> HIDE DEF w, n
  <1>6. /\ Memory' /\ \A m \in Node : lock'[m].locked = lock[m].locked
    <2>1. Memory' /\ \A m \in Node : m # n => lock'[m] = lock[m] BY <1>1, <1>4, WordWritten
    <2>2. lock'[n] = w BY <1>1, <1>4 DEF MixedInv, Memory
    <2> QED BY <1>4, <2>1, <2>2
  <1>7. /\ frame'[t].pred = Pred(t) /\ frame'[t].succ = Succ(t) /\ frame'[t].at = frame[t].at
        /\ frame'[t].link = frame[t].link
    BY <1>2, <1>5, OutsideUse DEF Locals, Pred, Succ
  <1>8. MixedFits("singleStore", frame'[t])
    <2>1. Locals(frame'[t]) BY <1>2, <1>3, <1>5, OutsideUse DEF Locals
    <2>2. /\ frame'[t].op \in Operation /\ ~frame'[t].removing /\ frame'[t].pred \in Node
      BY <1>2, <1>5, OutsideUse DEF Locals, MixedFits
    <2> QED BY <2>1, <2>2
            DEF MixedFits, Operating, Placed, AtNode, AtFound, Outside, Rechecking, ToSuccessor, Linking
  <1>9. /\ held[t] \in SUBSET Node /\ held' = [held EXCEPT ![t] = held[t]]
        /\ pc' = [pc EXCEPT ![t] = "singleStore"]
    BY <1>1 DEF MixedInv, Threads
  <1>10. /\ {frame'[t].pred, frame'[t].succ, frame'[t].at, frame'[t].link} \subseteq Reach(t)
         /\ held[t] \subseteq {frame'[t].pred, frame'[t].succ}
    BY <1>2, <1>7, OutsideUse DEF Pred, Succ
  <1>11. MixedInv'
    BY <1>1, <1>2, <1>5, <1>6, <1>8, <1>9, <1>10, ChangeStep
  <1> QED BY <1>1, <1>6, <1>11, LocksSame DEF Goes

\* The Lockers are destroyed.
LEMMA SingleReleaseStep ==
  ASSUME MixedInv, NEW t \in Thread, SingleRelease(t), UNCHANGED <<jobs, historyVars>>
  PROVE  Goes(t)
  <1> DEFINE n == IF Succ(t) \in held[t] THEN Succ(t) ELSE Pred(t)
  <1>1. /\ pc[t] \in {"singleRetry", "singleReturn"} /\ held[t] # {}
        /\ UNCHANGED <<singleVars, node, index, frame>> /\ UNCHANGED <<gvc, node, alloc, index>>
        /\ \/ Crash /\ UNCHANGED <<lock, held>>
           \/ /\ lock' = [lock EXCEPT ![n] = Released(@)] /\ UNCHANGED pc
              /\ held' = [held EXCEPT ![t] = @ \ {n}]
    BY DEF SingleRelease, singleVars
  <1>2. /\ pc[t] \in Outside /\ pc[t] \in Changing /\ pc[t] \notin Looking
    BY <1>1 DEF Outside, Changing, Unplaced, Looking
  <1>3. n \in held[t] /\ held[t] \subseteq {frame[t].pred, frame[t].succ} /\ held[t] \subseteq Node
    BY <1>1, <1>2, OutsideUse, MixedUse DEF Pred, Succ
  <1>4. CASE Crash /\ UNCHANGED <<lock, held>>
    BY <1>1, <1>4, CrashStep DEF singleVars, sharedVars, commitVars
  <1>5. CASE /\ lock' = [lock EXCEPT ![n] = Released(@)] /\ UNCHANGED pc
             /\ held' = [held EXCEPT ![t] = @ \ {n}]
    <2> HIDE DEF n
    <2>1. Released(lock[n]) \in Word BY <1>3 DEF MixedInv, Memory, Released, Word
    <2>2. Memory' BY <1>1, <1>3, <1>5, <2>1, WordWritten
    <2> DEFINE h == held[t] \ {n}
    <2>3. h \in SUBSET Node /\ held' = [held EXCEPT ![t] = h] /\ h \subseteq held[t]
      BY <1>3, <1>5
    <2>4. pc' = [pc EXCEPT ![t] = pc[t]] /\ DOMAIN frame = Thread
      BY <1>5 DEF MixedInv, Threads
    <2>5. MixedInv'
      <3> HIDE DEF h
      <3> QED BY <1>1, <1>2, <1>3, <1>5, <2>2, <2>3, <2>4, OutsideUse, ChangeStep
    <2> QED BY <1>3, <1>5, <2>5 DEF Goes, LockStep
  <1> QED BY <1>1, <1>4, <1>5

\* An entry of the index that is erased, or made.
LEMMA IndexWritten ==
  ASSUME MixedInv
  PROVE  /\ \A n \in Node : /\ IndexInsert(index, n) \in [Key -> Link]
                            /\ \A k \in Key : IndexInsert(index, n)[k] \in {index[k], n}
         /\ \A n : /\ IndexErase(index, n) \in [Key -> Link]
                   /\ \A k \in Key : IndexErase(index, n)[k] \in {index[k], Null}
  <1>1. index \in [Key -> Link] /\ Node \subseteq Link /\ Null \in Link
    BY DEF MixedInv, Memory, Link
  <1> QED BY <1>1 DEF IndexInsert, IndexErase

\* Remove and Insert have written to the nodes, and update the index.
LEMMA SingleIndexStep ==
  ASSUME MixedInv, NEW t \in Thread, UNCHANGED <<jobs, historyVars>>,
         SingleStored(t) \/ SingleIndexAdd(t) \/ SingleIndexCheck(t)
  PROVE  Goes(t)
  <1>1. /\ pc[t] \in {"singleStore", "singleIndexAdd", "singleIndexCheck"}
        /\ UNCHANGED <<singleVars, lock, node, held>>
    BY DEF SingleStored, SingleIndexAdd, SingleIndexCheck, singleVars, commitVars
  <1>2. /\ pc[t] \in Outside /\ pc[t] \in Changing /\ pc[t] \notin Unplaced
        /\ pc[t] # "singleStore" => pc[t] \in Linking
    BY <1>1 DEF Outside, Changing, Linking, Unplaced
  <1>3. PICK label \in {"singleReturn", "singleIndexCheck"} :
            Goto(t, label) /\ (label = "singleIndexCheck" => pc[t] \in Linking)
    BY <1>1, <1>2 DEF SingleStored, SingleIndexAdd, SingleIndexCheck, Respond
  <1>4. label \in Outside /\ label \in Changing /\ label \notin Looking
    BY DEF Outside, Changing, Linking, Unplaced, Looking
  <1>5. /\ DOMAIN frame' = Thread /\ \A u \in Thread \ {t} : frame'[u] = frame[u]
        /\ Locals(frame'[t]) /\ frame'[t].op \in Operation /\ ~frame'[t].removing
        /\ frame'[t].pred = Pred(t) /\ frame'[t].succ = Succ(t) /\ frame'[t].at = frame[t].at
        /\ frame'[t].link = frame[t].link
    <2>1. CASE UNCHANGED frame
      BY <1>2, <2>1, OutsideUse DEF MixedInv, Threads, MixedFits, Pred, Succ
    <2>2. CASE ~UNCHANGED frame
      <3>1. frame' = [frame EXCEPT ![t] = [@ EXCEPT !.results = <<Null>>]]
        BY <2>2 DEF SingleStored, SingleIndexAdd, SingleIndexCheck, Respond
      <3>2. IsSeq(<<Null>>) BY DEF IsSeq
      <3>3. /\ frame'[t] = [frame[t] EXCEPT !.results = <<Null>>] /\ DOMAIN frame' = Thread
            /\ \A u \in Thread \ {t} : frame'[u] = frame[u]
        BY <3>1, Assigned
      <3> QED BY <1>2, <3>2, <3>3, OutsideUse DEF Locals, MixedFits, Pred, Succ
    <2> QED BY <2>1, <2>2
  <1>6. MixedFits(label, frame'[t])
    <2>1. Pred(t) \in Node /\ (pc[t] \in Linking => frame[t].link \in Node)
      BY <1>2, OutsideUse DEF MixedFits, Pred
    <2> QED BY <1>3, <1>5, <2>1
            DEF MixedFits, Operating, Placed, AtNode, AtFound, Rechecking, ToSuccessor, Linking
  <1>7. \/ index' = index \/ index' = IndexErase(index, Succ(t))
        \/ index' = IndexErase(index, frame[t].link)
        \/ pc[t] \in Linking /\ index' = IndexInsert(index, frame[t].link)
    BY <1>1, <1>2 DEF SingleStored, SingleIndexAdd, SingleIndexCheck
  <1>8. Memory' /\ \A k \in Key : index'[k] = index[k] \/ index'[k] \in Reach(t)
    <2>1. Null \in Reach(t) /\ frame[t].link \in Reach(t) BY <1>2, OutsideUse DEF Reach
    <2>2. pc[t] \in Linking => frame[t].link \in Node BY <1>2, OutsideUse DEF MixedFits
    <2>3. index' \in [Key -> Link]
          /\ \A k \in Key : index'[k] = index[k] \/ index'[k] \in Reach(t)
      BY <1>7, <2>1, <2>2, IndexWritten DEF MixedInv, Memory
    <2> QED BY <1>1, <2>3 DEF MixedInv, Memory, singleVars
  <1>9. held[t] \in SUBSET Node /\ held' = [held EXCEPT ![t] = held[t]]
    BY <1>1 DEF MixedInv, Threads
  <1>10. /\ {frame'[t].pred, frame'[t].succ, frame'[t].at, frame'[t].link} \subseteq Reach(t)
         /\ held[t] \subseteq {frame'[t].pred, frame'[t].succ}
    BY <1>2, <1>5, OutsideUse DEF Pred, Succ
  <1>11. MixedInv'
    BY <1>1, <1>2, <1>3, <1>4, <1>5, <1>6, <1>8, <1>9, <1>10, ChangeStep DEF Goto
  <1> QED BY <1>1, <1>11, LocksSame DEF Goes

\* New memory is memory nobody uses.
LEMMA NewMemory ==
  ASSUME MixedInv, alloc # Node
  PROVE  /\ FreshNode \in Node \ alloc /\ FreshNode # Sentinel /\ FreshNode # Null
         /\ \A u \in Thread : /\ FreshNode \notin Refs(u) /\ FreshNode \notin held[u]
                              /\ FreshNode \notin txn[u].fresh /\ FreshNode \notin Hidden(u)
  <1>1. FreshNode \in Node \ alloc BY DEF FreshNode, MixedInv, Memory
  <1>2. FreshNode # Sentinel /\ FreshNode # Null BY <1>1, NodeAssumption DEF MixedInv, References
  <1>3. \A u \in Thread : /\ Refs(u) \subseteq alloc \cup {Null} /\ txn[u].fresh \subseteq alloc
                          /\ held[u] \subseteq Refs(u) /\ Hidden(u) \subseteq txn[u].fresh
    BY DEF MixedInv, References, Refs, Hidden
  <1> QED BY <1>1, <1>2, <1>3

\* A step that creates a node, and hides it or links it.
LEMMA CreateStep ==
  ASSUME MixedInv, NEW t \in Thread, NEW n, alloc # Node, n = FreshNode,
         Memory', Threads', Others(t), MixedThread(t)',
         alloc' = alloc \cup {n}, UNCHANGED index,
         \/ txn'[t].fresh = txn[t].fresh /\ Hidden(t)' \subseteq Hidden(t)
         \/ txn'[t].fresh = txn[t].fresh \cup {n} /\ Hidden(t)' \subseteq Hidden(t) \cup {n},
         Refs(t)' \subseteq Reach(t) \cup {n},
         node'[n].next \in Reach(t), Hidden(t) = {} \/ n \in txn'[t].fresh,
         \A m \in Node \ {n} : \/ node'[m].next = node[m].next
                               \/ node'[m].next = n /\ n \notin txn'[t].fresh
  PROVE  MixedInv'
  <1>1. /\ n \in Node \ alloc /\ n # Sentinel /\ n # Null
        /\ \A u \in Thread : n \notin Refs(u) /\ n \notin txn[u].fresh /\ n \notin Hidden(u)
    BY NewMemory
  <1>2. \A u \in Thread \ {t} :
          txn'[u].fresh = txn[u].fresh /\ Hidden(u)' = Hidden(u) /\ Refs(u)' = Refs(u)
    BY DEF Others, Hidden, Refs
  <1>3. /\ Reach(t) \subseteq alloc \cup {Null}
        /\ \A u \in Thread \ {t} : Reach(t) \cap Hidden(u) = {}
    BY MixedReach
  <1>4. /\ Sentinel \in alloc'
        /\ \A m \in Node : node'[m].next \in alloc' \cup {Null}
        /\ \A k \in Key : index'[k] \in alloc' \cup {Null}
    BY <1>3 DEF References, MixedInv
  <1>5. /\ txn'[t].fresh \subseteq alloc' \ {Sentinel}
        /\ Refs(t)' \subseteq alloc' \cup {Null}
    BY <1>1, <1>3 DEF References, MixedInv
  <1>6. \A k \in Key : index'[k] \notin Hidden(t)'
    <2>1. \A k \in Key : index[k] \in alloc \cup {Null} BY DEF References, MixedInv
    <2> QED BY <1>1, <2>1 DEF References, MixedInv
  <1>7. \A m \in Node \ txn'[t].fresh : node'[m].next \notin Hidden(t)'
    <2>1. ASSUME NEW m \in Node \ txn'[t].fresh PROVE node'[m].next \notin Hidden(t)'
      <3>1. \A i \in Node : node[i].next \in alloc \cup {Null} BY DEF References, MixedInv
      <3>2. Hidden(t) \subseteq txn[t].fresh /\ Hidden(t)' \subseteq txn'[t].fresh BY DEF Hidden
      <3>3. CASE m = n BY <1>1, <1>3, <3>2, <3>3 DEF Hidden
      <3>4. CASE m # n BY <1>1, <3>1, <3>2, <3>4 DEF References, MixedInv
      <3> QED BY <3>3, <3>4
    <2> QED BY <2>1
  <1>8. \A u \in Thread \ {t} :
          Refs(u)' \cap Hidden(t)' = {} /\ txn'[u].fresh \cap txn'[t].fresh = {}
    BY <1>1, <1>2 DEF References, MixedInv
  <1>9. ASSUME NEW u \in Thread \ {t}
        PROVE  /\ txn'[u].fresh \subseteq alloc' \ {Sentinel}
               /\ Refs(u)' \subseteq alloc' \cup {Null}
               /\ \A m \in Node \ txn'[u].fresh : node'[m].next \notin Hidden(u)'
               /\ \A k \in Key : index'[k] \notin Hidden(u)'
    BY <1>1, <1>2, <1>3 DEF References, MixedInv
  <1>10. ASSUME NEW u \in Thread \ {t}, NEW v \in Thread \ {u}
         PROVE  Refs(v)' \cap Hidden(u)' = {} /\ txn'[v].fresh \cap txn'[u].fresh = {}
    <2>1. CASE v = t BY <1>1, <1>2, <1>3, <2>1 DEF References, MixedInv
    <2>2. CASE v # t BY <1>2, <2>2 DEF References, MixedInv
    <2> QED BY <2>1, <2>2
  <1>11. References' BY <1>4, <1>5, <1>6, <1>7, <1>8, <1>9, <1>10 DEF References
  <1> QED BY <1>11, MixedStep

\* The memory of a node that is created.
LEMMA Created ==
  ASSUME MixedInv, alloc # Node, NEW n, n = FreshNode, NEW c \in NodeType, NEW w \in Word,
         alloc' = alloc \cup {n}, lock' = [lock EXCEPT ![n] = w], UNCHANGED <<gvc, index>>,
         ~w.locked, UNCHANGED held, NEW t \in Thread, node' \in [Node -> NodeType]
  PROVE  Memory' /\ LockStep(t)
  <1>1. n \in Node \ alloc /\ \A u \in Thread : n \notin held[u] BY NewMemory
  <1>2. /\ lock' \in [Node -> Word] /\ lock'[n] = w
        /\ \A m \in Node : m # n => lock'[m] = lock[m]
    BY <1>1 DEF MixedInv, Memory
  <1>3. LockStep(t) BY <1>1, <1>2 DEF LockStep
  <1> QED BY <1>1, <1>2, <1>3 DEF MixedInv, Memory

\* Insert links its candidate.
LEMMA SingleLinkStep ==
  ASSUME MixedInv, NEW t \in Thread, SingleLink(t), UNCHANGED <<jobs, historyVars>>
  PROVE  Goes(t)
  <1> DEFINE n == FreshNode
             c == [key |-> frame[t].op.key, value |-> frame[t].op.value, next |-> Succ(t)]
             w == WithVersion(WithSingleton(NewWord, TRUE), frame[t].readVersion)
  <1>1. /\ pc[t] = "singleLink" /\ alloc # Node /\ Goto(t, "singleIndexAdd")
        /\ alloc' = alloc \cup {n} /\ lock' = [lock EXCEPT ![n] = w]
        /\ node' = [node EXCEPT ![n] = c, ![Pred(t)].next = n]
        /\ frame' = [frame EXCEPT ![t] = [@ EXCEPT !.link = n]]
        /\ UNCHANGED <<gvc, index, txn, commitVars, jobs>>
    BY DEF SingleLink
  <1>2. /\ pc[t] \in Outside /\ pc[t] \in Changing /\ pc[t] \notin Unplaced
        /\ "singleIndexAdd" \in Outside /\ "singleIndexAdd" \in Changing
        /\ "singleIndexAdd" \notin Looking
    BY <1>1 DEF Outside, Changing, Linking, Unplaced, Looking
  <1>3. /\ Locals(frame[t]) /\ frame[t].op \in Operation /\ ~frame[t].removing
        /\ Pred(t) \in Node /\ Succ(t) \in Link /\ frame[t].readVersion \in Nat
        /\ Pred(t) \in Refs(t) /\ Succ(t) \in Refs(t)
    BY <1>2, OutsideUse DEF MixedFits, Locals, Pred, Succ, Refs
  <1>4. n \in Node /\ \A u \in Thread : n \notin Refs(u) BY <1>1, NewMemory
  <1>5. c \in NodeType /\ c.next = Succ(t)
    BY <1>3 DEF NodeType, Operation, Candidate
  <1>6. w \in Word /\ ~w.locked BY <1>3 DEF WithVersion, WithSingleton, NewWord, Word
  <1> HIDE DEF n, c, w
  <1>7. Pred(t) # n BY <1>3, <1>4
  <1>8. /\ node' \in [Node -> NodeType] /\ node'[n] = c /\ node'[Pred(t)].next = n
        /\ \A m \in Node \ {n, Pred(t)} : node'[m] = node[m]
    <2>1. node \in [Node -> NodeType] BY DEF MixedInv, Memory
    <2>2. DOMAIN node' = Node /\ node'[n] = c /\ \A m \in Node \ {n, Pred(t)} : node'[m] = node[m]
      BY <1>1, <1>3, <1>4, <1>7, <2>1
    <2>3. node'[Pred(t)] = [node[Pred(t)] EXCEPT !.next = n] BY <1>1, <1>3, <1>4, <1>7, <2>1
    <2>4. node'[Pred(t)] \in NodeType /\ node'[Pred(t)].next = n
      BY <1>3, <1>4, <2>1, <2>3 DEF NodeType, Link
    <2>5. node' = [m \in Node |-> node'[m]] BY <1>1, <2>1
    <2> QED BY <1>5, <2>1, <2>2, <2>4, <2>5
  <1>9. Memory' /\ LockStep(t) BY <1>1, <1>5, <1>6, <1>8, Created DEF n, commitVars
  <1>10. /\ frame'[t] = [frame[t] EXCEPT !.link = n] /\ DOMAIN frame' = Thread
         /\ \A u \in Thread \ {t} : frame'[u] = frame[u]
    BY <1>1, Assigned
  <1>11. /\ pc' \in [Thread -> Label] /\ pc'[t] = "singleIndexAdd"
         /\ \A u \in Thread \ {t} : pc'[u] = pc[u]
    BY <1>1, <1>2, LookingIs, Going
  <1>12. Threads' /\ Others(t) BY <1>1, <1>10, <1>11 DEF MixedInv, Threads, Others, commitVars
  <1>13. MixedFits("singleIndexAdd", frame'[t])
    BY <1>3, <1>4, <1>10
       DEF Locals, Link, MixedFits, Operating, Placed, AtNode, AtFound, Rechecking, ToSuccessor, Pred
  <1>14. Lockers(t)'
    <2>1. held[t] \subseteq {frame'[t].pred, frame'[t].succ}
      BY <1>2, <1>3, <1>10, OutsideUse DEF Locals
    <2> QED BY <1>1, <1>2, <1>11, <2>1, LookingIs DEF Lockers, commitVars
  <1>15. txn[t] = EmptyTxn /\ Hidden(t) = {} /\ jobs[t] # <<>> BY <1>2, OutsideUse
  <1>16. MixedThread(t)'
    BY <1>1, <1>2, <1>11, <1>13, <1>14, <1>15, EmptyTxnOK, LookingIs DEF MixedThread
  <1>17. txn'[t].fresh = txn[t].fresh /\ txn[t].fresh = {} /\ Hidden(t)' = {}
    BY <1>1, <1>15, EmptyTxnOK DEF Hidden
  <1>18. Refs(t)' \subseteq Reach(t) \cup {n}
    BY <1>1, <1>3, <1>10, <1>15, EmptyTxnOK, MixedUse DEF Refs, commitVars, Locals
  <1>19. MixedInv'
    <2>1. node'[n].next \in Reach(t) BY <1>3, <1>5, <1>8 DEF Reach
    <2>2. \A m \in Node \ {n} : \/ node'[m].next = node[m].next
                                \/ node'[m].next = n /\ n \notin txn'[t].fresh
      BY <1>8, <1>17
    <2>3. n = FreshNode BY DEF n
    <2>4. UNCHANGED index /\ Hidden(t)' \subseteq Hidden(t) BY <1>1, <1>17
    <2> QED BY <1>1, <1>9, <1>12, <1>15, <1>16, <1>17, <1>18, <2>1, <2>2, <2>3, <2>4, CreateStep
  <1> QED BY <1>9, <1>19 DEF Goes

-----------------------------------------------------------------------------
(* The operations of transactions, while others may call operations outside. *)

\* A step of thread t leaves the others where they are.
Apart(t) ==
    /\ pc' \in [Thread -> Label] /\ DOMAIN txn' = Thread /\ DOMAIN frame' = Thread
    /\ \A u \in Thread \ {t} : pc'[u] = pc[u] /\ txn'[u] = txn[u] /\ frame'[u] = frame[u]

\* The locals that are set at a label of a transaction.
InTxn(label, f) ==
    /\ Locals(f)
    /\ label \in Operating => f.op \in Operation
    /\ label \in Placed => f.pred \in Node
    /\ label \in AtNode => f.at \in Node
    /\ label \in AtFound \/ f.removing => f.succ \in Node

\* At the labels of a transaction the invariant says of the locals only what InTxn says.
LEMMA FitsInTxn ==
  ASSUME NEW f, NEW label \in TxnLabel
  PROVE  label \notin Outside /\ label \in Label /\ (MixedFits(label, f) <=> InTxn(label, f))
  <1>1. /\ label \notin Outside /\ label \notin ToSuccessor /\ label \notin Rechecking
        /\ label \notin Linking /\ label \in Label
    BY DEF TxnLabel, Operating, Placed, Holding, Validating, Committing, Outside, Looking, Unplaced,
           Changing, Rechecking, ToSuccessor, Linking, Label
  <1> QED BY <1>1 DEF MixedFits, InTxn

\* A step of an operation: nothing others can see changes, and the thread keeps
\* what it has created to itself.
LEMMA OperationGoes ==
  ASSUME MixedInv, NEW t \in Thread, UNCHANGED <<sharedVars, commitVars, jobs>>, Apart(t),
         pc[t] \in Operating \cup {"next"}, pc'[t] \in Operating \cup {"next", "abort", "fault"},
         InTxn(pc'[t], frame'[t]), TxnTyped(txn'[t]), txn'[t].fresh = txn[t].fresh,
         Refs(t)' \subseteq Reach(t)
  PROVE  Goes(t)
  <1>1. /\ pc[t] \in TxnLabel /\ pc[t] \notin Outside /\ pc'[t] \in TxnLabel
        /\ pc[t] \notin {"idle", "crashed"} /\ pc'[t] \notin {"idle", "crashed"}
        /\ pc'[t] \notin Outside /\ MixedFits(pc'[t], frame'[t])
    BY FitsInTxn DEF TxnLabel, Operating, Placed, Holding
  <1>2. jobs[t] # <<>> BY <1>1, MixedUse
  <1>3. Hidden(t)' = Hidden(t) BY DEF Hidden, Operating, Placed, Committing
  <1>4. held[t] = {}
    BY <1>1, MixedUse DEF Lockers, Outside, Operating, Placed, Holding, Clearing, Validating, Committing
  <1>5. Lockers(t)'
    BY <1>1, <1>4 DEF Lockers, Outside, commitVars, Operating, Placed, Validating, Committing
  <1>6. Threads' /\ Others(t) BY DEF MixedInv, Threads, Others, commitVars, Apart
  <1>7. MixedThread(t)' BY <1>1, <1>2, <1>5 DEF MixedThread
  <1>8. MixedInv' BY <1>3, <1>6, <1>7, LocalStep
  <1> QED BY <1>8, LocksSame DEF Goes, sharedVars, commitVars

\* The locals of a thread in an operation.
LEMMA MixedOperator ==
  ASSUME MixedInv, NEW t \in Thread, pc[t] \in Operating \cup {"next"}
  PROVE  /\ TxnTyped(txn[t]) /\ InTxn(pc[t], frame[t]) /\ Locals(frame[t])
         /\ {frame[t].pred, frame[t].succ, frame[t].at, frame[t].link} \subseteq Reach(t)
         /\ Refs(t) \subseteq Reach(t)
         /\ jobs[t] # <<>>
  <1>1. pc[t] \in TxnLabel /\ pc[t] \notin {"idle", "crashed"} BY DEF TxnLabel, Operating, Placed
  <1> QED BY <1>1, FitsInTxn, MixedUse DEF Refs

\* The locals before an operation.
LEMMA EmptyLocals == Locals(EmptyFrame)
  <1>1. <<>> \in Seq(StoreAt) /\ IsSeq(<<>>) BY DEF IsSeq
  <1> QED BY <1>1 DEF Locals, EmptyFrame, Called, Candidate, Link

\* An operation has returned: nothing of its locals is left but the results.
LEMMA ReturnedMixed ==
  ASSUME MixedInv, NEW t \in Thread, pc[t] \in Operating, NEW r, Return(t, r)
  PROVE  /\ pc'[t] = "next" /\ InTxn(pc'[t], frame'[t])
         /\ {frame'[t].pred, frame'[t].succ, frame'[t].at, frame'[t].link} = {Null}
         /\ pc' \in [Thread -> Label] /\ DOMAIN frame' = Thread
         /\ \A u \in Thread \ {t} : pc'[u] = pc[u] /\ frame'[u] = frame[u]
  <1> DEFINE results == Append(frame[t].results, r)
  <1>1. IsSeq(results) BY MixedOperator, AppendIsSeq DEF Locals
  <1>2. frame' = [frame EXCEPT ![t] = [EmptyFrame EXCEPT !.results = results]] /\ Goto(t, "next")
    BY DEF Return
  <1>3. /\ frame'[t] = [EmptyFrame EXCEPT !.results = results] /\ DOMAIN frame' = Thread
        /\ \A u \in Thread \ {t} : frame'[u] = frame[u]
    BY <1>2, Assigned
  <1> HIDE DEF results
  <1>4. InTxn("next", frame'[t])
    <2>1. Locals(frame'[t]) BY <1>1, <1>3, EmptyLocals DEF Locals
    <2> QED BY <1>3, <2>1 DEF EmptyFrame, InTxn, Operating, Placed, AtNode, AtFound
  <1>5. {frame'[t].pred, frame'[t].succ, frame'[t].at, frame'[t].link} = {Null}
    BY <1>3 DEF EmptyFrame
  <1>6. pc' \in [Thread -> Label] /\ pc'[t] = "next" /\ \A u \in Thread \ {t} : pc'[u] = pc[u]
    BY <1>2, Going DEF Label
  <1> QED BY <1>3, <1>4, <1>5, <1>6

\* What the write set or the memory has of a node.
LEMMA MixedUpdated ==
  ASSUME MixedInv, NEW t \in Thread, TxnTyped(txn[t]), NEW n \in Node
  PROVE  /\ GetUpdatedValue(t, n) \in Value
         /\ GetUpdatedIsDeleted(t, n) \in BOOLEAN
  <1>1. CASE InWriteSet(t, n)
    BY <1>1 DEF GetUpdatedValue, GetUpdatedIsDeleted, InWriteSet, TxnTyped, Txn, WriteSetElement
  <1>2. CASE ~InWriteSet(t, n)
    BY <1>2 DEF GetUpdatedValue, GetUpdatedIsDeleted, MixedInv, Memory, NodeType, Word
  <1> QED BY <1>1, <1>2

\* An operation that creates a node ends.
LEMMA ConstructGoes ==
  ASSUME MixedInv, NEW t \in Thread, NEW n, n = FreshNode, alloc # Node,
         NEW c \in NodeType, c.next \in Reach(t),
         alloc' = alloc \cup {n}, node' = [node EXCEPT ![n] = c],
         lock' = [lock EXCEPT ![n] = NewWord], UNCHANGED <<gvc, index, commitVars, jobs>>,
         pc[t] \in Operating, pc'[t] = "next", Apart(t),
         InTxn(pc'[t], frame'[t]), TxnTyped(txn'[t]), txn'[t].fresh = txn[t].fresh \cup {n},
         Refs(t)' \subseteq Reach(t) \cup {n}
  PROVE  Goes(t)
  <1>1. n \in Node BY NewMemory
  <1>2. /\ node' \in [Node -> NodeType] /\ node'[n] = c
        /\ \A m \in Node \ {n} : node'[m].next = node[m].next
    BY <1>1 DEF MixedInv, Memory
  <1>3. NewWord \in Word /\ ~NewWord.locked /\ UNCHANGED held BY DEF NewWord, Word, commitVars
  <1>4. Memory' /\ LockStep(t) BY <1>2, <1>3, Created
  <1>5. Threads' /\ Others(t) BY DEF MixedInv, Threads, Others, commitVars, Apart
  <1>6. /\ pc[t] \in TxnLabel /\ pc'[t] \in TxnLabel
        /\ pc[t] \notin {"idle", "crashed"} /\ pc'[t] \notin {"idle", "crashed"}
    BY DEF TxnLabel, Operating, Placed
  <1>7. pc[t] \notin Outside /\ pc'[t] \notin Outside /\ MixedFits(pc'[t], frame'[t])
    BY <1>6, FitsInTxn
  <1>8. held[t] = {}
    BY <1>7, MixedUse DEF Lockers, Outside, Operating, Placed, Holding, Clearing, Validating, Committing
  <1>9. Lockers(t)'
    BY <1>7, <1>8 DEF Lockers, Outside, commitVars, Validating, Committing
  <1>10. MixedThread(t)' BY <1>6, <1>7, <1>9, MixedUse DEF MixedThread
  <1>11. Hidden(t)' \subseteq Hidden(t) \cup {n}
    BY DEF Hidden, Operating, Placed, Committing
  <1>12. MixedInv' BY <1>2, <1>4, <1>5, <1>10, <1>11, CreateStep
  <1> QED BY <1>4, <1>12 DEF Goes

\* The routine calls an operation.
LEMMA ExecuteGoes ==
  ASSUME MixedInv, NEW t \in Thread, Execute(t)
  PROVE  Goes(t)
  <1> DEFINE op == Job(t).body[Len(Results(t)) + 1]
  <1>1. pc[t] = "next" /\ CallOperation(t, op) /\ Len(Results(t)) < Len(Job(t).body) BY DEF Execute
  <1>2. InTxn("next", frame[t]) /\ TxnTyped(txn[t]) /\ Refs(t) \subseteq Reach(t)
    BY <1>1, MixedOperator
  <1>3. op \in Operation
    <2>1. jobs[t] \in Seq(AnyJob) /\ jobs[t] # <<>> BY <1>1, MixedOperator DEF MixedInv, Threads
    <2>2. Job(t).body \in Seq(Operation)
      <3>1. Job(t) \in AnyJob BY <2>1, NonEmpty DEF Job
      <3>2. \A o \in Operation : <<o>> \in Seq(Operation) OBVIOUS
      <3> QED BY <3>1, <3>2 DEF AnyJob
    <2>3. Len(Results(t)) \in Nat BY <1>2 DEF Results, InTxn, IsSeq
    <2> QED BY <1>1, <2>2, <2>3
  <1>4. frame'[t] = [frame[t] EXCEPT !.op = op, !.cand = op.key]
    BY <1>1 DEF CallOperation, MixedInv, Threads
  <1>5. pc'[t] \in {"fault", "findPrevious"} /\ Apart(t)
    BY <1>1 DEF CallOperation, Goto, operatorVars, Apart, MixedInv, Threads, Label, Operating
  <1>6. InTxn(pc'[t], frame'[t])
    BY <1>2, <1>3, <1>4, <1>5
    DEF InTxn, Locals, Called, Candidate, Operation, Operating, Placed, AtNode, AtFound
  <1>7. UNCHANGED <<sharedVars, txn, commitVars, jobs>>
    BY <1>1 DEF CallOperation, operatorVars, Execute
  <1>8. Refs(t)' = Refs(t) BY <1>2, <1>4, <1>7 DEF Refs, commitVars, InTxn, Locals
  <1> QED BY <1>1, <1>2, <1>5, <1>6, <1>7, <1>8, OperationGoes DEF Operating

\* GetValidatedPredecessor asks the index.
LEMMA FindPreviousGoes ==
  ASSUME MixedInv, NEW t \in Thread, FindPrevious(t), UNCHANGED <<jobs, historyVars>>
  PROVE  Goes(t)
  <1>1. pc[t] = "findPrevious" /\ UNCHANGED <<sharedVars, txn, commitVars>>
    BY DEF FindPrevious, operatorVars
  <1>2. InTxn(pc[t], frame[t]) /\ TxnTyped(txn[t]) /\ Refs(t) \subseteq Reach(t)
    BY <1>1, MixedOperator DEF Operating
  <1> DEFINE n == GetPrevious(frame[t].cand)
  <1>3. n \in Node /\ n \in Reach(t)
    BY <1>2, EntryBefore DEF MixedInv, Reach, InTxn, Locals, Candidate
  <1>4. frame'[t] = [frame[t] EXCEPT !.pred = n] /\ pc'[t] = "predecessorVersion" /\ Apart(t)
    BY DEF FindPrevious, operatorVars, Goto, Apart, MixedInv, Threads, Label, Operating, Placed
  <1>5. InTxn(pc'[t], frame'[t])
    BY <1>1, <1>2, <1>3, <1>4 DEF InTxn, Locals, Link, Operating, Placed, AtNode, AtFound
  <1>6. Refs(t)' \subseteq Reach(t)
    BY <1>1, <1>2, <1>3, <1>4 DEF Refs, commitVars, InTxn, Locals
  <1> QED BY <1>1, <1>2, <1>4, <1>5, <1>6, OperationGoes DEF Operating, Placed

\* Checks of a node on the way.
LEMMA CheckGoes ==
  ASSUME MixedInv, NEW t \in Thread, UNCHANGED <<jobs, historyVars>>,
         \/ PredecessorVersion(t)
         \/ SuccessorVersion(t)
         \/ SuccessorLocked(t) /\ ~InWriteSet(t, frame[t].at)
  PROVE  Goes(t)
  <1>1. /\ pc[t] \in {"predecessorVersion", "successorVersion", "successorLocked"}
        /\ UNCHANGED <<sharedVars, txn, commitVars, frame>>
    BY DEF PredecessorVersion, SuccessorVersion, SuccessorLocked, operatorVars
  <1>2. InTxn(pc[t], frame[t]) /\ TxnTyped(txn[t]) /\ Refs(t) \subseteq Reach(t)
    BY <1>1, MixedOperator DEF Operating, Placed
  <1>3. /\ \/ pc[t] = "predecessorVersion" /\ pc'[t] \in {"predecessorDeleted", "abort"}
           \/ pc[t] # "predecessorVersion" /\ pc'[t] \in {"successorVersion", "successorNext", "abort"}
        /\ Apart(t)
    <2>1. PICK label \in {"predecessorDeleted", "successorVersion", "successorNext", "abort"} :
            /\ Goto(t, label)
            /\ label = "predecessorDeleted" => pc[t] = "predecessorVersion"
            /\ label \in {"successorVersion", "successorNext"} => pc[t] # "predecessorVersion"
      BY DEF PredecessorVersion, SuccessorVersion, SuccessorLocked
    <2>2. /\ pc' \in [Thread -> Label] /\ pc'[t] = label
          /\ \A u \in Thread \ {t} : pc'[u] = pc[u]
      BY <2>1, Going DEF Label
    <2> QED BY <1>1, <2>1, <2>2 DEF Apart, MixedInv, Threads
  <1>4. InTxn(pc'[t], frame'[t])
    BY <1>1, <1>2, <1>3 DEF InTxn, Operating, Placed, AtNode, AtFound
  <1>5. Refs(t)' = Refs(t) BY <1>1 DEF Refs, commitVars
  <1> QED BY <1>1, <1>2, <1>3, <1>4, <1>5, OperationGoes DEF Operating, Placed

\* GetValidatedPredecessor takes its node, or looks for an earlier one.
LEMMA PredecessorDeletedGoes ==
  ASSUME MixedInv, NEW t \in Thread, PredecessorDeleted(t), UNCHANGED <<jobs, historyVars>>
  PROVE  Goes(t)
  <1> DEFINE p == frame[t].pred
  <1>1. pc[t] = "predecessorDeleted" /\ UNCHANGED <<sharedVars, txn, commitVars>>
    BY DEF PredecessorDeleted, operatorVars
  <1>2. InTxn(pc[t], frame[t]) /\ TxnTyped(txn[t]) /\ Refs(t) \subseteq Reach(t)
    BY <1>1, MixedOperator DEF Operating, Placed
  <1>3. node[p].key \in Key \cup {DefaultKey}
    BY <1>1, <1>2 DEF MixedInv, Memory, NodeType, Candidate, InTxn, Placed
  <1>4. /\ \/ pc'[t] = "successorLocked" /\ frame'[t] = [frame[t] EXCEPT !.at = p]
           \/ /\ pc'[t] \in {"fault", "findPrevious"}
              /\ frame'[t] = [frame[t] EXCEPT !.cand = node[p].key]
        /\ Apart(t)
    BY DEF PredecessorDeleted, operatorVars, Goto, Apart, MixedInv, Threads, Label, Operating, Placed
  <1>5. InTxn(pc'[t], frame'[t])
    BY <1>1, <1>2, <1>3, <1>4
    DEF InTxn, Locals, Candidate, Link, Operating, Placed, AtNode, AtFound
  <1>6. Refs(t)' \subseteq Reach(t)
    BY <1>1, <1>2, <1>4 DEF Refs, commitVars, InTxn, Locals
  <1> QED BY <1>1, <1>2, <1>4, <1>5, <1>6, OperationGoes DEF Operating, Placed

\* GetValidatedSuccessor returns n.
LEMMA SuccessorGoes ==
  ASSUME MixedInv, NEW t \in Thread, pc[t] \in AtNode, UNCHANGED <<sharedVars, commitVars, jobs>>,
         NEW n \in Link, n \in Reach(t), GotSuccessor(t, n)
  PROVE  Goes(t)
  <1>1. InTxn(pc[t], frame[t]) /\ TxnTyped(txn[t]) /\ Refs(t) \subseteq Reach(t)
    BY MixedOperator DEF Operating, Placed, AtNode
  <1>2. /\ frame[t].op \in Operation /\ frame[t].pred \in Node
        /\ Locals(frame[t])
    BY <1>1 DEF InTxn, Operating, Placed, AtNode
  <1>3. CASE frame[t].removing
    <2>1. frame'[t] = [frame[t] EXCEPT !.link = n] /\ pc'[t] = "removePredecessor"
          /\ Apart(t) /\ UNCHANGED txn
      BY <1>3 DEF GotSuccessor, Goto, Apart, MixedInv, Threads, Label, Operating, Placed
    <2>2. InTxn(pc'[t], frame'[t])
      BY <1>1, <1>2, <1>3, <2>1 DEF InTxn, Locals, Operating, Placed, AtNode, AtFound
    <2>3. Refs(t)' \subseteq Reach(t) BY <1>1, <1>2, <2>1 DEF Refs, commitVars, Locals
    <2> QED BY <1>1, <2>1, <2>2, <2>3, OperationGoes DEF Operating, Placed, AtNode
  <1>4. CASE ~frame[t].removing /\ n # Null /\ node[n].key < frame[t].op.key
    <2>1. frame'[t] = [frame[t] EXCEPT !.pred = n, !.at = n] /\ pc'[t] = "successorLocked"
          /\ Apart(t) /\ UNCHANGED txn
      BY <1>4 DEF GotSuccessor, Traversed, Goto, Apart, MixedInv, Threads, Label, Operating, Placed
    <2>2. InTxn(pc'[t], frame'[t])
      BY <1>1, <1>2, <1>4, <2>1 DEF InTxn, Locals, Link, Operating, Placed, AtNode, AtFound
    <2>3. Refs(t)' \subseteq Reach(t) BY <1>1, <1>2, <2>1 DEF Refs, commitVars, Locals
    <2> QED BY <1>1, <2>1, <2>2, <2>3, OperationGoes DEF Operating, Placed, AtNode
  <1>5. CASE ~frame[t].removing /\ ~(n # Null /\ node[n].key < frame[t].op.key)
    <2>1. /\ frame'[t] = [frame[t] EXCEPT !.succ = n] /\ pc'[t] = "apply"
          /\ txn'[t] = [txn[t] EXCEPT !.readSet = @ \cup {frame[t].pred}]
          /\ Apart(t)
      BY <1>5 DEF GotSuccessor, Traversed, Goto, Apart, MixedInv, Threads, Label, Operating, Placed
    <2>2. InTxn(pc'[t], frame'[t])
      BY <1>1, <1>2, <1>5, <2>1 DEF InTxn, Locals, Operating, Placed, AtNode, AtFound
    <2>3. txn[t].readSet \cup {frame[t].pred} \in SUBSET Node
      BY <1>1, <1>2 DEF TxnTyped, Txn
    <2>4. /\ TxnTyped(txn'[t]) /\ txn'[t].fresh = txn[t].fresh
          /\ txn'[t].writeSet = txn[t].writeSet /\ txn'[t].indexAdd = txn[t].indexAdd
      BY <1>1, <2>1, <2>3, TxnRead
    <2>5. Refs(t)' \subseteq Reach(t) BY <1>1, <1>2, <2>1, <2>4 DEF Refs, commitVars, Locals
    <2> QED BY <1>1, <2>1, <2>2, <2>4, <2>5, OperationGoes DEF Operating, Placed, AtNode
  <1> QED BY <1>3, <1>4, <1>5

\* GetValidatedSuccessor finds the node in the write set.
LEMMA SuccessorLockedGoes ==
  ASSUME MixedInv, NEW t \in Thread, SuccessorLocked(t), InWriteSet(t, frame[t].at),
         UNCHANGED <<jobs, historyVars>>
  PROVE  Goes(t)
  <1> DEFINE n == txn[t].writeSet[frame[t].at].next
  <1>1. pc[t] \in AtNode /\ GotSuccessor(t, n) /\ UNCHANGED <<sharedVars, commitVars>>
    BY DEF SuccessorLocked, AtNode
  <1>2. TxnTyped(txn[t]) /\ Refs(t) \subseteq Reach(t)
    BY <1>1, MixedOperator DEF Operating, Placed, AtNode
  <1>3. n \in Link BY <1>2 DEF TxnTyped, Txn, WriteSetElement, Link, InWriteSet
  <1>4. n \in Refs(t) BY DEF Refs, InWriteSet
  <1> QED BY <1>1, <1>2, <1>3, <1>4, SuccessorGoes

\* GetValidatedSuccessor returns the link of the node.
LEMMA SuccessorNextGoes ==
  ASSUME MixedInv, NEW t \in Thread, SuccessorNext(t), UNCHANGED <<jobs, historyVars>>
  PROVE  Goes(t)
  <1> DEFINE n == node[frame[t].at].next
  <1>1. pc[t] \in AtNode /\ GotSuccessor(t, n) /\ UNCHANGED <<sharedVars, commitVars>>
    BY DEF SuccessorNext, AtNode
  <1>2. InTxn(pc[t], frame[t]) BY <1>1, MixedOperator DEF Operating, Placed, AtNode
  <1>3. frame[t].at \in Refs(t) \cap Node BY <1>1, <1>2 DEF Refs, InTxn
  <1>4. n \in Link BY <1>3 DEF MixedInv, Memory, NodeType
  <1>5. n \in Reach(t) BY <1>3 DEF Reach
  <1> QED BY <1>1, <1>4, <1>5, SuccessorGoes

\* Operations that only return a result.
LEMMA AnswerGoes ==
  ASSUME MixedInv, NEW t \in Thread, UNCHANGED <<jobs, historyVars>>,
         Contains(t) \/ Get(t) \/ RemoveNothing(t)
  PROVE  Goes(t)
  <1>1. PICK r : Return(t, r) BY DEF Contains, Get, RemoveNothing
  <1>2. pc[t] = "apply" /\ UNCHANGED <<sharedVars, txn, commitVars>>
    BY DEF Contains, Get, RemoveNothing, operatorVars
  <1>3. TxnTyped(txn[t]) /\ Refs(t) \subseteq Reach(t) BY <1>2, MixedOperator DEF Operating, Placed
  <1>4. /\ pc'[t] = "next" /\ InTxn(pc'[t], frame'[t]) /\ Apart(t)
        /\ {frame'[t].pred, frame'[t].succ, frame'[t].at, frame'[t].link} = {Null}
    BY <1>1, <1>2, ReturnedMixed DEF Operating, Placed, Apart, MixedInv, Threads
  <1>5. Refs(t)' \subseteq Reach(t) BY <1>2, <1>3, <1>4 DEF Refs, commitVars, Reach
  <1> QED BY <1>2, <1>3, <1>4, <1>5, OperationGoes DEF Operating, Placed

\* Remove goes on to the successor of the node it removes.
LEMMA RemoveFoundGoes ==
  ASSUME MixedInv, NEW t \in Thread, RemoveFound(t), UNCHANGED <<jobs, historyVars>>
  PROVE  Goes(t)
  <1>1. pc[t] = "apply" /\ UNCHANGED <<sharedVars, txn, commitVars>>
    BY DEF RemoveFound, operatorVars
  <1>2. InTxn(pc[t], frame[t]) /\ TxnTyped(txn[t]) /\ Refs(t) \subseteq Reach(t)
    BY <1>1, MixedOperator DEF Operating, Placed
  <1>3. /\ frame'[t] = [frame[t] EXCEPT !.at = frame[t].succ, !.removing = TRUE]
        /\ pc'[t] = "successorLocked" /\ Apart(t)
    BY DEF RemoveFound, operatorVars, Goto, Apart, MixedInv, Threads, Label, Operating, Placed
  <1>4. frame[t].succ \in Node BY <1>2 DEF RemoveFound, Found, InTxn, Locals, Link
  <1>5. InTxn(pc'[t], frame'[t])
    BY <1>1, <1>2, <1>3, <1>4 DEF InTxn, Locals, Link, Operating, Placed, AtNode, AtFound
  <1>6. Refs(t)' \subseteq Reach(t)
    BY <1>1, <1>2, <1>3 DEF Refs, commitVars, InTxn, Locals
  <1> QED BY <1>1, <1>2, <1>3, <1>5, <1>6, OperationGoes DEF Operating, Placed

\* Insert of a present key reads the link of its node.
LEMMA InsertExistingGoes ==
  ASSUME MixedInv, NEW t \in Thread, InsertExisting(t), UNCHANGED <<jobs, historyVars>>
  PROVE  Goes(t)
  <1> DEFINE n == GetUpdatedNext(t, frame[t].succ)
  <1>1. pc[t] = "apply" /\ UNCHANGED <<sharedVars, txn, commitVars>>
    BY DEF InsertExisting, operatorVars
  <1>2. InTxn(pc[t], frame[t]) /\ TxnTyped(txn[t]) /\ Refs(t) \subseteq Reach(t)
    BY <1>1, MixedOperator DEF Operating, Placed
  <1>3. frame'[t] = [frame[t] EXCEPT !.link = n] /\ pc'[t] = "insertDeleted" /\ Apart(t)
    BY DEF InsertExisting, operatorVars, Goto, Apart, MixedInv, Threads, Label, Operating, Placed
  <1>4. frame[t].succ \in Node BY <1>2 DEF InsertExisting, Found, InTxn, Locals, Link
  <1>5. n \in Link /\ n \in Reach(t)
    <2>1. frame[t].succ \in Refs(t) \cap Node BY <1>4 DEF Refs
    <2>2. CASE InWriteSet(t, frame[t].succ)
      BY <1>2, <2>2 DEF GetUpdatedNext, InWriteSet, TxnTyped, Txn, WriteSetElement, Link, Refs
    <2>3. CASE ~InWriteSet(t, frame[t].succ)
      BY <2>1, <2>3 DEF GetUpdatedNext, Reach, MixedInv, Memory, NodeType
    <2> QED BY <2>2, <2>3
  <1>6. InTxn(pc'[t], frame'[t])
    BY <1>1, <1>2, <1>3, <1>4, <1>5 DEF InTxn, Locals, Operating, Placed, AtNode, AtFound
  <1>7. Refs(t)' \subseteq Reach(t)
    BY <1>1, <1>2, <1>3, <1>5 DEF Refs, commitVars, InTxn, Locals
  <1> QED BY <1>1, <1>2, <1>3, <1>6, <1>7, OperationGoes DEF Operating, Placed

\* Remove puts the predecessor in the write set.
LEMMA RemovePredecessorGoes ==
  ASSUME MixedInv, NEW t \in Thread, RemovePredecessor(t), UNCHANGED <<jobs, historyVars>>
  PROVE  Goes(t)
  <1> DEFINE p == frame[t].pred
             w == Put(t, p, frame[t].link, FALSE, GetUpdatedValue(t, p))
             e == [next |-> frame[t].link, deleted |-> FALSE, value |-> GetUpdatedValue(t, p)]
             d == DOMAIN txn[t].writeSet \cup {p}
  <1>1. pc[t] = "removePredecessor" /\ UNCHANGED <<sharedVars, commitVars, frame>>
    BY DEF RemovePredecessor
  <1>2. InTxn(pc[t], frame[t]) /\ TxnTyped(txn[t]) /\ Refs(t) \subseteq Reach(t)
    BY <1>1, MixedOperator DEF Operating, Placed
  <1>3. txn'[t] = [txn[t] EXCEPT !.writeSet = w] /\ pc'[t] = "removeSuccessor" /\ Apart(t)
    BY DEF RemovePredecessor, Goto, Apart, MixedInv, Threads, Label, Operating, Placed
  <1>4. InTxn(pc'[t], frame'[t])
    BY <1>1, <1>2, <1>3 DEF InTxn, Operating, Placed, AtNode, AtFound
  <1>5. p \in Node /\ frame[t].link \in Link /\ GetUpdatedValue(t, p) \in Value
    BY <1>1, <1>2, MixedUpdated DEF MixedInv, InTxn, Locals, Placed
  <1>6. /\ w \in [d -> WriteSetElement] /\ d \in SUBSET Node
        /\ \A m \in d : w[m].next \in {frame[t].link, txn[t].writeSet[m].next}
        /\ \A m \in d \ DOMAIN txn[t].writeSet : w[m].next = frame[t].link
    <2>1. d \in SUBSET Node BY <1>2, <1>5 DEF TxnTyped
    <2>2. e \in WriteSetElement /\ e.next = frame[t].link BY <1>5 DEF WriteSetElement, Link
    <2>3. w = [m \in DOMAIN txn[t].writeSet \cup {p} |->
                IF m = p THEN e ELSE txn[t].writeSet[m]]
      BY DEF Put
    <2>4. TxnTyped(txn[t]) BY <1>2
    <2> HIDE DEF e, w, p
    <2> QED BY <1>5, <2>1, <2>2, <2>3, <2>4, PutStep
  <1> HIDE DEF w, d, e
  <1>7. /\ TxnTyped(txn'[t]) /\ txn'[t].fresh = txn[t].fresh
        /\ txn'[t].writeSet = w /\ txn'[t].indexAdd = txn[t].indexAdd
    BY <1>2, <1>3, <1>6, TxnPut
  <1>8. DOMAIN w = DOMAIN txn[t].writeSet \cup {p} BY <1>6 DEF d
  <1>9. Refs(t)' \subseteq Refs(t)
    BY <1>1, <1>6, <1>7, <1>8 DEF Refs, commitVars, d
  <1> QED BY <1>1, <1>2, <1>3, <1>4, <1>7, <1>9, OperationGoes DEF Operating, Placed

\* Insert of a present key puts its node in the write set.
LEMMA InsertExistingDeletedGoes ==
  ASSUME MixedInv, NEW t \in Thread, InsertExistingDeleted(t), UNCHANGED <<jobs, historyVars>>
  PROVE  Goes(t)
  <1> DEFINE s == frame[t].succ
             w == Put(t, s, frame[t].link, GetUpdatedIsDeleted(t, s), frame[t].op.value)
             e == [next |-> frame[t].link, deleted |-> GetUpdatedIsDeleted(t, s),
                   value |-> frame[t].op.value]
             d == DOMAIN txn[t].writeSet \cup {s}
             read == txn[t].readSet \cup {s}
  <1>1. pc[t] = "insertDeleted" /\ UNCHANGED <<sharedVars, commitVars>>
    BY DEF InsertExistingDeleted
  <1>2. InTxn(pc[t], frame[t]) /\ TxnTyped(txn[t]) /\ Refs(t) \subseteq Reach(t)
    BY <1>1, MixedOperator DEF Operating, Placed
  <1>3. txn'[t] = [txn[t] EXCEPT !.writeSet = w, !.readSet = read] /\ DOMAIN txn' = Thread
        /\ \A u \in Thread \ {t} : txn'[u] = txn[u]
    BY DEF InsertExistingDeleted, MixedInv, Threads
  <1>4. /\ pc'[t] = "next" /\ InTxn(pc'[t], frame'[t]) /\ Apart(t)
        /\ {frame'[t].pred, frame'[t].succ, frame'[t].at, frame'[t].link} = {Null}
    BY <1>1, <1>3, ReturnedMixed DEF InsertExistingDeleted, Operating, Placed, Apart
  <1>5. /\ s \in Node /\ frame[t].link \in Link /\ frame[t].op.value \in Value
        /\ GetUpdatedIsDeleted(t, s) \in BOOLEAN
    BY <1>1, <1>2, MixedUpdated DEF MixedInv, InTxn, Locals, Operation, Operating, Placed, AtFound
  <1>6. /\ w \in [d -> WriteSetElement] /\ d \in SUBSET Node /\ read \in SUBSET Node
        /\ \A m \in d : w[m].next \in {frame[t].link, txn[t].writeSet[m].next}
        /\ \A m \in d \ DOMAIN txn[t].writeSet : w[m].next = frame[t].link
    <2>1. d \in SUBSET Node /\ read \in SUBSET Node BY <1>2, <1>5 DEF TxnTyped, Txn
    <2>2. e \in WriteSetElement /\ e.next = frame[t].link BY <1>5 DEF WriteSetElement, Link
    <2>3. w = [m \in DOMAIN txn[t].writeSet \cup {s} |->
                IF m = s THEN e ELSE txn[t].writeSet[m]]
      BY DEF Put
    <2>4. TxnTyped(txn[t]) BY <1>2
    <2> HIDE DEF e, w, s
    <2> QED BY <1>5, <2>1, <2>2, <2>3, <2>4, PutStep
  <1> HIDE DEF w, d, e, read
  <1>7. /\ TxnTyped(txn'[t]) /\ txn'[t].fresh = txn[t].fresh
        /\ txn'[t].writeSet = w /\ txn'[t].indexAdd = txn[t].indexAdd
    <2>1. TxnTyped(txn[t]) BY <1>2
    <2>2. w \in [d -> WriteSetElement] /\ d \in SUBSET Node /\ read \in SUBSET Node BY <1>6
    <2> DEFINE y == [txn[t] EXCEPT !.writeSet = w]
    <2>3. txn'[t] = [y EXCEPT !.readSet = read] BY <1>3
    <2>4. TxnTyped(y) /\ y.writeSet = w /\ y.fresh = txn[t].fresh /\ y.indexAdd = txn[t].indexAdd
      BY <2>1, <2>2, TxnPut
    <2> HIDE DEF y
    <2> QED BY <2>2, <2>3, <2>4, TxnRead
  <1>8. DOMAIN w = DOMAIN txn[t].writeSet \cup {s} BY <1>6 DEF d
  <1>9. Refs(t)' \subseteq Refs(t) \cup {Null}
    BY <1>1, <1>4, <1>6, <1>7, <1>8 DEF Refs, commitVars, d
  <1> QED BY <1>1, <1>2, <1>4, <1>7, <1>9, OperationGoes DEF Operating, Placed, Reach

\* Remove puts the removed node, linked to a new one, in the write set.
LEMMA RemoveSuccessorGoes ==
  ASSUME MixedInv, NEW t \in Thread, RemoveSuccessor(t), UNCHANGED <<jobs, historyVars>>
  PROVE  Goes(t)
  <1> DEFINE s == frame[t].succ
             n == FreshNode
             value == GetUpdatedValue(t, s)
             w == Put(t, s, n, TRUE, value)
             e == [next |-> n, deleted |-> TRUE, value |-> value]
             d == DOMAIN txn[t].writeSet \cup {s}
             read == txn[t].readSet \cup {s}
             remove == txn[t].indexRemove \cup {s}
             fresh == txn[t].fresh \cup {n}
  <1>1. pc[t] = "removeSuccessor" /\ Construct(n, NewNode) /\ Return(t, value) /\ UNCHANGED commitVars
    BY DEF RemoveSuccessor
  <1>2. InTxn(pc[t], frame[t]) /\ TxnTyped(txn[t]) /\ Refs(t) \subseteq Reach(t)
    BY <1>1, MixedOperator DEF Operating, Placed
  <1>3. n \in Node \ alloc BY <1>1, NewMemory DEF Construct
  <1>4. s \in Node /\ value \in Value
    BY <1>1, <1>2, MixedUpdated DEF MixedInv, InTxn, AtFound
  <1>5. /\ txn'[t] = [txn[t] EXCEPT !.writeSet = w, !.readSet = read, !.indexRemove = remove,
                                    !.fresh = fresh]
        /\ DOMAIN txn' = Thread
        /\ \A u \in Thread \ {t} : txn'[u] = txn[u]
    BY DEF RemoveSuccessor, MixedInv, Threads
  <1>6. /\ pc'[t] = "next" /\ InTxn(pc'[t], frame'[t]) /\ Apart(t)
        /\ {frame'[t].pred, frame'[t].succ, frame'[t].at, frame'[t].link} = {Null}
    BY <1>1, <1>5, ReturnedMixed DEF Operating, Placed, Apart
  <1>7. /\ w \in [d -> WriteSetElement] /\ d \in SUBSET Node
        /\ \A m \in d : w[m].next \in {n, txn[t].writeSet[m].next}
        /\ \A m \in d \ DOMAIN txn[t].writeSet : w[m].next = n
    <2>1. d \in SUBSET Node BY <1>2, <1>4 DEF TxnTyped
    <2>2. e \in WriteSetElement /\ e.next = n BY <1>3, <1>4 DEF WriteSetElement
    <2>3. w = [m \in DOMAIN txn[t].writeSet \cup {s} |->
                IF m = s THEN e ELSE txn[t].writeSet[m]]
      BY DEF Put
    <2>4. TxnTyped(txn[t]) BY <1>2
    <2> HIDE DEF e, w, s, n
    <2> QED BY <1>4, <2>1, <2>2, <2>3, <2>4, PutStep
  <1>8. read \in SUBSET Node /\ remove \in SUBSET Node /\ fresh \in SUBSET Node
    BY <1>2, <1>3, <1>4 DEF TxnTyped, Txn
  <1> HIDE DEF w, d, e, read, remove, fresh, n
  <1>9. /\ TxnTyped(txn'[t]) /\ txn'[t].fresh = fresh
        /\ txn'[t].writeSet = w /\ txn'[t].indexAdd = txn[t].indexAdd
    <2> DEFINE x == [txn[t] EXCEPT !.writeSet = w]
               y == [x EXCEPT !.readSet = read]
               z == [y EXCEPT !.indexRemove = remove]
    <2>1. txn'[t] = [z EXCEPT !.fresh = fresh] BY <1>5
    <2>2. TxnTyped(x) /\ x.writeSet = w /\ x.fresh = txn[t].fresh /\ x.indexAdd = txn[t].indexAdd
      BY <1>2, <1>7, TxnPut
    <2> HIDE DEF x
    <2>3. TxnTyped(y) /\ y.writeSet = w /\ y.indexAdd = txn[t].indexAdd
      BY <1>8, <2>2, TxnRead
    <2> HIDE DEF y
    <2>4. TxnTyped(z) /\ z.writeSet = w /\ z.indexAdd = txn[t].indexAdd
      BY <1>8, <2>3, TxnIndexRemove
    <2> HIDE DEF z
    <2> QED BY <1>8, <2>1, <2>4, TxnFresh
  <1>10. DOMAIN w = DOMAIN txn[t].writeSet \cup {s} BY <1>7 DEF d
  <1>11. Refs(t)' \subseteq Reach(t) \cup {n}
    <2>1. s \in Refs(t) BY DEF Refs
    <2>2. held'[t] = held[t] BY <1>1 DEF commitVars
    <2>3. Null \in Reach(t) BY DEF Reach
    <2> DEFINE nexts == {w[m].next : m \in DOMAIN w}
    <2>4. nexts \subseteq Reach(t) \cup {n}
      <3>1. \A m \in DOMAIN txn[t].writeSet : txn[t].writeSet[m].next \in Reach(t)
        BY <1>2 DEF Refs
      <3> HIDE DEF s
      <3> QED BY <1>7, <1>10, <3>1 DEF d
    <2>5. DOMAIN w \subseteq Reach(t) /\ held[t] \subseteq Reach(t)
          /\ {txn[t].indexAdd[i] : i \in DOMAIN txn[t].indexAdd} \subseteq Reach(t)
      BY <1>2, <1>10, <2>1 DEF Refs
    <2>6. Refs(t)' = {frame'[t].pred, frame'[t].succ, frame'[t].at, frame'[t].link}
                        \cup DOMAIN w \cup nexts
                        \cup {txn[t].indexAdd[i] : i \in DOMAIN txn[t].indexAdd} \cup held'[t]
      BY <1>9 DEF Refs
    <2> HIDE DEF s, nexts
    <2> QED BY <1>6, <2>2, <2>3, <2>4, <2>5, <2>6
  <1>12. NewNode \in NodeType /\ NewNode.next \in Reach(t)
    BY ValueAssumption DEF NewNode, NodeType, Candidate, Link, Reach
  <1>13. /\ alloc' = alloc \cup {n} /\ node' = [node EXCEPT ![n] = NewNode]
         /\ lock' = [lock EXCEPT ![n] = NewWord] /\ UNCHANGED <<gvc, index>>
    BY <1>1 DEF Construct
  <1>14. UNCHANGED <<gvc, index, commitVars, jobs>> BY <1>1, <1>13
  <1>15. txn'[t].fresh = txn[t].fresh \cup {n} BY <1>9 DEF fresh
  <1>16. pc[t] \in Operating BY <1>1 DEF Operating, Placed
  <1>17. n = FreshNode /\ alloc # Node BY <1>1 DEF Construct, n
  <1> QED BY <1>6, <1>9, <1>11, <1>12, <1>13, <1>14, <1>15, <1>16, <1>17, ConstructGoes

\* Insert creates a node and puts its predecessor in the write set.
LEMMA InsertNewGoes ==
  ASSUME MixedInv, NEW t \in Thread, InsertNew(t), UNCHANGED <<jobs, historyVars>>
  PROVE  Goes(t)
  <1> DEFINE p == frame[t].pred
             n == FreshNode
             value == GetUpdatedValue(t, p)
             c == [key |-> frame[t].op.key, value |-> frame[t].op.value, next |-> frame[t].succ]
             w == Put(t, p, n, FALSE, value)
             e == [next |-> n, deleted |-> FALSE, value |-> value]
             d == DOMAIN txn[t].writeSet \cup {p}
             add == Append(txn[t].indexAdd, n)
             fresh == txn[t].fresh \cup {n}
  <1>1. pc[t] = "apply" /\ Construct(n, c) /\ Return(t, Null) /\ UNCHANGED commitVars
    BY DEF InsertNew
  <1>2. InTxn(pc[t], frame[t]) /\ TxnTyped(txn[t]) /\ Refs(t) \subseteq Reach(t)
    BY <1>1, MixedOperator DEF Operating, Placed
  <1>3. n \in Node \ alloc BY <1>1, NewMemory DEF Construct
  <1>4. p \in Node /\ value \in Value
    BY <1>1, <1>2, MixedUpdated DEF MixedInv, InTxn, Placed
  <1>5. /\ txn'[t] = [txn[t] EXCEPT !.writeSet = w, !.indexAdd = add, !.fresh = fresh]
        /\ DOMAIN txn' = Thread
        /\ \A u \in Thread \ {t} : txn'[u] = txn[u]
    BY DEF InsertNew, MixedInv, Threads
  <1>6. /\ pc'[t] = "next" /\ InTxn(pc'[t], frame'[t]) /\ Apart(t)
        /\ {frame'[t].pred, frame'[t].succ, frame'[t].at, frame'[t].link} = {Null}
    BY <1>1, <1>5, ReturnedMixed DEF Operating, Placed, Apart
  <1>7. /\ w \in [d -> WriteSetElement] /\ d \in SUBSET Node
        /\ \A m \in d : w[m].next \in {n, txn[t].writeSet[m].next}
        /\ \A m \in d \ DOMAIN txn[t].writeSet : w[m].next = n
    <2>1. d \in SUBSET Node BY <1>2, <1>4 DEF TxnTyped
    <2>2. e \in WriteSetElement /\ e.next = n BY <1>3, <1>4 DEF WriteSetElement
    <2>3. w = [m \in DOMAIN txn[t].writeSet \cup {p} |->
                IF m = p THEN e ELSE txn[t].writeSet[m]]
      BY DEF Put
    <2>4. TxnTyped(txn[t]) BY <1>2
    <2> HIDE DEF e, w, p, n
    <2> QED BY <1>4, <2>1, <2>2, <2>3, <2>4, PutStep
  <1>8. fresh \in SUBSET Node /\ txn[t].indexAdd \in Seq(Node)
    BY <1>2, <1>3, <1>4 DEF TxnTyped, Txn
  <1>9. add \in Seq(Node)
        /\ {add[i] : i \in DOMAIN add} \subseteq {txn[t].indexAdd[i] : i \in DOMAIN txn[t].indexAdd} \cup {n}
    <2> HIDE DEF n
    <2> QED BY <1>3, <1>8
  <1>10. c \in NodeType /\ c.next \in Reach(t)
    <2>1. frame[t].op \in Operation /\ frame[t].succ \in Link
      BY <1>1, <1>2 DEF InTxn, Locals, Operating, Placed
    <2>2. frame[t].succ \in Refs(t) BY DEF Refs
    <2> QED BY <1>2, <2>1, <2>2 DEF Operation, NodeType, Candidate
  <1>11. /\ alloc' = alloc \cup {n} /\ node' = [node EXCEPT ![n] = c]
         /\ lock' = [lock EXCEPT ![n] = NewWord] /\ UNCHANGED <<gvc, index>>
    BY <1>1 DEF Construct
  <1> HIDE DEF w, d, e, add, fresh, n, c
  <1>12. /\ TxnTyped(txn'[t]) /\ txn'[t].fresh = fresh
         /\ txn'[t].writeSet = w /\ txn'[t].indexAdd = add
    <2> DEFINE x == [txn[t] EXCEPT !.writeSet = w]
               y == [x EXCEPT !.indexAdd = add]
    <2>1. txn'[t] = [y EXCEPT !.fresh = fresh] BY <1>5
    <2>2. TxnTyped(x) /\ x.writeSet = w BY <1>2, <1>7, TxnPut
    <2>3. add \in Seq(Node) BY <1>9
    <2> HIDE DEF x
    <2>4. TxnTyped(y) /\ y.writeSet = w /\ y.indexAdd = add BY <2>2, <2>3, TxnIndexAdd
    <2> HIDE DEF y
    <2>5. fresh \in SUBSET Node BY <1>8
    <2> HIDE DEF fresh
    <2>6. txn'[t].fresh = fresh /\ txn'[t].writeSet = y.writeSet /\ txn'[t].indexAdd = y.indexAdd
          /\ TxnTyped(txn'[t])
      BY <2>1, <2>4, <2>5, TxnFresh
    <2> QED BY <2>4, <2>6
  <1>13. DOMAIN w = DOMAIN txn[t].writeSet \cup {p} BY <1>7 DEF d
  <1>14. Refs(t)' \subseteq Reach(t) \cup {n}
    <2>1. p \in Refs(t) BY DEF Refs
    <2>2. held'[t] = held[t] BY <1>1 DEF commitVars
    <2>3. Null \in Reach(t) BY DEF Reach
    <2> DEFINE olds == {txn[t].indexAdd[i] : i \in DOMAIN txn[t].indexAdd}
               news == {add[i] : i \in DOMAIN add}
               nexts == {w[m].next : m \in DOMAIN w}
    <2>4. news \subseteq Reach(t) \cup {n}
      <3>1. olds \subseteq Reach(t) BY <1>2 DEF Refs
      <3> QED BY <1>9, <3>1
    <2>5. nexts \subseteq Reach(t) \cup {n}
      <3>1. \A m \in DOMAIN txn[t].writeSet : txn[t].writeSet[m].next \in Reach(t)
        BY <1>2 DEF Refs
      <3> HIDE DEF p
      <3> QED BY <1>7, <1>13, <3>1 DEF d
    <2>6. DOMAIN w \subseteq Reach(t) /\ held[t] \subseteq Reach(t)
      BY <1>2, <1>13, <2>1 DEF Refs
    <2>7. Refs(t)' = {frame'[t].pred, frame'[t].succ, frame'[t].at, frame'[t].link}
                        \cup DOMAIN w \cup nexts \cup news \cup held'[t]
      BY <1>12 DEF Refs
    <2> HIDE DEF p, news, nexts
    <2> QED BY <1>6, <2>2, <2>3, <2>4, <2>5, <2>6, <2>7
  <1>15. UNCHANGED <<gvc, index, commitVars, jobs>> BY <1>1, <1>11
  <1>16. txn'[t].fresh = txn[t].fresh \cup {n} BY <1>12 DEF fresh
  <1>17. pc[t] \in Operating BY <1>1 DEF Operating, Placed
  <1>18. n = FreshNode /\ alloc # Node BY <1>1 DEF Construct, n
  <1> QED BY <1>6, <1>10, <1>11, <1>12, <1>14, <1>15, <1>16, <1>17, <1>18, ConstructGoes

-----------------------------------------------------------------------------
(* The commit, while others may call operations outside transactions. *)

\* The labels of the commit are none of those of an operation.
LEMMA CommitLabels ==
  ASSUME NEW label \in Holding \cup Clearing \cup {"next", "fault"}
  PROVE  /\ label \in Label /\ label \notin {"idle", "crashed"}
         /\ label \notin Outside /\ label \notin Operating /\ label \notin Placed
         /\ label \notin AtNode /\ label \notin AtFound /\ label \notin ToSuccessor
         /\ label \notin Rechecking /\ label \notin Linking /\ label \notin Changing
  BY DEF Label, Holding, Clearing, Validating, Committing, Outside, Looking, Unplaced, Changing,
         Rechecking, ToSuccessor, Linking, Operating, Placed, AtNode, AtFound

\* The commit goes on, and creates no node.
LEMMA CommitGoes ==
  ASSUME MixedInv, NEW t \in Thread, Memory', Threads', Others(t), UNCHANGED <<alloc, frame, jobs>>,
         pc[t] \in Holding \cup Clearing \cup {"next"}, pc'[t] \in Holding \cup Clearing,
         TxnTyped(txn'[t]), txn'[t].fresh = txn[t].fresh, Lockers(t)',
         pc'[t] \in Committing \cup {"finish"} \/ pc[t] \notin Committing \cup {"finish"},
         Refs(t)' \subseteq Reach(t),
         \A n \in Node : \/ node'[n].next = node[n].next
                         \/ node'[n].next \in Reach(t) /\ Hidden(t) = {},
         \A k \in Key : \/ index'[k] = index[k]
                        \/ index'[k] \in Reach(t) /\ Hidden(t) = {}
  PROVE  MixedInv'
  <1>1. /\ MixedFits(pc[t], frame[t]) /\ jobs[t] # <<>>
        /\ pc[t] \notin {"idle", "crashed"} /\ pc'[t] \notin {"idle", "crashed"}
    BY MixedUse, CommitLabels
  <1>2. MixedFits(pc'[t], frame[t]) BY <1>1, CommitLabels DEF MixedFits
  <1>3. MixedThread(t)' BY <1>1, <1>2, CommitLabels DEF MixedThread
  <1>4. Hidden(t)' \subseteq Hidden(t) BY <1>1 DEF Hidden
  <1> QED BY <1>3, <1>4, LinkStep

\* LocalTxnPrologue reads the clock.
LEMMA BeginGoes ==
  ASSUME MixedInv, NEW t \in Thread, Begin(t)
  PROVE  Goes(t)
  <1>1. /\ pc[t] = "idle" /\ pc'[t] = "next" /\ jobs[t] # <<>>
        /\ UNCHANGED <<sharedVars, commitVars, frame, jobs>> /\ Threads' /\ Others(t)
        /\ txn'[t] = [txn[t] EXCEPT !.active = TRUE, !.readVersion = gvc]
    BY DEF Begin, LocalTxnPrologue, Goto, MixedInv, Threads, Others, Label, commitVars
  <1>2. TxnTyped(txn[t]) /\ MixedFits("idle", frame[t]) /\ Lockers(t) /\ gvc \in Nat
        /\ Refs(t) \subseteq Reach(t)
    BY <1>1, MixedUse DEF MixedInv, Memory
  <1>3. /\ TxnTyped(txn'[t]) /\ txn'[t].writeSet = txn[t].writeSet
        /\ txn'[t].fresh = txn[t].fresh /\ txn'[t].indexAdd = txn[t].indexAdd
    <2> DEFINE d == DOMAIN txn[t].writeSet
    <2>1. txn[t] \in Txn(d) /\ d \subseteq Node BY <1>2 DEF TxnTyped
    <2>2. txn'[t] \in Txn(d) BY <1>1, <1>2, <2>1 DEF Txn
    <2>3. /\ txn'[t].writeSet = txn[t].writeSet /\ txn'[t].fresh = txn[t].fresh
          /\ txn'[t].indexAdd = txn[t].indexAdd
      BY <1>1, <2>1 DEF Txn
    <2> QED BY <2>1, <2>2, <2>3 DEF TxnTyped
  <1>4. MixedFits("next", frame[t])
    <2>1. /\ "next" \in Holding \cup Clearing \cup {"next", "fault"} OBVIOUS
    <2> QED BY <1>2, <2>1, CommitLabels DEF MixedFits
  <1>5. Lockers(t)'
    <2>1. pc[t] \notin Holding \cup Clearing \cup Changing \cup {"crashed"}
      BY <1>1, LookingIs DEF Holding, Clearing, Outside, Validating, Committing
    <2>2. held'[t] = {} BY <1>1, <1>2, <2>1 DEF Lockers, commitVars
    <2> QED BY <1>1, <2>2, CommitLabels DEF Lockers, Validating, Committing
  <1>6. MixedThread(t)' BY <1>1, <1>3, <1>4, <1>5, CommitLabels DEF MixedThread
  <1>7. Refs(t)' \subseteq Reach(t)
    <2>1. Refs(t)' = Refs(t) BY <1>1, <1>3 DEF Refs, commitVars
    <2> QED BY <1>2, <2>1
  <1>8. Hidden(t)' = Hidden(t) BY <1>1, <1>3 DEF Hidden, Committing
  <1>9. MixedInv' BY <1>1, <1>3, <1>6, <1>7, <1>8, LocalStep
  <1> QED BY <1>1, <1>9, LocksSame DEF Goes, sharedVars, commitVars

\* The commit moves on without a change to the nodes.
LEMMA ValidationGoes ==
  ASSUME MixedInv, NEW t \in Thread, UNCHANGED <<lock, node, alloc, index, txn, held, frame, jobs>>,
         pc[t] \in {"next", "lock"} \cup Validating \cup Clearing,
         NEW label \in {"lock", "abort"} \cup Validating \cup Clearing, Goto(t, label),
         gvc' \in Nat, todo' \in [Thread -> SUBSET Node], cur' \in [Thread -> Node],
         saw' \in [Thread -> Word],
         \A u \in Thread \ {t} : todo'[u] = todo[u] /\ cur'[u] = cur[u],
         label = "lock" => pc[t] = "next" /\ todo'[t] = DOMAIN txn[t].writeSet,
         label \in Validating => pc[t] \in Validating \/ (pc[t] = "lock" /\ todo[t] = {})
  PROVE  Goes(t)
  <1>1. /\ pc[t] \in Holding \cup Clearing \cup {"next"} /\ label \in Holding \cup Clearing
        /\ pc[t] \notin Committing \cup {"finish"} /\ label \notin Committing \cup {"finish"}
        /\ label \in Label
    BY CommitLabels DEF Holding, Clearing, Validating, Committing
  <1>2. /\ pc' \in [Thread -> Label] /\ pc'[t] = label
        /\ \A u \in Thread \ {t} : pc'[u] = pc[u]
    BY <1>1, Going
  <1>3. Threads' /\ Others(t) BY <1>2 DEF MixedInv, Threads, Others
  <1>4. Memory' BY DEF MixedInv, Memory
  <1>5. Lockers(t)'
    <2>1. Lockers(t) BY MixedUse
    <2>2. pc[t] = "next" => held[t] = {}
      BY <2>1, CommitLabels DEF Lockers, Holding, Clearing, Validating, Committing
    <2>3. label \in Validating => DOMAIN txn[t].writeSet = held[t] BY <2>1 DEF Lockers
    <2> QED BY <1>1, <1>2, <2>2, <2>3, CommitLabels
            DEF Lockers, Validating, Committing, Clearing, Holding
  <1>6. Refs(t)' = Refs(t) BY DEF Refs
  <1>7. MixedInv' BY <1>1, <1>2, <1>3, <1>4, <1>5, <1>6, MixedUse, CommitGoes
  <1> QED BY <1>7, LocksSame DEF Goes

\* The commit begins; all nodes are locked; a node is validated.
LEMMA ValidateGoes ==
  ASSUME MixedInv, NEW t \in Thread, UNCHANGED <<frame, jobs, historyVars>>,
         \/ Commit(t) \/ ValidateReadSet(t) \/ ValidateNode(t) \/ ValidateVersion(t)
         \/ ValidateEqual(t) \/ ValidateSingleton(t) \/ ValidateRelocked(t)
         \/ AdvanceClock(t) \/ ClearSingletonLoad(t)
  PROVE  Goes(t)
  <1>1. /\ todo[t] \subseteq Node /\ txn[t].readSet \subseteq Node /\ cur[t] \in Node
        /\ DOMAIN txn[t].writeSet \subseteq Node
    BY MixedUse DEF TxnTyped, Txn
  <1>2. /\ gvc \in Nat /\ lock \in [Node -> Word] /\ todo \in [Thread -> SUBSET Node]
        /\ cur \in [Thread -> Node] /\ saw \in [Thread -> Word]
    BY DEF MixedInv, Memory, Threads
  <1>10. /\ "validate" \in Validating /\ "validateVersion" \in Validating
         /\ "validateEqual" \in Validating /\ "validateSingleton" \in Validating
         /\ "validateRelocked" \in Validating /\ "advance" \in Clearing /\ "advance" \notin Validating
         /\ "lock" \notin Validating /\ "abort" \notin Validating
    BY DEF Validating, Clearing
  <1>3. CASE Commit(t)
    <2>1. /\ UNCHANGED <<gvc, lock, node, alloc, index, txn, held, cur, saw>>
          /\ pc[t] = "next" /\ Goto(t, "lock")
          /\ todo' = [todo EXCEPT ![t] = DOMAIN txn[t].writeSet]
      BY <1>3 DEF Commit, LockWriteSet, Visit, sharedVars
    <2>2. /\ todo' \in [Thread -> SUBSET Node] /\ todo'[t] = DOMAIN txn[t].writeSet
          /\ \A u \in Thread \ {t} : todo'[u] = todo[u]
      BY <1>1, <1>2, <2>1
    <2> QED BY <1>2, <1>10, <2>1, <2>2, ValidationGoes
  <1>4. CASE ValidateReadSet(t)
    BY <1>1, <1>2, <1>4, ValidationGoes DEF ValidateReadSet, Visit, sharedVars, Validating
  <1>5. CASE ValidateNode(t)
    <2>1. PICK n \in todo[t] :
            cur' = [cur EXCEPT ![t] = n] /\ (Goto(t, "abort") \/ Goto(t, "validateVersion"))
      BY <1>5 DEF ValidateNode
    <2>2. cur' \in [Thread -> Node] /\ \A u \in Thread \ {t} : cur'[u] = cur[u]
      BY <1>1, <1>2, <2>1
    <2>3. /\ UNCHANGED <<gvc, lock, node, alloc, index, txn, held, todo, saw>>
          /\ pc[t] \in Validating
      BY <1>5 DEF ValidateNode, sharedVars, Validating
    <2>4. CASE Goto(t, "abort") BY <1>2, <1>10, <2>2, <2>3, <2>4, ValidationGoes
    <2>5. CASE Goto(t, "validateVersion") BY <1>2, <1>10, <2>2, <2>3, <2>5, ValidationGoes
    <2> QED BY <2>1, <2>4, <2>5
  <1>6. CASE ValidateVersion(t) \/ ValidateEqual(t) \/ ValidateSingleton(t)
    <2>1. PICK label \in {"abort", "advance"} \cup Validating : Goto(t, label)
      BY <1>6, <1>10 DEF ValidateVersion, ValidateEqual, ValidateSingleton
    <2>2. UNCHANGED <<gvc, lock, node, alloc, index, txn, held, todo, cur, saw>>
          /\ pc[t] \in Validating
      BY <1>6 DEF ValidateVersion, ValidateEqual, ValidateSingleton, sharedVars, commitVars, Validating
    <2>3. label \in {"lock", "abort"} \cup Validating \cup Clearing /\ label # "lock"
      BY <1>10
    <2> QED BY <1>2, <2>1, <2>2, <2>3, ValidationGoes
  <1>7. CASE ValidateRelocked(t)
    <2>1. PICK label \in {"abort"} \cup Validating : Goto(t, label)
      BY <1>7, <1>10 DEF ValidateRelocked, Abort
    <2>2. /\ todo' \in [Thread -> SUBSET Node] /\ \A u \in Thread \ {t} : todo'[u] = todo[u]
      BY <1>1, <1>2, <1>7 DEF ValidateRelocked, Visited, Visit
    <2>3. UNCHANGED <<gvc, lock, node, alloc, index, txn, held, cur, saw>> /\ pc[t] \in Validating
      BY <1>7 DEF ValidateRelocked, sharedVars, Validating
    <2>4. label \in {"lock", "abort"} \cup Validating \cup Clearing /\ label # "lock"
      BY <1>10
    <2> QED BY <1>2, <2>1, <2>2, <2>3, <2>4, ValidationGoes
  <1>8. CASE AdvanceClock(t)
    BY <1>2, <1>8, ValidationGoes DEF AdvanceClock, commitVars, Clearing, Validating
  <1>9. CASE ClearSingletonLoad(t)
    <2>1. saw' \in [Thread -> Word] BY <1>1, <1>2, <1>9 DEF ClearSingletonLoad
    <2> QED BY <1>2, <1>9, <2>1, ValidationGoes DEF ClearSingletonLoad, sharedVars, Clearing, Validating
  <1> QED BY <1>3, <1>4, <1>5, <1>6, <1>7, <1>8, <1>9

\* SetSingleton stores what it loaded.
LEMMA ClearGoes ==
  ASSUME MixedInv, NEW t \in Thread, ClearSingletonStore(t), UNCHANGED <<frame, jobs, historyVars>>
  PROVE  /\ MixedInv'
         /\ saw[t].locked = lock[cur[t]].locked => LockStep(t)
  <1> DEFINE w == WithSingleton(saw[t], FALSE)
  <1>1. /\ pc[t] = "clearStore" /\ Goto(t, "abort") /\ lock' = [lock EXCEPT ![cur[t]] = w]
        /\ saw' = [saw EXCEPT ![t] = NewWord]
        /\ UNCHANGED <<gvc, node, alloc, index, txn, held, todo, cur>>
    BY DEF ClearSingletonStore, Abort
  <1>2. cur[t] \in Node /\ w \in Word /\ w.locked = saw[t].locked
    BY MixedUse DEF Word, WithSingleton
  <1> HIDE DEF w
  <1>3. Memory' /\ \A n \in Node : n # cur[t] => lock'[n] = lock[n]
    BY <1>1, <1>2, WordWritten
  <1>4. lock'[cur[t]] = w BY <1>1, <1>2 DEF MixedInv, Memory
  <1>5. /\ pc' \in [Thread -> Label] /\ pc'[t] = "abort"
        /\ \A u \in Thread \ {t} : pc'[u] = pc[u]
    BY <1>1, Going DEF Label
  <1>6. Threads' /\ Others(t)
    BY <1>1, <1>5 DEF MixedInv, Threads, Others, NewWord, Word
  <1>7. /\ pc[t] \in Holding \cup Clearing \cup {"next"} /\ pc'[t] \in Holding \cup Clearing
        /\ pc[t] \notin Committing \cup {"finish"} /\ pc'[t] \notin Validating \cup Committing
    BY <1>1, <1>5 DEF Holding, Clearing, Validating, Committing
  <1>8. Lockers(t)' BY <1>5, <1>7, CommitLabels DEF Lockers
  <1>9. Refs(t)' = Refs(t) BY <1>1 DEF Refs
  <1>10. MixedInv' BY <1>1, <1>3, <1>6, <1>7, <1>8, <1>9, MixedUse, CommitGoes
  <1> QED BY <1>1, <1>2, <1>3, <1>4, <1>10, LocksSame

\* What a thread has while it commits.
LEMMA CommitUse ==
  ASSUME MixedInv, NEW t \in Thread, pc[t] \in Committing
  PROVE  /\ TxnTyped(txn[t]) /\ DOMAIN txn[t].writeSet = held[t] /\ held[t] \subseteq Node
         /\ todo[t] \subseteq held[t] /\ Hidden(t) = {} /\ cur[t] \in Node
         /\ pc[t] # "write" => cur[t] \in held[t]
         /\ Refs(t) \subseteq Reach(t)
         /\ pc[t] \in Holding \cup Clearing \cup {"next"}
  BY MixedUse DEF Lockers, Hidden, Holding

\* LockWriteSet acquires a lock that was free, or gives up.
LEMMA LockNodeGoes ==
  ASSUME MixedInv, NEW t \in Thread, LockNode(t), UNCHANGED <<frame, jobs, historyVars>>
  PROVE  Goes(t)
  <1>1. /\ pc[t] = "lock" /\ UNCHANGED <<gvc, node, alloc, index, txn, cur, saw>>
        /\ "lock" \in Holding /\ "lock" \in Label /\ "lock" \notin Committing \cup {"finish"}
        /\ "lock" \notin Validating
    BY DEF LockNode, Holding, Label, Committing, Validating
  <1>2. /\ TxnTyped(txn[t]) /\ held[t] \subseteq Node /\ todo[t] \subseteq Node
        /\ DOMAIN txn[t].writeSet = held[t] \cup todo[t] /\ Refs(t) \subseteq Reach(t)
    BY <1>1, MixedUse DEF Lockers
  <1>3. PICK n \in todo[t] :
           IF lock[n].locked
           THEN /\ Abort(t)
                /\ UNCHANGED <<lock, held, todo>>
           ELSE /\ lock' = [lock EXCEPT ![n] = Acquired(@)]
                /\ held' = [held EXCEPT ![t] = @ \cup {n}]
                /\ Visit(t, todo[t] \ {n})
                /\ UNCHANGED pc
    BY DEF LockNode
  <1>4. CASE lock[n].locked
    <2>1. Goto(t, "abort") /\ UNCHANGED <<lock, node, alloc, index, txn, held, gvc, todo, cur, saw>>
      BY <1>1, <1>3, <1>4 DEF Abort
    <2>2. /\ gvc' \in Nat /\ todo' \in [Thread -> SUBSET Node] /\ cur' \in [Thread -> Node]
          /\ saw' \in [Thread -> Word]
      BY <2>1 DEF MixedInv, Memory, Threads
    <2>3. "abort" \notin Validating BY DEF Validating
    <2> QED BY <1>1, <2>1, <2>2, <2>3, ValidationGoes
  <1>5. CASE ~lock[n].locked
    <2>1. /\ lock' = [lock EXCEPT ![n] = Acquired(@)] /\ UNCHANGED pc
          /\ held' = [held EXCEPT ![t] = @ \cup {n}]
          /\ todo' = [todo EXCEPT ![t] = todo[t] \ {n}]
      BY <1>3, <1>5 DEF Visit
    <2>2. n \in Node BY <1>2
    <2>3. Memory'
      <3> DEFINE w == Acquired(lock[n])
      <3>1. lock' = [lock EXCEPT ![n] = w] BY <2>1
      <3>2. w \in Word BY <2>2 DEF Acquired, Word, MixedInv, Memory
      <3> HIDE DEF w
      <3> QED BY <1>1, <2>2, <3>1, <3>2, WordWritten
    <2>4. /\ held' \in [Thread -> SUBSET Node] /\ todo' \in [Thread -> SUBSET Node]
          /\ held'[t] = held[t] \cup {n} /\ todo'[t] = todo[t] \ {n}
          /\ \A u \in Thread \ {t} : held'[u] = held[u] /\ todo'[u] = todo[u]
      BY <1>2, <2>1, <2>2 DEF MixedInv, Threads
    <2>5. Threads' /\ Others(t) BY <1>1, <2>1, <2>4 DEF MixedInv, Threads, Others
    <2>6. Lockers(t)'
      BY <1>1, <1>2, <2>1, <2>4, CommitLabels DEF Lockers, Holding
    <2>7. Refs(t)' \subseteq Reach(t)
      <3>1. Refs(t)' \subseteq Refs(t) BY <1>1, <1>2, <2>4 DEF Refs
      <3> QED BY <1>2, <3>1
    <2>8. MixedInv' BY <1>1, <1>2, <2>1, <2>3, <2>5, <2>6, <2>7, CommitGoes
    <2>9. LockStep(t) BY <1>5, <2>1, <2>2 DEF LockStep
    <2> QED BY <2>8, <2>9 DEF Goes
  <1> QED BY <1>4, <1>5

\* IncrementWriteVersion: the transaction has committed.
LEMMA PassValidationGoes ==
  ASSUME MixedInv, NEW t \in Thread, PassValidation(t)
  PROVE  Goes(t)
  <1>1. /\ pc[t] = "validate" /\ gvc' = gvc + 1
        /\ UNCHANGED <<lock, node, alloc, index, held, cur, saw, frame, jobs>>
        /\ todo' = [todo EXCEPT ![t] = DOMAIN txn[t].writeSet]
        /\ txn' = [txn EXCEPT ![t].readSet = {}, ![t].writeVersion = gvc + 1]
        /\ Goto(t, "write")
    BY DEF PassValidation, IncrementWriteVersion, Visit
  <1>2. /\ TxnTyped(txn[t]) /\ held[t] \subseteq Node /\ DOMAIN txn[t].writeSet = held[t]
        /\ Refs(t) \subseteq Reach(t)
        /\ pc[t] \in Holding /\ pc[t] \notin Committing \cup {"finish"}
    BY <1>1, MixedUse DEF Lockers, Holding, Validating, Committing
  <1>3. gvc \in Nat /\ gvc + 1 \in Nat BY DEF MixedInv, Memory
  <1>4. /\ txn'[t] = [txn[t] EXCEPT !.readSet = {}, !.writeVersion = gvc + 1]
        /\ DOMAIN txn' = Thread /\ \A u \in Thread \ {t} : txn'[u] = txn[u]
    BY <1>1 DEF MixedInv, Threads
  <1>5. /\ pc' \in [Thread -> Label] /\ pc'[t] = "write"
        /\ \A u \in Thread \ {t} : pc'[u] = pc[u]
    BY <1>1, Going DEF Label, Committing
  <1>6. /\ TxnTyped(txn'[t]) /\ txn'[t].writeSet = txn[t].writeSet
        /\ txn'[t].fresh = txn[t].fresh /\ txn'[t].indexAdd = txn[t].indexAdd
    <2> DEFINE d == DOMAIN txn[t].writeSet
               none == {}
    <2>1. txn[t] \in Txn(d) /\ d \subseteq Node BY <1>2 DEF TxnTyped
    <2>2. none \in SUBSET Node OBVIOUS
    <2>3. txn'[t] = [txn[t] EXCEPT !.readSet = none, !.writeVersion = gvc + 1] BY <1>4
    <2> HIDE DEF none
    <2>4. txn'[t] \in Txn(d) BY <1>3, <2>1, <2>2, <2>3 DEF Txn
    <2>5. /\ txn'[t].writeSet = txn[t].writeSet /\ txn'[t].fresh = txn[t].fresh
          /\ txn'[t].indexAdd = txn[t].indexAdd
      BY <2>1, <2>3 DEF Txn
    <2> QED BY <2>1, <2>4, <2>5 DEF TxnTyped
  <1>7. Memory' BY <1>1, <1>3 DEF MixedInv, Memory
  <1>8. /\ todo' \in [Thread -> SUBSET Node] /\ todo'[t] = held[t]
        /\ \A u \in Thread \ {t} : todo'[u] = todo[u]
    BY <1>1, <1>2 DEF MixedInv, Threads
  <1>9. Threads' /\ Others(t) BY <1>1, <1>4, <1>5, <1>8 DEF MixedInv, Threads, Others
  <1>10. "write" \in Committing /\ "write" \in Holding BY DEF Committing, Holding
  <1>11. Lockers(t)' BY <1>1, <1>2, <1>5, <1>6, <1>8, <1>10, CommitLabels DEF Lockers
  <1>12. Refs(t)' = Refs(t)
    <2>1. UNCHANGED <<frame, held>> BY <1>1
    <2> QED BY <1>6, <2>1 DEF Refs
  <1>13. MixedInv'
    BY <1>1, <1>2, <1>5, <1>6, <1>7, <1>9, <1>10, <1>11, <1>12, CommitGoes
  <1> QED BY <1>1, <1>13, LocksSame DEF Goes

\* UpdateWriteSet writes to a node that the thread has locked.
LEMMA WritingGoes ==
  ASSUME MixedInv, NEW t \in Thread, Memory',
         UNCHANGED <<gvc, alloc, index, txn, held, frame, jobs>>,
         pc[t] \in Committing, NEW label \in Committing, Goto(t, label),
         \A n \in Node : node'[n].next = node[n].next \/ node'[n].next \in Reach(t),
         \A n \in Node : lock'[n].locked = lock[n].locked,
         todo' \in [Thread -> SUBSET Node], cur' \in [Thread -> Node], UNCHANGED saw,
         todo'[t] \subseteq todo[t], label # "write" => cur'[t] \in held[t],
         \A u \in Thread \ {t} : todo'[u] = todo[u] /\ cur'[u] = cur[u]
  PROVE  Goes(t)
  <1>1. label \in Label /\ label \in Holding BY DEF Label, Holding
  <1>2. /\ pc' \in [Thread -> Label] /\ pc'[t] = label
        /\ \A u \in Thread \ {t} : pc'[u] = pc[u]
    BY <1>1, Going
  <1>3. Threads' /\ Others(t) BY <1>2 DEF MixedInv, Threads, Others
  <1>4. /\ TxnTyped(txn[t]) /\ DOMAIN txn[t].writeSet = held[t] /\ todo[t] \subseteq held[t]
        /\ Refs(t) \subseteq Reach(t) /\ Hidden(t) = {}
        /\ pc[t] \in Holding \cup Clearing \cup {"next"}
    BY CommitUse
  <1>5. Lockers(t)' BY <1>1, <1>2, <1>4, CommitLabels DEF Lockers, Committing
  <1>6. Refs(t)' = Refs(t) BY DEF Refs
  <1>7. MixedInv' BY <1>1, <1>2, <1>3, <1>4, <1>5, <1>6, CommitGoes
  <1> QED BY <1>7, LocksSame DEF Goes

\* UpdateWriteSet writes a next pointer, then a value.
LEMMA WriteNodeGoes ==
  ASSUME MixedInv, NEW t \in Thread, WriteNext(t) \/ WriteValue(t),
         UNCHANGED <<frame, jobs, historyVars>>
  PROVE  Goes(t)
  <1>1. pc[t] \in Committing BY DEF WriteNext, WriteValue, Committing
  <1>2. /\ TxnTyped(txn[t]) /\ DOMAIN txn[t].writeSet = held[t] /\ held[t] \subseteq Node
        /\ todo[t] \subseteq held[t] /\ Hidden(t) = {} /\ cur[t] \in Node
        /\ pc[t] # "write" => cur[t] \in held[t]
        /\ Refs(t) \subseteq Reach(t)
    BY <1>1, CommitUse
  <1>3. \A n \in held[t] : /\ txn[t].writeSet[n].next \in Link /\ txn[t].writeSet[n].value \in Value
                           /\ txn[t].writeSet[n].next \in Refs(t)
    BY <1>2 DEF TxnTyped, Txn, WriteSetElement, Link, Refs
  <1>4. node \in [Node -> NodeType] BY DEF MixedInv, Memory
  <1>5. /\ todo \in [Thread -> SUBSET Node] /\ cur \in [Thread -> Node] BY DEF MixedInv, Threads
  <1>6. CASE WriteNext(t)
    <2>1. PICK n \in todo[t] :
            /\ cur' = [cur EXCEPT ![t] = n]
            /\ node' = [node EXCEPT ![n].next = txn[t].writeSet[n].next]
      BY <1>6 DEF WriteNext
    <2>2. /\ Goto(t, "writeValue") /\ "writeValue" \in Committing
          /\ UNCHANGED <<gvc, lock, alloc, index, txn, held, todo, saw>>
      BY <1>6 DEF WriteNext, Committing
    <2>3. n \in Node /\ n \in held[t] BY <1>2
    <2>4. /\ node' \in [Node -> NodeType]
          /\ \A m \in Node : node'[m].next = node[m].next \/ node'[m].next \in Reach(t)
      BY <1>2, <1>3, <1>4, <2>1, <2>3 DEF NodeType
    <2>5. Memory' BY <2>2, <2>4 DEF MixedInv, Memory
    <2>6. /\ cur' \in [Thread -> Node] /\ cur'[t] = n
          /\ \A u \in Thread \ {t} : cur'[u] = cur[u]
      BY <1>5, <2>1, <2>3
    <2> QED BY <1>1, <1>5, <2>2, <2>3, <2>4, <2>5, <2>6, WritingGoes
  <1>7. CASE WriteValue(t)
    <2>1. PICK label \in {"writeDeleted", "writeVersion"} : Goto(t, label)
      BY <1>7 DEF WriteValue
    <2>2. /\ UNCHANGED <<gvc, lock, alloc, index, txn, commitVars>> /\ cur[t] \in held[t]
          /\ node' = [node EXCEPT ![cur[t]].value = txn[t].writeSet[cur[t]].value]
          /\ label \in Committing
      BY <1>2, <1>7 DEF WriteValue, Committing
    <2>3. /\ node' \in [Node -> NodeType] /\ \A m \in Node : node'[m].next = node[m].next
      BY <1>2, <1>3, <1>4, <2>2 DEF NodeType
    <2>4. Memory' BY <2>2, <2>3 DEF MixedInv, Memory
    <2> QED BY <1>1, <1>5, <2>1, <2>2, <2>3, <2>4, WritingGoes DEF commitVars
  <1> QED BY <1>6, <1>7

\* UpdateWriteSet writes to the word of the node.
LEMMA WriteWordGoes ==
  ASSUME MixedInv, NEW t \in Thread, WriteDeleted(t) \/ WriteVersion(t) \/ WriteSingleton(t),
         UNCHANGED <<frame, jobs, historyVars>>
  PROVE  Goes(t)
  <1>1. pc[t] \in Committing /\ pc[t] # "write"
    BY DEF WriteDeleted, WriteVersion, WriteSingleton, Committing
  <1>2. TxnTyped(txn[t]) /\ cur[t] \in held[t] /\ cur[t] \in Node BY <1>1, CommitUse
  <1>3. /\ todo \in [Thread -> SUBSET Node] /\ cur \in [Thread -> Node] /\ lock \in [Node -> Word]
    BY DEF MixedInv, Memory, Threads
  <1>4. txn[t].writeVersion \in Nat BY <1>2 DEF TxnTyped, Txn
  <1>5. PICK w \in Word :
          lock' = [lock EXCEPT ![cur[t]] = w] /\ w.locked = lock[cur[t]].locked
    <2>1. lock[cur[t]] \in Word BY <1>2, <1>3
    <2> DEFINE d == WithDeleted(lock[cur[t]], TRUE)
               v == WithVersion(lock[cur[t]], txn[t].writeVersion)
               s == WithSingleton(lock[cur[t]], FALSE)
    <2>2. d \in Word /\ d.locked = lock[cur[t]].locked BY <2>1 DEF WithDeleted, Word
    <2>3. v \in Word /\ v.locked = lock[cur[t]].locked BY <1>4, <2>1 DEF WithVersion, Word
    <2>4. s \in Word /\ s.locked = lock[cur[t]].locked BY <2>1 DEF WithSingleton, Word
    <2>5. \/ lock' = [lock EXCEPT ![cur[t]] = d] \/ lock' = [lock EXCEPT ![cur[t]] = v]
          \/ lock' = [lock EXCEPT ![cur[t]] = s]
      BY DEF WriteDeleted, WriteVersion, WriteSingleton
    <2> HIDE DEF d, v, s
    <2> QED BY <2>2, <2>3, <2>4, <2>5
  <1>6. /\ UNCHANGED <<gvc, node, alloc, index, txn, held, cur, saw>>
        /\ todo' = todo \/ todo' = [todo EXCEPT ![t] = todo[t] \ {cur[t]}]
    BY DEF WriteDeleted, WriteVersion, WriteSingleton, Visited, Visit, commitVars
  <1>7. PICK label \in Committing : Goto(t, label)
    BY DEF WriteDeleted, WriteVersion, WriteSingleton, Committing
  <1>8. Memory' /\ \A n \in Node : n # cur[t] => lock'[n] = lock[n]
    BY <1>2, <1>5, <1>6, WordWritten
  <1>9. \A n \in Node : lock'[n].locked = lock[n].locked
    <2>1. lock'[cur[t]] = w BY <1>2, <1>3, <1>5
    <2> QED BY <1>5, <1>8, <2>1
  <1>10. /\ todo' \in [Thread -> SUBSET Node] /\ todo'[t] \subseteq todo[t]
         /\ \A u \in Thread \ {t} : todo'[u] = todo[u]
    BY <1>3, <1>6
  <1> QED BY <1>1, <1>2, <1>3, <1>6, <1>7, <1>8, <1>9, <1>10, WritingGoes

\* The write set has been written out.
LEMMA UpdateWriteSetDoneGoes ==
  ASSUME MixedInv, NEW t \in Thread, UpdateWriteSetDone(t), UNCHANGED <<frame, jobs, historyVars>>
  PROVE  Goes(t)
  <1>1. /\ pc[t] = "write" /\ Goto(t, "finish")
        /\ UNCHANGED <<sharedVars, commitVars, frame, jobs>>
        /\ txn' = [txn EXCEPT ![t].writeSet = <<>>]
        /\ "write" \in Committing /\ "write" \in Holding /\ "finish" \in Holding
        /\ "finish" \notin Validating \cup Committing
    BY DEF UpdateWriteSetDone, Committing, Holding, Validating
  <1>2. TxnTyped(txn[t]) /\ Refs(t) \subseteq Reach(t) BY <1>1, MixedUse
  <1>3. /\ txn'[t] = [txn[t] EXCEPT !.writeSet = <<>>] /\ DOMAIN txn' = Thread
        /\ \A u \in Thread \ {t} : txn'[u] = txn[u]
    BY <1>1 DEF MixedInv, Threads
  <1>4. /\ TxnTyped(txn'[t]) /\ txn'[t].writeSet = <<>>
        /\ txn'[t].fresh = txn[t].fresh /\ txn'[t].indexAdd = txn[t].indexAdd
    BY <1>2, <1>3, TxnWritten
  <1>5. /\ pc' \in [Thread -> Label] /\ pc'[t] = "finish"
        /\ \A u \in Thread \ {t} : pc'[u] = pc[u]
    BY <1>1, Going DEF Label
  <1>6. Threads' /\ Others(t) BY <1>1, <1>3, <1>5 DEF MixedInv, Threads, Others, commitVars
  <1>7. Memory' BY <1>1 DEF MixedInv, Memory, sharedVars
  <1>8. Lockers(t)' BY <1>1, <1>5, CommitLabels DEF Lockers
  <1>9. Refs(t)' \subseteq Reach(t)
    <2>1. DOMAIN txn'[t].writeSet = {} BY <1>4
    <2>2. Refs(t)' \subseteq Refs(t) BY <1>1, <1>4, <2>1 DEF Refs, commitVars
    <2> QED BY <1>2, <2>2
  <1>10. MixedInv' BY <1>1, <1>4, <1>5, <1>6, <1>7, <1>8, <1>9, CommitGoes DEF sharedVars
  <1> QED BY <1>1, <1>10, LocksSame DEF Goes, sharedVars, commitVars

\* A Locker is destroyed; should the word not be locked, the program stops.
LEMMA ReleaseGoes ==
  ASSUME MixedInv, NEW t \in Thread, Release(t), UNCHANGED <<frame, jobs, historyVars>>
  PROVE  Goes(t)
  <1>1. /\ pc[t] \in {"finish", "abort"}
        /\ UNCHANGED <<gvc, node, alloc, index, txn, todo, cur, saw>>
        /\ pc[t] \in Holding /\ pc[t] \notin Validating \cup Committing
    BY DEF Release, Holding, Validating, Committing
  <1>2. /\ TxnTyped(txn[t]) /\ held[t] \subseteq Node /\ Refs(t) \subseteq Reach(t)
    BY MixedUse
  <1>3. PICK n \in held[t] :
          IF lock[n].locked
          THEN /\ lock' = [lock EXCEPT ![n] = Released(@)]
               /\ held' = [held EXCEPT ![t] = @ \ {n}]
               /\ UNCHANGED pc
          ELSE /\ pc' = [u \in Thread |-> "crashed"]
               /\ UNCHANGED <<lock, held>>
    BY DEF Release
  <1>4. CASE lock[n].locked
    <2>1. /\ lock' = [lock EXCEPT ![n] = Released(@)] /\ UNCHANGED pc
          /\ held' = [held EXCEPT ![t] = @ \ {n}]
      BY <1>3, <1>4
    <2>2. n \in Node BY <1>2
    <2>3. Memory'
      <3> DEFINE w == Released(lock[n])
      <3>1. lock' = [lock EXCEPT ![n] = w] BY <2>1
      <3>2. w \in Word BY <2>2 DEF Released, Word, MixedInv, Memory
      <3> HIDE DEF w
      <3> QED BY <1>1, <2>2, <3>1, <3>2, WordWritten
    <2>4. /\ held' \in [Thread -> SUBSET Node] /\ held'[t] = held[t] \ {n}
          /\ \A u \in Thread \ {t} : held'[u] = held[u]
      BY <1>2, <2>1 DEF MixedInv, Threads
    <2>5. Threads' /\ Others(t) BY <1>1, <2>1, <2>4 DEF MixedInv, Threads, Others
    <2>6. Lockers(t)' BY <1>1, <2>1, CommitLabels DEF Lockers
    <2>7. Refs(t)' \subseteq Reach(t)
      <3>1. Refs(t)' \subseteq Refs(t) BY <1>1, <2>4 DEF Refs
      <3> QED BY <1>2, <3>1
    <2>8. MixedInv' BY <1>1, <1>2, <2>1, <2>3, <2>5, <2>6, <2>7, CommitGoes
    <2>9. LockStep(t) BY <2>1 DEF LockStep
    <2> QED BY <2>8, <2>9 DEF Goes
  <1>5. CASE ~lock[n].locked
    <2>1. Crash /\ UNCHANGED <<sharedVars, txn, commitVars, frame, jobs>>
      BY <1>1, <1>3, <1>5 DEF Crash, sharedVars, commitVars
    <2> QED BY <2>1, CrashStep
  <1> QED BY <1>4, <1>5

\* A committed transaction updates the index.
LEMMA IndexGoes ==
  ASSUME MixedInv, NEW t \in Thread, pc[t] = "finish", held[t] = {},
         UNCHANGED <<gvc, lock, node, alloc, pc, commitVars, frame, jobs>>,
         index' \in [Key -> Link],
         \A k \in Key : index'[k] = index[k] \/ index'[k] \in {Null} \cup Refs(t),
         DOMAIN txn' = Thread, \A u \in Thread \ {t} : txn'[u] = txn[u],
         TxnTyped(txn'[t]), txn'[t].fresh = txn[t].fresh, Refs(t)' \subseteq Refs(t)
  PROVE  Goes(t)
  <1>1. /\ "finish" \in Holding /\ "finish" \notin Validating \cup Committing
    BY DEF Holding, Validating, Committing
  <1>2. Refs(t) \subseteq Reach(t) /\ Null \in Reach(t) BY MixedUse DEF Reach
  <1>3. Memory' BY DEF MixedInv, Memory
  <1>4. Threads' /\ Others(t) BY DEF MixedInv, Threads, Others, commitVars
  <1>5. Lockers(t)' BY <1>1, CommitLabels DEF Lockers
  <1>6. Hidden(t) = {} BY DEF Hidden
  <1>7. MixedInv' BY <1>1, <1>2, <1>3, <1>4, <1>5, <1>6, CommitGoes
  <1> QED BY <1>7, LocksSame DEF Goes, commitVars

\* A node that the transaction inserted enters the index.
LEMMA LazyUpdateIndexAddGoes ==
  ASSUME MixedInv, NEW t \in Thread, LazyUpdateIndexAdd(t), UNCHANGED <<frame, jobs, historyVars>>
  PROVE  Goes(t)
  <1> DEFINE add == txn[t].indexAdd
             rest == Tail(add)
             n == Head(add)
  <1>1. /\ pc[t] = "finish" /\ add # <<>> /\ held[t] = {}
        /\ UNCHANGED <<gvc, lock, node, alloc, pc, commitVars>>
        /\ index' = IndexInsert(index, n)
        /\ txn' = [txn EXCEPT ![t].indexAdd = rest]
    BY DEF LazyUpdateIndexAdd
  <1>2. TxnTyped(txn[t]) BY MixedUse
  <1>3. add \in Seq(Node) BY <1>2 DEF TxnTyped, Txn
  <1>4. n \in Node /\ n \in {add[i] : i \in DOMAIN add}
        /\ rest \in Seq(Node) /\ {rest[i] : i \in DOMAIN rest} \subseteq {add[i] : i \in DOMAIN add}
    <2>1. Len(add) # 0 BY <1>1, <1>3, EmptySeq
    <2> HIDE DEF add
    <2> QED BY <1>3, <2>1
  <1>5. n \in Refs(t) BY <1>4 DEF Refs
  <1>6. /\ index' \in [Key -> Link]
        /\ \A k \in Key : index'[k] \in {index[k], n}
    <2> HIDE DEF n
    <2> QED BY <1>1, <1>4, IndexWritten
  <1>7. /\ txn'[t] = [txn[t] EXCEPT !.indexAdd = rest] /\ DOMAIN txn' = Thread
        /\ \A u \in Thread \ {t} : txn'[u] = txn[u]
    BY <1>1 DEF MixedInv, Threads
  <1> HIDE DEF rest, n
  <1>8. /\ TxnTyped(txn'[t]) /\ txn'[t].writeSet = txn[t].writeSet
        /\ txn'[t].fresh = txn[t].fresh /\ txn'[t].indexAdd = rest
    BY <1>2, <1>4, <1>7, TxnIndexAdd
  <1>9. Refs(t)' \subseteq Refs(t)
    <2>1. UNCHANGED <<frame, held>> BY <1>1 DEF commitVars
    <2> QED BY <1>4, <1>8, <2>1 DEF Refs
  <1> QED BY <1>1, <1>5, <1>6, <1>7, <1>8, <1>9, IndexGoes

\* An entry that the transaction removed leaves the index.
LEMMA LazyUpdateIndexRemoveGoes ==
  ASSUME MixedInv, NEW t \in Thread, LazyUpdateIndexRemove(t), UNCHANGED <<frame, jobs, historyVars>>
  PROVE  Goes(t)
  <1>1. /\ pc[t] = "finish" /\ held[t] = {}
        /\ UNCHANGED <<gvc, lock, node, alloc, pc, commitVars>>
    BY DEF LazyUpdateIndexRemove
  <1>2. PICK n \in txn[t].indexRemove :
          /\ index' = IndexErase(index, n)
          /\ txn' = [txn EXCEPT ![t].indexRemove = @ \ {n}]
    BY DEF LazyUpdateIndexRemove
  <1> DEFINE remove == txn[t].indexRemove \ {n}
  <1>3. TxnTyped(txn[t]) BY MixedUse
  <1>4. remove \in SUBSET Node BY <1>3 DEF TxnTyped, Txn
  <1>5. /\ index' \in [Key -> Link]
        /\ \A k \in Key : index'[k] \in {index[k], Null}
    BY <1>2, IndexWritten
  <1>6. /\ txn'[t] = [txn[t] EXCEPT !.indexRemove = remove] /\ DOMAIN txn' = Thread
        /\ \A u \in Thread \ {t} : txn'[u] = txn[u]
    BY <1>2 DEF MixedInv, Threads
  <1> HIDE DEF remove
  <1>7. /\ TxnTyped(txn'[t]) /\ txn'[t].writeSet = txn[t].writeSet
        /\ txn'[t].fresh = txn[t].fresh /\ txn'[t].indexAdd = txn[t].indexAdd
    BY <1>3, <1>4, <1>6, TxnIndexRemove
  <1>8. Refs(t)' = Refs(t)
    <2>1. UNCHANGED <<frame, held>> BY <1>1 DEF commitVars
    <2> QED BY <1>7, <2>1 DEF Refs
  <1> QED BY <1>1, <1>5, <1>6, <1>7, <1>8, IndexGoes

\* A thread is back in the dispatcher.
LEMMA CleanupGoes ==
  ASSUME MixedInv, NEW t \in Thread, held[t] = {}, Cleanup(t), UNCHANGED <<held, saw>>,
         frame' = [frame EXCEPT ![t] = EmptyFrame],
         jobs[t] # <<>>, jobs' = jobs \/ jobs' = [jobs EXCEPT ![t] = Tail(@)]
  PROVE  /\ Threads' /\ Others(t) /\ MixedThread(t)'
         /\ txn'[t].fresh = {} /\ Refs(t)' = {Null} /\ Hidden(t)' = {}
         /\ \A u \in Thread \ {t} : Refs(u)' = Refs(u) /\ Hidden(u)' = Hidden(u)
  <1>1. /\ pc' \in [Thread -> Label] /\ pc'[t] = "idle"
        /\ \A u \in Thread \ {t} : pc'[u] = pc[u]
    BY Going DEF Cleanup, Label
  <1>2. /\ frame'[t] = EmptyFrame /\ DOMAIN frame' = Thread
        /\ \A u \in Thread \ {t} : frame'[u] = frame[u]
    BY Assigned
  <1>3. /\ txn'[t] = EmptyTxn /\ DOMAIN txn' = Thread
        /\ \A u \in Thread \ {t} : txn'[u] = txn[u]
    BY DEF Cleanup, MixedInv, Threads
  <1>4. /\ todo' \in [Thread -> SUBSET Node] /\ cur' \in [Thread -> Node]
        /\ \A u \in Thread \ {t} : todo'[u] = todo[u] /\ cur'[u] = cur[u]
    BY NodeAssumption DEF Cleanup, MixedInv, Threads
  <1>5. jobs' \in [Thread -> Seq(AnyJob)] /\ \A u \in Thread \ {t} : jobs'[u] = jobs[u]
    <2>1. jobs \in [Thread -> Seq(AnyJob)] BY DEF MixedInv, Threads
    <2>2. Tail(jobs[t]) \in Seq(AnyJob) BY <2>1, NonEmpty
    <2> QED BY <2>1, <2>2
  <1>6. Threads' /\ Others(t) BY <1>1, <1>2, <1>3, <1>4, <1>5 DEF MixedInv, Threads, Others
  <1>7. MixedThread(t)'
    <2>1. MixedFits("idle", EmptyFrame)
      BY EmptyLocals
         DEF EmptyFrame, MixedFits, Operating, Placed, AtNode, AtFound, Outside, Looking,
             Changing, Unplaced, Rechecking, ToSuccessor, Linking
    <2>2. Lockers(t)' BY <1>1 DEF Lockers, Changing, Rechecking, ToSuccessor, Linking,
                                   Validating, Committing
    <2> QED BY <1>1, <1>2, <1>3, <2>1, <2>2, EmptyTxnOK, LookingIs DEF MixedThread
  <1>8. Refs(t)' = {Null}
    <2>1. {frame'[t].pred, frame'[t].succ, frame'[t].at, frame'[t].link} = {Null}
      BY <1>2 DEF EmptyFrame
    <2>2. DOMAIN txn'[t].writeSet = {} /\ DOMAIN txn'[t].indexAdd = {} BY <1>3, EmptyTxnOK
    <2>3. held'[t] = {} OBVIOUS
    <2> QED BY <2>1, <2>2, <2>3 DEF Refs
  <1>9. txn'[t].fresh = {} /\ Hidden(t)' = {} BY <1>3, EmptyTxnOK DEF Hidden
  <1>10. \A u \in Thread \ {t} : Refs(u)' = Refs(u) /\ Hidden(u)' = Hidden(u)
    BY <1>6 DEF Others, Refs, Hidden
  <1> QED BY <1>6, <1>7, <1>8, <1>9, <1>10

\* The transaction has committed and is cleaned up.
LEMMA SucceedGoes ==
  ASSUME MixedInv, NEW t \in Thread, Succeed(t)
  PROVE  Goes(t)
  <1>1. /\ pc[t] = "finish" /\ held[t] = {} /\ Cleanup(t)
        /\ UNCHANGED <<sharedVars, held, saw>>
        /\ frame' = [frame EXCEPT ![t] = EmptyFrame]
        /\ jobs' = [jobs EXCEPT ![t] = Tail(@)]
    BY DEF Succeed, LocalTxnCleanup
  <1>2. jobs[t] # <<>> BY <1>1, MixedUse
  <1>3. /\ Threads' /\ Others(t) /\ MixedThread(t)'
        /\ txn'[t].fresh = {} /\ Refs(t)' = {Null} /\ Hidden(t)' = {}
        /\ \A u \in Thread \ {t} : Refs(u)' = Refs(u) /\ Hidden(u)' = Hidden(u)
    BY <1>1, <1>2, CleanupGoes
  <1>4. \A u \in Thread : Null \notin Hidden(u) BY MixedReach
  <1>5. References'
    <2>1. \A u \in Thread \ {t} : txn'[u].fresh = txn[u].fresh BY <1>3 DEF Others
    <2>2. \A u \in Thread : \A v \in Thread \ {u} : Refs(v)' \cap Hidden(u)' = {}
      BY <1>3, <1>4 DEF MixedInv, References
    <2>3. \A u \in Thread : /\ Refs(u)' \subseteq alloc \cup {Null}
                            /\ \A n \in Node \ txn'[u].fresh : node[n].next \notin Hidden(u)'
                            /\ \A k \in Key : index[k] \notin Hidden(u)'
      BY <1>3, <2>1 DEF MixedInv, References
    <2> QED BY <1>1, <1>3, <2>1, <2>2, <2>3 DEF MixedInv, References, sharedVars
  <1>6. Memory' BY <1>1 DEF MixedInv, Memory, sharedVars
  <1>7. MixedInv' BY <1>3, <1>5, <1>6, MixedStep
  <1> QED BY <1>1, <1>7, LocksSame DEF Goes, sharedVars

\* The transaction is rolled back: nobody refers to the nodes that are destroyed.
LEMMA FailGoes ==
  ASSUME MixedInv, NEW t \in Thread, Fail(t)
  PROVE  Goes(t)
  <1> DEFINE fresh == txn[t].fresh
  <1>1. /\ pc[t] \in {"abort", "fault"} /\ held[t] = {} /\ Cleanup(t)
        /\ UNCHANGED <<gvc, index, held, saw>>
        /\ frame' = [frame EXCEPT ![t] = EmptyFrame]
        /\ jobs' = jobs \/ jobs' = [jobs EXCEPT ![t] = Tail(@)]
        /\ alloc' = alloc \ fresh
        /\ node' = [n \in Node |-> IF n \in fresh THEN NewNode ELSE node[n]]
        /\ lock' = [n \in Node |-> IF n \in fresh THEN NewWord ELSE lock[n]]
    BY DEF Fail, Rollback
  <1>2. jobs[t] # <<>> /\ Hidden(t) = fresh
    BY <1>1, MixedUse DEF Hidden, Committing
  <1>3. /\ Threads' /\ Others(t) /\ MixedThread(t)'
        /\ txn'[t].fresh = {} /\ Refs(t)' = {Null} /\ Hidden(t)' = {}
        /\ \A u \in Thread \ {t} : Refs(u)' = Refs(u) /\ Hidden(u)' = Hidden(u)
    BY <1>1, <1>2, CleanupGoes
  <1>4. NewNode \in NodeType /\ NewWord \in Word /\ ~NewWord.locked /\ NewNode.next = Null
    BY ValueAssumption DEF NewNode, NodeType, Candidate, Link, NewWord, Word
  <1>5. Memory' BY <1>1, <1>4 DEF MixedInv, Memory
  <1>6. \A n \in Node : /\ n \in fresh => node'[n] = NewNode /\ lock'[n] = NewWord
                        /\ n \notin fresh => node'[n] = node[n] /\ lock'[n] = lock[n]
    BY <1>1
  <1>7. \A u \in Thread \ {t} : Refs(u) \cap fresh = {} /\ txn[u].fresh \cap fresh = {}
    BY <1>2 DEF MixedInv, References
  <1>8. \A u \in Thread : Null \notin Hidden(u) /\ Null \notin fresh
    BY <1>2, MixedReach
  <1>9. References'
    <2>1. \A u \in Thread \ {t} : txn'[u].fresh = txn[u].fresh BY <1>3 DEF Others
    <2>2. txn'[t].fresh = {} BY <1>3
    <2>3. \A u \in Thread \ {t} : Hidden(u)' = Hidden(u) /\ Refs(u)' = Refs(u)
      BY <1>3
    <2>4. \A u \in Thread : \A v \in Thread \ {u} : Refs(v)' \cap Hidden(u)' = {}
      BY <1>3, <1>8, <2>3 DEF MixedInv, References
    <2>5. Sentinel \in alloc' BY <1>1 DEF MixedInv, References
    <2>6. \A n \in Node : node'[n].next \in alloc' \cup {Null}
      BY <1>1, <1>2, <1>4, <1>6 DEF MixedInv, References
    <2>7. \A k \in Key : index'[k] \in alloc' \cup {Null}
      BY <1>1, <1>2 DEF MixedInv, References
    <2>8. \A u \in Thread : txn'[u].fresh \subseteq alloc' \ {Sentinel}
      BY <1>1, <1>7, <2>1, <2>2 DEF MixedInv, References
    <2>9. \A u \in Thread : Refs(u)' \subseteq alloc' \cup {Null}
      BY <1>1, <1>3, <1>7, <2>3 DEF MixedInv, References
    <2>10. \A u \in Thread : \A n \in Node \ txn'[u].fresh : node'[n].next \notin Hidden(u)'
      BY <1>3, <1>4, <1>6, <1>8, <2>1, <2>3 DEF MixedInv, References
    <2>11. \A u \in Thread : \A k \in Key : index'[k] \notin Hidden(u)'
      BY <1>1, <1>3, <2>3 DEF MixedInv, References
    <2>12. \A u \in Thread : \A v \in Thread \ {u} : txn'[v].fresh \cap txn'[u].fresh = {}
      BY <2>1, <2>2 DEF MixedInv, References
    <2> QED BY <2>4, <2>5, <2>6, <2>7, <2>8, <2>9, <2>10, <2>11, <2>12 DEF References
  <1>10. MixedInv' BY <1>3, <1>5, <1>9, MixedStep
  <1>11. \A u \in Thread : held[u] \cap fresh = {}
    BY <1>1, <1>7 DEF Refs
  <1>12. LockStep(t)
    <2>1. \A n \in Node : \/ lock'[n].locked = lock[n].locked
                          \/ ~lock'[n].locked /\ \A u \in Thread : n \notin held[u]
      BY <1>4, <1>6, <1>11
    <2> QED BY <1>1, <2>1 DEF LockStep
  <1> QED BY <1>10, <1>12 DEF Goes

\* The initial states have the invariant.
LEMMA InitMixed ==
  ASSUME AnyPrograms, Init
  PROVE  /\ MixedInv /\ \A n \in Node : ~lock[n].locked
         /\ \A t \in Thread : held[t] = {}
  <1>1. PICK s \in Scenario : InitialList(s.keys, s.by) /\ jobs = s.jobs BY DEF Init
  <1>2. s.keys \subseteq Key /\ jobs \in [Thread -> Seq(AnyJob)] /\ HasMemory(s.keys)
    BY <1>1 DEF AnyPrograms
  <1>3. /\ gvc \in Nat /\ lock \in [Node -> Word] /\ \A n \in Node : ~lock[n].locked
        /\ node \in [Node -> [key : Key \cup {DefaultKey}, value : Value, next : Link]]
        /\ Sentinel \in alloc /\ alloc \subseteq Node /\ index \in [Key -> Link]
        /\ \A n \in Node : node[n].next \in alloc \cup {Null}
        /\ \A k \in Key : index[k] \in alloc \cup {Null}
    BY <1>1, <1>2, InitialMemory
  <1>4. Memory BY <1>3 DEF Memory, NodeType, Candidate
  <1>5. /\ txn = [t \in Thread |-> EmptyTxn] /\ held = [t \in Thread |-> {}]
        /\ pc = [t \in Thread |-> "idle"] /\ todo = [t \in Thread |-> {}]
        /\ cur = [t \in Thread |-> Sentinel] /\ saw = [t \in Thread |-> NewWord]
        /\ frame = [t \in Thread |-> EmptyFrame]
    BY DEF Init, StorageInit, FrameInit
  <1>6. Threads
    <2>1. NewWord \in Word BY DEF NewWord, Word
    <2> QED BY <1>2, <1>5, <2>1, NodeAssumption DEF Threads, Label
  <1>7. ASSUME NEW t \in Thread
        PROVE  MixedThread(t) /\ Refs(t) = {Null} /\ Hidden(t) = {} /\ txn[t].fresh = {}
    <2>1. txn[t] = EmptyTxn /\ frame[t] = EmptyFrame /\ pc[t] = "idle" /\ held[t] = {} BY <1>5
    <2>2. MixedFits("idle", EmptyFrame)
      BY EmptyLocals
         DEF EmptyFrame, MixedFits, Operating, Placed, AtNode, AtFound, Outside, Looking,
             Changing, Unplaced, Rechecking, ToSuccessor, Linking
    <2>3. Lockers(t) BY <2>1 DEF Lockers, Changing, Rechecking, ToSuccessor, Linking,
                                 Validating, Committing
    <2>4. MixedThread(t) BY <2>1, <2>2, <2>3, EmptyTxnOK, LookingIs DEF MixedThread
    <2>5. {frame[t].pred, frame[t].succ, frame[t].at, frame[t].link} = {Null}
      BY <2>1 DEF EmptyFrame
    <2>6. Refs(t) = {Null} BY <2>1, <2>5, EmptyTxnOK DEF Refs
    <2> QED BY <2>1, <2>4, <2>6, EmptyTxnOK DEF Hidden
  <1>8. References BY <1>3, <1>7 DEF References
  <1> QED BY <1>3, <1>4, <1>5, <1>6, <1>7, <1>8 DEF MixedInv

\* A singleton flag is not cleared with a stale lock flag.
KeepsLock(t) ==
    pc[t] = "clearStore" /\ pc'[t] = "abort" => saw[t].locked = lock[cur[t]].locked

\* The steps of an operation in a transaction.
LEMMA OperatorGoes ==
  ASSUME MixedInv, NEW t \in Thread, UNCHANGED <<jobs, historyVars>>,
         \/ FindPrevious(t) \/ PredecessorVersion(t) \/ PredecessorDeleted(t)
         \/ SuccessorLocked(t) \/ SuccessorVersion(t) \/ SuccessorNext(t)
         \/ Contains(t) \/ Get(t) \/ RemoveNothing(t) \/ RemoveFound(t)
         \/ RemovePredecessor(t) \/ RemoveSuccessor(t)
         \/ InsertExisting(t) \/ InsertExistingDeleted(t) \/ InsertNew(t)
  PROVE  Goes(t)
  <1>1. CASE SuccessorLocked(t) BY <1>1, CheckGoes, SuccessorLockedGoes
  <1>2. CASE FindPrevious(t) \/ PredecessorVersion(t) \/ PredecessorDeleted(t)
             \/ SuccessorVersion(t) \/ SuccessorNext(t)
    BY <1>2, FindPreviousGoes, CheckGoes, PredecessorDeletedGoes, SuccessorNextGoes
  <1>3. CASE Contains(t) \/ Get(t) \/ RemoveNothing(t) \/ RemoveFound(t)
             \/ RemovePredecessor(t) \/ RemoveSuccessor(t)
    BY <1>3, AnswerGoes, RemoveFoundGoes, RemovePredecessorGoes, RemoveSuccessorGoes
  <1>4. CASE InsertExisting(t) \/ InsertExistingDeleted(t) \/ InsertNew(t)
    BY <1>4, InsertExistingGoes, InsertExistingDeletedGoes, InsertNewGoes
  <1> QED BY <1>1, <1>2, <1>3, <1>4

\* The steps of an operation outside a transaction.
LEMMA SingleGoes ==
  ASSUME MixedInv, NEW t \in Thread, UNCHANGED <<jobs, historyVars>>,
         \/ SingleReadVersion(t) \/ SingleFindPrevious(t) \/ SinglePredecessor(t)
         \/ SingleUnlocked(t) \/ SingleHasNext(t) \/ SingleNextLocked(t) \/ SingleAtEnd(t)
         \/ SingleNextKey(t) \/ SingleFound(t) \/ SingleAdvance(t) \/ SingleContains(t)
         \/ SingleGet(t) \/ SingleRemoveNothing(t) \/ SingleLockPredecessor(t)
         \/ SingleNotDeleted(t) \/ SingleStillNext(t) \/ SingleLockSuccessor(t)
         \/ SingleLockExisting(t) \/ SingleUnlink(t) \/ SingleOverwrite(t) \/ SingleStore(t)
         \/ SingleStored(t) \/ SingleLink(t) \/ SingleIndexAdd(t) \/ SingleIndexCheck(t)
         \/ SingleRetry(t) \/ SingleRelease(t)
  PROVE  Goes(t)
  <1>1. CASE SinglePredecessor(t) \/ SingleUnlocked(t) \/ SingleHasNext(t)
             \/ SingleNextLocked(t) \/ SingleAtEnd(t) \/ SingleNextKey(t)
    BY <1>1, MovesOn
  <1>2. CASE SingleReadVersion(t) \/ SingleFindPrevious(t) \/ SingleFound(t) \/ SingleAdvance(t)
    BY <1>2, SingleReadVersionStep, SingleFindPreviousStep, SingleFoundStep, SingleAdvanceStep
  <1>3. CASE SingleContains(t) \/ SingleGet(t) \/ SingleRemoveNothing(t)
    BY <1>3, SingleAnswerStep
  <1>4. CASE SingleNotDeleted(t) \/ SingleStillNext(t) \/ SingleRetry(t)
    BY <1>4, SingleCheckStep
  <1>5. CASE SingleLockPredecessor(t) \/ SingleLockSuccessor(t) \/ SingleLockExisting(t)
    BY <1>5, SingleLockingStep
  <1>6. CASE SingleUnlink(t) \/ SingleOverwrite(t) BY <1>6, SingleWriteStep
  <1>7. CASE SingleStored(t) \/ SingleIndexAdd(t) \/ SingleIndexCheck(t)
    BY <1>7, SingleIndexStep
  <1>8. CASE SingleStore(t) \/ SingleLink(t) \/ SingleRelease(t)
    BY <1>8, SingleStoreStep, SingleLinkStep, SingleReleaseStep
  <1> QED BY <1>1, <1>2, <1>3, <1>4, <1>5, <1>6, <1>7, <1>8

\* The steps of a commit.
LEMMA CommitStepGoes ==
  ASSUME MixedInv, NEW t \in Thread, UNCHANGED <<frame, jobs, historyVars>>,
         \/ LockNode(t) \/ ValidateReadSet(t) \/ ValidateNode(t) \/ ValidateVersion(t)
         \/ ValidateEqual(t) \/ ValidateSingleton(t) \/ ValidateRelocked(t)
         \/ AdvanceClock(t) \/ ClearSingletonLoad(t)
         \/ WriteNext(t) \/ WriteValue(t) \/ WriteDeleted(t) \/ WriteVersion(t)
         \/ WriteSingleton(t) \/ UpdateWriteSetDone(t) \/ Release(t)
         \/ LazyUpdateIndexAdd(t) \/ LazyUpdateIndexRemove(t)
  PROVE  Goes(t)
  <1>1. CASE LockNode(t) \/ UpdateWriteSetDone(t) \/ Release(t)
    BY <1>1, LockNodeGoes, UpdateWriteSetDoneGoes, ReleaseGoes
  <1>2. CASE ValidateReadSet(t) \/ ValidateNode(t) \/ ValidateVersion(t)
             \/ ValidateEqual(t) \/ ValidateSingleton(t) \/ ValidateRelocked(t)
             \/ AdvanceClock(t) \/ ClearSingletonLoad(t)
    BY <1>2, ValidateGoes
  <1>3. CASE WriteNext(t) \/ WriteValue(t) BY <1>3, WriteNodeGoes
  <1>4. CASE WriteDeleted(t) \/ WriteVersion(t) \/ WriteSingleton(t) BY <1>4, WriteWordGoes
  <1>5. CASE LazyUpdateIndexAdd(t) \/ LazyUpdateIndexRemove(t)
    BY <1>5, LazyUpdateIndexAddGoes, LazyUpdateIndexRemoveGoes
  <1> QED BY <1>1, <1>2, <1>3, <1>4, <1>5

\* Every step of a thread.
LEMMA StepGoes ==
  ASSUME MixedInv, NEW t \in Thread, Step(t)
  PROVE  MixedInv' /\ (KeepsLock(t) => LockStep(t))
  <1>1. CASE Begin(t) \/ Execute(t) \/ Commit(t) \/ PassValidation(t) \/ Succeed(t) \/ Fail(t)
    <2>1. CASE Commit(t)
      <3>1. UNCHANGED <<frame, jobs, historyVars>> BY <2>1 DEF Commit
      <3> QED BY <2>1, <3>1, ValidateGoes DEF Goes
    <2> QED BY <1>1, <2>1, BeginGoes, ExecuteGoes, PassValidationGoes, SucceedGoes, FailGoes DEF Goes
  <1>2. CASE SingleCall(t) \/ SingleReturn(t) \/ SingleThrow(t)
    BY <1>2, SingleCallStep, SingleEndsStep DEF Goes
  <1>3. CASE ClearSingletonStore(t) /\ UNCHANGED <<frame, jobs, historyVars>>
    <2>1. MixedInv' /\ (saw[t].locked = lock[cur[t]].locked => LockStep(t))
      BY <1>3, ClearGoes
    <2>2. pc[t] = "clearStore" /\ pc'[t] = "abort"
      BY <1>3 DEF ClearSingletonStore, Abort, Goto, MixedInv, Threads
    <2> QED BY <2>1, <2>2 DEF KeepsLock
  <1>4. CASE Goes(t) BY <1>4 DEF Goes
  <1> QED BY <1>1, <1>2, <1>3, <1>4, OperatorGoes, SingleGoes, CommitStepGoes DEF Step

\* Every step keeps the invariant.
LEMMA NextMixed ==
  ASSUME MixedInv, [Next]_vars
  PROVE  /\ MixedInv'
         /\ \/ \E t \in Thread : KeepsLock(t) => LockStep(t)
            \/ UNCHANGED vars
  <1>1. CASE \E t \in Thread : Step(t) BY <1>1, StepGoes
  <1>2. CASE UNCHANGED vars
    <2>1. UNCHANGED <<sharedVars, commitVars, txn, pc, frame, jobs>> BY <1>2 DEF vars
    <2>2. Memory' BY <2>1 DEF MixedInv, Memory, sharedVars
    <2>3. Threads' BY <2>1 DEF MixedInv, Threads, commitVars
    <2>4. References' BY <2>1 DEF MixedInv, References, Refs, Hidden, sharedVars, commitVars
    <2>5. ASSUME NEW t \in Thread PROVE MixedThread(t)'
      <3>1. MixedThread(t) BY DEF MixedInv
      <3> QED BY <2>1, <3>1 DEF MixedThread, Lockers, commitVars
    <2> QED BY <1>2, <2>2, <2>3, <2>4, <2>5 DEF MixedInv
  <1> QED BY <1>1, <1>2 DEF Next, Finished

-----------------------------------------------------------------------------
(* Locks and Lockers. *)

\* A word is locked while one thread keeps a Locker on the node.
LockInv ==
    /\ \A n \in Node : lock[n].locked <=> \E t \in Thread : n \in held[t]
    /\ \A t, u \in Thread : t # u => held[t] \cap held[u] = {}

\* A step of one thread that comes down to LockStep keeps locks and Lockers together.
LEMMA LockInvStep ==
  ASSUME MixedInv, LockInv, NEW t \in Thread, LockStep(t)
  PROVE  LockInv'
  <1>1. lock \in [Node -> Word] /\ held \in [Thread -> SUBSET Node]
    BY DEF MixedInv, Memory, Threads
  <1>2. CASE /\ UNCHANGED held
             /\ \A n \in Node : \/ lock'[n].locked = lock[n].locked
                                \/ ~lock'[n].locked /\ \A u \in Thread : n \notin held[u]
    BY <1>2 DEF LockInv
  <1>3. ASSUME NEW n \in Node, ~lock[n].locked, lock' = [lock EXCEPT ![n] = Acquired(@)],
               held' = [held EXCEPT ![t] = @ \cup {n}]
        PROVE  LockInv'
    <2>1. /\ held'[t] = held[t] \cup {n} /\ \A u \in Thread \ {t} : held'[u] = held[u]
          /\ lock'[n].locked /\ \A m \in Node : m # n => lock'[m] = lock[m]
      BY <1>1, <1>3 DEF Acquired, Word
    <2>2. \A u \in Thread : n \notin held[u] BY <1>3 DEF LockInv
    <2> QED BY <2>1, <2>2 DEF LockInv
  <1>4. ASSUME NEW n \in held[t], lock' = [lock EXCEPT ![n] = Released(@)],
               held' = [held EXCEPT ![t] = @ \ {n}]
        PROVE  LockInv'
    <2>1. n \in Node BY <1>1, <1>4
    <2>2. /\ held'[t] = held[t] \ {n} /\ \A u \in Thread \ {t} : held'[u] = held[u]
          /\ ~lock'[n].locked /\ \A m \in Node : m # n => lock'[m] = lock[m]
      BY <1>1, <1>4, <2>1 DEF Released, Word
    <2>3. \A u \in Thread \ {t} : n \notin held[u] BY <1>4 DEF LockInv
    <2> QED BY <2>1, <2>2, <2>3 DEF LockInv
  <1> QED BY <1>2, <1>3, <1>4 DEF LockStep

\* Every step keeps them together, if no singleton flag is cleared with a stale lock flag.
LEMMA NextLockInv ==
  ASSUME MixedInv, LockInv, [Next]_vars,
         [\A t \in Thread : pc[t] = "clearStore" /\ pc'[t] = "abort" =>
             saw[t].locked = lock[cur[t]].locked]_vars
  PROVE  LockInv'
  <1>1. CASE UNCHANGED vars BY <1>1 DEF vars, LockInv, sharedVars, commitVars
  <1>2. CASE \A t \in Thread : KeepsLock(t) BY <1>1, <1>2, NextMixed, LockInvStep
  <1> QED BY <1>1, <1>2 DEF KeepsLock

-----------------------------------------------------------------------------
(* Theorems about any program. *)

\* Whatever mixture of transactions and operations outside transactions the threads
\* run: every thread has only nodes that exist and that no other transaction hides,
\* has an index entry or a place in the list wherever the code uses one, and keeps
\* its Lockers only where SingleListOperator and the commit of TxnListStorage do.
THEOREM MixedInvariance ==
  ASSUME AnyPrograms
  PROVE  Spec => []MixedInv
  <1>1. Init => MixedInv BY InitMixed
  <1>2. MixedInv /\ [Next]_vars => MixedInv' BY NextMixed
  <1> QED BY <1>1, <1>2, PTL DEF Spec

\* The types of the shared memory, the storages and the locals, in any program: no
\* step of any operation reads a node that is none, or a local that is not set.
THEOREM MixedTypeCorrect ==
  ASSUME AnyPrograms
  PROVE  Spec => []TypeOK
  <1>1. ASSUME MixedInv PROVE TypeOK
    <2>1. ASSUME NEW t \in Thread PROVE TxnOK(txn[t]) /\ (pc[t] = "idle" => txn[t] = EmptyTxn)
      BY <1>1, MixedUse, TxnTypes
    <2> QED BY <1>1, <2>1 DEF MixedInv, Memory, Threads, NodeType, Candidate, Link, TypeOK
  <1> QED BY <1>1, MixedInvariance, PTL

\* The nodes that a transaction has constructed stay out of the list, out of the index
\* and out of the locals of other threads until its commit, also where the other
\* threads call operations outside transactions.
THEOREM MixedFreshPrivate ==
  ASSUME AnyPrograms
  PROVE  Spec => []FreshIsPrivate
  <1>1. ASSUME MixedInv PROVE FreshIsPrivate
    <2> SUFFICES ASSUME NEW t \in Thread, pc[t] \notin Committing \cup {"finish", "crashed"}
                 PROVE  /\ \A n \in alloc \ txn[t].fresh : node[n].next \notin txn[t].fresh
                        /\ \A k \in Key : index[k] \notin txn[t].fresh
                        /\ \A u \in Thread \ {t} :
                            {frame[u].pred, frame[u].succ, frame[u].at, frame[u].link}
                                \cap txn[t].fresh = {}
      BY DEF FreshIsPrivate
    <2>1. Hidden(t) = txn[t].fresh BY DEF Hidden
    <2>2. alloc \subseteq Node BY <1>1 DEF MixedInv, Memory
    <2> QED BY <1>1, <2>1, <2>2 DEF MixedInv, References, Refs
  <1> QED BY <1>1, MixedInvariance, PTL

\* In any program a lock flag is set exactly where one thread keeps a Locker, and a
\* commit has Lockers on all of its write set, as long as nobody locks or releases
\* a node between the load and the store with which a transaction that has read
\* the node clears its singleton flag (ValidateReadSet, which calls SetSingleton
\* without the lock).
THEOREM MixedLocksMatch ==
  ASSUME AnyPrograms
  PROVE  Spec /\ ClearsKeepLock => []LocksMatchLockers
  <1>1. Init => LockInv BY InitMixed DEF LockInv
  <1>2. MixedInv /\ LockInv /\ [Next]_vars
          /\ [\A t \in Thread : pc[t] = "clearStore" /\ pc'[t] = "abort" =>
                 saw[t].locked = lock[cur[t]].locked]_vars
          => LockInv'
    BY NextLockInv
  <1>3. ASSUME MixedInv, LockInv PROVE LocksMatchLockers
    <2>1. \A t \in Thread : pc[t] \in Committing => DOMAIN txn[t].writeSet = held[t]
      BY <1>3, CommitUse
    <2> QED BY <1>3, <2>1 DEF LockInv, LocksMatchLockers
  <1> QED BY <1>1, <1>2, <1>3, MixedInvariance, PTL DEF Spec, ClearsKeepLock
==============================================================================
