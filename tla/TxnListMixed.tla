----------------------------- MODULE TxnListMixed -----------------------------
(***************************************************************************)
(* The inductive invariant of any program: threads that run transactions   *)
(* and call operations outside transactions, in any order and mixture, on  *)
(* a list that either may have populated.  It says of which types          *)
(* everything is, which nodes a thread may refer to, and which nodes it    *)
(* may keep Lockers on.  It says nothing of the lock words, as a           *)
(* transaction may write to the word of a node that another thread has     *)
(* locked.                                                                 *)
(***************************************************************************)
EXTENDS TxnListInvariant

AnyJob == [call : {"Dispatch", "TryDispatch"}, body : Seq(Operation)]
            \cup [call : {"single"}, body : {<<op>> : op \in Operation}]

\* There is memory for the list that a scenario starts with.
AnyPrograms ==
    \A s \in Scenario :
        /\ s.keys \subseteq Key /\ HasMemory(s.keys)
        /\ s.jobs \in [Thread -> Seq(AnyJob)]

-----------------------------------------------------------------------------
(* Where a thread is in an operation outside a transaction. *)

\* It has no place in the list, or only looks at the list.
Unplaced == {"singleVersion", "singleFind"}
Looking == Unplaced \cup
           {"singlePredecessor", "singleUnlocked", "singleHasNext", "singleNextLocked",
            "singleAtEnd", "singleNextKey", "singleFound", "singleAdvance", "singleApply",
            "threw"}

\* It may keep Lockers on its place: it checks, it writes, it is done.
Rechecking == {"singleNotDeleted", "singleStillNext"}
ToSuccessor == {"singleLockSuccessor", "singleUnlink", "singleOverwrite"}
Linking == {"singleIndexAdd", "singleIndexCheck"}
Changing == Rechecking \cup ToSuccessor \cup Linking
                \cup {"singleStore", "singleLink", "singleRetry", "singleReturn"}

Outside == Looking \cup Changing

\* A transaction that clears the singleton flag of a node it has read.
Clearing == {"advance", "clearLoad", "clearStore"}

\* The setters that are still to be called.
StoreAt == [node : Node, field : {"version", "singleton", "deleted"}]

Locals(f) ==
    /\ f \in [op : Called, cand : Candidate, pred : Link, succ : Link, at : Link,
              removing : BOOLEAN, link : Link, results : {f.results}, readVersion : Nat,
              stores : {f.stores}]
    /\ IsSeq(f.results) /\ f.stores \in Seq(StoreAt)

MixedFits(label, f) ==
    /\ Locals(f)
    /\ label \in Operating \cup Outside => f.op \in Operation
    /\ label \in Outside => ~f.removing
    /\ label \in Placed \cup (Outside \ Unplaced) => f.pred \in Node
    /\ label \in AtNode => f.at \in Node
    /\ \/ label \in AtFound \cup ToSuccessor \/ f.removing
       \/ label \in Rechecking /\ f.op.kind = "Remove"
       => f.succ \in Node
    /\ label \in Linking => f.link \in Node

\* The Lockers of a thread, by where it is.
Lockers(t) ==
    /\ pc[t] \notin Holding \cup Clearing \cup Changing \cup {"crashed"} => held[t] = {}
    /\ pc[t] \in Changing => held[t] \subseteq {frame[t].pred, frame[t].succ}
    /\ pc[t] = "lock" => DOMAIN txn[t].writeSet = held[t] \cup todo[t]
    /\ pc[t] \in Validating \cup Committing => DOMAIN txn[t].writeSet = held[t]
    /\ pc[t] \in Committing => todo[t] \subseteq held[t]
    /\ pc[t] \in Committing \ {"write"} => cur[t] \in held[t]

MixedThread(t) ==
    /\ TxnTyped(txn[t]) /\ MixedFits(pc[t], frame[t]) /\ Lockers(t)
    /\ pc[t] = "idle" => frame[t] = EmptyFrame
    /\ pc[t] \in Outside \cup {"idle"} => txn[t] = EmptyTxn
    /\ pc[t] \notin {"idle", "crashed"} => jobs[t] # <<>>

\* Every thread has a storage and locals.
Threads ==
    /\ pc \in [Thread -> Label] /\ jobs \in [Thread -> Seq(AnyJob)]
    /\ DOMAIN txn = Thread /\ DOMAIN frame = Thread
    /\ held \in [Thread -> SUBSET Node] /\ todo \in [Thread -> SUBSET Node]
    /\ cur \in [Thread -> Node] /\ saw \in [Thread -> Word]

NodeType == [key : Candidate, value : Value, next : Link]

Memory ==
    /\ gvc \in Nat /\ lock \in [Node -> Word] /\ node \in [Node -> NodeType]
    /\ alloc \subseteq Node /\ index \in [Key -> Link]

\* The invariant: types; each thread has the locals that its place in the code uses,
\* and Lockers on nothing but the place that its single operation has found or its
\* write set, so none when it starts over; and whatever anybody refers to exists and
\* has not been created by a transaction that may still roll it back.
MixedInv == Memory /\ Threads /\ References /\ \A t \in Thread : MixedThread(t)

\* ValidateReadSet clears the singleton flag of a node with a load and a store and
\* without the lock (departure 5 of the README); nobody locks or releases the node in
\* between.
ClearsKeepLock ==
    [][\A t \in Thread : pc[t] = "clearStore" /\ pc'[t] = "abort" =>
            saw[t].locked = lock[cur[t]].locked]_vars
=============================================================================
