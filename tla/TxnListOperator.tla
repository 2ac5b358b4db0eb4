--------------------------- MODULE TxnListOperator ---------------------------
(***************************************************************************)
(* The operations a transaction calls on the list                          *)
(* (Transactions/TxnListOperator.hpp): Contains, Get, Insert and Remove    *)
(* find their place through the index and the chain of nodes, one access   *)
(* to shared memory per action, and leave their effects in the write set   *)
(* of the thread's TxnListStorage.                                         *)
(*                                                                         *)
(* GetValidatedSuccessor keeps a reference to node->_next and copies it    *)
(* when it returns, after the check of the version: the chain is read in   *)
(* SuccessorNext, after SuccessorVersion.                                  *)
(***************************************************************************)
EXTENDS TxnStorage

VARIABLE frame    \* the locals of the operation each thread executes

\* An operation on the list; "Throw" stands for a routine that
\* throws an exception of its own.
Operation == [kind : {"Contains", "Get", "Insert", "Remove", "Throw"},
              key : Key, value : Value]

\* "at" is the node GetValidatedSuccessor is called with, "removing" tells
\* Remove's own call from those of TraverseTo, "link" is a node read before it
\* is stored.  "results" collects what the operations of this attempt returned.
\* "readVersion" and "stores", the stores still to come, are for operations
\* outside transactions.
EmptyFrame == [op |-> Null, cand |-> DefaultKey, pred |-> Null, succ |-> Null,
               at |-> Null, removing |-> FALSE, link |-> Null, results |-> <<>>,
               readVersion |-> 0, stores |-> <<>>]

FrameInit == frame = [t \in Thread |-> EmptyFrame]

operatorVars == <<sharedVars, txn, commitVars>>

-----------------------------------------------------------------------------
(* Helpers. *)

ReadVersion(t) == txn[t].readVersion

\* An operation returns r to the routine.
Return(t, r) ==
    /\ Goto(t, "next")
    /\ frame' = [frame EXCEPT ![t] = [EmptyFrame EXCEPT !.results = Append(frame[t].results, r)]]

Found(t) == frame[t].succ # Null /\ node[frame[t].succ].key = frame[t].op.key

Put(t, n, next, deleted, value) ==
    [m \in DOMAIN txn[t].writeSet \cup {n} |->
        IF m = n THEN [next |-> next, deleted |-> deleted, value |-> value]
                 ELSE txn[t].writeSet[m]]

\* std::make_shared: memory nobody uses.
FreshNode == CHOOSE n \in Node : n \notin alloc

Construct(n, contents) ==
    /\ alloc # Node
    /\ alloc' = alloc \cup {n}
    /\ node' = [node EXCEPT ![n] = contents]
    /\ lock' = [lock EXCEPT ![n] = NewWord]
    /\ UNCHANGED <<gvc, index>>

-----------------------------------------------------------------------------
(* GetValidatedPredecessor *)

CallOperation(t, op) ==
    /\ pc[t] = "next"
    /\ frame' = [frame EXCEPT ![t].op = op, ![t].cand = op.key]
    /\ Goto(t, IF op.kind = "Throw" THEN "fault" ELSE "findPrevious")
    /\ UNCHANGED operatorVars

FindPrevious(t) ==
    /\ pc[t] = "findPrevious"
    /\ frame' = [frame EXCEPT ![t].pred = GetPrevious(frame[t].cand)]
    /\ Goto(t, "predecessorVersion")
    /\ UNCHANGED operatorVars

PredecessorVersion(t) ==
    /\ pc[t] = "predecessorVersion"
    /\ Goto(t, IF ValidVersionAndReleased(lock[frame[t].pred], ReadVersion(t))
               THEN "predecessorDeleted" ELSE "abort")
    /\ UNCHANGED <<operatorVars, frame>>

\* A deleted predecessor is skipped; the sentinel's key is an empty optional,
\* and Key() throws.
PredecessorDeleted(t) ==
    /\ pc[t] = "predecessorDeleted"
    /\ LET p == frame[t].pred IN
        IF ~GetUpdatedIsDeleted(t, p)
        THEN /\ Goto(t, "successorLocked")
             /\ frame' = [frame EXCEPT ![t].at = p]
        ELSE /\ Goto(t, IF p = Sentinel THEN "fault" ELSE "findPrevious")
             /\ frame' = [frame EXCEPT ![t].cand = node[p].key]
    /\ UNCHANGED operatorVars

-----------------------------------------------------------------------------
(* GetValidatedSuccessor, called by TraverseTo along the chain and by Remove *)
(* on the node it removes.                                                   *)

\* Mutant: the predecessor does not enter the read set.
TraversedUnread(t, n) ==
    IF n # Null /\ node[n].key < frame[t].op.key
    THEN /\ frame' = [frame EXCEPT ![t].pred = n, ![t].at = n]
         /\ Goto(t, "successorLocked")
         /\ UNCHANGED txn
    ELSE /\ frame' = [frame EXCEPT ![t].succ = n]
         /\ Goto(t, "apply")
         /\ UNCHANGED txn

\* TraverseTo stops in front of the first key that is not below the wanted one
\* and notes the predecessor in the read set.
Traversed(t, n) ==
    IF n # Null /\ node[n].key < frame[t].op.key
    THEN /\ frame' = [frame EXCEPT ![t].pred = n, ![t].at = n]
         /\ Goto(t, "successorLocked")
         /\ UNCHANGED txn
    ELSE /\ frame' = [frame EXCEPT ![t].succ = n]
         /\ txn' = [txn EXCEPT ![t].readSet = @ \cup {frame[t].pred}]
         /\ Goto(t, "apply")

GotSuccessor(t, n) ==
    IF frame[t].removing
    THEN /\ frame' = [frame EXCEPT ![t].link = n]
         /\ Goto(t, "removePredecessor")
         /\ UNCHANGED txn
    ELSE Traversed(t, n)

SuccessorLocked(t) ==
    /\ pc[t] = "successorLocked"
    /\ IF InWriteSet(t, frame[t].at)
       THEN GotSuccessor(t, txn[t].writeSet[frame[t].at].next)
       ELSE /\ Goto(t, IF lock[frame[t].at].locked THEN "abort" ELSE "successorVersion")
            /\ UNCHANGED <<frame, txn>>
    /\ UNCHANGED <<sharedVars, commitVars>>

SuccessorVersion(t) ==
    /\ pc[t] = "successorVersion"
    /\ Goto(t, IF ValidVersionAndReleased(lock[frame[t].at], ReadVersion(t))
               THEN "successorNext" ELSE "abort")
    /\ UNCHANGED <<operatorVars, frame>>

SuccessorNext(t) ==
    /\ pc[t] = "successorNext"
    /\ GotSuccessor(t, node[frame[t].at].next)
    /\ UNCHANGED <<sharedVars, commitVars>>

-----------------------------------------------------------------------------
(* Contains and Get *)

Contains(t) ==
    /\ pc[t] = "apply" /\ frame[t].op.kind = "Contains"
    /\ Return(t, Found(t))
    /\ UNCHANGED operatorVars

\* The value is read as it is now; the successor does not enter the read set.
Get(t) ==
    /\ pc[t] = "apply" /\ frame[t].op.kind = "Get"
    /\ Return(t, IF Found(t) THEN GetUpdatedValue(t, frame[t].succ) ELSE Null)
    /\ UNCHANGED operatorVars

-----------------------------------------------------------------------------
(* Remove *)

RemoveNothing(t) ==
    /\ pc[t] = "apply" /\ frame[t].op.kind = "Remove" /\ ~Found(t)
    /\ Return(t, Null)
    /\ UNCHANGED operatorVars

RemoveFound(t) ==
    /\ pc[t] = "apply" /\ frame[t].op.kind = "Remove" /\ Found(t)
    /\ frame' = [frame EXCEPT ![t].at = frame[t].succ, ![t].removing = TRUE]
    /\ Goto(t, "successorLocked")
    /\ UNCHANGED operatorVars

RemovePredecessor(t) ==
    /\ pc[t] = "removePredecessor"
    /\ LET p == frame[t].pred IN
        txn' = [txn EXCEPT ![t].writeSet =
                    Put(t, p, frame[t].link, FALSE, GetUpdatedValue(t, p))]
    /\ Goto(t, "removeSuccessor")
    /\ UNCHANGED <<sharedVars, commitVars, frame>>

\* Mutant: the removed node does not enter the read set.
RemoveUnread(t) ==
    /\ pc[t] = "removeSuccessor"
    /\ LET s == frame[t].succ
           dummy == FreshNode
           value == GetUpdatedValue(t, s)
       IN  /\ Construct(dummy, NewNode)
           /\ txn' = [txn EXCEPT ![t].writeSet = Put(t, s, dummy, TRUE, value),
                                 ![t].indexRemove = @ \cup {s},
                                 ![t].fresh = @ \cup {dummy}]
           /\ Return(t, value)
    /\ UNCHANGED commitVars

\* The removed node is linked to a default-constructed one.
RemoveSuccessor(t) ==
    /\ pc[t] = "removeSuccessor"
    /\ LET s == frame[t].succ
           dummy == FreshNode
           value == GetUpdatedValue(t, s)
       IN  /\ Construct(dummy, NewNode)
           /\ txn' = [txn EXCEPT ![t].writeSet = Put(t, s, dummy, TRUE, value),
                                 ![t].readSet = @ \cup {s},
                                 ![t].indexRemove = @ \cup {s},
                                 ![t].fresh = @ \cup {dummy}]
           /\ Return(t, value)
    /\ UNCHANGED commitVars

-----------------------------------------------------------------------------
(* Insert *)

\* Mutant: the node is linked to itself, not to the one behind it.
InsertBehindItself(t) ==
    /\ pc[t] = "apply" /\ frame[t].op.kind = "Insert" /\ Found(t)
    /\ frame' = [frame EXCEPT ![t].link = frame[t].succ]
    /\ Goto(t, "insertDeleted")
    /\ UNCHANGED operatorVars

InsertExisting(t) ==
    /\ pc[t] = "apply" /\ frame[t].op.kind = "Insert" /\ Found(t)
    /\ frame' = [frame EXCEPT ![t].link = GetUpdatedNext(t, frame[t].succ)]
    /\ Goto(t, "insertDeleted")
    /\ UNCHANGED operatorVars

InsertExistingDeleted(t) ==
    /\ pc[t] = "insertDeleted"
    /\ LET s == frame[t].succ IN
        txn' = [txn EXCEPT ![t].writeSet = Put(t, s, frame[t].link,
                                GetUpdatedIsDeleted(t, s), frame[t].op.value),
                           ![t].readSet = @ \cup {s}]
    /\ Return(t, Null)
    /\ UNCHANGED <<sharedVars, commitVars>>

\* Mutant: the candidate enters the index at once.
InsertIntoIndex(t) ==
    /\ pc[t] = "apply" /\ frame[t].op.kind = "Insert" /\ ~Found(t)
    /\ LET p == frame[t].pred
           candidate == FreshNode
       IN  /\ alloc # Node
           /\ alloc' = alloc \cup {candidate}
           /\ node' = [node EXCEPT ![candidate] = [key |-> frame[t].op.key,
                            value |-> frame[t].op.value, next |-> frame[t].succ]]
           /\ index' = [index EXCEPT ![frame[t].op.key] = candidate]
           /\ txn' = [txn EXCEPT ![t].writeSet =
                                    Put(t, p, candidate, FALSE, GetUpdatedValue(t, p)),
                                 ![t].fresh = @ \cup {candidate}]
    /\ Return(t, Null)
    /\ UNCHANGED <<gvc, lock, commitVars>>

InsertNew(t) ==
    /\ pc[t] = "apply" /\ frame[t].op.kind = "Insert" /\ ~Found(t)
    /\ LET p == frame[t].pred
           candidate == FreshNode
       IN  /\ Construct(candidate, [key |-> frame[t].op.key,
                                    value |-> frame[t].op.value,
                                    next |-> frame[t].succ])
           /\ txn' = [txn EXCEPT ![t].writeSet =
                                    Put(t, p, candidate, FALSE, GetUpdatedValue(t, p)),
                                 ![t].indexAdd = Append(@, candidate),
                                 ![t].fresh = @ \cup {candidate}]
    /\ Return(t, Null)
    /\ UNCHANGED commitVars
=============================================================================
