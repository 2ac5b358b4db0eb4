-------------------------- MODULE TxnListProperties --------------------------
(***************************************************************************)
(* What transactions on a TxnList promise: transactions appear to execute  *)
(* one after the other and see consistent states, locks are held exactly   *)
(* by the commits that took them, the chain of nodes stays a sorted list,  *)
(* a rolled-back transaction leaves nothing behind, and the index agrees   *)
(* with the list once nothing runs.                                        *)
(***************************************************************************)
EXTENDS TransactionDispatcher

Fun == INSTANCE Functions

\* Committing: past the validation; the effects are being written.
Committing == {"write", "writeValue", "writeDeleted", "writeVersion", "writeSingleton"}

Label == {"idle", "next", "findPrevious", "predecessorVersion", "predecessorDeleted",
          "successorLocked", "successorVersion", "successorNext", "apply",
          "removePredecessor", "removeSuccessor", "insertDeleted",
          "lock", "validate", "validateVersion", "validateEqual", "validateSingleton",
          "validateRelocked", "advance", "clearLoad", "clearStore",
          "finish", "abort", "fault", "crashed",
          "singleVersion", "singleFind", "singlePredecessor", "singleUnlocked",
          "singleHasNext", "singleNextLocked", "singleAtEnd", "singleNextKey",
          "singleFound", "singleAdvance", "singleApply", "singleNotDeleted",
          "singleStillNext", "singleLockSuccessor", "singleUnlink",
          "singleOverwrite", "singleStore", "singleLink", "singleIndexAdd",
          "singleIndexCheck", "singleRetry", "singleReturn", "threw"} \cup Committing

WriteSet == UNION {[d -> WriteSetElement] : d \in SUBSET Node}

TxnOK(x) ==
    /\ x.active \in BOOLEAN /\ x.readVersion \in Nat /\ x.writeVersion \in Nat
    /\ x.readSet \subseteq Node /\ x.indexRemove \subseteq Node /\ x.fresh \subseteq Node
    /\ DOMAIN x.writeSet \subseteq Node
    /\ \A n \in DOMAIN x.writeSet : x.writeSet[n] \in WriteSetElement
    /\ x.indexAdd \in Seq(Node)

\* The types, and that the thread-local state is empty outside a transaction.
TypeOK ==
    /\ gvc \in Nat
    /\ lock \in [Node -> Word]
    /\ node \in [Node -> [key : Key \cup {DefaultKey}, value : Value,
                          next : Node \cup {Null}]]
    /\ alloc \subseteq Node
    /\ index \in [Key -> Node \cup {Null}]
    /\ \A t \in Thread : TxnOK(txn[t])
    /\ held \in [Thread -> SUBSET Node]
    /\ pc \in [Thread -> Label]
    /\ todo \in [Thread -> SUBSET Node]
    /\ cur \in [Thread -> Node]
    /\ saw \in [Thread -> Word]
    /\ \A t \in Thread : pc[t] = "idle" => txn[t] = EmptyTxn

-----------------------------------------------------------------------------
(* Locks and versions. *)

\* Release asserts that the word it loads is locked (VersionLock.cpp:28): no
\* thread ever stops on a failed assertion.
ReleaseAssertion == \A t \in Thread : pc[t] # "crashed"

\* A lock word is locked exactly while one thread's commit keeps a Locker on the
\* node, and a commit writes to no node it has not locked.
LocksMatchLockers ==
    /\ \A n \in Node : lock[n].locked <=> \E t \in Thread : n \in held[t]
    /\ \A t, u \in Thread : t # u => held[t] \cap held[u] = {}
    /\ \A t \in Thread : pc[t] \in Committing => DOMAIN txn[t].writeSet = held[t]

\* The version of a node that stays allocated never decreases, and no step hands
\* out a version ahead of the clock: what a transaction validated against its
\* read version cannot become valid again after it was overwritten.
VersionsAdvance ==
    [][/\ gvc' >= gvc
       /\ \A n \in alloc \cap alloc' : lock'[n].version >= lock[n].version
       /\ \A n \in Node : lock'[n].version <= gvc']_vars

\* "Singletons cannot abort": no operation outside a transaction ends with an
\* exception.
SinglesCannotAbort == \A t \in Thread : pc[t] # "threw"

-----------------------------------------------------------------------------
(* The chain of nodes. *)

\* The nodes from the sentinel on, and Null after the last one.
Chain[i \in Nat] ==
    IF i = 0 THEN Sentinel
    ELSE LET n == Chain[i - 1] IN IF n = Null THEN Null ELSE node[n].next

\* Memory is finite.
ASSUME MemoryAssumption == IsFiniteSet(Node)

\* The places behind the sentinel; more than there are nodes if there is a cycle.
Places == {i \in 1 .. Cardinality(Node) : Chain[i] # Null}

InList(n) == \E i \in Places : Chain[i] = n

\* A single operation that has passed its checks under the lock (SingleListOperator.hpp,
\* the second "continue" of Remove and of Insert) changes the list where its key belongs:
\* its predecessor is still in the list and not deleted, still leads to its successor,
\* and the key lies in between, whatever the others did since the search.
PlaceIsRight ==
    \A t \in Thread : pc[t] \in {"singleLockSuccessor", "singleUnlink", "singleLink"} =>
        LET pred == Pred(t)
            succ == Succ(t)
            key == frame[t].op.key
        IN  /\ pred = Sentinel \/ (InList(pred) /\ node[pred].key < key)
            /\ ~lock[pred].deleted /\ node[pred].next = succ
            /\ pc[t] = "singleLink" => succ = Null \/ key < node[succ].key
            /\ pc[t] = "singleUnlink" => node[succ].key = key /\ ~lock[succ].deleted

Contents == [k \in Key |->
    IF \E i \in Places : node[Chain[i]].key = k
    THEN node[Chain[CHOOSE i \in Places : node[Chain[i]].key = k]].value
    ELSE Null]

NothingLocked == \A n \in Node : ~lock[n].locked
NothingRuns == \A t \in Thread : pc[t] = "idle"

\* Whenever no node is locked, the chain is strictly sorted (so it ends, and no
\* key is in it twice) and none of its nodes is marked deleted.
ListWellFormed ==
    NothingLocked =>
        \A i \in Places :
            /\ ~lock[Chain[i]].deleted
            /\ i > 1 => node[Chain[i - 1]].key < node[Chain[i]].key

\* The nodes a transaction creates are its own until it commits: no list node,
\* no index entry and no other thread refers to them, so destroying them with
\* the write set on a rollback leaves no dangling reference.
FreshIsPrivate ==
    \A t \in Thread :
        pc[t] \notin Committing \cup {"finish", "crashed"} =>
            /\ \A n \in alloc \ txn[t].fresh : node[n].next \notin txn[t].fresh
            /\ \A k \in Key : index[k] \notin txn[t].fresh
            /\ \A u \in Thread \ {t} :
                {frame[u].pred, frame[u].succ, frame[u].at, frame[u].link}
                    \cap txn[t].fresh = {}

-----------------------------------------------------------------------------
(* A map: the reference for what transactions and operations return and leave. *)

ResultOf(map, op) ==
    CASE op.kind = "Contains" -> map[op.key] # Null
      [] op.kind \in {"Get", "Remove"} -> map[op.key]
      [] op.kind = "Insert" -> Null

Effect(map, op) ==
    CASE op.kind = "Insert" -> [map EXCEPT ![op.key] = op.value]
      [] op.kind = "Remove" -> [map EXCEPT ![op.key] = Null]
      [] OTHER -> map

\* The calls of one transaction, on a map; "ok" while the results agree.
Replay(state, calls) ==
    LET s[i \in 0 .. Len(calls)] ==
            IF i = 0 THEN state
            ELSE [map |-> Effect(s[i - 1].map, calls[i].op),
                  ok |-> s[i - 1].ok /\ ResultOf(s[i - 1].map, calls[i].op) = calls[i].result]
    IN  s[Len(calls)]

\* Orders of the transactions in h in which none comes before one that had
\* returned when it began.
Orders(h) ==
    {s \in Fun!Injection(DOMAIN h, DOMAIN h) :
        \A i, j \in DOMAIN h : i < j => s[j] \notin h[s[i]].after}

\* What they leave behind, one after the other.
After(h, order) ==
    LET s[i \in 0 .. Len(order)] ==
            IF i = 0 THEN [map |-> initial, ok |-> TRUE]
            ELSE Replay(s[i - 1], h[order[i]].calls)
    IN  s[Len(order)]

\* When nothing runs, the committed transactions and the single operations
\* returned, and left in the list, what they would have in some sequential order
\* that respects real time.
Serializable ==
    NothingRuns =>
        \E order \in Orders(hist) :
            LET final == After(hist, order) IN final.ok /\ final.map = Contents

-----------------------------------------------------------------------------
(* The index. *)

\* When nothing runs, the index holds exactly the nodes of the list, so Size,
\* Sum and Empty, which are computed from it, are right.
IndexMatchesList ==
    NothingRuns =>
        \A k \in Key : /\ index[k] = Null <=> Contents[k] = Null
                       /\ index[k] # Null => InList(index[k])

-----------------------------------------------------------------------------
(* Liveness. *)

\* Every attempt ends: a lock that is taken is released, and the thread returns
\* to the dispatcher.
AttemptsEnd == \A t \in Thread : pc[t] # "idle" ~> pc[t] = "idle" /\ held[t] = {}

\* Dispatch may retry for ever under contention; nothing hinders a program that
\* does not call it, or in which only one thread has jobs.
Unhindered ==
    \/ \A t \in Thread : \A i \in DOMAIN jobs[t] : jobs[t][i].call # "Dispatch"
    \/ \E t \in Thread : \A u \in Thread \ {t} : jobs[u] = <<>>

\* An unhindered program gets its jobs done: a lone transaction that meets nodes
\* written by single operations is not sent back for ever, and single operations
\* that fail to take their locks do not keep each other from ending.
Termination == Unhindered => <>Done
=============================================================================
