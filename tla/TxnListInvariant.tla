--------------------------- MODULE TxnListInvariant ---------------------------
(***************************************************************************)
(* The inductive invariant of transactions on a TxnList, without           *)
(* operations outside transactions: types, which nodes a thread may refer  *)
(* to, and who holds which lock at which version.                          *)
(***************************************************************************)
EXTENDS TxnListProperties

TxnJobs == Seq([call : {"Dispatch", "TryDispatch"}, body : Seq(Operation)])

\* There is memory for a list of these keys.
HasMemory(keys) ==
    \E f \in [keys -> Node \ {Sentinel}] : \A j, k \in keys : f[j] = f[k] => j = k

\* Every scenario has transactions only, on a list that a transaction has populated
\* and for which there is memory.
OnlyTransactions ==
    \A s \in Scenario :
        /\ s.keys \subseteq Key /\ s.by = "transaction" /\ HasMemory(s.keys)
        /\ s.jobs \in [Thread -> TxnJobs]

-----------------------------------------------------------------------------
(* Types. *)

\* A TxnListStorage whose write set has the nodes d.
Txn(d) == [active : BOOLEAN, readVersion : Nat, writeVersion : Nat,
           readSet : SUBSET Node, writeSet : [d -> WriteSetElement], indexAdd : Seq(Node),
           indexRemove : SUBSET Node, fresh : SUBSET Node]

TxnTyped(x) == x \in Txn(DOMAIN x.writeSet) /\ DOMAIN x.writeSet \subseteq Node

Link == Node \cup {Null}

\* The results an operation may return are booleans, values and Null.
IsSeq(s) == Len(s) \in Nat /\ s = [i \in 1 .. Len(s) |-> s[i]]

Called == Operation \cup {Null}
Candidate == Key \cup {DefaultKey}

Frame(results) ==
         [op : Called, cand : Candidate, pred : Link, succ : Link,
          at : Link, removing : BOOLEAN, link : Link,
          results : {results}, readVersion : {0}, stores : {<<>>}]

\* Where a thread is in an operation, and which locals it has set there.
Placed == {"predecessorVersion", "predecessorDeleted", "successorLocked",
           "successorVersion", "successorNext", "apply", "removePredecessor",
           "removeSuccessor", "insertDeleted"}
Operating == Placed \cup {"findPrevious"}
AtNode == {"successorLocked", "successorVersion", "successorNext"}
AtFound == {"removePredecessor", "removeSuccessor", "insertDeleted"}

Validating == {"validate", "validateVersion", "validateEqual", "validateSingleton",
               "validateRelocked"}
Holding == {"lock", "finish", "abort"} \cup Validating \cup Committing
TxnLabel == {"idle", "next", "fault", "crashed"} \cup Operating \cup Holding

FrameFits(label, f) ==
    /\ f \in Frame(f.results) /\ IsSeq(f.results)
    /\ label \in Operating => f.op \in Operation
    /\ label \in Placed => f.pred \in Node
    /\ label \in AtNode => f.at \in Node
    /\ label \in AtFound \/ f.removing => f.succ \in Node

\* What a thread has in its storage and its locals, by where it is.
ThreadOK(t) ==
    /\ TxnTyped(txn[t])
    /\ FrameFits(pc[t], frame[t])
    /\ IF pc[t] = "idle" THEN txn[t] = EmptyTxn /\ frame[t] = EmptyFrame
       ELSE jobs[t] # <<>>

MemoryOK ==
    /\ gvc \in Nat
    /\ lock \in [Node -> Word]
    /\ \A n \in Node : ~lock[n].singleton
    /\ node \in [Node -> [key : Key \cup {DefaultKey}, value : Value, next : Link]]
    /\ alloc \subseteq Node
    /\ index \in [Key -> Link]

CommitOK ==
    /\ held \in [Thread -> SUBSET Node]
    /\ todo \in [Thread -> SUBSET Node]
    /\ cur \in [Thread -> Node]
    /\ saw \in [Thread -> {NewWord}]

Types ==
    /\ MemoryOK
    /\ CommitOK
    /\ pc \in [Thread -> TxnLabel]
    /\ DOMAIN txn = Thread /\ DOMAIN frame = Thread
    /\ jobs \in [Thread -> TxnJobs]
    /\ \A t \in Thread : ThreadOK(t)

-----------------------------------------------------------------------------
(* References. *)

\* The nodes that thread t refers to, and may link or put into the index.
Refs(t) ==
    {frame[t].pred, frame[t].succ, frame[t].at, frame[t].link}
        \cup DOMAIN txn[t].writeSet
        \cup {txn[t].writeSet[n].next : n \in DOMAIN txn[t].writeSet}
        \cup {txn[t].indexAdd[i] : i \in DOMAIN txn[t].indexAdd}
        \cup held[t]

\* The nodes that thread t has created and not yet published.
Hidden(t) ==
    IF pc[t] \in Committing \cup {"finish", "crashed"} THEN {} ELSE txn[t].fresh

\* Whatever anybody refers to exists, and nobody refers to what another one hides.
References ==
    /\ Sentinel \in alloc
    /\ \A n \in Node : node[n].next \in alloc \cup {Null}
    /\ \A k \in Key : index[k] \in alloc \cup {Null}
    /\ \A t \in Thread :
        /\ txn[t].fresh \subseteq alloc \ {Sentinel}
        /\ Refs(t) \subseteq alloc \cup {Null}
        /\ \A n \in Node \ txn[t].fresh : node[n].next \notin Hidden(t)
        /\ \A k \in Key : index[k] \notin Hidden(t)
        /\ \A u \in Thread \ {t} :
            Refs(u) \cap Hidden(t) = {} /\ txn[u].fresh \cap txn[t].fresh = {}

-----------------------------------------------------------------------------
(* Locks and versions. *)

\* What thread t holds, by where it is.
HoldsOK(t) ==
    /\ pc[t] \notin Holding => held[t] = {}
    /\ pc[t] = "lock" => DOMAIN txn[t].writeSet = held[t] \cup todo[t]
    /\ pc[t] \in Validating \cup Committing => DOMAIN txn[t].writeSet = held[t]
    /\ pc[t] \in Committing => todo[t] \subseteq held[t]
    /\ pc[t] \in Committing \ {"write"} => cur[t] \in held[t]
    /\ pc[t] # "crashed"

Ownership ==
    /\ \A n \in Node : lock[n].locked <=> \E t \in Thread : n \in held[t]
    /\ \A t, u \in Thread : t # u => held[t] \cap held[u] = {}
    /\ \A t \in Thread : HoldsOK(t)

\* A commit writes with a version that the clock has reached and that no node it
\* holds is beyond.
WritesAhead(t) ==
    pc[t] \in Committing =>
        /\ txn[t].writeVersion <= gvc
        /\ \A n \in held[t] : lock[n].version <= txn[t].writeVersion

Versions ==
    /\ \A n \in Node : lock[n].version <= gvc
    /\ \A t \in Thread : WritesAhead(t)

IInv == Types /\ References /\ Ownership /\ Versions
=============================================================================
