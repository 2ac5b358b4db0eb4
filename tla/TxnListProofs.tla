---------------------------- MODULE TxnListProofs -----------------------------
(***************************************************************************)
(* Transactions on a list keep its locks, versions and nodes in order, for *)
(* any threads, nodes, keys, values, routines and interleavings, as long as*)
(* no operation is called outside a transaction (OnlyTransactions): the    *)
(* invariant of TxnListInvariant holds initially and every step keeps it,  *)
(* and it implies the properties that TLC checks on small instances.       *)
(*                                                                         *)
(* First come the steps of TxnListOperator, one lemma for each.  An        *)
(* operation writes to no shared memory but what it creates, so its steps  *)
(* come down to two cases: a step that others cannot see (QuietStep,       *)
(* OperationStep), and one that creates a node (ConstructStep).  Then the  *)
(* steps of the commit and the rollback in TxnStorage, and the ends of an  *)
(* attempt in TransactionDispatcher.                                       *)
(*                                                                         *)
(* The second part is about the chain of nodes: it stays a sorted list     *)
(* (ListInv of TxnListShape).  It starts with lists that overlay a common  *)
(* one, and with what a step of one thread does to what the others make of *)
(* the list.                                                               *)
(***************************************************************************)
EXTENDS TxnListShape, SequenceTheorems, FiniteSetTheorems, WellFoundedInduction, TLAPS

-----------------------------------------------------------------------------
(* Numbers.  Induction on a set of them, and that a function can be applied  *)
(* again and again, which is what a recursive function that follows the      *)
(* pointers of a list comes to.  SkipListSearchProofs has these facts too.   *)

\* Induction, on a set of numbers.
LEMMA NatSets ==
  ASSUME NEW S, 0 \in S, \A n \in Nat : n \in S => n + 1 \in S
  PROVE  Nat \subseteq S
  <1> DEFINE T == Nat \ S
             R == {p \in Nat \X Nat : p[1] < p[2]}
  <1>1. IsWellFoundedOn(R, Nat)
    BY NatLessThanWellFounded DEF OpToRel
  <1>2. SUFFICES ASSUME T # {} PROVE FALSE OBVIOUS
  <1>3. T \subseteq Nat OBVIOUS
  <1>4. PICK x \in T : \A y \in T : ~(<<y, x>> \in R)
    <2> HIDE DEF T, R
    <2> QED BY <1>1, <1>2, <1>3, WFMin
  <1>5. x \in Nat /\ x # 0 /\ x - 1 \in Nat BY <1>4
  <1>6. x - 1 \in T BY <1>4, <1>5
  <1>7. <<x - 1, x>> \in Nat \X Nat /\ x - 1 < x BY <1>5
  <1>8. <<x - 1, x>>[1] < <<x - 1, x>>[2] BY <1>7
  <1>9. <<x - 1, x>> \in R BY <1>7, <1>8
  <1> HIDE DEF R, T
  <1> QED BY <1>4, <1>6, <1>9

\* g is the first n + 1 of a, G[a], G[G[a]] ...
Iterated(g, n, a, G, D) ==
    g \in [0 .. n -> D] /\ g[0] = a /\ \A i \in 0 .. n : i # n => g[i + 1] = G[g[i]]

\* f is a, G[a], G[G[a]] ...
Iteration(f, a, G, D) == f \in [Nat -> D] /\ f[0] = a /\ \A i \in Nat : f[i + 1] = G[f[i]]

\* A function can be applied again and again.
LEMMA Iterates ==
  ASSUME NEW D, NEW a \in D, NEW G, \A x \in D : G[x] \in D
  PROVE  \E f : Iteration(f, a, G, D)
  <1> DEFINE S == {n \in Nat : \E g : Iterated(g, n, a, G, D)}
  <1>1. 0 \in S
    <2> DEFINE g == [i \in 0 .. 0 |-> a]
    <2>1. g \in [0 .. 0 -> D] /\ g[0] = a OBVIOUS
    <2>2. \A i \in 0 .. 0 : i = 0 OBVIOUS
    <2>3. Iterated(g, 0, a, G, D)
      <3> HIDE DEF g
      <3> QED BY <2>1, <2>2 DEF Iterated
    <2> QED BY <2>3
  <1>2. ASSUME NEW n \in Nat, n \in S PROVE n + 1 \in S
    <2>1. PICK g : Iterated(g, n, a, G, D) BY <1>2
    <2> DEFINE h == [i \in 0 .. n + 1 |-> IF i = n + 1 THEN G[g[n]] ELSE g[i]]
    <2>2. \A i \in 0 .. n + 1 : i # n + 1 => i \in 0 .. n OBVIOUS
    <2>3. g[n] \in D /\ \A i \in 0 .. n : g[i] \in D /\ i \in 0 .. n + 1 /\ i # n + 1
      BY <2>1 DEF Iterated
    <2>4. h \in [0 .. n + 1 -> D] BY <2>2, <2>3
    <2>5. \A i \in 0 .. n : h[i] = g[i] BY <2>3
    <2>6. h[n + 1] = G[g[n]] OBVIOUS
    <2>7. h[0] = a BY <2>1, <2>5 DEF Iterated
    <2>8. ASSUME NEW i \in 0 .. n + 1, i # n + 1 PROVE h[i + 1] = G[h[i]]
      <3>1. i \in 0 .. n BY <2>2, <2>8
      <3>2. CASE i = n BY <2>5, <2>6, <3>1, <3>2
      <3>3. CASE i # n
        <4>1. i + 1 \in 0 .. n BY <3>1, <3>3
        <4>2. g[i + 1] = G[g[i]] BY <2>1, <3>1, <3>3 DEF Iterated
        <4> QED BY <2>5, <3>1, <4>1, <4>2
      <3> QED BY <3>2, <3>3
    <2>9. Iterated(h, n + 1, a, G, D)
      <3> HIDE DEF h
      <3> QED BY <2>4, <2>7, <2>8 DEF Iterated
    <2> QED BY <2>9
  <1>3. \A n \in Nat : \E g : Iterated(g, n, a, G, D)
    <2>1. Nat \subseteq S
      <3> HIDE DEF S
      <3> QED BY <1>1, <1>2, NatSets
    <2> QED BY <2>1
  <1>4. ASSUME NEW m \in Nat, NEW n \in Nat, m <= n, NEW g, Iterated(g, m, a, G, D),
               NEW h, Iterated(h, n, a, G, D)
        PROVE  g[m] = h[m]
    <2> DEFINE E == {i \in Nat : i <= m => g[i] = h[i]}
    <2>1. 0 \in E BY <1>4 DEF Iterated
    <2>2. ASSUME NEW i \in Nat, i \in E PROVE i + 1 \in E
      <3>1. SUFFICES ASSUME i + 1 <= m PROVE g[i + 1] = h[i + 1] OBVIOUS
      <3>2. i \in 0 .. m /\ i # m /\ i \in 0 .. n /\ i # n BY <1>4, <3>1
      <3>3. g[i] = h[i] BY <2>2, <3>1
      <3>4. g[i + 1] = G[g[i]] /\ h[i + 1] = G[h[i]] BY <1>4, <3>2 DEF Iterated
      <3> QED BY <3>3, <3>4
    <2>3. Nat \subseteq E
      <3> HIDE DEF E
      <3> QED BY <2>1, <2>2, NatSets
    <2> QED BY <2>3
  <1> DEFINE first(n) == CHOOSE g : Iterated(g, n, a, G, D)
             f == [n \in Nat |-> first(n)[n]]
  <1>5. \A n \in Nat : Iterated(first(n), n, a, G, D) BY <1>3
  <1>6. ASSUME NEW n \in Nat PROVE first(n)[n] \in D /\ first(n + 1)[n + 1] = G[first(n)[n]]
    <2>1. n + 1 \in Nat /\ n <= n + 1 /\ n \in 0 .. n /\ n \in 0 .. n + 1 /\ n # n + 1 OBVIOUS
    <2>2. Iterated(first(n), n, a, G, D) /\ Iterated(first(n + 1), n + 1, a, G, D)
      BY <1>5, <2>1
    <2> HIDE DEF first
    <2>3. first(n)[n] = first(n + 1)[n] BY <1>4, <2>1, <2>2
    <2>4. first(n)[n] \in D BY <2>1, <2>2 DEF Iterated
    <2>5. first(n + 1)[n + 1] = G[first(n + 1)[n]] BY <2>1, <2>2 DEF Iterated
    <2> QED BY <2>3, <2>4, <2>5
  <1>7. first(0)[0] = a
    <2> HIDE DEF first
    <2> QED BY <1>5 DEF Iterated
  <1> HIDE DEF first
  <1>8. f \in [Nat -> D] BY <1>6
  <1>9. f[0] = a BY <1>7
  <1>10. \A i \in Nat : f[i + 1] = G[f[i]] BY <1>6
  <1> QED BY <1>8, <1>9, <1>10 DEF Iteration

-----------------------------------------------------------------------------
(* The steps of an operation. *)

\* A step of thread t leaves the others where they are.
Alone(t) ==
    /\ pc' \in [Thread -> TxnLabel] /\ DOMAIN txn' = Thread /\ DOMAIN frame' = Thread
    /\ \A u \in Thread \ {t} : pc'[u] = pc[u] /\ txn'[u] = txn[u] /\ frame'[u] = frame[u]

\* What thread t can get hold of in one step of an operation.
Reach(t) ==
    Refs(t) \cup {Sentinel, Null} \cup {index[k] : k \in Key}
        \cup {node[n].next : n \in Refs(t) \cap Node}

\* A step of one thread that keeps its own part well typed keeps the types.
LEMMA TypesStep ==
  ASSUME Types, NEW t \in Thread, MemoryOK', CommitOK', Alone(t), UNCHANGED jobs,
         jobs[t] # <<>>, pc'[t] # "idle",
         TxnTyped(txn'[t]), FrameFits(pc'[t], frame'[t])
  PROVE  Types'
  BY DEF Types, ThreadOK, Alone

\* Nothing is written to shared memory.
LEMMA KeepMemory == ASSUME Types, UNCHANGED sharedVars PROVE MemoryOK'
  BY DEF Types, MemoryOK, sharedVars

\* Nothing is written to the variables of the commits.
LEMMA KeepCommit == ASSUME Types, UNCHANGED commitVars PROVE CommitOK'
  BY DEF Types, CommitOK, commitVars

\* What a thread can get hold of exists, and no other thread hides it.
LEMMA InReach ==
  ASSUME Types, References, NEW t \in Thread
  PROVE  /\ Reach(t) \subseteq alloc \cup {Null}
         /\ \A u \in Thread \ {t} : Reach(t) \cap Hidden(u) = {}
  <1>1. Reach(t) \subseteq alloc \cup {Null}
     BY NodeAssumption DEF Reach, References, Types, MemoryOK, Link
  <1>2. ASSUME NEW u \in Thread \ {t}, NEW n \in Refs(t) \cap Node PROVE node[n].next \notin Hidden(u)
    <2>1. n \notin Hidden(u) BY <1>2 DEF References
    <2> QED BY <1>2, <2>1 DEF References, Hidden
  <1>3. ASSUME NEW u \in Thread \ {t} PROVE Null \notin Hidden(u) /\ Sentinel \notin Hidden(u)
    <2>1. alloc \subseteq Node BY DEF Types, MemoryOK
    <2> QED BY <2>1, NodeAssumption DEF References, Hidden
  <1> QED BY <1>1, <1>2, <1>3 DEF Reach, References

\* A step of thread t that leaves the nodes and the index as they are, and in which
\* t refers to nothing that it cannot reach.
LEMMA ReferencesStep ==
  ASSUME IInv, NEW t \in Thread, UNCHANGED <<node, alloc, index>>, Alone(t),
         \A u \in Thread \ {t} : held'[u] = held[u],
         txn'[t].fresh = txn[t].fresh, Hidden(t)' \subseteq Hidden(t),
         Refs(t)' \subseteq Reach(t)
  PROVE  References'
  <1> USE DEF IInv
  <1>1. \A u \in Thread : txn'[u].fresh = txn[u].fresh BY DEF Alone
  <1>2. \A u \in Thread \ {t} : Hidden(u)' = Hidden(u) /\ Refs(u)' = Refs(u)
    BY DEF Alone, Hidden, Refs
  <1>3. Reach(t) \subseteq alloc \cup {Null} /\ \A u \in Thread \ {t} : Reach(t) \cap Hidden(u) = {}
    BY InReach
  <1>4. \A u \in Thread \ {t} : Refs(u)' \cap Hidden(t)' = {} /\ Refs(t)' \cap Hidden(u)' = {}
    BY <1>2, <1>3 DEF References
  <1>5. \A u \in Thread : \A v \in Thread \ {u} : Refs(v)' \cap Hidden(u)' = {}
    BY <1>2, <1>4 DEF References
  <1>6. \A u \in Thread : /\ \A n \in Node \ txn[u].fresh : node[n].next \notin Hidden(u)'
                          /\ \A k \in Key : index[k] \notin Hidden(u)'
    BY <1>2 DEF References
  <1>7. \A u \in Thread : Refs(u)' \subseteq alloc \cup {Null}
    BY <1>2, <1>3 DEF References
  <1> QED BY <1>1, <1>5, <1>6, <1>7 DEF References

\* A step of thread t that changes nothing others can see.
LEMMA QuietStep ==
  ASSUME IInv, NEW t \in Thread, UNCHANGED <<sharedVars, held, jobs>>, CommitOK', Alone(t),
         jobs[t] # <<>>, pc'[t] # "idle", FrameFits(pc'[t], frame'[t]), TxnTyped(txn'[t]),
         \A u \in Thread \ {t} : todo'[u] = todo[u] /\ cur'[u] = cur[u],
         txn'[t].fresh = txn[t].fresh, Hidden(t)' \subseteq Hidden(t),
         Refs(t)' \subseteq Reach(t), HoldsOK(t)', WritesAhead(t)'
  PROVE  IInv'
  <1>1. Types' BY KeepMemory, TypesStep DEF IInv
  <1>2. References' BY ReferencesStep DEF sharedVars
  <1>3. Ownership' BY DEF IInv, Ownership, HoldsOK, Alone, sharedVars
  <1>4. Versions' BY DEF IInv, Versions, WritesAhead, Alone, sharedVars
  <1> QED BY <1>1, <1>2, <1>3, <1>4 DEF IInv

\* A step of an operation: nothing others can see changes, and the thread keeps
\* what it has created to itself.
LEMMA OperationStep ==
  ASSUME IInv, NEW t \in Thread, UNCHANGED <<sharedVars, commitVars, jobs>>, Alone(t),
         pc[t] \in Operating \cup {"next"}, pc'[t] \in Operating \cup {"next", "abort", "fault"},
         FrameFits(pc'[t], frame'[t]), TxnTyped(txn'[t]), txn'[t].fresh = txn[t].fresh,
         Refs(t)' \subseteq Reach(t)
  PROVE  IInv'
  <1>1. CommitOK' BY KeepCommit DEF IInv
  <1>2. jobs[t] # <<>> BY DEF IInv, Types, ThreadOK, Operating, Placed
  <1>3. Hidden(t)' = Hidden(t) BY DEF Hidden, Operating, Placed, Committing
  <1>4. HoldsOK(t)' /\ WritesAhead(t)'
    BY DEF IInv, Ownership, HoldsOK, WritesAhead, commitVars, Operating, Placed, Holding,
           Validating, Committing
  <1> QED BY <1>1, <1>2, <1>3, <1>4, QuietStep DEF commitVars, Operating, Placed

\* The entry before a key, or the sentinel.
LEMMA PreviousEntry ==
  ASSUME Types, NEW k \in Key \cup {DefaultKey}
  PROVE  GetPrevious(k) \in Node \cap ({Sentinel} \cup {index[j] : j \in Key})
  <1> DEFINE below == {j \in Key : index[j] # Null /\ j < k}
  <1>1. CASE below = {} BY <1>1, NodeAssumption DEF GetPrevious
  <1>2. CASE below # {}
    <2>1. PICK j \in below : \A i \in below : i <= j BY <1>2, KeyOrderAssumption
    <2>2. (CHOOSE i \in below : \A h \in below : h <= i) \in below BY <2>1
    <2> QED BY <1>2, <2>2 DEF GetPrevious, Types, MemoryOK, Link
  <1> QED BY <1>1, <1>2

\* The locals of a thread in an operation.
LEMMA Operator ==
  ASSUME IInv, NEW t \in Thread, pc[t] \in Operating \cup {"next"}
  PROVE  /\ TxnTyped(txn[t]) /\ FrameFits(pc[t], frame[t])
         /\ frame[t] \in Frame(frame[t].results)
         /\ {frame[t].pred, frame[t].succ, frame[t].at, frame[t].link} \subseteq Reach(t)
         /\ Refs(t) \subseteq Reach(t)
         /\ jobs[t] # <<>>
  BY DEF IInv, Types, ThreadOK, FrameFits, Refs, Reach, Operating, Placed

\* The results stay a sequence as another one is appended.
LEMMA AppendIsSeq ==
  ASSUME NEW s, IsSeq(s), NEW e
  PROVE  IsSeq(Append(s, e))
  <1> DEFINE S == {s[i] : i \in 1 .. Len(s)} \cup {e}
  <1>1. s \in Seq(S) BY DEF IsSeq
  <1>2. Append(s, e) \in Seq(S) BY <1>1
  <1>3. ASSUME NEW r \in Seq(S) PROVE IsSeq(r) BY <1>3 DEF IsSeq
  <1> QED BY <1>2, <1>3

\* The head and the tail of a sequence that is not empty.
LEMMA NonEmpty ==
  ASSUME NEW S, NEW s \in Seq(S), s # <<>>
  PROVE  s[1] \in S /\ Tail(s) \in Seq(S) /\ Head(s) = s[1]
  <1>1. Len(s) # 0 BY EmptySeq
  <1> QED BY <1>1

\* The routine calls an operation.
LEMMA ExecuteStep ==
  ASSUME IInv, NEW t \in Thread, Execute(t)
  PROVE  IInv'
  <1> DEFINE op == Job(t).body[Len(Results(t)) + 1]
  <1>1. pc[t] = "next" /\ CallOperation(t, op) /\ Len(Results(t)) < Len(Job(t).body) BY DEF Execute
  <1>2. FrameFits("next", frame[t]) /\ TxnTyped(txn[t]) /\ Refs(t) \subseteq Reach(t)
    BY <1>1, Operator
  <1>3. op \in Operation
    <2>1. jobs[t] \in TxnJobs /\ jobs[t] # <<>> BY <1>1, Operator DEF IInv, Types
    <2>2. Job(t) \in [call : {"Dispatch", "TryDispatch"}, body : Seq(Operation)]
      BY <2>1, NonEmpty DEF Job, TxnJobs
    <2>3. Len(Results(t)) \in Nat BY <1>2 DEF Results, FrameFits, IsSeq
    <2> QED BY <1>1, <2>2, <2>3
  <1>4. frame'[t] = [frame[t] EXCEPT !.op = op, !.cand = op.key]
    BY <1>1 DEF CallOperation, IInv, Types
  <1>5. pc'[t] \in {"fault", "findPrevious"} /\ Alone(t)
    BY <1>1 DEF CallOperation, Goto, operatorVars, Alone, IInv, Types, TxnLabel, Operating
  <1>6. FrameFits(pc'[t], frame'[t])
    BY <1>2, <1>3, <1>4, <1>5
    DEF FrameFits, Frame, Called, Candidate, Operation, Operating, Placed, AtNode, AtFound
  <1>7. UNCHANGED <<sharedVars, txn, commitVars, jobs>>
    BY <1>1 DEF CallOperation, operatorVars, Execute
  <1>8. Refs(t)' = Refs(t) BY <1>2, <1>4, <1>7 DEF Refs, commitVars, FrameFits, Frame
  <1> QED BY <1>1, <1>2, <1>5, <1>6, <1>7, <1>8, OperationStep DEF Operating

\* GetValidatedPredecessor asks the index.
LEMMA FindPreviousStep ==
  ASSUME IInv, NEW t \in Thread, FindPrevious(t), UNCHANGED <<jobs, historyVars>>
  PROVE  IInv'
  <1>1. pc[t] = "findPrevious" /\ UNCHANGED <<sharedVars, txn, commitVars>>
    BY DEF FindPrevious, operatorVars
  <1>2. FrameFits(pc[t], frame[t]) /\ TxnTyped(txn[t]) /\ Refs(t) \subseteq Reach(t)
    BY <1>1, Operator DEF Operating
  <1> DEFINE n == GetPrevious(frame[t].cand)
  <1>3. n \in Node /\ n \in Reach(t)
    BY <1>2, PreviousEntry DEF IInv, Reach, FrameFits, Frame, Candidate
  <1>4. frame'[t] = [frame[t] EXCEPT !.pred = n] /\ pc'[t] = "predecessorVersion" /\ Alone(t)
    BY DEF FindPrevious, operatorVars, Goto, Alone, IInv, Types, TxnLabel, Operating, Placed
  <1>5. FrameFits(pc'[t], frame'[t])
    BY <1>1, <1>2, <1>3, <1>4 DEF FrameFits, Frame, Link, Operating, Placed, AtNode, AtFound
  <1>6. Refs(t)' \subseteq Reach(t)
    BY <1>1, <1>2, <1>3, <1>4 DEF Refs, commitVars, FrameFits, Frame
  <1> QED BY <1>1, <1>2, <1>4, <1>5, <1>6, OperationStep DEF Operating, Placed

\* A node enters the read set of a storage.
LEMMA TxnRead ==
  ASSUME NEW x, TxnTyped(x), NEW nodes \in SUBSET Node
  PROVE  /\ TxnTyped([x EXCEPT !.readSet = nodes])
         /\ [x EXCEPT !.readSet = nodes].fresh = x.fresh
         /\ [x EXCEPT !.readSet = nodes].writeSet = x.writeSet
         /\ [x EXCEPT !.readSet = nodes].indexAdd = x.indexAdd
         /\ [x EXCEPT !.readSet = nodes].writeVersion = x.writeVersion
  <1> DEFINE y == [x EXCEPT !.readSet = nodes]
  <1> DEFINE d == DOMAIN x.writeSet
  <1>1. x \in Txn(d) /\ d \subseteq Node BY DEF TxnTyped
  <1>2. y.writeSet = x.writeSet BY <1>1 DEF Txn
  <1>3. y \in Txn(d) BY <1>1 DEF Txn
  <1>4. y.fresh = x.fresh /\ y.indexAdd = x.indexAdd /\ y.writeVersion = x.writeVersion
    BY <1>1 DEF Txn
  <1> HIDE DEF d, y
  <1>5. TxnTyped(y) BY <1>1, <1>2, <1>3 DEF TxnTyped, d
  <1> QED BY <1>2, <1>4, <1>5 DEF y

\* Checks of a node on the way.
LEMMA CheckStep ==
  ASSUME IInv, NEW t \in Thread, UNCHANGED <<jobs, historyVars>>,
         \/ PredecessorVersion(t)
         \/ SuccessorVersion(t)
         \/ SuccessorLocked(t) /\ ~InWriteSet(t, frame[t].at)
  PROVE  IInv'
  <1>1. /\ pc[t] \in {"predecessorVersion", "successorVersion", "successorLocked"}
        /\ UNCHANGED <<sharedVars, txn, commitVars, frame>>
    BY DEF PredecessorVersion, SuccessorVersion, SuccessorLocked, operatorVars
  <1>2. FrameFits(pc[t], frame[t]) /\ TxnTyped(txn[t]) /\ Refs(t) \subseteq Reach(t)
    BY <1>1, Operator DEF Operating, Placed
  <1>3. /\ \/ pc[t] = "predecessorVersion" /\ pc'[t] \in {"predecessorDeleted", "abort"}
           \/ pc[t] # "predecessorVersion" /\ pc'[t] \in {"successorVersion", "successorNext", "abort"}
        /\ Alone(t)
    BY <1>1 DEF PredecessorVersion, SuccessorVersion, SuccessorLocked, Goto, Alone, IInv, Types,
           TxnLabel, Operating, Placed, Holding
  <1>4. FrameFits(pc'[t], frame'[t])
    BY <1>1, <1>2, <1>3 DEF FrameFits, Operating, Placed, AtNode, AtFound
  <1>5. Refs(t)' = Refs(t) BY <1>1 DEF Refs, commitVars
  <1> QED BY <1>1, <1>2, <1>3, <1>4, <1>5, OperationStep DEF Operating, Placed

\* GetValidatedPredecessor takes its node, or looks for an earlier one.
LEMMA PredecessorDeletedStep ==
  ASSUME IInv, NEW t \in Thread, PredecessorDeleted(t), UNCHANGED <<jobs, historyVars>>
  PROVE  IInv'
  <1> DEFINE p == frame[t].pred
  <1>1. pc[t] = "predecessorDeleted" /\ UNCHANGED <<sharedVars, txn, commitVars>>
    BY DEF PredecessorDeleted, operatorVars
  <1>2. FrameFits(pc[t], frame[t]) /\ TxnTyped(txn[t]) /\ Refs(t) \subseteq Reach(t)
    BY <1>1, Operator DEF Operating, Placed
  <1>3. node[p].key \in Key \cup {DefaultKey}
    BY <1>1, <1>2 DEF IInv, Types, MemoryOK, FrameFits, Placed
  <1>4. /\ \/ pc'[t] = "successorLocked" /\ frame'[t] = [frame[t] EXCEPT !.at = p]
           \/ /\ pc'[t] \in {"fault", "findPrevious"}
              /\ frame'[t] = [frame[t] EXCEPT !.cand = node[p].key]
        /\ Alone(t)
    BY DEF PredecessorDeleted, operatorVars, Goto, Alone, IInv, Types, TxnLabel, Operating, Placed
  <1>5. FrameFits(pc'[t], frame'[t])
    BY <1>1, <1>2, <1>3, <1>4
    DEF FrameFits, Frame, Candidate, Link, Operating, Placed, AtNode, AtFound
  <1>6. Refs(t)' \subseteq Reach(t)
    BY <1>1, <1>2, <1>4 DEF Refs, commitVars, FrameFits, Frame
  <1> QED BY <1>1, <1>2, <1>4, <1>5, <1>6, OperationStep DEF Operating, Placed

\* GetValidatedSuccessor returns n.
LEMMA SuccessorStep ==
  ASSUME IInv, NEW t \in Thread, pc[t] \in AtNode, UNCHANGED <<sharedVars, commitVars, jobs>>,
         NEW n \in Link, n \in Reach(t), GotSuccessor(t, n)
  PROVE  IInv'
  <1>1. FrameFits(pc[t], frame[t]) /\ TxnTyped(txn[t]) /\ Refs(t) \subseteq Reach(t)
    BY Operator DEF Operating, Placed, AtNode
  <1>2. /\ frame[t].op \in Operation /\ frame[t].pred \in Node
        /\ frame[t] \in Frame(frame[t].results)
    BY <1>1 DEF FrameFits, Operating, Placed, AtNode
  <1>3. CASE frame[t].removing
    <2>1. frame'[t] = [frame[t] EXCEPT !.link = n] /\ pc'[t] = "removePredecessor"
          /\ Alone(t) /\ UNCHANGED txn
      BY <1>3 DEF GotSuccessor, Goto, Alone, IInv, Types, TxnLabel, Operating, Placed
    <2>2. FrameFits(pc'[t], frame'[t])
      BY <1>1, <1>2, <1>3, <2>1 DEF FrameFits, Frame, Operating, Placed, AtNode, AtFound
    <2>3. Refs(t)' \subseteq Reach(t) BY <1>1, <1>2, <2>1 DEF Refs, commitVars, Frame
    <2> QED BY <1>1, <2>1, <2>2, <2>3, OperationStep DEF Operating, Placed, AtNode
  <1>4. CASE ~frame[t].removing /\ n # Null /\ node[n].key < frame[t].op.key
    <2>1. frame'[t] = [frame[t] EXCEPT !.pred = n, !.at = n] /\ pc'[t] = "successorLocked"
          /\ Alone(t) /\ UNCHANGED txn
      BY <1>4 DEF GotSuccessor, Traversed, Goto, Alone, IInv, Types, TxnLabel, Operating, Placed
    <2>2. FrameFits(pc'[t], frame'[t])
      BY <1>1, <1>2, <1>4, <2>1 DEF FrameFits, Frame, Link, Operating, Placed, AtNode, AtFound
    <2>3. Refs(t)' \subseteq Reach(t) BY <1>1, <1>2, <2>1 DEF Refs, commitVars, Frame
    <2> QED BY <1>1, <2>1, <2>2, <2>3, OperationStep DEF Operating, Placed, AtNode
  <1>5. CASE ~frame[t].removing /\ ~(n # Null /\ node[n].key < frame[t].op.key)
    <2>1. /\ frame'[t] = [frame[t] EXCEPT !.succ = n] /\ pc'[t] = "apply"
          /\ txn'[t] = [txn[t] EXCEPT !.readSet = @ \cup {frame[t].pred}]
          /\ Alone(t)
      BY <1>5 DEF GotSuccessor, Traversed, Goto, Alone, IInv, Types, TxnLabel, Operating, Placed
    <2>2. FrameFits(pc'[t], frame'[t])
      BY <1>1, <1>2, <1>5, <2>1 DEF FrameFits, Frame, Operating, Placed, AtNode, AtFound
    <2>3. txn[t].readSet \cup {frame[t].pred} \in SUBSET Node
      BY <1>1, <1>2 DEF TxnTyped, Txn
    <2>4. /\ TxnTyped(txn'[t]) /\ txn'[t].fresh = txn[t].fresh
          /\ txn'[t].writeSet = txn[t].writeSet /\ txn'[t].indexAdd = txn[t].indexAdd
      BY <1>1, <2>1, <2>3, TxnRead
    <2>5. Refs(t)' \subseteq Reach(t) BY <1>1, <1>2, <2>1, <2>4 DEF Refs, commitVars, Frame
    <2> QED BY <1>1, <2>1, <2>2, <2>4, <2>5, OperationStep DEF Operating, Placed, AtNode
  <1> QED BY <1>3, <1>4, <1>5

\* GetValidatedSuccessor finds the node in the write set.
LEMMA SuccessorLockedStep ==
  ASSUME IInv, NEW t \in Thread, SuccessorLocked(t), InWriteSet(t, frame[t].at),
         UNCHANGED <<jobs, historyVars>>
  PROVE  IInv'
  <1> DEFINE n == txn[t].writeSet[frame[t].at].next
  <1>1. pc[t] \in AtNode /\ GotSuccessor(t, n) /\ UNCHANGED <<sharedVars, commitVars>>
    BY DEF SuccessorLocked, AtNode
  <1>2. TxnTyped(txn[t]) /\ Refs(t) \subseteq Reach(t)
    BY <1>1, Operator DEF Operating, Placed, AtNode
  <1>3. n \in Link BY <1>2 DEF TxnTyped, Txn, WriteSetElement, Link, InWriteSet
  <1>4. n \in Refs(t) BY DEF Refs, InWriteSet
  <1> QED BY <1>1, <1>2, <1>3, <1>4, SuccessorStep

\* GetValidatedSuccessor returns the link of the node.
LEMMA SuccessorNextStep ==
  ASSUME IInv, NEW t \in Thread, SuccessorNext(t), UNCHANGED <<jobs, historyVars>>
  PROVE  IInv'
  <1> DEFINE n == node[frame[t].at].next
  <1>1. pc[t] \in AtNode /\ GotSuccessor(t, n) /\ UNCHANGED <<sharedVars, commitVars>>
    BY DEF SuccessorNext, AtNode
  <1>2. FrameFits(pc[t], frame[t]) BY <1>1, Operator DEF Operating, Placed, AtNode
  <1>3. frame[t].at \in Refs(t) \cap Node BY <1>1, <1>2 DEF Refs, FrameFits
  <1>4. n \in Link BY <1>3 DEF IInv, Types, MemoryOK
  <1>5. n \in Reach(t) BY <1>3 DEF Reach
  <1> QED BY <1>1, <1>4, <1>5, SuccessorStep

\* The locals before an operation, and with the results after one.
LEMMA EmptyFits == EmptyFrame \in Frame(<<>>)
  <1>1. DefaultKey \in Candidate /\ Null \in Link /\ Null \in Called
    BY DEF Candidate, Link, Called
  <1> QED BY <1>1 DEF Frame, EmptyFrame

\* The locals with other results.
LEMMA ResultsFit ==
  ASSUME NEW s, NEW f \in Frame(s), NEW r
  PROVE  [f EXCEPT !.results = r] \in Frame(r)
  BY DEF Frame


\* An operation has returned: nothing of its locals is left but the results.
LEMMA Returned ==
  ASSUME IInv, NEW t \in Thread, pc[t] \in Operating, NEW r, Return(t, r)
  PROVE  /\ pc'[t] = "next" /\ FrameFits(pc'[t], frame'[t])
         /\ {frame'[t].pred, frame'[t].succ, frame'[t].at, frame'[t].link} = {Null}
         /\ pc' \in [Thread -> TxnLabel] /\ DOMAIN frame' = Thread
         /\ \A u \in Thread \ {t} : pc'[u] = pc[u] /\ frame'[u] = frame[u]
  <1> DEFINE results == Append(frame[t].results, r)
  <1>1. IsSeq(frame[t].results)
    BY DEF IInv, Types, ThreadOK, FrameFits
  <1>2. IsSeq(results) BY <1>1, AppendIsSeq
  <1>3. frame'[t] = [EmptyFrame EXCEPT !.results = results]
    BY DEF Return, IInv, Types
  <1> HIDE DEF results
  <1>4. FrameFits("next", frame'[t])
    <2>1. frame'[t] \in Frame(results) BY <1>3, EmptyFits, ResultsFit
    <2>2. frame'[t].results = results /\ ~frame'[t].removing BY <1>3 DEF EmptyFrame
    <2> QED BY <1>2, <2>1, <2>2 DEF FrameFits, Operating, Placed, AtNode, AtFound
  <1>5. pc'[t] = "next" BY DEF Return, Goto, IInv, Types
  <1>6. {frame'[t].pred, frame'[t].succ, frame'[t].at, frame'[t].link} = {Null}
    BY <1>3 DEF EmptyFrame
  <1> QED BY <1>4, <1>5, <1>6 DEF Return, Goto, IInv, Types, TxnLabel

\* Operations that only return a result.
LEMMA AnswerStep ==
  ASSUME IInv, NEW t \in Thread, UNCHANGED <<jobs, historyVars>>,
         Contains(t) \/ Get(t) \/ RemoveNothing(t)
  PROVE  IInv'
  <1>1. PICK r : Return(t, r) BY DEF Contains, Get, RemoveNothing
  <1>2. pc[t] = "apply" /\ UNCHANGED <<sharedVars, txn, commitVars>>
    BY DEF Contains, Get, RemoveNothing, operatorVars
  <1>3. TxnTyped(txn[t]) /\ Refs(t) \subseteq Reach(t) BY <1>2, Operator DEF Operating, Placed
  <1>4. /\ pc'[t] = "next" /\ FrameFits(pc'[t], frame'[t]) /\ Alone(t)
        /\ {frame'[t].pred, frame'[t].succ, frame'[t].at, frame'[t].link} = {Null}
    BY <1>1, <1>2, Returned DEF Operating, Placed, Alone, IInv, Types
  <1>5. Refs(t)' \subseteq Reach(t) BY <1>2, <1>3, <1>4 DEF Refs, commitVars, Reach
  <1> QED BY <1>2, <1>3, <1>4, <1>5, OperationStep DEF Operating, Placed

\* Remove goes on to the successor of the node it removes.
LEMMA RemoveFoundStep ==
  ASSUME IInv, NEW t \in Thread, RemoveFound(t), UNCHANGED <<jobs, historyVars>>
  PROVE  IInv'
  <1>1. pc[t] = "apply" /\ UNCHANGED <<sharedVars, txn, commitVars>>
    BY DEF RemoveFound, operatorVars
  <1>2. FrameFits(pc[t], frame[t]) /\ TxnTyped(txn[t]) /\ Refs(t) \subseteq Reach(t)
    BY <1>1, Operator DEF Operating, Placed
  <1>3. /\ frame'[t] = [frame[t] EXCEPT !.at = frame[t].succ, !.removing = TRUE]
        /\ pc'[t] = "successorLocked" /\ Alone(t)
    BY DEF RemoveFound, operatorVars, Goto, Alone, IInv, Types, TxnLabel, Operating, Placed
  <1>4. frame[t].succ \in Node BY <1>2 DEF RemoveFound, Found, FrameFits, Frame, Link
  <1>5. FrameFits(pc'[t], frame'[t])
    BY <1>1, <1>2, <1>3, <1>4 DEF FrameFits, Frame, Link, Operating, Placed, AtNode, AtFound
  <1>6. Refs(t)' \subseteq Reach(t)
    BY <1>1, <1>2, <1>3 DEF Refs, commitVars, FrameFits, Frame
  <1> QED BY <1>1, <1>2, <1>3, <1>5, <1>6, OperationStep DEF Operating, Placed

\* Insert of a present key reads the link of its node.
LEMMA InsertExistingStep ==
  ASSUME IInv, NEW t \in Thread, InsertExisting(t), UNCHANGED <<jobs, historyVars>>
  PROVE  IInv'
  <1> DEFINE n == GetUpdatedNext(t, frame[t].succ)
  <1>1. pc[t] = "apply" /\ UNCHANGED <<sharedVars, txn, commitVars>>
    BY DEF InsertExisting, operatorVars
  <1>2. FrameFits(pc[t], frame[t]) /\ TxnTyped(txn[t]) /\ Refs(t) \subseteq Reach(t)
    BY <1>1, Operator DEF Operating, Placed
  <1>3. frame'[t] = [frame[t] EXCEPT !.link = n] /\ pc'[t] = "insertDeleted" /\ Alone(t)
    BY DEF InsertExisting, operatorVars, Goto, Alone, IInv, Types, TxnLabel, Operating, Placed
  <1>4. frame[t].succ \in Node BY <1>2 DEF InsertExisting, Found, FrameFits, Frame, Link
  <1>5. n \in Link /\ n \in Reach(t)
    <2>1. frame[t].succ \in Refs(t) \cap Node BY <1>4 DEF Refs
    <2>2. CASE InWriteSet(t, frame[t].succ)
      BY <1>2, <2>2 DEF GetUpdatedNext, InWriteSet, TxnTyped, Txn, WriteSetElement, Link, Refs
    <2>3. CASE ~InWriteSet(t, frame[t].succ)
      BY <2>1, <2>3 DEF GetUpdatedNext, Reach, IInv, Types, MemoryOK
    <2> QED BY <2>2, <2>3
  <1>6. FrameFits(pc'[t], frame'[t])
    BY <1>1, <1>2, <1>3, <1>4, <1>5 DEF FrameFits, Frame, Operating, Placed, AtNode, AtFound
  <1>7. Refs(t)' \subseteq Reach(t)
    BY <1>1, <1>2, <1>3, <1>5 DEF Refs, commitVars, FrameFits, Frame
  <1> QED BY <1>1, <1>2, <1>3, <1>6, <1>7, OperationStep DEF Operating, Placed

\* What the write set or the memory has of a node.
LEMMA Updated ==
  ASSUME Types, NEW t \in Thread, TxnTyped(txn[t]), NEW n \in Node
  PROVE  /\ GetUpdatedValue(t, n) \in Value
         /\ GetUpdatedIsDeleted(t, n) \in BOOLEAN
  <1>1. CASE InWriteSet(t, n)
    BY <1>1 DEF GetUpdatedValue, GetUpdatedIsDeleted, InWriteSet, TxnTyped, Txn, WriteSetElement
  <1>2. CASE ~InWriteSet(t, n)
    BY <1>2 DEF GetUpdatedValue, GetUpdatedIsDeleted, Types, MemoryOK, Word
  <1> QED BY <1>1, <1>2

\* A node that enters a write set.
LEMMA PutStep ==
  ASSUME NEW t \in Thread, TxnTyped(txn[t]), NEW n \in Node, NEW e \in WriteSetElement,
         NEW w, w = [m \in DOMAIN txn[t].writeSet \cup {n} |->
                        IF m = n THEN e ELSE txn[t].writeSet[m]]
  PROVE  /\ w \in [DOMAIN txn[t].writeSet \cup {n} -> WriteSetElement]
         /\ \A m \in DOMAIN txn[t].writeSet \cup {n} : w[m].next \in {e.next, txn[t].writeSet[m].next}
         /\ \A m \in (DOMAIN txn[t].writeSet \cup {n}) \ DOMAIN txn[t].writeSet : w[m].next = e.next
  <1> DEFINE d == DOMAIN txn[t].writeSet
  <1>1. txn[t].writeSet \in [d -> WriteSetElement] BY DEF TxnTyped, Txn
  <1> QED BY <1>1

\* A storage with another write set.
LEMMA TxnPut ==
  ASSUME NEW x, TxnTyped(x), NEW d \in SUBSET Node, NEW w \in [d -> WriteSetElement],
         NEW y, y = [x EXCEPT !.writeSet = w]
  PROVE  TxnTyped(y) /\ y.writeSet = w /\ y.fresh = x.fresh /\ y.indexAdd = x.indexAdd
  <1> DEFINE e == DOMAIN x.writeSet
  <1>1. x \in Txn(e) BY DEF TxnTyped
  <1>2. y \in Txn(d) /\ y.writeSet = w BY <1>1 DEF Txn
  <1>3. y.fresh = x.fresh /\ y.indexAdd = x.indexAdd BY <1>1 DEF Txn
  <1>4. DOMAIN w = d OBVIOUS
  <1> QED BY <1>2, <1>3, <1>4 DEF TxnTyped

\* Remove puts the predecessor in the write set.
LEMMA RemovePredecessorStep ==
  ASSUME IInv, NEW t \in Thread, RemovePredecessor(t), UNCHANGED <<jobs, historyVars>>
  PROVE  IInv'
  <1> DEFINE p == frame[t].pred
             w == Put(t, p, frame[t].link, FALSE, GetUpdatedValue(t, p))
             e == [next |-> frame[t].link, deleted |-> FALSE, value |-> GetUpdatedValue(t, p)]
             d == DOMAIN txn[t].writeSet \cup {p}
  <1>1. pc[t] = "removePredecessor" /\ UNCHANGED <<sharedVars, commitVars, frame>>
    BY DEF RemovePredecessor
  <1>2. FrameFits(pc[t], frame[t]) /\ TxnTyped(txn[t]) /\ Refs(t) \subseteq Reach(t)
    BY <1>1, Operator DEF Operating, Placed
  <1>3. txn'[t] = [txn[t] EXCEPT !.writeSet = w] /\ pc'[t] = "removeSuccessor" /\ Alone(t)
    BY DEF RemovePredecessor, Goto, Alone, IInv, Types, TxnLabel, Operating, Placed
  <1>4. FrameFits(pc'[t], frame'[t])
    BY <1>1, <1>2, <1>3 DEF FrameFits, Operating, Placed, AtNode, AtFound
  <1>5. p \in Node /\ frame[t].link \in Link /\ GetUpdatedValue(t, p) \in Value
    BY <1>1, <1>2, Updated DEF IInv, FrameFits, Frame, Placed
  <1>6. /\ w \in [d -> WriteSetElement] /\ d \in SUBSET Node
        /\ \A m \in d : w[m].next \in {frame[t].link, txn[t].writeSet[m].next}
        /\ \A m \in d \ DOMAIN txn[t].writeSet : w[m].next = frame[t].link
    <2>1. d \in SUBSET Node BY <1>2, <1>5 DEF TxnTyped
    <2>2. e \in WriteSetElement /\ e.next = frame[t].link BY <1>5 DEF WriteSetElement, Link
    <2>3. w = [m \in DOMAIN txn[t].writeSet \cup {p} |->
                IF m = p THEN e ELSE txn[t].writeSet[m]]
      BY DEF Put
    <2>4. TxnTyped(txn[t]) BY <1>2
    <2> HIDE DEF e, w, p
    <2> QED BY <1>5, <2>1, <2>2, <2>3, <2>4, PutStep
  <1> HIDE DEF w, d, e
  <1>7. /\ TxnTyped(txn'[t]) /\ txn'[t].fresh = txn[t].fresh
        /\ txn'[t].writeSet = w /\ txn'[t].indexAdd = txn[t].indexAdd
    BY <1>2, <1>3, <1>6, TxnPut
  <1>8. DOMAIN w = DOMAIN txn[t].writeSet \cup {p} BY <1>6 DEF d
  <1>9. Refs(t)' \subseteq Refs(t)
    BY <1>1, <1>6, <1>7, <1>8 DEF Refs, commitVars, d
  <1> QED BY <1>1, <1>2, <1>3, <1>4, <1>7, <1>9, OperationStep DEF Operating, Placed

\* Insert of a present key puts its node in the write set.
LEMMA InsertExistingDeletedStep ==
  ASSUME IInv, NEW t \in Thread, InsertExistingDeleted(t), UNCHANGED <<jobs, historyVars>>
  PROVE  IInv'
  <1> DEFINE s == frame[t].succ
             w == Put(t, s, frame[t].link, GetUpdatedIsDeleted(t, s), frame[t].op.value)
             e == [next |-> frame[t].link, deleted |-> GetUpdatedIsDeleted(t, s),
                   value |-> frame[t].op.value]
             d == DOMAIN txn[t].writeSet \cup {s}
             read == txn[t].readSet \cup {s}
  <1>1. pc[t] = "insertDeleted" /\ UNCHANGED <<sharedVars, commitVars>>
    BY DEF InsertExistingDeleted
  <1>2. FrameFits(pc[t], frame[t]) /\ TxnTyped(txn[t]) /\ Refs(t) \subseteq Reach(t)
    BY <1>1, Operator DEF Operating, Placed
  <1>3. txn'[t] = [txn[t] EXCEPT !.writeSet = w, !.readSet = read] /\ DOMAIN txn' = Thread
        /\ \A u \in Thread \ {t} : txn'[u] = txn[u]
    BY DEF InsertExistingDeleted, IInv, Types
  <1>4. /\ pc'[t] = "next" /\ FrameFits(pc'[t], frame'[t]) /\ Alone(t)
        /\ {frame'[t].pred, frame'[t].succ, frame'[t].at, frame'[t].link} = {Null}
    BY <1>1, <1>3, Returned DEF InsertExistingDeleted, Operating, Placed, Alone
  <1>5. /\ s \in Node /\ frame[t].link \in Link /\ frame[t].op.value \in Value
        /\ GetUpdatedIsDeleted(t, s) \in BOOLEAN
    BY <1>1, <1>2, Updated DEF IInv, FrameFits, Frame, Operation, Operating, Placed, AtFound
  <1>6. /\ w \in [d -> WriteSetElement] /\ d \in SUBSET Node /\ read \in SUBSET Node
        /\ \A m \in d : w[m].next \in {frame[t].link, txn[t].writeSet[m].next}
        /\ \A m \in d \ DOMAIN txn[t].writeSet : w[m].next = frame[t].link
    <2>1. d \in SUBSET Node /\ read \in SUBSET Node BY <1>2, <1>5 DEF TxnTyped, Txn
    <2>2. e \in WriteSetElement /\ e.next = frame[t].link BY <1>5 DEF WriteSetElement, Link
    <2>3. w = [m \in DOMAIN txn[t].writeSet \cup {s} |->
                IF m = s THEN e ELSE txn[t].writeSet[m]]
      BY DEF Put
    <2>4. TxnTyped(txn[t]) BY <1>2
    <2> HIDE DEF e, w, s
    <2> QED BY <1>5, <2>1, <2>2, <2>3, <2>4, PutStep
  <1> HIDE DEF w, d, e, read
  <1>7. /\ TxnTyped(txn'[t]) /\ txn'[t].fresh = txn[t].fresh
        /\ txn'[t].writeSet = w /\ txn'[t].indexAdd = txn[t].indexAdd
    <2>1. TxnTyped(txn[t]) BY <1>2
    <2>2. w \in [d -> WriteSetElement] /\ d \in SUBSET Node /\ read \in SUBSET Node BY <1>6
    <2> DEFINE y == [txn[t] EXCEPT !.writeSet = w]
    <2>3. txn'[t] = [y EXCEPT !.readSet = read] BY <1>3
    <2>4. TxnTyped(y) /\ y.writeSet = w /\ y.fresh = txn[t].fresh /\ y.indexAdd = txn[t].indexAdd
      BY <2>1, <2>2, TxnPut
    <2> HIDE DEF y
    <2> QED BY <2>2, <2>3, <2>4, TxnRead
  <1>8. DOMAIN w = DOMAIN txn[t].writeSet \cup {s} BY <1>6 DEF d
  <1>9. Refs(t)' \subseteq Refs(t) \cup {Null}
    BY <1>1, <1>4, <1>6, <1>7, <1>8 DEF Refs, commitVars, d
  <1> QED BY <1>1, <1>2, <1>4, <1>7, <1>9, OperationStep DEF Operating, Placed, Reach

\* An operation that creates a node ends.
LEMMA ConstructStep ==
  ASSUME IInv, NEW t \in Thread, NEW n \in Node \ alloc,
         NEW c \in [key : Key \cup {DefaultKey}, value : Value, next : Link], c.next \in Reach(t),
         alloc' = alloc \cup {n}, node' = [node EXCEPT ![n] = c],
         lock' = [lock EXCEPT ![n] = NewWord], UNCHANGED <<gvc, index, commitVars, jobs>>,
         pc[t] \in Operating, pc'[t] = "next", Alone(t),
         FrameFits(pc'[t], frame'[t]), TxnTyped(txn'[t]), txn'[t].fresh = txn[t].fresh \cup {n},
         Refs(t)' \subseteq Reach(t) \cup {n}
  PROVE  IInv'
  <1> USE DEF IInv
  <1>1. MemoryOK' BY DEF Types, MemoryOK, NewWord, Word
  <1>2. CommitOK' BY KeepCommit
  <1>3. Types' BY <1>1, <1>2, TypesStep DEF Types, ThreadOK, Operating, Placed
  <1>4. \A m \in Node : m # n => node'[m] = node[m] /\ lock'[m] = lock[m]
    BY DEF Types, MemoryOK
  <1>5. node'[n] = c /\ lock'[n] = NewWord BY DEF Types, MemoryOK
  <1>6. \A u \in Thread \ {t} :
          txn'[u].fresh = txn[u].fresh /\ Hidden(u)' = Hidden(u) /\ Refs(u)' = Refs(u)
    BY DEF Alone, Hidden, Refs, commitVars
  <1>7. Hidden(t)' = Hidden(t) \cup {n} /\ Hidden(t) = txn[t].fresh
    BY DEF Hidden, Operating, Placed, Committing
  <1>8. \A u \in Thread : txn[u].fresh \subseteq alloc /\ Hidden(u) \subseteq txn[u].fresh
                          /\ Refs(u) \subseteq alloc \cup {Null}
    BY DEF References, Hidden
  <1>9. n # Null /\ n # Sentinel BY NodeAssumption DEF References
  <1>10. Reach(t) \subseteq alloc \cup {Null} /\ \A u \in Thread \ {t} : Reach(t) \cap Hidden(u) = {}
    BY InReach
  <1>11. References'
    <2>1. /\ Sentinel \in alloc'
          /\ \A m \in Node : node'[m].next \in alloc' \cup {Null}
          /\ \A k \in Key : index'[k] \in alloc' \cup {Null}
      BY <1>4, <1>5, <1>10 DEF References
    <2>2. /\ txn'[t].fresh \subseteq alloc' \ {Sentinel}
          /\ Refs(t)' \subseteq alloc' \cup {Null}
          /\ \A m \in Node \ txn'[t].fresh : node'[m].next \notin Hidden(t)'
          /\ \A k \in Key : index'[k] \notin Hidden(t)'
      BY <1>4, <1>7, <1>8, <1>9, <1>10 DEF References
    <2>3. \A u \in Thread \ {t} :
            Refs(u)' \cap Hidden(t)' = {} /\ txn'[u].fresh \cap txn'[t].fresh = {}
      BY <1>6, <1>7, <1>8, <1>9 DEF References
    <2>4. ASSUME NEW u \in Thread \ {t}
          PROVE  /\ txn'[u].fresh \subseteq alloc' \ {Sentinel}
                 /\ Refs(u)' \subseteq alloc' \cup {Null}
                 /\ \A m \in Node \ txn'[u].fresh : node'[m].next \notin Hidden(u)'
                 /\ \A k \in Key : index'[k] \notin Hidden(u)'
      BY <1>4, <1>5, <1>6, <1>10 DEF References
    <2>5. ASSUME NEW u \in Thread \ {t}, NEW v \in Thread \ {u}
          PROVE  Refs(v)' \cap Hidden(u)' = {} /\ txn'[v].fresh \cap txn'[u].fresh = {}
      <3>1. CASE v = t BY <1>6, <1>8, <1>10, <3>1 DEF References
      <3>2. CASE v # t BY <1>6, <3>2 DEF References
      <3> QED BY <3>1, <3>2
    <2> QED BY <2>1, <2>2, <2>3, <2>4, <2>5 DEF References
  <1>12. \A u \in Thread : n \notin held[u] /\ held'[u] = held[u]
    BY <1>8, <1>9 DEF Refs, commitVars
  <1>13. Ownership'
    <2>1. \A m \in Node : lock'[m].locked <=> \E u \in Thread : m \in held'[u]
      <3>1. ~lock'[n].locked BY <1>5 DEF NewWord
      <3> QED BY <1>4, <1>12, <3>1 DEF Ownership
    <2>2. \A u, v \in Thread : u # v => held'[u] \cap held'[v] = {}
      BY <1>12 DEF Ownership
    <2> QED BY <2>1, <2>2, <1>12
            DEF Ownership, HoldsOK, Alone, commitVars, Operating, Placed, Holding, Validating, Committing
  <1>14. Versions'
    <2>1. \A m \in Node : lock'[m].version <= gvc'
      BY <1>4, <1>5 DEF Versions, NewWord, Types, MemoryOK
    <2>2. ASSUME NEW u \in Thread, pc'[u] \in Committing
          PROVE  /\ txn'[u].writeVersion <= gvc'
                 /\ \A m \in held'[u] : lock'[m].version <= txn'[u].writeVersion
      <3>1. u # t BY <2>2 DEF Committing
      <3>2. held[u] \subseteq Node BY DEF Types, CommitOK
      <3> QED BY <1>4, <1>12, <2>2, <3>1, <3>2 DEF Versions, WritesAhead, Alone
    <2> QED BY <2>1, <2>2 DEF Versions, WritesAhead
  <1> QED BY <1>3, <1>11, <1>13, <1>14

\* A storage with other removals from the index.
LEMMA TxnIndexRemove ==
  ASSUME NEW x, TxnTyped(x), NEW nodes \in SUBSET Node,
         NEW y, y = [x EXCEPT !.indexRemove = nodes]
  PROVE  /\ TxnTyped(y) /\ y.writeSet = x.writeSet /\ y.fresh = x.fresh
         /\ y.indexAdd = x.indexAdd /\ y.writeVersion = x.writeVersion
  <1> DEFINE d == DOMAIN x.writeSet
  <1>1. x \in Txn(d) BY DEF TxnTyped
  <1>2. y \in Txn(d) /\ y.writeSet = x.writeSet BY <1>1 DEF Txn
  <1>3. y.fresh = x.fresh /\ y.indexAdd = x.indexAdd /\ y.writeVersion = x.writeVersion
    BY <1>1 DEF Txn
  <1> QED BY <1>2, <1>3 DEF TxnTyped

\* A storage with other nodes of its own.
LEMMA TxnFresh ==
  ASSUME NEW x, TxnTyped(x), NEW nodes \in SUBSET Node,
         NEW y, y = [x EXCEPT !.fresh = nodes]
  PROVE  /\ TxnTyped(y) /\ y.writeSet = x.writeSet /\ y.fresh = nodes
         /\ y.indexAdd = x.indexAdd
  <1> DEFINE d == DOMAIN x.writeSet
  <1>1. x \in Txn(d) BY DEF TxnTyped
  <1>2. y \in Txn(d) /\ y.writeSet = x.writeSet BY <1>1 DEF Txn
  <1>3. y.fresh = nodes /\ y.indexAdd = x.indexAdd
    BY <1>1 DEF Txn
  <1> QED BY <1>2, <1>3 DEF TxnTyped

\* A storage with other additions to the index.
LEMMA TxnIndexAdd ==
  ASSUME NEW x, TxnTyped(x), NEW nodes \in Seq(Node),
         NEW y, y = [x EXCEPT !.indexAdd = nodes]
  PROVE  /\ TxnTyped(y) /\ y.writeSet = x.writeSet /\ y.fresh = x.fresh
         /\ y.indexAdd = nodes /\ y.writeVersion = x.writeVersion
  <1> DEFINE d == DOMAIN x.writeSet
  <1>1. x \in Txn(d) BY DEF TxnTyped
  <1>2. y \in Txn(d) /\ y.writeSet = x.writeSet BY <1>1 DEF Txn
  <1>3. y.fresh = x.fresh /\ y.indexAdd = nodes /\ y.writeVersion = x.writeVersion
    BY <1>1 DEF Txn
  <1> QED BY <1>2, <1>3 DEF TxnTyped

\* New memory is memory nobody uses.
LEMMA FreshNodeIsFree ==
  ASSUME Types, alloc # Node
  PROVE  FreshNode \in Node \ alloc
  BY DEF FreshNode, Types, MemoryOK

\* Remove puts the removed node, linked to a new one, in the write set.
LEMMA RemoveSuccessorStep ==
  ASSUME IInv, NEW t \in Thread, RemoveSuccessor(t), UNCHANGED <<jobs, historyVars>>
  PROVE  IInv'
  <1> DEFINE s == frame[t].succ
             n == FreshNode
             value == GetUpdatedValue(t, s)
             w == Put(t, s, n, TRUE, value)
             e == [next |-> n, deleted |-> TRUE, value |-> value]
             d == DOMAIN txn[t].writeSet \cup {s}
             read == txn[t].readSet \cup {s}
             remove == txn[t].indexRemove \cup {s}
             fresh == txn[t].fresh \cup {n}
  <1>1. pc[t] = "removeSuccessor" /\ Construct(n, NewNode) /\ Return(t, value) /\ UNCHANGED commitVars
    BY DEF RemoveSuccessor
  <1>2. FrameFits(pc[t], frame[t]) /\ TxnTyped(txn[t]) /\ Refs(t) \subseteq Reach(t)
    BY <1>1, Operator DEF Operating, Placed
  <1>3. n \in Node \ alloc BY <1>1, FreshNodeIsFree DEF Construct, IInv
  <1>4. s \in Node /\ value \in Value
    BY <1>1, <1>2, Updated DEF IInv, FrameFits, AtFound
  <1>5. /\ txn'[t] = [txn[t] EXCEPT !.writeSet = w, !.readSet = read, !.indexRemove = remove,
                                    !.fresh = fresh]
        /\ DOMAIN txn' = Thread
        /\ \A u \in Thread \ {t} : txn'[u] = txn[u]
    BY DEF RemoveSuccessor, IInv, Types
  <1>6. /\ pc'[t] = "next" /\ FrameFits(pc'[t], frame'[t]) /\ Alone(t)
        /\ {frame'[t].pred, frame'[t].succ, frame'[t].at, frame'[t].link} = {Null}
    BY <1>1, <1>5, Returned DEF Operating, Placed, Alone
  <1>7. /\ w \in [d -> WriteSetElement] /\ d \in SUBSET Node
        /\ \A m \in d : w[m].next \in {n, txn[t].writeSet[m].next}
        /\ \A m \in d \ DOMAIN txn[t].writeSet : w[m].next = n
    <2>1. d \in SUBSET Node BY <1>2, <1>4 DEF TxnTyped
    <2>2. e \in WriteSetElement /\ e.next = n BY <1>3, <1>4 DEF WriteSetElement
    <2>3. w = [m \in DOMAIN txn[t].writeSet \cup {s} |->
                IF m = s THEN e ELSE txn[t].writeSet[m]]
      BY DEF Put
    <2>4. TxnTyped(txn[t]) BY <1>2
    <2> HIDE DEF e, w, s, n
    <2> QED BY <1>4, <2>1, <2>2, <2>3, <2>4, PutStep
  <1>8. read \in SUBSET Node /\ remove \in SUBSET Node /\ fresh \in SUBSET Node
    BY <1>2, <1>3, <1>4 DEF TxnTyped, Txn
  <1> HIDE DEF w, d, e, read, remove, fresh, n
  <1>9. /\ TxnTyped(txn'[t]) /\ txn'[t].fresh = fresh
        /\ txn'[t].writeSet = w /\ txn'[t].indexAdd = txn[t].indexAdd
    <2> DEFINE x == [txn[t] EXCEPT !.writeSet = w]
               y == [x EXCEPT !.readSet = read]
               z == [y EXCEPT !.indexRemove = remove]
    <2>1. txn'[t] = [z EXCEPT !.fresh = fresh] BY <1>5
    <2>2. TxnTyped(x) /\ x.writeSet = w /\ x.fresh = txn[t].fresh /\ x.indexAdd = txn[t].indexAdd
      BY <1>2, <1>7, TxnPut
    <2> HIDE DEF x
    <2>3. TxnTyped(y) /\ y.writeSet = w /\ y.indexAdd = txn[t].indexAdd
      BY <1>8, <2>2, TxnRead
    <2> HIDE DEF y
    <2>4. TxnTyped(z) /\ z.writeSet = w /\ z.indexAdd = txn[t].indexAdd
      BY <1>8, <2>3, TxnIndexRemove
    <2> HIDE DEF z
    <2> QED BY <1>8, <2>1, <2>4, TxnFresh
  <1>10. DOMAIN w = DOMAIN txn[t].writeSet \cup {s} BY <1>7 DEF d
  <1>11. Refs(t)' \subseteq Reach(t) \cup {n}
    <2>1. s \in Refs(t) BY DEF Refs
    <2>2. held'[t] = held[t] BY <1>1 DEF commitVars
    <2>3. Null \in Reach(t) BY DEF Reach
    <2> HIDE DEF s
    <2> QED BY <1>2, <1>6, <1>7, <1>9, <1>10, <2>1, <2>2, <2>3 DEF Refs, d
  <1>12. NewNode \in [key : Key \cup {DefaultKey}, value : Value, next : Link]
         /\ NewNode.next \in Reach(t)
    BY ValueAssumption DEF NewNode, Link, Reach
  <1>13. /\ alloc' = alloc \cup {n} /\ node' = [node EXCEPT ![n] = NewNode]
         /\ lock' = [lock EXCEPT ![n] = NewWord] /\ UNCHANGED <<gvc, index>>
    BY <1>1 DEF Construct
  <1>14. UNCHANGED <<gvc, index, commitVars, jobs>> BY <1>1, <1>13
  <1>15. txn'[t].fresh = txn[t].fresh \cup {n} BY <1>9 DEF fresh
  <1>16. pc[t] \in Operating BY <1>1 DEF Operating, Placed
  <1> QED BY <1>3, <1>6, <1>9, <1>11, <1>12, <1>13, <1>14, <1>15, <1>16, ConstructStep

\* Insert creates a node and puts its predecessor in the write set.
LEMMA InsertNewStep ==
  ASSUME IInv, NEW t \in Thread, InsertNew(t), UNCHANGED <<jobs, historyVars>>
  PROVE  IInv'
  <1> DEFINE p == frame[t].pred
             n == FreshNode
             value == GetUpdatedValue(t, p)
             c == [key |-> frame[t].op.key, value |-> frame[t].op.value, next |-> frame[t].succ]
             w == Put(t, p, n, FALSE, value)
             e == [next |-> n, deleted |-> FALSE, value |-> value]
             d == DOMAIN txn[t].writeSet \cup {p}
             add == Append(txn[t].indexAdd, n)
             fresh == txn[t].fresh \cup {n}
  <1>1. pc[t] = "apply" /\ Construct(n, c) /\ Return(t, Null) /\ UNCHANGED commitVars
    BY DEF InsertNew
  <1>2. FrameFits(pc[t], frame[t]) /\ TxnTyped(txn[t]) /\ Refs(t) \subseteq Reach(t)
    BY <1>1, Operator DEF Operating, Placed
  <1>3. n \in Node \ alloc BY <1>1, FreshNodeIsFree DEF Construct, IInv
  <1>4. p \in Node /\ value \in Value
    BY <1>1, <1>2, Updated DEF IInv, FrameFits, Placed
  <1>5. /\ txn'[t] = [txn[t] EXCEPT !.writeSet = w, !.indexAdd = add, !.fresh = fresh]
        /\ DOMAIN txn' = Thread
        /\ \A u \in Thread \ {t} : txn'[u] = txn[u]
    BY DEF InsertNew, IInv, Types
  <1>6. /\ pc'[t] = "next" /\ FrameFits(pc'[t], frame'[t]) /\ Alone(t)
        /\ {frame'[t].pred, frame'[t].succ, frame'[t].at, frame'[t].link} = {Null}
    BY <1>1, <1>5, Returned DEF Operating, Placed, Alone
  <1>7. /\ w \in [d -> WriteSetElement] /\ d \in SUBSET Node
        /\ \A m \in d : w[m].next \in {n, txn[t].writeSet[m].next}
        /\ \A m \in d \ DOMAIN txn[t].writeSet : w[m].next = n
    <2>1. d \in SUBSET Node BY <1>2, <1>4 DEF TxnTyped
    <2>2. e \in WriteSetElement /\ e.next = n BY <1>3, <1>4 DEF WriteSetElement
    <2>3. w = [m \in DOMAIN txn[t].writeSet \cup {p} |->
                IF m = p THEN e ELSE txn[t].writeSet[m]]
      BY DEF Put
    <2>4. TxnTyped(txn[t]) BY <1>2
    <2> HIDE DEF e, w, p, n
    <2> QED BY <1>4, <2>1, <2>2, <2>3, <2>4, PutStep
  <1>8. fresh \in SUBSET Node /\ txn[t].indexAdd \in Seq(Node)
    BY <1>2, <1>3, <1>4 DEF TxnTyped, Txn
  <1>9. add \in Seq(Node)
        /\ {add[i] : i \in DOMAIN add} \subseteq {txn[t].indexAdd[i] : i \in DOMAIN txn[t].indexAdd} \cup {n}
    <2> HIDE DEF n
    <2> QED BY <1>3, <1>8
  <1>10. /\ c \in [key : Key \cup {DefaultKey}, value : Value, next : Link]
         /\ c.next \in Reach(t)
    <2>1. frame[t].op \in Operation /\ frame[t].succ \in Link
      BY <1>1, <1>2 DEF FrameFits, Frame, Operating, Placed
    <2>2. frame[t].succ \in Refs(t) BY DEF Refs
    <2> QED BY <1>2, <2>1, <2>2 DEF Operation
  <1>11. /\ alloc' = alloc \cup {n} /\ node' = [node EXCEPT ![n] = c]
         /\ lock' = [lock EXCEPT ![n] = NewWord] /\ UNCHANGED <<gvc, index>>
    BY <1>1 DEF Construct
  <1> HIDE DEF w, d, e, add, fresh, n, c
  <1>12. /\ TxnTyped(txn'[t]) /\ txn'[t].fresh = fresh
         /\ txn'[t].writeSet = w /\ txn'[t].indexAdd = add
    <2> DEFINE x == [txn[t] EXCEPT !.writeSet = w]
               y == [x EXCEPT !.indexAdd = add]
    <2>1. txn'[t] = [y EXCEPT !.fresh = fresh] BY <1>5
    <2>2. TxnTyped(x) /\ x.writeSet = w BY <1>2, <1>7, TxnPut
    <2> HIDE DEF x
    <2>3. TxnTyped(y) /\ y.writeSet = w /\ y.indexAdd = add BY <1>9, <2>2, TxnIndexAdd
    <2> HIDE DEF y
    <2> QED BY <1>8, <2>1, <2>3, TxnFresh
  <1>13. DOMAIN w = DOMAIN txn[t].writeSet \cup {p} BY <1>7 DEF d
  <1>14. Refs(t)' \subseteq Reach(t) \cup {n}
    <2>1. p \in Refs(t) BY DEF Refs
    <2>2. held'[t] = held[t] BY <1>1 DEF commitVars
    <2>3. Null \in Reach(t) BY DEF Reach
    <2> DEFINE olds == {txn[t].indexAdd[i] : i \in DOMAIN txn[t].indexAdd}
               news == {add[i] : i \in DOMAIN add}
               nexts == {w[m].next : m \in DOMAIN w}
    <2>4. news \subseteq Reach(t) \cup {n}
      <3>1. olds \subseteq Reach(t) BY <1>2 DEF Refs
      <3> QED BY <1>9, <3>1
    <2>5. nexts \subseteq Reach(t) \cup {n}
      <3>1. \A m \in DOMAIN txn[t].writeSet : txn[t].writeSet[m].next \in Reach(t)
        BY <1>2 DEF Refs
      <3> HIDE DEF p
      <3> QED BY <1>7, <1>13, <3>1 DEF d
    <2>6. DOMAIN w \subseteq Reach(t) /\ held[t] \subseteq Reach(t)
      BY <1>2, <1>13, <2>1 DEF Refs
    <2>7. Refs(t)' = {frame'[t].pred, frame'[t].succ, frame'[t].at, frame'[t].link}
                        \cup DOMAIN w \cup nexts \cup news \cup held'[t]
      BY <1>12 DEF Refs
    <2> HIDE DEF p, news, nexts
    <2> QED BY <1>6, <2>2, <2>3, <2>4, <2>5, <2>6, <2>7
  <1>15. UNCHANGED <<gvc, index, commitVars, jobs>> BY <1>1, <1>11
  <1>16. txn'[t].fresh = txn[t].fresh \cup {n} BY <1>12 DEF fresh
  <1>17. pc[t] \in Operating BY <1>1 DEF Operating, Placed
  <1> QED BY <1>3, <1>6, <1>10, <1>11, <1>12, <1>14, <1>15, <1>16, <1>17, ConstructStep

-----------------------------------------------------------------------------
(* The steps of the commit that others cannot see. *)

\* LocalTxnPrologue reads the clock.
LEMMA BeginStep ==
  ASSUME IInv, NEW t \in Thread, Begin(t)
  PROVE  IInv'
  <1>1. /\ pc[t] = "idle" /\ pc'[t] = "next" /\ jobs[t] # <<>>
        /\ UNCHANGED <<sharedVars, commitVars, frame, jobs>> /\ Alone(t)
        /\ txn'[t] = [txn[t] EXCEPT !.active = TRUE, !.readVersion = gvc]
    BY DEF Begin, LocalTxnPrologue, Goto, Alone, IInv, Types, TxnLabel
  <1>2. TxnTyped(txn[t]) /\ FrameFits("idle", frame[t]) /\ gvc \in Nat
    BY <1>1 DEF IInv, Types, ThreadOK, MemoryOK
  <1>3. /\ TxnTyped(txn'[t]) /\ txn'[t].writeSet = txn[t].writeSet
        /\ txn'[t].fresh = txn[t].fresh /\ txn'[t].indexAdd = txn[t].indexAdd
    <2> DEFINE d == DOMAIN txn[t].writeSet
    <2>1. txn[t] \in Txn(d) /\ d \subseteq Node BY <1>2 DEF TxnTyped
    <2>2. txn'[t] \in Txn(d) BY <1>1, <1>2, <2>1 DEF Txn
    <2>3. /\ txn'[t].writeSet = txn[t].writeSet /\ txn'[t].fresh = txn[t].fresh
          /\ txn'[t].indexAdd = txn[t].indexAdd
      BY <1>1, <2>1 DEF Txn
    <2> QED BY <2>1, <2>2, <2>3 DEF TxnTyped
  <1>4. FrameFits(pc'[t], frame'[t])
    BY <1>1, <1>2 DEF FrameFits, Operating, Placed, AtNode, AtFound
  <1>5. Refs(t)' = Refs(t) BY <1>1, <1>3 DEF Refs, commitVars
  <1>6. Hidden(t)' = Hidden(t) BY <1>1, <1>3 DEF Hidden, Committing
  <1>7. HoldsOK(t)' /\ WritesAhead(t)'
    BY <1>1 DEF IInv, Ownership, HoldsOK, WritesAhead, commitVars, Holding, Validating, Committing
  <1>8. CommitOK' BY <1>1, KeepCommit DEF IInv
  <1> QED BY <1>1, <1>3, <1>4, <1>5, <1>6, <1>7, <1>8, QuietStep DEF commitVars, Reach

\* The commit moves on without a change to memory.
LEMMA ValidationStep ==
  ASSUME IInv, NEW t \in Thread, UNCHANGED <<sharedVars, txn, held, frame, jobs>>, CommitOK',
         pc[t] \in {"next", "lock"} \cup Validating,
         pc'[t] \in {"lock", "abort"} \cup Validating, Alone(t),
         \A u \in Thread \ {t} : todo'[u] = todo[u] /\ cur'[u] = cur[u], HoldsOK(t)'
  PROVE  IInv'
  <1>1. jobs[t] # <<>> /\ TxnTyped(txn[t]) /\ FrameFits(pc[t], frame[t])
    BY DEF IInv, Types, ThreadOK, Validating
  <1>2. FrameFits(pc'[t], frame'[t])
    BY <1>1 DEF FrameFits, Operating, Placed, AtNode, AtFound, Validating
  <1>3. Refs(t)' = Refs(t) BY DEF Refs
  <1>4. Hidden(t)' = Hidden(t) BY DEF Hidden, Committing, Validating
  <1>5. WritesAhead(t)' BY DEF WritesAhead, Committing, Validating
  <1> QED BY <1>1, <1>2, <1>3, <1>4, <1>5, QuietStep DEF Reach, Validating

\* Every thread but t is where it was, and t is at a label.
LEMMA AloneAt ==
  ASSUME IInv, NEW t \in Thread, NEW label \in TxnLabel, Goto(t, label), UNCHANGED <<txn, frame>>
  PROVE  Alone(t) /\ pc'[t] = label
  BY DEF IInv, Types, Goto, Alone

\* The commit begins with the nodes of the write set to lock.
LEMMA CommitStep ==
  ASSUME IInv, NEW t \in Thread, Commit(t)
  PROVE  IInv'
  <1>1. /\ pc[t] = "next" /\ pc'[t] = "lock" /\ Alone(t)
        /\ UNCHANGED <<sharedVars, txn, held, cur, saw, frame, jobs>>
        /\ todo' = [todo EXCEPT ![t] = DOMAIN txn[t].writeSet]
    BY AloneAt DEF Commit, LockWriteSet, Visit, TxnLabel, Holding
  <1>2. DOMAIN txn[t].writeSet \in SUBSET Node BY DEF IInv, Types, ThreadOK, TxnTyped
  <1>3. CommitOK' BY <1>1, <1>2 DEF IInv, Types, CommitOK
  <1>4. todo'[t] = DOMAIN txn[t].writeSet
    BY <1>1 DEF IInv, Types, CommitOK
  <1>5. \A u \in Thread \ {t} : todo'[u] = todo[u] /\ cur'[u] = cur[u]
    BY <1>1 DEF IInv, Types, CommitOK
  <1>6. HoldsOK(t)'
    BY <1>1, <1>4 DEF IInv, Ownership, HoldsOK, Holding, Validating, Committing
  <1> QED BY <1>1, <1>3, <1>5, <1>6, ValidationStep

\* All are locked, and the nodes of the read set are to be validated.
LEMMA ValidateReadSetStep ==
  ASSUME IInv, NEW t \in Thread, ValidateReadSet(t), UNCHANGED <<frame, jobs, historyVars>>
  PROVE  IInv'
  <1>1. /\ pc[t] = "lock" /\ todo[t] = {} /\ pc'[t] = "validate" /\ Alone(t)
        /\ UNCHANGED <<sharedVars, txn, held, cur, saw, frame, jobs>>
        /\ todo' = [todo EXCEPT ![t] = txn[t].readSet]
    BY AloneAt DEF ValidateReadSet, Visit, TxnLabel, Holding, Validating
  <1>2. txn[t].readSet \in SUBSET Node BY DEF IInv, Types, ThreadOK, TxnTyped, Txn
  <1>3. CommitOK' BY <1>1, <1>2 DEF IInv, Types, CommitOK
  <1>4. \A u \in Thread \ {t} : todo'[u] = todo[u] /\ cur'[u] = cur[u]
    BY <1>1 DEF IInv, Types, CommitOK
  <1>5. HoldsOK(t)'
    BY <1>1 DEF IInv, Ownership, HoldsOK, Holding, Validating, Committing
  <1> QED BY <1>1, <1>3, <1>4, <1>5, ValidationStep DEF Validating

\* The validation of a node begins.
LEMMA ValidateNodeStep ==
  ASSUME IInv, NEW t \in Thread, ValidateNode(t), UNCHANGED <<frame, jobs, historyVars>>
  PROVE  IInv'
  <1>1. /\ pc[t] = "validate" /\ pc'[t] \in {"abort", "validateVersion"} /\ Alone(t)
        /\ UNCHANGED <<sharedVars, txn, held, todo, saw, frame, jobs>>
    BY AloneAt DEF ValidateNode, TxnLabel, Holding, Validating
  <1>2. PICK n \in todo[t] : cur' = [cur EXCEPT ![t] = n] BY DEF ValidateNode
  <1>3. CommitOK' /\ \A u \in Thread \ {t} : todo'[u] = todo[u] /\ cur'[u] = cur[u]
    BY <1>1, <1>2 DEF IInv, Types, CommitOK
  <1>4. HoldsOK(t)'
    BY <1>1 DEF IInv, Ownership, HoldsOK, Holding, Validating, Committing
  <1> QED BY <1>1, <1>3, <1>4, ValidationStep DEF Validating

\* The validation of a node goes on; without singletons it never touches the clock.
LEMMA ValidateStep ==
  ASSUME IInv, NEW t \in Thread, UNCHANGED <<frame, jobs, historyVars>>,
         ValidateVersion(t) \/ ValidateEqual(t) \/ ValidateSingleton(t) \/ ValidateRelocked(t)
  PROVE  IInv'
  <1>1. /\ pc[t] \in Validating /\ UNCHANGED <<sharedVars, txn, held, cur, saw, frame, jobs>>
        /\ UNCHANGED todo \/ Visited(t)
    BY DEF ValidateVersion, ValidateEqual, ValidateSingleton, ValidateRelocked, Validating, commitVars
  <1>2. ~lock[cur[t]].singleton BY DEF IInv, Types, MemoryOK, CommitOK
  <1>3. \E label \in {"abort"} \cup Validating : Goto(t, label)
    BY <1>2 DEF ValidateVersion, ValidateEqual, ValidateSingleton, ValidateRelocked, Abort, Validating
  <1>4. pc'[t] \in {"abort"} \cup Validating /\ Alone(t)
    BY <1>1, <1>3, AloneAt DEF TxnLabel, Holding
  <1>5. CommitOK' /\ \A u \in Thread \ {t} : todo'[u] = todo[u] /\ cur'[u] = cur[u]
    BY <1>1 DEF IInv, Types, CommitOK, Visited, Visit
  <1>6. HoldsOK(t)'
    BY <1>1, <1>4 DEF IInv, Ownership, HoldsOK, Holding, Validating, Committing
  <1> QED BY <1>1, <1>4, <1>5, <1>6, ValidationStep

\* A write set that is written is dropped.
LEMMA TxnWritten ==
  ASSUME NEW x, TxnTyped(x), NEW y, y = [x EXCEPT !.writeSet = <<>>]
  PROVE  TxnTyped(y) /\ y.writeSet = <<>> /\ y.fresh = x.fresh /\ y.indexAdd = x.indexAdd
  <1> DEFINE e == DOMAIN x.writeSet
             w == <<>>
  <1>1. x \in Txn(e) BY DEF TxnTyped
  <1>2. w \in [{} -> WriteSetElement] /\ DOMAIN w = {} OBVIOUS
  <1> HIDE DEF w
  <1>3. y = [x EXCEPT !.writeSet = w] BY DEF w
  <1>4. y \in Txn({}) /\ y.writeSet = w BY <1>1, <1>2, <1>3 DEF Txn
  <1>5. y.fresh = x.fresh /\ y.indexAdd = x.indexAdd BY <1>1, <1>3 DEF Txn
  <1> QED BY <1>2, <1>4, <1>5 DEF TxnTyped, w

\* The write set has been written, and the Lockers are to be destroyed.
LEMMA UpdateWriteSetDoneStep ==
  ASSUME IInv, NEW t \in Thread, UpdateWriteSetDone(t), UNCHANGED <<frame, jobs, historyVars>>
  PROVE  IInv'
  <1>1. /\ pc[t] = "write" /\ pc'[t] = "finish" /\ Alone(t)
        /\ UNCHANGED <<sharedVars, commitVars, frame, jobs>>
        /\ txn'[t] = [txn[t] EXCEPT !.writeSet = <<>>]
    BY DEF UpdateWriteSetDone, Goto, Alone, IInv, Types, TxnLabel, Holding
  <1>2. TxnTyped(txn[t]) /\ FrameFits("write", frame[t]) /\ jobs[t] # <<>>
    BY <1>1 DEF IInv, Types, ThreadOK
  <1>3. /\ TxnTyped(txn'[t]) /\ txn'[t].writeSet = <<>>
        /\ txn'[t].fresh = txn[t].fresh /\ txn'[t].indexAdd = txn[t].indexAdd
    BY <1>1, <1>2, TxnWritten
  <1>4. FrameFits(pc'[t], frame'[t])
    BY <1>1, <1>2 DEF FrameFits, Operating, Placed, AtNode, AtFound
  <1>5. DOMAIN txn'[t].writeSet = {} BY <1>3
  <1>6. Refs(t)' \subseteq Refs(t) BY <1>1, <1>3, <1>5 DEF Refs, commitVars
  <1>7. Hidden(t)' = Hidden(t) BY <1>1 DEF Hidden, Committing
  <1>8. HoldsOK(t)' /\ WritesAhead(t)'
    BY <1>1 DEF IInv, Ownership, HoldsOK, WritesAhead, commitVars, Holding, Validating, Committing
  <1>9. CommitOK' BY <1>1, KeepCommit DEF IInv
  <1> QED BY <1>1, <1>2, <1>3, <1>4, <1>6, <1>7, <1>8, <1>9, QuietStep DEF commitVars, Reach

-----------------------------------------------------------------------------
(* The steps of the commit that write to the lock words and the clock. *)

\* A thread in its commit.
LEMMA Committer ==
  ASSUME IInv, NEW t \in Thread, pc[t] \in Holding
  PROVE  /\ jobs[t] # <<>> /\ TxnTyped(txn[t]) /\ FrameFits(pc[t], frame[t])
         /\ held[t] \subseteq Node /\ todo[t] \subseteq Node /\ cur[t] \in Node
         /\ \A label \in Holding : FrameFits(label, frame[t])
  <1>1. jobs[t] # <<>> /\ TxnTyped(txn[t]) /\ FrameFits(pc[t], frame[t])
    BY DEF IInv, Types, ThreadOK, Holding, Validating, Committing
  <1>2. held[t] \subseteq Node /\ todo[t] \subseteq Node /\ cur[t] \in Node
    BY DEF IInv, Types, CommitOK
  <1>3. \A label \in Holding : label \notin Operating
    BY DEF Holding, Validating, Committing, Operating, Placed
  <1>4. \A label \in Holding : FrameFits(label, frame[t])
    BY <1>1, <1>3 DEF FrameFits, Operating, Placed, AtNode, AtFound
  <1> QED BY <1>1, <1>2, <1>4

\* LockWriteSet acquires a lock that was free, or gives up.
LEMMA LockNodeStep ==
  ASSUME IInv, NEW t \in Thread, LockNode(t), UNCHANGED <<frame, jobs, historyVars>>
  PROVE  IInv'
  <1>1. pc[t] = "lock" /\ UNCHANGED <<gvc, node, alloc, index, txn, cur, saw>> BY DEF LockNode
  <1>2. /\ jobs[t] # <<>> /\ TxnTyped(txn[t]) /\ FrameFits("lock", frame[t])
        /\ held[t] \subseteq Node /\ todo[t] \subseteq Node
        /\ DOMAIN txn[t].writeSet = held[t] \cup todo[t]
    BY <1>1, Committer DEF IInv, Ownership, HoldsOK, Holding
  <1>3. PICK n \in todo[t] :
           IF lock[n].locked
           THEN /\ Abort(t)
                /\ UNCHANGED <<lock, held, todo>>
           ELSE /\ lock' = [lock EXCEPT ![n] = Acquired(@)]
                /\ held' = [held EXCEPT ![t] = @ \cup {n}]
                /\ Visit(t, todo[t] \ {n})
                /\ UNCHANGED pc
    BY DEF LockNode
  <1>4. CASE lock[n].locked
    <2>1. pc'[t] = "abort" /\ Alone(t) /\ UNCHANGED <<sharedVars, commitVars>>
      BY <1>1, <1>3, <1>4, AloneAt DEF Abort, TxnLabel, Holding, sharedVars, commitVars
    <2>2. CommitOK' BY <2>1, KeepCommit DEF IInv
    <2>3. HoldsOK(t)' BY <2>1 DEF HoldsOK, Holding, Validating, Committing
    <2> QED BY <1>1, <2>1, <2>2, <2>3, ValidationStep DEF commitVars
  <1>5. CASE ~lock[n].locked
    <2>1. /\ lock' = [lock EXCEPT ![n] = Acquired(@)] /\ UNCHANGED pc
          /\ held' = [held EXCEPT ![t] = @ \cup {n}]
          /\ todo' = [todo EXCEPT ![t] = todo[t] \ {n}]
      BY <1>3, <1>5 DEF Visit
    <2>2. n \in Node BY <1>2
    <2>3. Alone(t) BY <1>1, <2>1 DEF Alone, IInv, Types
    <2>4. MemoryOK'
      <3> DEFINE w == Acquired(lock[n])
      <3>1. lock \in [Node -> Word] /\ lock[n] \in Word /\ \A m \in Node : ~lock[m].singleton
        BY <2>2 DEF IInv, Types, MemoryOK
      <3>2. w \in Word /\ ~w.singleton BY <2>2, <3>1 DEF Acquired, Word
      <3>3. lock' = [lock EXCEPT ![n] = w] BY <2>1
      <3> HIDE DEF w
      <3>4. lock' \in [Node -> Word] /\ \A m \in Node : ~lock'[m].singleton
        BY <2>2, <3>1, <3>2, <3>3
      <3> QED BY <1>1, <3>4 DEF IInv, Types, MemoryOK
    <2>5. CommitOK' BY <1>1, <2>1, <2>2 DEF IInv, Types, CommitOK
    <2>6. Types' BY <1>1, <1>2, <2>1, <2>3, <2>4, <2>5, TypesStep DEF IInv
    <2>7. /\ \A u \in Thread \ {t} : held'[u] = held[u] /\ todo'[u] = todo[u] /\ cur'[u] = cur[u]
          /\ held'[t] = held[t] \cup {n} /\ todo'[t] = todo[t] \ {n}
      BY <1>1, <2>1 DEF IInv, Types, CommitOK
    <2>8. Refs(t)' \subseteq Refs(t) BY <1>1, <1>2, <2>7 DEF Refs
    <2>9. References'
      BY <1>1, <2>1, <2>3, <2>7, <2>8, ReferencesStep DEF Reach, Hidden
    <2>10. /\ \A m \in Node \ {n} : lock'[m] = lock[m]
           /\ lock'[n].locked /\ lock'[n].version = lock[n].version
      BY <2>1, <2>2 DEF IInv, Types, MemoryOK, Acquired, Word
    <2>11. \A u \in Thread : n \notin held[u] BY <1>5, <2>2 DEF IInv, Ownership
    <2>12. Ownership'
      <3>1. \A m \in Node : lock'[m].locked <=> \E u \in Thread : m \in held'[u]
        BY <2>7, <2>10 DEF IInv, Ownership
      <3>2. \A u, v \in Thread : u # v => held'[u] \cap held'[v] = {}
        BY <2>7, <2>11 DEF IInv, Ownership
      <3>3. HoldsOK(t)' BY <1>1, <1>2, <2>1, <2>7 DEF HoldsOK, Holding, Validating, Committing
      <3>4. \A u \in Thread \ {t} : HoldsOK(u)' BY <1>1, <2>1, <2>7 DEF IInv, Ownership, HoldsOK
      <3> QED BY <3>1, <3>2, <3>3, <3>4 DEF Ownership
    <2>13. Versions'
      <3>1. \A m \in Node : lock'[m].version = lock[m].version BY <2>10
      <3>2. WritesAhead(t)' BY <1>1, <2>1 DEF WritesAhead, Committing
      <3>3. \A u \in Thread \ {t} : WritesAhead(u)'
        BY <1>1, <2>1, <2>7, <3>1 DEF IInv, Versions, WritesAhead, Types, CommitOK
      <3> QED BY <1>1, <3>1, <3>2, <3>3 DEF IInv, Versions
    <2> QED BY <2>6, <2>9, <2>12, <2>13 DEF IInv
  <1> QED BY <1>4, <1>5

\* IncrementWriteVersion: no node has a version beyond the new one.
LEMMA PassValidationStep ==
  ASSUME IInv, NEW t \in Thread, PassValidation(t)
  PROVE  IInv'
  <1>1. /\ pc[t] = "validate" /\ gvc' = gvc + 1
        /\ UNCHANGED <<lock, node, alloc, index, held, cur, saw, frame, jobs>>
        /\ todo' = [todo EXCEPT ![t] = DOMAIN txn[t].writeSet]
        /\ txn' = [txn EXCEPT ![t].readSet = {}, ![t].writeVersion = gvc + 1]
        /\ Goto(t, "write")
    BY DEF PassValidation, IncrementWriteVersion, Visit
  <1>2. /\ jobs[t] # <<>> /\ TxnTyped(txn[t]) /\ FrameFits("write", frame[t])
        /\ held[t] \subseteq Node /\ DOMAIN txn[t].writeSet = held[t]
    BY <1>1, Committer DEF IInv, Ownership, HoldsOK, Holding, Validating, Committing
  <1>3. gvc \in Nat /\ gvc + 1 \in Nat BY DEF IInv, Types, MemoryOK
  <1>4. /\ txn'[t] = [txn[t] EXCEPT !.readSet = {}, !.writeVersion = gvc + 1]
        /\ pc'[t] = "write" /\ Alone(t)
    BY <1>1 DEF Goto, Alone, IInv, Types, TxnLabel, Holding, Committing
  <1>5. /\ TxnTyped(txn'[t]) /\ txn'[t].writeSet = txn[t].writeSet
        /\ txn'[t].fresh = txn[t].fresh /\ txn'[t].indexAdd = txn[t].indexAdd
        /\ txn'[t].writeVersion = gvc + 1
    <2> DEFINE d == DOMAIN txn[t].writeSet
               none == {}
    <2>1. txn[t] \in Txn(d) /\ d \subseteq Node BY <1>2 DEF TxnTyped
    <2>2. none \in SUBSET Node OBVIOUS
    <2>3. txn'[t] = [txn[t] EXCEPT !.readSet = none, !.writeVersion = gvc + 1] BY <1>4
    <2> HIDE DEF none
    <2>4. txn'[t] \in Txn(d) BY <1>3, <2>1, <2>2, <2>3 DEF Txn
    <2>5. /\ txn'[t].writeSet = txn[t].writeSet /\ txn'[t].fresh = txn[t].fresh
          /\ txn'[t].indexAdd = txn[t].indexAdd /\ txn'[t].writeVersion = gvc + 1
      BY <2>1, <2>3 DEF Txn
    <2> QED BY <2>1, <2>4, <2>5 DEF TxnTyped
  <1>6. MemoryOK' BY <1>1 DEF IInv, Types, MemoryOK
  <1>7. CommitOK' BY <1>1, <1>2 DEF IInv, Types, CommitOK
  <1>8. Types' BY <1>1, <1>2, <1>4, <1>5, <1>6, <1>7, TypesStep DEF IInv
  <1>9. \A u \in Thread \ {t} : todo'[u] = todo[u]
    BY <1>1 DEF IInv, Types, CommitOK
  <1>10. Refs(t)' = Refs(t)
    <2>1. UNCHANGED <<frame, held>> BY <1>1
    <2> QED BY <1>5, <2>1 DEF Refs
  <1>11. Hidden(t)' = {} BY <1>4 DEF Hidden, Committing
  <1>12. References' BY <1>1, <1>4, <1>5, <1>10, <1>11, ReferencesStep DEF Reach
  <1>13. Ownership'
    <2>1. todo'[t] = held[t] BY <1>1, <1>2 DEF IInv, Types, CommitOK
    <2>2. HoldsOK(t)'
      BY <1>1, <1>2, <1>4, <1>5, <2>1 DEF HoldsOK, Holding, Validating, Committing
    <2>3. \A u \in Thread \ {t} : HoldsOK(u)'
      BY <1>1, <1>4, <1>9 DEF IInv, Ownership, HoldsOK, Alone
    <2> QED BY <1>1, <2>2, <2>3 DEF IInv, Ownership
  <1>14. Versions'
    <2>1. \A n \in Node : lock[n].version \in Nat /\ lock[n].version <= gvc
      BY DEF IInv, Types, MemoryOK, Word, Versions
    <2>2. \A n \in Node : lock'[n].version <= gvc + 1 BY <1>1, <1>3, <2>1
    <2>3. WritesAhead(t)'
      <3>1. gvc' = gvc + 1 /\ held' = held BY <1>1
      <3>2. txn'[t].writeVersion <= gvc' BY <1>3, <1>5, <3>1
      <3>3. \A n \in held[t] : lock'[n].version <= txn'[t].writeVersion
        BY <1>2, <1>5, <2>2
      <3> QED BY <3>1, <3>2, <3>3 DEF WritesAhead
    <2>4. ASSUME NEW u \in Thread \ {t} PROVE WritesAhead(u)'
      <3>1. TxnTyped(txn[u]) BY DEF IInv, Types, ThreadOK
      <3>2. txn[u].writeVersion \in Nat BY <3>1 DEF TxnTyped, Txn
      <3> QED BY <1>1, <1>3, <1>4, <3>2 DEF WritesAhead, Alone, IInv, Versions
    <2> QED BY <1>1, <2>2, <2>3, <2>4 DEF Versions
  <1> QED BY <1>8, <1>12, <1>13, <1>14 DEF IInv

\* The possessor of a lock writes to its word.
LEMMA WordStep ==
  ASSUME IInv, NEW t \in Thread, NEW w \in Word, ~w.singleton,
         w.locked = lock[cur[t]].locked, w.version <= txn[t].writeVersion,
         lock' = [lock EXCEPT ![cur[t]] = w],
         UNCHANGED <<gvc, node, alloc, index, txn, held, cur, frame, jobs>>, CommitOK',
         pc[t] \in Committing \ {"write"}, NEW label \in Committing, Goto(t, label),
         todo'[t] \subseteq todo[t], \A u \in Thread \ {t} : todo'[u] = todo[u]
  PROVE  IInv'
  <1> DEFINE n == cur[t]
  <1>1. /\ jobs[t] # <<>> /\ TxnTyped(txn[t]) /\ FrameFits(label, frame[t])
        /\ n \in Node /\ n \in held[t] /\ DOMAIN txn[t].writeSet = held[t]
        /\ held[t] \subseteq Node
    BY Committer DEF IInv, Ownership, HoldsOK, Holding
  <1>2. pc'[t] = label /\ Alone(t) BY AloneAt DEF TxnLabel, Holding
  <1>3. MemoryOK' BY <1>1 DEF IInv, Types, MemoryOK
  <1>4. Types' BY <1>1, <1>2, <1>3, TypesStep DEF IInv, Committing
  <1>5. References'
    <2>1. Hidden(t)' = {} BY <1>2 DEF Hidden
    <2>2. Refs(t)' = Refs(t) BY DEF Refs
    <2> QED BY <1>2, <2>1, <2>2, ReferencesStep DEF Reach
  <1>6. \A m \in Node \ {n} : lock'[m] = lock[m] BY DEF IInv, Types, MemoryOK
  <1>7. lock'[n] = w BY <1>1 DEF IInv, Types, MemoryOK
  <1>8. Ownership'
    <2>1. \A m \in Node : lock'[m].locked <=> \E u \in Thread : m \in held'[u]
      BY <1>6, <1>7 DEF IInv, Ownership
    <2>2. HoldsOK(t)' BY <1>1, <1>2 DEF HoldsOK, Holding, Validating, Committing, IInv, Ownership
    <2>3. \A u \in Thread \ {t} : HoldsOK(u)' BY <1>2 DEF IInv, Ownership, HoldsOK, Alone
    <2> QED BY <2>1, <2>2, <2>3 DEF IInv, Ownership
  <1>9. Versions'
    <2>1. txn[t].writeVersion <= gvc BY DEF IInv, Versions, WritesAhead
    <2>2. txn[t].writeVersion \in Nat /\ w.version \in Nat /\ gvc \in Nat
      BY <1>1 DEF TxnTyped, Txn, Word, IInv, Types, MemoryOK
    <2>3. \A m \in Node : lock'[m].version <= gvc
      BY <1>6, <1>7, <2>1, <2>2 DEF IInv, Versions
    <2>4. WritesAhead(t)'
      BY <1>1, <1>6, <1>7, <2>1 DEF IInv, Versions, WritesAhead
    <2>5. ASSUME NEW u \in Thread \ {t} PROVE WritesAhead(u)'
      <3>1. held[u] \subseteq Node \ {n}
        BY <1>1 DEF IInv, Ownership, Types, CommitOK
      <3> QED BY <1>2, <1>6, <3>1 DEF WritesAhead, Alone, IInv, Versions
    <2> QED BY <2>3, <2>4, <2>5 DEF Versions
  <1> QED BY <1>4, <1>5, <1>8, <1>9 DEF IInv

\* UpdateWriteSet marks a removed node as deleted.
LEMMA WriteDeletedStep ==
  ASSUME IInv, NEW t \in Thread, WriteDeleted(t), UNCHANGED <<frame, jobs, historyVars>>
  PROVE  IInv'
  <1> DEFINE w == WithDeleted(lock[cur[t]], TRUE)
  <1>1. pc[t] = "writeDeleted" /\ UNCHANGED <<gvc, node, alloc, index, txn, commitVars>>
        /\ Goto(t, "writeVersion")
    BY DEF WriteDeleted
  <1>2. /\ cur[t] \in held[t] /\ lock[cur[t]] \in Word /\ ~lock[cur[t]].singleton
        /\ lock[cur[t]].version <= txn[t].writeVersion
    BY <1>1 DEF IInv, Ownership, HoldsOK, Versions, WritesAhead, Types, MemoryOK, CommitOK, Committing
  <1>3. /\ w \in Word /\ ~w.singleton /\ w.locked = lock[cur[t]].locked
        /\ w.version <= txn[t].writeVersion
    BY <1>2 DEF WithDeleted, Word
  <1>4. lock' = [lock EXCEPT ![cur[t]] = w] BY DEF WriteDeleted
  <1>5. CommitOK' BY <1>1, KeepCommit DEF IInv
  <1> HIDE DEF w
  <1> QED BY <1>1, <1>3, <1>4, <1>5, WordStep DEF commitVars, Committing

\* UpdateWriteSet stores the write version, which is no lower than the one before.
LEMMA WriteVersionStep ==
  ASSUME IInv, NEW t \in Thread, WriteVersion(t), UNCHANGED <<frame, jobs, historyVars>>
  PROVE  IInv'
  <1> DEFINE w == WithVersion(lock[cur[t]], txn[t].writeVersion)
  <1>1. pc[t] = "writeVersion" /\ UNCHANGED <<gvc, node, alloc, index, txn, commitVars>>
        /\ Goto(t, "writeSingleton")
    BY DEF WriteVersion
  <1>2. /\ cur[t] \in held[t] /\ lock[cur[t]] \in Word /\ ~lock[cur[t]].singleton
        /\ txn[t].writeVersion \in Nat
    BY <1>1, Committer DEF IInv, Ownership, HoldsOK, Types, MemoryOK, CommitOK, Committing,
                           Holding, TxnTyped, Txn
  <1>3. /\ w \in Word /\ ~w.singleton /\ w.locked = lock[cur[t]].locked
        /\ w.version <= txn[t].writeVersion
    BY <1>2 DEF WithVersion, Word
  <1>4. lock' = [lock EXCEPT ![cur[t]] = w] BY DEF WriteVersion
  <1>5. CommitOK' BY <1>1, KeepCommit DEF IInv
  <1> HIDE DEF w
  <1> QED BY <1>1, <1>3, <1>4, <1>5, WordStep DEF commitVars, Committing

\* UpdateWriteSet clears the singleton flag and goes on to the next node.
LEMMA WriteSingletonStep ==
  ASSUME IInv, NEW t \in Thread, WriteSingleton(t), UNCHANGED <<frame, jobs, historyVars>>
  PROVE  IInv'
  <1> DEFINE w == WithSingleton(lock[cur[t]], FALSE)
  <1>1. pc[t] = "writeSingleton" /\ UNCHANGED <<gvc, node, alloc, index, txn, held, cur, saw>>
        /\ Goto(t, "write") /\ todo' = [todo EXCEPT ![t] = todo[t] \ {cur[t]}]
    BY DEF WriteSingleton, Visited, Visit
  <1>2. /\ cur[t] \in held[t] /\ lock[cur[t]] \in Word
        /\ lock[cur[t]].version <= txn[t].writeVersion
    BY <1>1 DEF IInv, Ownership, HoldsOK, Versions, WritesAhead, Types, MemoryOK, CommitOK, Committing
  <1>3. /\ w \in Word /\ ~w.singleton /\ w.locked = lock[cur[t]].locked
        /\ w.version <= txn[t].writeVersion
    BY <1>2 DEF WithSingleton, Word
  <1>4. lock' = [lock EXCEPT ![cur[t]] = w] BY DEF WriteSingleton
  <1>5. CommitOK' /\ todo'[t] \subseteq todo[t] /\ \A u \in Thread \ {t} : todo'[u] = todo[u]
    BY <1>1 DEF IInv, Types, CommitOK
  <1> HIDE DEF w
  <1> QED BY <1>1, <1>3, <1>4, <1>5, WordStep DEF Committing

-----------------------------------------------------------------------------
(* The steps of the commit that write to the nodes. *)

\* The possessor of the lock writes to a node: a value, or a link that is in its
\* write set.
LEMMA NodeStep ==
  ASSUME IInv, NEW t \in Thread, NEW n \in held[t], NEW c,
         c \in [key : Key \cup {DefaultKey}, value : Value, next : Link],
         c.next \in {node[n].next} \cup Refs(t),
         node' = [node EXCEPT ![n] = c],
         UNCHANGED <<gvc, lock, alloc, index, txn, held, todo, frame, jobs>>, CommitOK',
         pc[t] \in Committing, NEW label \in Committing, Goto(t, label),
         label # "write" => cur'[t] \in held[t], \A u \in Thread \ {t} : cur'[u] = cur[u]
  PROVE  IInv'
  <1>1. /\ jobs[t] # <<>> /\ TxnTyped(txn[t]) /\ FrameFits(label, frame[t])
        /\ DOMAIN txn[t].writeSet = held[t] /\ todo[t] \subseteq held[t] /\ n \in Node
    BY Committer DEF IInv, Ownership, HoldsOK, Holding
  <1>2. pc'[t] = label /\ Alone(t) BY AloneAt DEF TxnLabel, Holding
  <1>3. MemoryOK' BY <1>1 DEF IInv, Types, MemoryOK
  <1>4. Types' BY <1>1, <1>2, <1>3, TypesStep DEF IInv, Committing
  <1>5. /\ \A m \in Node \ {n} : node'[m] = node[m]
        /\ node'[n] = c
    BY <1>1 DEF IInv, Types, MemoryOK
  <1>6. References'
    <2>1. Hidden(t)' = {} /\ \A u \in Thread \ {t} : Hidden(u)' = Hidden(u)
      BY <1>2 DEF Hidden, Alone
    <2>2. \A u \in Thread : Refs(u)' = Refs(u)
      BY <1>2 DEF Refs, Alone
    <2>3. n \in Refs(t) BY <1>1 DEF Refs
    <2>4. c.next \in Reach(t) BY <1>1, <2>3 DEF Reach
    <2>5. Reach(t) \subseteq alloc \cup {Null} /\ \A u \in Thread \ {t} : Reach(t) \cap Hidden(u) = {}
      BY InReach DEF IInv
    <2>6. \A m \in Node : node'[m].next \in alloc \cup {Null}
      BY <1>5, <2>4, <2>5 DEF IInv, References
    <2>7. \A u \in Thread : \A m \in Node \ txn[u].fresh : node'[m].next \notin Hidden(u)'
      BY <1>5, <2>1, <2>4, <2>5 DEF IInv, References
    <2>8. \A u \in Thread : /\ \A k \in Key : index[k] \notin Hidden(u)'
                            /\ \A v \in Thread \ {u} : Refs(v) \cap Hidden(u)' = {}
      BY <2>1 DEF IInv, References
    <2> QED BY <2>2, <2>6, <2>7, <2>8 DEF IInv, References
  <1>7. Ownership'
    <2>1. HoldsOK(t)' BY <1>1, <1>2 DEF HoldsOK, Holding, Validating, Committing
    <2>2. \A u \in Thread \ {t} : HoldsOK(u)' BY <1>2 DEF IInv, Ownership, HoldsOK, Alone
    <2> QED BY <2>1, <2>2 DEF IInv, Ownership
  <1>8. Versions' BY <1>2 DEF IInv, Versions, WritesAhead, Alone
  <1> QED BY <1>4, <1>6, <1>7, <1>8 DEF IInv

\* UpdateWriteSet writes a link.
LEMMA WriteNextStep ==
  ASSUME IInv, NEW t \in Thread, WriteNext(t), UNCHANGED <<frame, jobs, historyVars>>
  PROVE  IInv'
  <1>1. /\ pc[t] = "write" /\ Goto(t, "writeValue")
        /\ UNCHANGED <<gvc, lock, alloc, index, txn, held, todo, saw>>
    BY DEF WriteNext
  <1>2. PICK n \in todo[t] :
          /\ cur' = [cur EXCEPT ![t] = n]
          /\ node' = [node EXCEPT ![n].next = txn[t].writeSet[n].next]
    BY DEF WriteNext
  <1> DEFINE c == [node[n] EXCEPT !.next = txn[t].writeSet[n].next]
  <1>3. /\ TxnTyped(txn[t]) /\ n \in held[t] /\ n \in DOMAIN txn[t].writeSet /\ n \in Node
    BY <1>1, Committer DEF IInv, Ownership, HoldsOK, Holding, Committing
  <1>4. txn[t].writeSet[n].next \in Link
    BY <1>3 DEF TxnTyped, Txn, WriteSetElement, Link
  <1>5. c \in [key : Key \cup {DefaultKey}, value : Value, next : Link]
        /\ c.next = txn[t].writeSet[n].next
    BY <1>3, <1>4 DEF IInv, Types, MemoryOK
  <1>6. txn[t].writeSet[n].next \in Refs(t) BY <1>3 DEF Refs
  <1>7. node' = [node EXCEPT ![n] = c] BY <1>2
  <1>8. CommitOK' /\ cur'[t] = n /\ \A u \in Thread \ {t} : cur'[u] = cur[u]
    BY <1>1, <1>2, <1>3 DEF IInv, Types, CommitOK
  <1> HIDE DEF c
  <1> QED BY <1>1, <1>3, <1>5, <1>6, <1>7, <1>8, NodeStep DEF Committing

\* UpdateWriteSet writes a value.
LEMMA WriteValueStep ==
  ASSUME IInv, NEW t \in Thread, WriteValue(t), UNCHANGED <<frame, jobs, historyVars>>
  PROVE  IInv'
  <1> DEFINE n == cur[t]
             c == [node[n] EXCEPT !.value = txn[t].writeSet[n].value]
  <1>1. /\ pc[t] = "writeValue" /\ UNCHANGED <<gvc, lock, alloc, index, txn, commitVars>>
        /\ \E label \in {"writeDeleted", "writeVersion"} : Goto(t, label)
    BY DEF WriteValue
  <1>2. /\ TxnTyped(txn[t]) /\ n \in held[t] /\ n \in DOMAIN txn[t].writeSet /\ n \in Node
    BY <1>1, Committer DEF IInv, Ownership, HoldsOK, Holding, Committing
  <1>3. txn[t].writeSet[n].value \in Value
    BY <1>2 DEF TxnTyped, Txn, WriteSetElement
  <1>4. c \in [key : Key \cup {DefaultKey}, value : Value, next : Link]
        /\ c.next = node[n].next
    BY <1>2, <1>3 DEF IInv, Types, MemoryOK
  <1>5. node' = [node EXCEPT ![n] = c] BY DEF WriteValue
  <1>6. CommitOK' BY <1>1, KeepCommit DEF IInv
  <1> HIDE DEF c
  <1> QED BY <1>1, <1>2, <1>4, <1>5, <1>6, NodeStep DEF Committing, commitVars

-----------------------------------------------------------------------------
(* After the commit, or after an exception. *)

\* A Locker is destroyed: the word it releases is locked, as its assertion wants.
LEMMA ReleaseStep ==
  ASSUME IInv, NEW t \in Thread, Release(t), UNCHANGED <<frame, jobs, historyVars>>
  PROVE  IInv'
  <1>1. pc[t] \in {"finish", "abort"} /\ UNCHANGED <<gvc, node, alloc, index, txn, todo, cur, saw>>
    BY DEF Release
  <1>2. jobs[t] # <<>> /\ TxnTyped(txn[t]) /\ FrameFits(pc[t], frame[t]) /\ held[t] \subseteq Node
    BY <1>1, Committer DEF Holding
  <1>3. PICK n \in held[t] :
          /\ lock' = [lock EXCEPT ![n] = Released(@)]
          /\ held' = [held EXCEPT ![t] = @ \ {n}]
          /\ UNCHANGED pc
    BY <1>2 DEF Release, IInv, Ownership
  <1>4. n \in Node BY <1>2
  <1>5. Alone(t) BY <1>1, <1>3 DEF Alone, IInv, Types
  <1>6. MemoryOK'
    <2> DEFINE w == Released(lock[n])
    <2>1. lock[n] \in Word /\ ~lock[n].singleton BY <1>4 DEF IInv, Types, MemoryOK
    <2>2. w \in Word /\ ~w.singleton BY <2>1 DEF Released, Word
    <2>3. lock' = [lock EXCEPT ![n] = w] BY <1>3
    <2> HIDE DEF w
    <2> QED BY <1>1, <1>4, <2>2, <2>3 DEF IInv, Types, MemoryOK
  <1>7. CommitOK' BY <1>1, <1>3 DEF IInv, Types, CommitOK
  <1>8. Types' BY <1>1, <1>2, <1>3, <1>5, <1>6, <1>7, TypesStep DEF IInv
  <1>9. /\ \A u \in Thread \ {t} : held'[u] = held[u]
        /\ held'[t] = held[t] \ {n}
    BY <1>3 DEF IInv, Types, CommitOK
  <1>10. Refs(t)' \subseteq Refs(t) BY <1>1, <1>9 DEF Refs
  <1>11. References'
    BY <1>1, <1>3, <1>5, <1>9, <1>10, ReferencesStep DEF Reach, Hidden
  <1>12. /\ \A m \in Node \ {n} : lock'[m] = lock[m]
         /\ ~lock'[n].locked /\ lock'[n].version = lock[n].version
    BY <1>3, <1>4 DEF IInv, Types, MemoryOK, Released, Word
  <1>13. \A u \in Thread \ {t} : n \notin held[u] BY DEF IInv, Ownership
  <1>14. Ownership'
    <2>1. \A m \in Node : lock'[m].locked <=> \E u \in Thread : m \in held'[u]
      BY <1>9, <1>12, <1>13 DEF IInv, Ownership
    <2>2. \A u, v \in Thread : u # v => held'[u] \cap held'[v] = {}
      BY <1>9 DEF IInv, Ownership
    <2>3. HoldsOK(t)' BY <1>1, <1>3 DEF HoldsOK, Holding, Validating, Committing
    <2>4. \A u \in Thread \ {t} : HoldsOK(u)'
      BY <1>1, <1>3, <1>9 DEF IInv, Ownership, HoldsOK
    <2> QED BY <2>1, <2>2, <2>3, <2>4 DEF Ownership
  <1>15. Versions'
    <2>1. \A m \in Node : lock'[m].version = lock[m].version BY <1>12
    <2>2. WritesAhead(t)' BY <1>1, <1>3 DEF WritesAhead, Committing
    <2>3. \A u \in Thread \ {t} : WritesAhead(u)'
      BY <1>1, <1>3, <1>9, <2>1 DEF IInv, Versions, WritesAhead, Types, CommitOK
    <2> QED BY <1>1, <2>1, <2>2, <2>3 DEF IInv, Versions
  <1> QED BY <1>8, <1>11, <1>14, <1>15 DEF IInv

\* A committed transaction updates the index.
LEMMA IndexStep ==
  ASSUME IInv, NEW t \in Thread, pc[t] = "finish",
         UNCHANGED <<gvc, lock, node, alloc, pc, commitVars, frame, jobs>>,
         index' \in [Key -> Link],
         \A k \in Key : index'[k] \in {index[k], Null} \cup Refs(t),
         DOMAIN txn' = Thread, \A u \in Thread \ {t} : txn'[u] = txn[u],
         TxnTyped(txn'[t]), txn'[t].fresh = txn[t].fresh, Refs(t)' \subseteq Refs(t)
  PROVE  IInv'
  <1>1. jobs[t] # <<>> /\ FrameFits("finish", frame[t])
    BY Committer DEF Holding
  <1>2. Alone(t) BY DEF Alone, IInv, Types
  <1>3. MemoryOK' BY DEF IInv, Types, MemoryOK
  <1>4. CommitOK' BY KeepCommit DEF IInv
  <1>5. Types' BY <1>1, <1>2, <1>3, <1>4, TypesStep DEF IInv
  <1>6. References'
    <2>1. \A u \in Thread : txn'[u].fresh = txn[u].fresh OBVIOUS
    <2>2. Hidden(t)' = {} /\ \A u \in Thread : Hidden(u)' = Hidden(u)
      BY <2>1 DEF Hidden
    <2>3. \A u \in Thread \ {t} : Refs(u)' = Refs(u) BY DEF Refs, commitVars
    <2>4. \A k \in Key : index'[k] \in alloc \cup {Null}
      BY DEF IInv, References
    <2>5. \A u \in Thread : Null \notin Hidden(u)
      BY NodeAssumption DEF Hidden, IInv, References, Types, MemoryOK
    <2>6. \A u \in Thread : \A k \in Key : index'[k] \notin Hidden(u)'
      BY <2>2, <2>5 DEF IInv, References
    <2>7. \A u \in Thread : \A v \in Thread \ {u} : Refs(v)' \cap Hidden(u)' = {}
      BY <2>2, <2>3 DEF IInv, References
    <2>8. \A u \in Thread : Refs(u)' \subseteq alloc \cup {Null}
      BY <2>3 DEF IInv, References
    <2> QED BY <2>1, <2>2, <2>4, <2>6, <2>7, <2>8 DEF IInv, References
  <1>7. Ownership'
    <2>1. HoldsOK(t)'
      BY DEF IInv, Ownership, HoldsOK, Holding, Validating, Committing, commitVars
    <2>2. \A u \in Thread \ {t} : HoldsOK(u)'
      BY DEF IInv, Ownership, HoldsOK, commitVars
    <2> QED BY <2>1, <2>2 DEF IInv, Ownership, commitVars
  <1>8. Versions'
    <2>1. WritesAhead(t)' BY DEF WritesAhead, Committing
    <2>2. \A u \in Thread \ {t} : WritesAhead(u)'
      BY DEF IInv, Versions, WritesAhead, commitVars
    <2> QED BY <2>1, <2>2 DEF IInv, Versions
  <1> QED BY <1>5, <1>6, <1>7, <1>8 DEF IInv

\* A node that the transaction inserted enters the index.
LEMMA LazyUpdateIndexAddStep ==
  ASSUME IInv, NEW t \in Thread, LazyUpdateIndexAdd(t), UNCHANGED <<frame, jobs, historyVars>>
  PROVE  IInv'
  <1> DEFINE add == txn[t].indexAdd
             rest == Tail(add)
             n == Head(add)
  <1>1. /\ pc[t] = "finish" /\ add # <<>>
        /\ UNCHANGED <<gvc, lock, node, alloc, pc, commitVars>>
        /\ index' = IndexInsert(index, n)
        /\ txn' = [txn EXCEPT ![t].indexAdd = rest]
    BY DEF LazyUpdateIndexAdd
  <1>2. TxnTyped(txn[t]) BY <1>1, Committer DEF Holding
  <1>3. add \in Seq(Node) BY <1>2 DEF TxnTyped, Txn
  <1>4. n \in Node /\ n \in {add[i] : i \in DOMAIN add}
        /\ rest \in Seq(Node) /\ {rest[i] : i \in DOMAIN rest} \subseteq {add[i] : i \in DOMAIN add}
    <2>1. Len(add) # 0 BY <1>1, <1>3, EmptySeq
    <2> HIDE DEF add
    <2> QED BY <1>3, <2>1
  <1>5. n \in Refs(t) BY <1>4 DEF Refs
  <1>6. /\ index' \in [Key -> Link]
        /\ \A k \in Key : index'[k] \in {index[k], n}
    <2> HIDE DEF n
    <2> QED BY <1>1, <1>4 DEF IndexInsert, IInv, Types, MemoryOK, Link
  <1>7. /\ txn'[t] = [txn[t] EXCEPT !.indexAdd = rest] /\ DOMAIN txn' = Thread
        /\ \A u \in Thread \ {t} : txn'[u] = txn[u]
    BY <1>1 DEF IInv, Types
  <1> HIDE DEF rest, n
  <1>8. /\ TxnTyped(txn'[t]) /\ txn'[t].writeSet = txn[t].writeSet
        /\ txn'[t].fresh = txn[t].fresh /\ txn'[t].indexAdd = rest
    BY <1>2, <1>4, <1>7, TxnIndexAdd
  <1>9. Refs(t)' \subseteq Refs(t)
    <2>1. UNCHANGED <<frame, held>> BY <1>1 DEF commitVars
    <2> QED BY <1>4, <1>8, <2>1 DEF Refs
  <1> QED BY <1>1, <1>5, <1>6, <1>7, <1>8, <1>9, IndexStep

\* An entry that the transaction removed leaves the index.
LEMMA LazyUpdateIndexRemoveStep ==
  ASSUME IInv, NEW t \in Thread, LazyUpdateIndexRemove(t), UNCHANGED <<frame, jobs, historyVars>>
  PROVE  IInv'
  <1>1. /\ pc[t] = "finish" /\ UNCHANGED <<gvc, lock, node, alloc, pc, commitVars>>
    BY DEF LazyUpdateIndexRemove
  <1>2. PICK n \in txn[t].indexRemove :
          /\ index' = IndexErase(index, n)
          /\ txn' = [txn EXCEPT ![t].indexRemove = @ \ {n}]
    BY DEF LazyUpdateIndexRemove
  <1> DEFINE remove == txn[t].indexRemove \ {n}
  <1>3. TxnTyped(txn[t]) BY <1>1, Committer DEF Holding
  <1>4. remove \in SUBSET Node BY <1>3 DEF TxnTyped, Txn
  <1>5. /\ index' \in [Key -> Link]
        /\ \A k \in Key : index'[k] \in {index[k], Null}
    BY <1>2 DEF IndexErase, IInv, Types, MemoryOK, Link
  <1>6. /\ txn'[t] = [txn[t] EXCEPT !.indexRemove = remove] /\ DOMAIN txn' = Thread
        /\ \A u \in Thread \ {t} : txn'[u] = txn[u]
    BY <1>2 DEF IInv, Types
  <1> HIDE DEF remove
  <1>7. /\ TxnTyped(txn'[t]) /\ txn'[t].writeSet = txn[t].writeSet
        /\ txn'[t].fresh = txn[t].fresh /\ txn'[t].indexAdd = txn[t].indexAdd
    BY <1>3, <1>4, <1>6, TxnIndexRemove
  <1>8. Refs(t)' = Refs(t)
    <2>1. UNCHANGED <<frame, held>> BY <1>1 DEF commitVars
    <2> QED BY <1>7, <2>1 DEF Refs
  <1> QED BY <1>1, <1>5, <1>6, <1>7, <1>8, IndexStep

-----------------------------------------------------------------------------
(* The end of an attempt. *)

\* A storage after LocalTxnCleanup is well typed and refers to nothing.
LEMMA EmptyTxnOK ==
  /\ TxnTyped(EmptyTxn) /\ DOMAIN EmptyTxn.writeSet = {} /\ DOMAIN EmptyTxn.indexAdd = {}
  /\ EmptyTxn.fresh = {}
  <1> DEFINE none == <<>>
             nodes == {}
             no == FALSE
             zero == 0
  <1>1. none \in [{} -> WriteSetElement] /\ none \in Seq(Node) /\ DOMAIN none = {}
    OBVIOUS
  <1>2. nodes \in SUBSET Node /\ no \in BOOLEAN /\ zero \in Nat OBVIOUS
  <1>3. EmptyTxn = [active |-> no, readVersion |-> zero, writeVersion |-> zero,
                    readSet |-> nodes, writeSet |-> none, indexAdd |-> none,
                    indexRemove |-> nodes, fresh |-> nodes]
    BY DEF EmptyTxn
  <1>4. nodes = {} OBVIOUS
  <1> HIDE DEF none, nodes, no, zero
  <1>5. EmptyTxn \in Txn({}) BY <1>1, <1>2, <1>3 DEF Txn
  <1>6. EmptyTxn.writeSet = none /\ EmptyTxn.indexAdd = none /\ EmptyTxn.fresh = {}
    BY <1>3, <1>4
  <1> QED BY <1>1, <1>5, <1>6 DEF TxnTyped

\* A thread is back in the dispatcher.
LEMMA CleanupStep ==
  ASSUME IInv, NEW t \in Thread, held[t] = {}, Cleanup(t), UNCHANGED <<held, saw>>,
         frame' = [frame EXCEPT ![t] = EmptyFrame]
  PROVE  /\ Alone(t) /\ CommitOK' /\ pc'[t] = "idle"
         /\ txn'[t] = EmptyTxn /\ frame'[t] = EmptyFrame
         /\ ThreadOK(t)' /\ Refs(t)' = {Null} /\ Hidden(t)' = {}
         /\ HoldsOK(t)' /\ WritesAhead(t)'
         /\ \A u \in Thread \ {t} : todo'[u] = todo[u] /\ cur'[u] = cur[u]
  <1>1. /\ Alone(t) /\ pc'[t] = "idle"
        /\ txn'[t] = EmptyTxn /\ frame'[t] = EmptyFrame
    BY DEF Cleanup, Goto, Alone, IInv, Types, TxnLabel
  <1>2. CommitOK' /\ \A u \in Thread \ {t} : todo'[u] = todo[u] /\ cur'[u] = cur[u]
    BY NodeAssumption DEF Cleanup, IInv, Types, CommitOK
  <1>3. TxnTyped(txn'[t]) BY <1>1, EmptyTxnOK
  <1>4. FrameFits(pc'[t], frame'[t])
    <2>1. EmptyFrame.results = <<>> /\ ~EmptyFrame.removing BY DEF EmptyFrame
    <2>2. IsSeq(<<>>) BY DEF IsSeq
    <2> QED BY <1>1, <2>1, <2>2, EmptyFits DEF FrameFits, Operating, Placed, AtNode, AtFound
  <1>5. ThreadOK(t)' BY <1>1, <1>3, <1>4 DEF ThreadOK
  <1>6. Refs(t)' = {Null}
    <2>1. {frame'[t].pred, frame'[t].succ, frame'[t].at, frame'[t].link} = {Null}
      BY <1>1 DEF EmptyFrame
    <2>2. DOMAIN txn'[t].writeSet = {} /\ DOMAIN txn'[t].indexAdd = {} BY <1>1, EmptyTxnOK
    <2>3. held'[t] = {} OBVIOUS
    <2> QED BY <2>1, <2>2, <2>3 DEF Refs
  <1>7. Hidden(t)' = {} BY <1>1, EmptyTxnOK DEF Hidden
  <1>8. HoldsOK(t)' /\ WritesAhead(t)'
    BY <1>1 DEF HoldsOK, WritesAhead, Holding, Validating, Committing
  <1> QED BY <1>1, <1>2, <1>5, <1>6, <1>7, <1>8

\* The thread is done with its job, or is to try it again.
LEMMA JobsStep ==
  ASSUME IInv, NEW t \in Thread, jobs[t] # <<>>,
         jobs' = jobs \/ jobs' = [jobs EXCEPT ![t] = Tail(@)]
  PROVE  jobs' \in [Thread -> TxnJobs] /\ \A u \in Thread \ {t} : jobs'[u] = jobs[u]
  <1>1. jobs \in [Thread -> TxnJobs] BY DEF IInv, Types
  <1>2. Tail(jobs[t]) \in TxnJobs BY <1>1, NonEmpty DEF TxnJobs
  <1> QED BY <1>1, <1>2

\* The end of an attempt keeps the types.
LEMMA TypesEnd ==
  ASSUME IInv, NEW t \in Thread, MemoryOK', CommitOK', Alone(t), ThreadOK(t)',
         jobs' \in [Thread -> TxnJobs], \A u \in Thread \ {t} : jobs'[u] = jobs[u]
  PROVE  Types'
  <1>1. \A u \in Thread \ {t} : ThreadOK(u)' BY DEF IInv, Types, ThreadOK, Alone
  <1> QED BY <1>1 DEF Types, Alone

\* The transaction has committed and is cleaned up.
LEMMA SucceedStep ==
  ASSUME IInv, NEW t \in Thread, Succeed(t)
  PROVE  IInv'
  <1>1. /\ pc[t] = "finish" /\ held[t] = {} /\ Cleanup(t)
        /\ UNCHANGED <<sharedVars, held, saw>>
        /\ frame' = [frame EXCEPT ![t] = EmptyFrame]
        /\ jobs' = [jobs EXCEPT ![t] = Tail(@)]
    BY DEF Succeed, LocalTxnCleanup
  <1>2. jobs[t] # <<>> BY <1>1, Committer DEF Holding
  <1>3. /\ Alone(t) /\ CommitOK' /\ pc'[t] = "idle" /\ txn'[t] = EmptyTxn
        /\ ThreadOK(t)' /\ Refs(t)' = {Null} /\ Hidden(t)' = {} /\ HoldsOK(t)' /\ WritesAhead(t)'
        /\ \A u \in Thread \ {t} : todo'[u] = todo[u] /\ cur'[u] = cur[u]
    BY <1>1, CleanupStep
  <1>4. Types' BY <1>1, <1>2, <1>3, KeepMemory, JobsStep, TypesEnd DEF IInv
  <1>5. References'
    <2>1. \A u \in Thread \ {t} : txn'[u].fresh = txn[u].fresh BY <1>3 DEF Alone
    <2>2. txn'[t].fresh = {} BY <1>3, EmptyTxnOK
    <2>3. \A u \in Thread \ {t} : Hidden(u)' = Hidden(u) /\ Refs(u)' = Refs(u)
      BY <1>1, <1>3 DEF Hidden, Refs, Alone
    <2>4. \A u \in Thread : Null \notin Hidden(u)
      BY NodeAssumption DEF Hidden, IInv, References, Types, MemoryOK
    <2>5. \A u \in Thread : \A v \in Thread \ {u} : Refs(v)' \cap Hidden(u)' = {}
      BY <1>3, <2>3, <2>4 DEF IInv, References
    <2>6. \A u \in Thread : /\ Refs(u)' \subseteq alloc \cup {Null}
                            /\ \A n \in Node \ txn'[u].fresh : node[n].next \notin Hidden(u)'
                            /\ \A k \in Key : index[k] \notin Hidden(u)'
      BY <1>3, <2>1, <2>3 DEF IInv, References
    <2> QED BY <1>1, <2>1, <2>2, <2>5, <2>6 DEF IInv, References, sharedVars
  <1>6. Ownership'
    <2>1. \A u \in Thread \ {t} : HoldsOK(u)'
      BY <1>1, <1>3 DEF IInv, Ownership, HoldsOK, Alone
    <2> QED BY <1>1, <1>3, <2>1 DEF IInv, Ownership, sharedVars
  <1>7. Versions'
    <2>1. \A u \in Thread \ {t} : WritesAhead(u)'
      BY <1>1, <1>3 DEF IInv, Versions, WritesAhead, Alone, sharedVars
    <2> QED BY <1>1, <1>3, <2>1 DEF IInv, Versions, sharedVars
  <1> QED BY <1>4, <1>5, <1>6, <1>7 DEF IInv

\* The transaction is rolled back: nobody refers to the nodes that are destroyed.
LEMMA FailStep ==
  ASSUME IInv, NEW t \in Thread, Fail(t)
  PROVE  IInv'
  <1> DEFINE fresh == txn[t].fresh
  <1>1. /\ pc[t] \in {"abort", "fault"} /\ held[t] = {} /\ Cleanup(t)
        /\ UNCHANGED <<gvc, index, held, saw>>
        /\ frame' = [frame EXCEPT ![t] = EmptyFrame]
        /\ jobs' = jobs \/ jobs' = [jobs EXCEPT ![t] = Tail(@)]
        /\ alloc' = alloc \ fresh
        /\ node' = [n \in Node |-> IF n \in fresh THEN NewNode ELSE node[n]]
        /\ lock' = [n \in Node |-> IF n \in fresh THEN NewWord ELSE lock[n]]
    BY DEF Fail, Rollback
  <1>2. jobs[t] # <<>> /\ Hidden(t) = fresh
    BY <1>1 DEF IInv, Types, ThreadOK, Hidden, Committing
  <1>3. /\ Alone(t) /\ CommitOK' /\ pc'[t] = "idle" /\ txn'[t] = EmptyTxn
        /\ ThreadOK(t)' /\ Refs(t)' = {Null} /\ Hidden(t)' = {} /\ HoldsOK(t)' /\ WritesAhead(t)'
        /\ \A u \in Thread \ {t} : todo'[u] = todo[u] /\ cur'[u] = cur[u]
    BY <1>1, CleanupStep
  <1>4. NewNode \in [key : Key \cup {DefaultKey}, value : Value, next : Link]
        /\ NewWord \in Word /\ ~NewWord.singleton /\ ~NewWord.locked /\ NewWord.version = 0
        /\ NewNode.next = Null
    BY ValueAssumption DEF NewNode, Link, NewWord, Word
  <1>5. MemoryOK' BY <1>1, <1>4 DEF IInv, Types, MemoryOK
  <1>6. Types' BY <1>1, <1>2, <1>3, <1>5, JobsStep, TypesEnd
  <1>7. \A n \in Node : /\ n \in fresh => node'[n] = NewNode /\ lock'[n] = NewWord
                        /\ n \notin fresh => node'[n] = node[n] /\ lock'[n] = lock[n]
    BY <1>1
  <1>8. \A u \in Thread \ {t} : Refs(u) \cap fresh = {} /\ txn[u].fresh \cap fresh = {}
    BY <1>2 DEF IInv, References
  <1>9. \A u \in Thread : Null \notin Hidden(u) /\ Null \notin fresh
    BY <1>2, NodeAssumption DEF Hidden, IInv, References, Types, MemoryOK
  <1>10. References'
    <2>1. \A u \in Thread \ {t} : txn'[u].fresh = txn[u].fresh BY <1>3 DEF Alone
    <2>2. txn'[t].fresh = {} BY <1>3, EmptyTxnOK
    <2>3. \A u \in Thread \ {t} : Hidden(u)' = Hidden(u) /\ Refs(u)' = Refs(u)
      BY <1>1, <1>3 DEF Hidden, Refs, Alone
    <2>4. \A u \in Thread : \A v \in Thread \ {u} : Refs(v)' \cap Hidden(u)' = {}
      BY <1>3, <1>9, <2>3 DEF IInv, References
    <2>5. Sentinel \in alloc' BY <1>1 DEF IInv, References
    <2>6. \A n \in Node : node'[n].next \in alloc' \cup {Null}
      BY <1>1, <1>2, <1>4, <1>7 DEF IInv, References
    <2>7. \A k \in Key : index'[k] \in alloc' \cup {Null}
      BY <1>1, <1>2 DEF IInv, References
    <2>8. \A u \in Thread : txn'[u].fresh \subseteq alloc' \ {Sentinel}
      BY <1>1, <1>8, <2>1, <2>2 DEF IInv, References
    <2>9. \A u \in Thread : Refs(u)' \subseteq alloc' \cup {Null}
      BY <1>1, <1>3, <1>8, <2>3 DEF IInv, References
    <2>10. \A u \in Thread : \A n \in Node \ txn'[u].fresh : node'[n].next \notin Hidden(u)'
      BY <1>3, <1>4, <1>7, <1>9, <2>1, <2>3 DEF IInv, References
    <2>11. \A u \in Thread : \A k \in Key : index'[k] \notin Hidden(u)'
      BY <1>1, <1>3, <2>3 DEF IInv, References
    <2>12. \A u \in Thread : \A v \in Thread \ {u} : txn'[v].fresh \cap txn'[u].fresh = {}
      BY <2>1, <2>2 DEF IInv, References
    <2> QED BY <2>4, <2>5, <2>6, <2>7, <2>8, <2>9, <2>10, <2>11, <2>12 DEF References
  <1>11. \A u \in Thread : held[u] \cap fresh = {}
    BY <1>1, <1>8 DEF Refs
  <1>12. Ownership'
    <2>1. \A n \in Node : lock'[n].locked <=> \E u \in Thread : n \in held'[u]
      BY <1>1, <1>4, <1>7, <1>11 DEF IInv, Ownership
    <2>2. \A u \in Thread \ {t} : HoldsOK(u)'
      BY <1>1, <1>3 DEF IInv, Ownership, HoldsOK, Alone
    <2> QED BY <1>1, <1>3, <2>1, <2>2 DEF IInv, Ownership
  <1>13. Versions'
    <2>1. \A n \in Node : lock'[n].version <= gvc
      BY <1>4, <1>7 DEF IInv, Versions, Types, MemoryOK
    <2>2. ASSUME NEW u \in Thread \ {t} PROVE WritesAhead(u)'
      <3>1. \A n \in held[u] : lock'[n] = lock[n]
        BY <1>7, <1>11 DEF IInv, Types, CommitOK
      <3> QED BY <1>1, <1>3, <3>1 DEF IInv, Versions, WritesAhead, Alone
    <2> QED BY <1>1, <1>3, <2>1, <2>2 DEF Versions
  <1> QED BY <1>6, <1>10, <1>12, <1>13 DEF IInv

-----------------------------------------------------------------------------
(* Initial states. *)

\* The nodes of the initial list are one for each key.
LEMMA PlaceOK ==
  ASSUME NEW keys, HasMemory(keys)
  PROVE  /\ Place(keys) \in [keys -> Node \ {Sentinel}]
         /\ \A j, k \in keys : Place(keys)[j] = Place(keys)[k] => j = k
  BY DEF HasMemory, Place

\* The links of the initial list lead to its nodes.
LEMMA InitialLinks ==
  ASSUME NEW keys \in SUBSET Key
  PROVE  /\ keys = {} => NodeAtOrAbove(keys) = Null
         /\ NodeAtOrAbove(keys) \in {Place(keys)[k] : k \in keys} \cup {Null}
         /\ \A k \in keys : NodeAbove(keys, k) \in {Place(keys)[j] : j \in keys} \cup {Null}
  <1>1. NodeAtOrAbove(keys) \in {Place(keys)[k] : k \in keys} \cup {Null}
    <2>1. CASE keys = {} BY <2>1 DEF NodeAtOrAbove
    <2>2. CASE keys # {}
      <3>1. \E j \in keys : \A i \in keys : j <= i BY <2>2, KeyOrderAssumption
      <3>2. (CHOOSE j \in keys : \A i \in keys : j <= i) \in keys BY <3>1
      <3> QED BY <2>2, <3>2 DEF NodeAtOrAbove
    <2> QED BY <2>1, <2>2
  <1>2. ASSUME NEW k \in keys
        PROVE  NodeAbove(keys, k) \in {Place(keys)[j] : j \in keys} \cup {Null}
    <2> DEFINE above == {j \in keys : j > k}
    <2>1. CASE above = {}
      <3>1. ASSUME NEW j \in keys PROVE j <= k
        <4>1. ~(j > k) BY <2>1
        <4>2. j \in Int /\ k \in Int BY KeyAssumption
        <4> QED BY <4>1, <4>2
      <3> QED BY <3>1 DEF NodeAbove
    <2>2. CASE above # {}
      <3>1. above \in SUBSET Key OBVIOUS
      <3>2. PICK j \in above : \A i \in above : j <= i BY <2>2, <3>1, KeyOrderAssumption
      <3>3. j \in keys /\ j > k /\ \A i \in keys : i > k => j <= i BY <3>2
      <3>4. FirstAbove(keys, k) \in keys BY <3>3 DEF FirstAbove
      <3> QED BY <3>4 DEF NodeAbove
    <2> QED BY <2>1, <2>2
  <1>3. keys = {} => NodeAtOrAbove(keys) = Null BY DEF NodeAtOrAbove
  <1> QED BY <1>1, <1>2, <1>3

\* What memory holds initially, whoever has populated the list.
LEMMA InitialMemory ==
  ASSUME NEW keys \in SUBSET Key, HasMemory(keys), NEW by, InitialList(keys, by)
  PROVE  /\ gvc \in Nat /\ lock \in [Node -> Word] /\ \A n \in Node : ~lock[n].locked
         /\ node \in [Node -> [key : Key \cup {DefaultKey}, value : Value, next : Link]]
         /\ Sentinel \in alloc /\ alloc \subseteq Node /\ index \in [Key -> Link]
         /\ \A n \in Node : node[n].next \in alloc \cup {Null}
         /\ \A k \in Key : index[k] \in alloc \cup {Null}
         /\ by = "transaction" => \A n \in Node : /\ ~lock[n].singleton
                                                 /\ lock[n].version <= gvc
  <1> DEFINE place == Place(keys)
             used == {place[k] : k \in keys}
             linked(n) == by = "transaction" /\ node[n].next # Null
             keyOf(n) == CHOOSE k \in keys : place[k] = n
  <1>1. place \in [keys -> Node \ {Sentinel}] BY PlaceOK
  <1>2. used \subseteq Node \ {Sentinel} BY <1>1
  <1>3. \A n \in used : keyOf(n) \in keys OBVIOUS
  <1>4. /\ alloc = {Sentinel} \cup used
        /\ node = [n \in Node |->
                    CASE n = Sentinel -> [NewNode EXCEPT !.next = NodeAtOrAbove(keys)]
                      [] n \in used -> [NewNode EXCEPT !.key = keyOf(n),
                                                       !.next = NodeAbove(keys, keyOf(n))]
                      [] OTHER -> NewNode]
        /\ lock = [n \in Node |->
                    [NewWord EXCEPT !.version = IF linked(n) THEN 1 ELSE 0,
                                    !.singleton = (by = "singles" /\ n \in used)]]
        /\ index = [k \in Key |-> IF k \in keys THEN place[k] ELSE Null]
        /\ gvc = IF by = "transaction" /\ keys # {} THEN 1 ELSE 0
    BY DEF InitialList
  <1>5. NewNode \in [key : Key \cup {DefaultKey}, value : Value, next : Link]
        /\ NewNode.next = Null
    BY ValueAssumption DEF NewNode, Link
  <1>6. NodeAtOrAbove(keys) \in used \cup {Null}
        /\ (keys = {} => NodeAtOrAbove(keys) = Null)
        /\ \A k \in keys : NodeAbove(keys, k) \in used \cup {Null}
    BY InitialLinks
  <1> HIDE DEF used, place, keyOf
  <1>7. ASSUME NEW n \in Node
        PROVE  /\ node[n] \in [key : Key \cup {DefaultKey}, value : Value, next : Link]
               /\ node[n].next \in used \cup {Null}
    <2>1. CASE n = Sentinel
      <3> DEFINE first == [NewNode EXCEPT !.next = NodeAtOrAbove(keys)]
      <3>1. node = [m \in Node |->
                CASE m = Sentinel -> first
                  [] m \in used -> [NewNode EXCEPT !.key = keyOf(m),
                                                   !.next = NodeAbove(keys, keyOf(m))]
                  [] OTHER -> NewNode]
        BY <1>4
      <3>2. first \in [key : Key \cup {DefaultKey}, value : Value, next : Link]
            /\ first.next \in used \cup {Null}
        BY <1>2, <1>5, <1>6 DEF Link
      <3>3. Sentinel \notin used BY <1>2
      <3> HIDE DEF first
      <3>4. node[Sentinel] = first BY <3>1, <3>3, NodeAssumption
      <3> QED BY <2>1, <3>2, <3>4
    <2>2. CASE n # Sentinel /\ n \in used
      <3>1. node[n] = [NewNode EXCEPT !.key = keyOf(n), !.next = NodeAbove(keys, keyOf(n))]
        BY <1>4, <2>2
      <3>2. keyOf(n) \in Key /\ NodeAbove(keys, keyOf(n)) \in used \cup {Null}
        BY <1>3, <1>6, <2>2
      <3> QED BY <1>2, <1>5, <3>1, <3>2 DEF Link
    <2>3. CASE n # Sentinel /\ n \notin used
      <3>1. node[n] = NewNode BY <1>4, <2>3
      <3> QED BY <1>5, <3>1
    <2> QED BY <2>1, <2>2, <2>3
  <1>8. (keys = {} => used = {}) BY DEF used
  <1>9. \A n \in Node : node[n].next # Null => keys # {} BY <1>7, <1>8
  <1>10. gvc \in Nat /\ (by = "transaction" /\ keys # {} => gvc = 1) BY <1>4
  <1>11. ASSUME NEW n \in Node
         PROVE  /\ lock[n] \in Word /\ ~lock[n].locked
                /\ by = "transaction" => ~lock[n].singleton /\ lock[n].version <= gvc
    <2> DEFINE v == IF linked(n) THEN 1 ELSE 0
               b == by = "singles" /\ n \in used
    <2>1. v \in Nat /\ (by = "transaction" => v <= gvc) BY <1>9, <1>10
    <2>2. lock[n] = [NewWord EXCEPT !.version = v, !.singleton = b] BY <1>4
    <2>3. b \in BOOLEAN /\ (by = "transaction" => b = FALSE) OBVIOUS
    <2> HIDE DEF v, b
    <2> QED BY <2>1, <2>2, <2>3 DEF NewWord, Word
  <1>12. node \in [Node -> [key : Key \cup {DefaultKey}, value : Value, next : Link]]
    BY <1>4, <1>7
  <1>13. lock \in [Node -> Word] BY <1>4, <1>11
  <1>14. index \in [Key -> Link] /\ \A k \in Key : index[k] \in used \cup {Null}
    BY <1>1, <1>2, <1>4 DEF Link, used
  <1> QED BY <1>2, <1>4, <1>7, <1>10, <1>11, <1>12, <1>13, <1>14, NodeAssumption

\* The initial states have the invariant.
LEMMA InitIInv ==
  ASSUME OnlyTransactions, Init
  PROVE  IInv
  <1>1. PICK s \in Scenario : InitialList(s.keys, s.by) /\ jobs = s.jobs BY DEF Init
  <1>2. /\ s.keys \subseteq Key /\ s.by = "transaction" /\ jobs \in [Thread -> TxnJobs]
        /\ HasMemory(s.keys)
    BY <1>1 DEF OnlyTransactions
  <1>3. /\ gvc \in Nat /\ lock \in [Node -> Word]
        /\ \A n \in Node : ~lock[n].locked /\ ~lock[n].singleton /\ lock[n].version <= gvc
        /\ node \in [Node -> [key : Key \cup {DefaultKey}, value : Value, next : Link]]
        /\ Sentinel \in alloc /\ alloc \subseteq Node /\ index \in [Key -> Link]
        /\ \A n \in Node : node[n].next \in alloc \cup {Null}
        /\ \A k \in Key : index[k] \in alloc \cup {Null}
    BY <1>1, <1>2, InitialMemory
  <1>4. MemoryOK BY <1>3 DEF MemoryOK
  <1>5. /\ txn = [t \in Thread |-> EmptyTxn] /\ held = [t \in Thread |-> {}]
         /\ pc = [t \in Thread |-> "idle"] /\ todo = [t \in Thread |-> {}]
         /\ cur = [t \in Thread |-> Sentinel] /\ saw = [t \in Thread |-> NewWord]
         /\ frame = [t \in Thread |-> EmptyFrame]
    BY DEF Init, StorageInit, FrameInit
  <1>6. CommitOK BY <1>5, NodeAssumption DEF CommitOK
  <1>7. ASSUME NEW t \in Thread
         PROVE  /\ ThreadOK(t) /\ Refs(t) = {Null} /\ Hidden(t) = {} /\ HoldsOK(t) /\ WritesAhead(t)
    <2>1. txn[t] = EmptyTxn /\ frame[t] = EmptyFrame /\ pc[t] = "idle" /\ held[t] = {} BY <1>5
    <2>2. FrameFits("idle", EmptyFrame)
      <3>1. EmptyFrame.results = <<>> /\ ~EmptyFrame.removing BY DEF EmptyFrame
      <3>2. IsSeq(<<>>) BY DEF IsSeq
      <3> QED BY <3>1, <3>2, EmptyFits DEF FrameFits, Operating, Placed, AtNode, AtFound
    <2>3. ThreadOK(t) BY <2>1, <2>2, EmptyTxnOK DEF ThreadOK
    <2>4. {frame[t].pred, frame[t].succ, frame[t].at, frame[t].link} = {Null}
      BY <2>1 DEF EmptyFrame
    <2>5. Refs(t) = {Null} BY <2>1, <2>4, EmptyTxnOK DEF Refs
    <2>6. Hidden(t) = {} BY <2>1, EmptyTxnOK DEF Hidden
    <2> QED BY <2>1, <2>3, <2>5, <2>6 DEF HoldsOK, WritesAhead, Holding, Validating, Committing
  <1>8. Types BY <1>2, <1>4, <1>5, <1>6, <1>7 DEF Types, TxnLabel
  <1>9. References
    <2>1. \A t \in Thread : txn[t].fresh = {} BY <1>5, EmptyTxnOK
    <2>2. \A t \in Thread : txn[t].fresh \subseteq alloc \ {Sentinel} BY <2>1
    <2>3. \A t \in Thread : Refs(t) \subseteq alloc \cup {Null} /\ Hidden(t) = {} BY <1>7
    <2>4. \A t \in Thread : \A u \in Thread \ {t} : txn[u].fresh \cap txn[t].fresh = {}
      BY <2>1
    <2> QED BY <1>3, <2>2, <2>3, <2>4 DEF References
  <1>10. Ownership BY <1>3, <1>5, <1>7 DEF Ownership
  <1>11. Versions BY <1>3, <1>7 DEF Versions
  <1> QED BY <1>8, <1>9, <1>10, <1>11 DEF IInv

-----------------------------------------------------------------------------
(* Every step. *)

\* What a thread with transactions only can do.
TransactionStep(t) ==
    \/ Begin(t) \/ Execute(t) \/ Commit(t) \/ PassValidation(t) \/ Succeed(t) \/ Fail(t)
    \/ /\ \/ FindPrevious(t) \/ PredecessorVersion(t) \/ PredecessorDeleted(t)
          \/ SuccessorLocked(t) \/ SuccessorVersion(t) \/ SuccessorNext(t)
          \/ Contains(t) \/ Get(t) \/ RemoveNothing(t) \/ RemoveFound(t)
          \/ RemovePredecessor(t) \/ RemoveSuccessor(t)
          \/ InsertExisting(t) \/ InsertExistingDeleted(t) \/ InsertNew(t)
       /\ UNCHANGED <<jobs, historyVars>>
    \/ /\ \/ LockNode(t) \/ ValidateReadSet(t) \/ ValidateNode(t) \/ ValidateVersion(t)
          \/ ValidateEqual(t) \/ ValidateSingleton(t) \/ ValidateRelocked(t)
          \/ WriteNext(t) \/ WriteValue(t) \/ WriteDeleted(t) \/ WriteVersion(t)
          \/ WriteSingleton(t) \/ UpdateWriteSetDone(t) \/ Release(t)
          \/ LazyUpdateIndexAdd(t) \/ LazyUpdateIndexRemove(t)
       /\ UNCHANGED <<frame, jobs, historyVars>>

\* Without operations outside transactions, their steps and the handling of the
\* singletons they leave cannot be taken.
LEMMA OnlyTransactionSteps ==
  ASSUME IInv, NEW t \in Thread, Step(t)
  PROVE  TransactionStep(t)
  <1>1. pc[t] \in TxnLabel BY DEF IInv, Types
  <1>2. ~(AdvanceClock(t) \/ ClearSingletonLoad(t) \/ ClearSingletonStore(t)
          \/ SingleReturn(t) \/ SingleThrow(t) \/ SingleReadVersion(t)
          \/ SingleFindPrevious(t) \/ SinglePredecessor(t) \/ SingleUnlocked(t)
          \/ SingleHasNext(t) \/ SingleNextLocked(t) \/ SingleAtEnd(t) \/ SingleNextKey(t)
          \/ SingleFound(t) \/ SingleAdvance(t) \/ SingleContains(t) \/ SingleGet(t)
          \/ SingleRemoveNothing(t))
    BY <1>1 DEF TxnLabel, Operating, Placed, Holding, Validating, Committing, AdvanceClock,
      ClearSingletonLoad, ClearSingletonStore, SingleReturn, SingleThrow, SingleReadVersion,
      SingleFindPrevious, SinglePredecessor, SingleUnlocked, SingleHasNext, SingleNextLocked,
      SingleAtEnd, SingleNextKey, SingleFound, SingleAdvance, SingleContains, SingleGet,
      SingleRemoveNothing
  <1>3. ~(SingleLockPredecessor(t) \/ SingleNotDeleted(t) \/ SingleStillNext(t)
          \/ SingleLockSuccessor(t) \/ SingleLockExisting(t) \/ SingleUnlink(t)
          \/ SingleOverwrite(t) \/ SingleStore(t) \/ SingleStored(t) \/ SingleLink(t)
          \/ SingleIndexAdd(t) \/ SingleIndexCheck(t) \/ SingleRetry(t) \/ SingleRelease(t))
    BY <1>1 DEF TxnLabel, Operating, Placed, Holding, Validating, Committing,
      SingleLockPredecessor, SingleNotDeleted, SingleStillNext, SingleLockSuccessor,
      SingleLockExisting, SingleUnlink, SingleOverwrite, SingleStore, SingleStored, SingleLink,
      SingleIndexAdd, SingleIndexCheck, SingleRetry, SingleRelease
  <1>4. ~SingleCall(t)
    <2>1. jobs[t] # <<>> => Job(t).call # "single"
      <3>1. jobs[t] \in Seq([call : {"Dispatch", "TryDispatch"}, body : Seq(Operation)])
        BY DEF IInv, Types, TxnJobs
      <3>2. jobs[t] # <<>> => jobs[t][1].call \in {"Dispatch", "TryDispatch"}
        <4> DEFINE job == [call : {"Dispatch", "TryDispatch"}, body : Seq(Operation)]
        <4>1. jobs[t] # <<>> => jobs[t][1] \in job
          <5> HIDE DEF job
          <5>1. jobs[t] \in Seq(job) BY <3>1 DEF job
          <5> QED BY <5>1, NonEmpty
        <4> QED BY <4>1
      <3> QED BY <3>2 DEF Job
    <2> QED BY <2>1 DEF SingleCall
  <1> QED BY <1>2, <1>3, <1>4 DEF Step, TransactionStep

\* Every step of a thread keeps the invariant.
LEMMA StepIInv ==
  ASSUME IInv, NEW t \in Thread, TransactionStep(t)
  PROVE  IInv'
  <1>1. CASE Begin(t) BY <1>1, BeginStep
  <1>2. CASE Execute(t) BY <1>2, ExecuteStep
  <1>3. CASE Commit(t) BY <1>3, CommitStep
  <1>4. CASE PassValidation(t) BY <1>4, PassValidationStep
  <1>5. CASE Succeed(t) BY <1>5, SucceedStep
  <1>6. CASE Fail(t) BY <1>6, FailStep
  <1>7. CASE UNCHANGED <<jobs, historyVars>> /\
             (FindPrevious(t) \/ PredecessorVersion(t) \/ PredecessorDeleted(t)
              \/ SuccessorLocked(t) \/ SuccessorVersion(t) \/ SuccessorNext(t))
    BY <1>7, FindPreviousStep, CheckStep, PredecessorDeletedStep, SuccessorLockedStep,
       SuccessorNextStep
  <1>8. CASE UNCHANGED <<jobs, historyVars>> /\
             (Contains(t) \/ Get(t) \/ RemoveNothing(t) \/ RemoveFound(t)
              \/ RemovePredecessor(t) \/ RemoveSuccessor(t))
    BY <1>8, AnswerStep, RemoveFoundStep, RemovePredecessorStep, RemoveSuccessorStep
  <1>9. CASE UNCHANGED <<jobs, historyVars>> /\
             (InsertExisting(t) \/ InsertExistingDeleted(t) \/ InsertNew(t))
    BY <1>9, InsertExistingStep, InsertExistingDeletedStep, InsertNewStep
  <1>10. CASE UNCHANGED <<frame, jobs, historyVars>> /\
              (LockNode(t) \/ ValidateReadSet(t) \/ ValidateNode(t) \/ ValidateVersion(t)
               \/ ValidateEqual(t) \/ ValidateSingleton(t) \/ ValidateRelocked(t))
    BY <1>10, LockNodeStep, ValidateReadSetStep, ValidateNodeStep, ValidateStep
  <1>11. CASE UNCHANGED <<frame, jobs, historyVars>> /\
              (WriteNext(t) \/ WriteValue(t) \/ WriteDeleted(t) \/ WriteVersion(t)
               \/ WriteSingleton(t) \/ UpdateWriteSetDone(t))
    BY <1>11, WriteNextStep, WriteValueStep, WriteDeletedStep, WriteVersionStep,
       WriteSingletonStep, UpdateWriteSetDoneStep
  <1>12. CASE UNCHANGED <<frame, jobs, historyVars>> /\
              (Release(t) \/ LazyUpdateIndexAdd(t) \/ LazyUpdateIndexRemove(t))
    BY <1>12, ReleaseStep, LazyUpdateIndexAddStep, LazyUpdateIndexRemoveStep
  <1> QED BY <1>1, <1>2, <1>3, <1>4, <1>5, <1>6, <1>7, <1>8, <1>9, <1>10, <1>11, <1>12
          DEF TransactionStep

\* Every step keeps the invariant.
LEMMA NextIInv ==
  ASSUME IInv, [Next]_vars
  PROVE  IInv'
  <1>1. CASE \E t \in Thread : Step(t) BY <1>1, OnlyTransactionSteps, StepIInv
  <1>2. CASE UNCHANGED vars
    <2>1. UNCHANGED <<sharedVars, commitVars, txn, pc, frame, jobs>> BY <1>2 DEF vars
    <2>2. Types'
      <3>1. MemoryOK' /\ CommitOK' BY <2>1, KeepMemory, KeepCommit DEF IInv
      <3> QED BY <2>1, <3>1 DEF IInv, Types, ThreadOK
    <2>3. References' BY <2>1 DEF IInv, References, Refs, Hidden, sharedVars, commitVars
    <2>4. Ownership' BY <2>1 DEF IInv, Ownership, HoldsOK, sharedVars, commitVars
    <2>5. Versions' BY <2>1 DEF IInv, Versions, WritesAhead, sharedVars, commitVars
    <2> QED BY <2>2, <2>3, <2>4, <2>5 DEF IInv
  <1> QED BY <1>1, <1>2 DEF Next, Finished

-----------------------------------------------------------------------------
(* Theorems. *)

\* The invariant's types of a storage are those of TypeOK.
LEMMA TxnTypes ==
  ASSUME NEW x, TxnTyped(x)
  PROVE  TxnOK(x)
  <1> DEFINE d == DOMAIN x.writeSet
  <1>1. x \in Txn(d) /\ d \subseteq Node BY DEF TxnTyped
  <1>2. x.writeSet \in [d -> WriteSetElement] BY <1>1 DEF Txn
  <1>3. \A n \in d : x.writeSet[n] \in WriteSetElement BY <1>2
  <1>4. /\ x.active \in BOOLEAN /\ x.readVersion \in Nat /\ x.writeVersion \in Nat
        /\ x.readSet \subseteq Node /\ x.indexRemove \subseteq Node /\ x.fresh \subseteq Node
        /\ x.indexAdd \in Seq(Node)
    BY <1>1 DEF Txn
  <1> QED BY <1>1, <1>3, <1>4 DEF TxnOK

\* The invariant implies the types.
LEMMA IInvTypeOK == ASSUME IInv PROVE TypeOK
  <1>1. gvc \in Nat /\ lock \in [Node -> Word] /\ alloc \subseteq Node
        /\ node \in [Node -> [key : Key \cup {DefaultKey}, value : Value, next : Node \cup {Null}]]
        /\ index \in [Key -> Node \cup {Null}]
    BY DEF IInv, Types, MemoryOK, Link
  <1>2. \A t \in Thread : TxnOK(txn[t]) /\ (pc[t] = "idle" => txn[t] = EmptyTxn)
    BY TxnTypes DEF IInv, Types, ThreadOK
  <1>3. held \in [Thread -> SUBSET Node] /\ todo \in [Thread -> SUBSET Node]
        /\ cur \in [Thread -> Node]
    BY DEF IInv, Types, CommitOK
  <1>4. saw \in [Thread -> Word]
    <2>1. NewWord \in Word BY DEF NewWord, Word
    <2> QED BY <2>1 DEF IInv, Types, CommitOK
  <1>5. TxnLabel \subseteq Label
    BY DEF TxnLabel, Label, Operating, Placed, Holding, Validating, Committing
  <1>6. pc \in [Thread -> Label] BY <1>5 DEF IInv, Types
  <1> QED BY <1>1, <1>2, <1>3, <1>4, <1>6 DEF TypeOK

\* The invariant implies that locks match Lockers.
LEMMA IInvLocks == ASSUME IInv PROVE LocksMatchLockers
  BY DEF IInv, Ownership, HoldsOK, LocksMatchLockers

\* The invariant implies that nobody refers to what a transaction creates.
LEMMA IInvFresh == ASSUME IInv PROVE FreshIsPrivate
  <1> SUFFICES ASSUME NEW t \in Thread, pc[t] \notin Committing \cup {"finish"}
               PROVE  /\ \A n \in alloc \ txn[t].fresh : node[n].next \notin txn[t].fresh
                      /\ \A k \in Key : index[k] \notin txn[t].fresh
                      /\ \A u \in Thread \ {t} :
                          {frame[u].pred, frame[u].succ, frame[u].at, frame[u].link}
                              \cap txn[t].fresh = {}
    BY DEF FreshIsPrivate
  <1>1. Hidden(t) = txn[t].fresh BY DEF IInv, Ownership, HoldsOK, Hidden
  <1>2. alloc \subseteq Node BY DEF IInv, Types, MemoryOK
  <1> QED BY <1>1, <1>2 DEF IInv, References, Refs

\* Clocks and versions only advance.
LEMMA LockAdvance ==
  ASSUME IInv, NEW t \in Thread, TransactionStep(t)
  PROVE  gvc' >= gvc /\ \A n \in alloc \cap alloc' : lock'[n].version >= lock[n].version
  <1>1. gvc \in Nat /\ lock \in [Node -> Word] /\ alloc \subseteq Node
        /\ \A n \in Node : lock[n] \in Word /\ lock[n].version \in Nat
    BY DEF IInv, Types, MemoryOK, Word
  <1>2. CASE UNCHANGED <<gvc, lock>> BY <1>1, <1>2
  <1>3. CASE PassValidation(t) BY <1>1, <1>3 DEF PassValidation, IncrementWriteVersion
  <1>4. ASSUME NEW n \in Node, NEW w, lock' = [lock EXCEPT ![n] = w], gvc' = gvc,
               n \in alloc => w.version >= lock[n].version
        PROVE  gvc' >= gvc /\ \A m \in alloc \cap alloc' : lock'[m].version >= lock[m].version
    BY <1>1, <1>4
  <1>5. CASE RemoveSuccessor(t) \/ InsertNew(t)
    <2>1. \E c : Construct(FreshNode, c) BY <1>5 DEF RemoveSuccessor, InsertNew
    <2>2. FreshNode \in Node \ alloc BY <2>1, FreshNodeIsFree DEF IInv, Construct
    <2>3. lock' = [lock EXCEPT ![FreshNode] = NewWord] /\ gvc' = gvc BY <2>1 DEF Construct
    <2> QED BY <1>4, <2>2, <2>3
  <1>6. CASE Fail(t)
    <2>1. /\ gvc' = gvc /\ alloc' = alloc \ txn[t].fresh
          /\ lock' = [n \in Node |-> IF n \in txn[t].fresh THEN NewWord ELSE lock[n]]
      BY <1>6 DEF Fail, Rollback
    <2> QED BY <1>1, <2>1
  <1>7. CASE LockNode(t)
    <2>1. gvc' = gvc BY <1>7 DEF LockNode
    <2>2. CASE UNCHANGED lock BY <1>2, <2>1, <2>2
    <2>3. CASE ~UNCHANGED lock
      <3>1. PICK n \in todo[t] : lock' = [lock EXCEPT ![n] = Acquired(@)]
        BY <1>7, <2>3 DEF LockNode
      <3>2. n \in Node BY DEF IInv, Types, CommitOK
      <3> DEFINE w == Acquired(lock[n])
      <3>3. w.version = lock[n].version BY <1>1, <3>2 DEF Acquired, Word
      <3>4. lock' = [lock EXCEPT ![n] = w] BY <3>1
      <3> HIDE DEF w
      <3> QED BY <1>1, <1>4, <2>1, <3>2, <3>3, <3>4
    <2> QED BY <2>2, <2>3
  <1>8. CASE Release(t)
    <2>1. gvc' = gvc BY <1>8 DEF Release
    <2>2. CASE UNCHANGED lock BY <1>2, <2>1, <2>2
    <2>3. CASE ~UNCHANGED lock
      <3>1. PICK n \in held[t] : lock' = [lock EXCEPT ![n] = Released(@)]
        BY <1>8, <2>3 DEF Release
      <3>2. n \in Node BY DEF IInv, Types, CommitOK
      <3> DEFINE w == Released(lock[n])
      <3>3. w.version = lock[n].version BY <1>1, <3>2 DEF Released, Word
      <3>4. lock' = [lock EXCEPT ![n] = w] BY <3>1
      <3> HIDE DEF w
      <3> QED BY <1>1, <1>4, <2>1, <3>2, <3>3, <3>4
    <2> QED BY <2>2, <2>3
  <1>9. CASE WriteDeleted(t) \/ WriteSingleton(t)
    <2>1. cur[t] \in Node BY DEF IInv, Types, CommitOK
    <2>2. PICK w \in {WithDeleted(lock[cur[t]], TRUE), WithSingleton(lock[cur[t]], FALSE)} :
              lock' = [lock EXCEPT ![cur[t]] = w] /\ gvc' = gvc
      BY <1>9 DEF WriteDeleted, WriteSingleton
    <2>3. w.version = lock[cur[t]].version BY <1>1, <2>1 DEF WithDeleted, WithSingleton, Word
    <2> QED BY <1>1, <1>4, <2>1, <2>2, <2>3
  <1>10. CASE WriteVersion(t)
    <2> DEFINE w == WithVersion(lock[cur[t]], txn[t].writeVersion)
    <2>1. cur[t] \in Node /\ pc[t] = "writeVersion" /\ gvc' = gvc
          /\ lock' = [lock EXCEPT ![cur[t]] = w]
      BY <1>10 DEF WriteVersion, IInv, Types, CommitOK
    <2>2. lock[cur[t]].version <= txn[t].writeVersion
      BY <2>1 DEF IInv, Ownership, HoldsOK, Versions, WritesAhead, Committing
    <2>3. txn[t].writeVersion \in Nat
      BY DEF IInv, Types, ThreadOK, TxnTyped, Txn
    <2>4. w.version = txn[t].writeVersion BY <1>1, <2>1 DEF WithVersion, Word
    <2> HIDE DEF w
    <2>5. w.version >= lock[cur[t]].version BY <1>1, <2>1, <2>2, <2>3, <2>4
    <2> QED BY <1>4, <2>1, <2>5
  <1>11. CASE Begin(t) \/ Execute(t) \/ Commit(t) \/ Succeed(t)
    BY <1>2, <1>11 DEF Begin, LocalTxnPrologue, Execute, CallOperation, Commit, LockWriteSet,
                       Succeed, LocalTxnCleanup, sharedVars, operatorVars
  <1>12. CASE FindPrevious(t) \/ PredecessorVersion(t) \/ PredecessorDeleted(t)
              \/ SuccessorLocked(t) \/ SuccessorVersion(t) \/ SuccessorNext(t)
              \/ Contains(t) \/ Get(t) \/ RemoveNothing(t) \/ RemoveFound(t)
              \/ RemovePredecessor(t) \/ InsertExisting(t) \/ InsertExistingDeleted(t)
    BY <1>2, <1>12 DEF FindPrevious, PredecessorVersion, PredecessorDeleted, SuccessorLocked,
       SuccessorVersion, SuccessorNext, Contains, Get, RemoveNothing, RemoveFound,
       RemovePredecessor, InsertExisting, InsertExistingDeleted, sharedVars, operatorVars
  <1>13. CASE ValidateReadSet(t) \/ ValidateNode(t) \/ ValidateVersion(t)
              \/ ValidateEqual(t) \/ ValidateSingleton(t) \/ ValidateRelocked(t)
              \/ WriteNext(t) \/ WriteValue(t) \/ UpdateWriteSetDone(t)
              \/ LazyUpdateIndexAdd(t) \/ LazyUpdateIndexRemove(t)
    BY <1>2, <1>13 DEF ValidateReadSet, ValidateNode, ValidateVersion, ValidateEqual,
       ValidateSingleton, ValidateRelocked, WriteNext, WriteValue, UpdateWriteSetDone,
       LazyUpdateIndexAdd, LazyUpdateIndexRemove, sharedVars
  <1> QED BY <1>3, <1>5, <1>6, <1>7, <1>8, <1>9, <1>10, <1>11, <1>12, <1>13 DEF TransactionStep

\* Every step advances the clock and the versions, or leaves them.
LEMMA NextAdvance ==
  ASSUME IInv, [Next]_vars
  PROVE  [/\ gvc' >= gvc
          /\ \A n \in alloc \cap alloc' : lock'[n].version >= lock[n].version
          /\ \A n \in Node : lock'[n].version <= gvc']_vars
  <1>1. IInv' BY NextIInv
  <1>2. \A n \in Node : lock'[n].version <= gvc' BY <1>1 DEF IInv, Versions
  <1>3. CASE \E t \in Thread : Step(t) BY <1>2, <1>3, OnlyTransactionSteps, LockAdvance
  <1> QED BY <1>3 DEF Next, Finished

\* Of transactions on a list, in every reachable state.
THEOREM Invariance ==
  ASSUME OnlyTransactions
  PROVE  Spec => []IInv
  <1>1. Init => IInv BY InitIInv
  <1>2. IInv /\ [Next]_vars => IInv' BY NextIInv
  <1> QED BY <1>1, <1>2, PTL DEF Spec

\* The state of the list, of every TxnListStorage and of every commit is well typed,
\* and a thread outside a transaction has an empty storage (LocalTxnCleanup).
THEOREM TypeCorrect ==
  ASSUME OnlyTransactions
  PROVE  Spec => []TypeOK
  BY Invariance, IInvTypeOK, PTL

\* A lock word is locked exactly while one commit has a Locker on the node, and a
\* commit writes to no node it has not locked (LockWriteSet to ReleaseWriteSet).
THEOREM LocksMatch ==
  ASSUME OnlyTransactions
  PROVE  Spec => []LocksMatchLockers
  BY Invariance, IInvLocks, PTL

\* VersionLock::Release never meets a word that is not locked: its assertion holds
\* as long as no operation outside a transaction leaves singletons.
THEOREM NeverCrashes ==
  ASSUME OnlyTransactions
  PROVE  Spec => []ReleaseAssertion
  <1>1. IInv => ReleaseAssertion BY DEF IInv, Ownership, HoldsOK, ReleaseAssertion
  <1> QED BY <1>1, Invariance, PTL

\* Until a transaction commits nobody else refers to the nodes it creates, so the
\* rollback that destroys them leaves no dangling reference.
THEOREM FreshPrivate ==
  ASSUME OnlyTransactions
  PROVE  Spec => []FreshIsPrivate
  BY Invariance, IInvFresh, PTL

\* The version of a node never decreases while it exists and is never ahead of the
\* clock: what was overwritten after a transaction began cannot look unread again.
THEOREM VersionsOnlyAdvance ==
  ASSUME OnlyTransactions
  PROVE  Spec => VersionsAdvance
  <1>1. IInv /\ [Next]_vars =>
          [/\ gvc' >= gvc
           /\ \A n \in alloc \cap alloc' : lock'[n].version >= lock[n].version
           /\ \A n \in Node : lock'[n].version <= gvc']_vars
    BY NextAdvance
  <1> QED BY <1>1, Invariance, PTL DEF Spec, VersionsAdvance

-----------------------------------------------------------------------------
(* Lists. *)

\* A list of its own, over the list of nodes L with the links N: the nodes O are new,
\* R are taken out, and only the nodes D have other links, those of M.
Overlay(L, N, K, O, D, R, M) ==
    /\ O \cap L = {} /\ D \subseteq L \cup O /\ R \subseteq D
    /\ \A n \in (L \cup O) \ D : M[n] = N[n]
    /\ Linked((L \cup O) \ R, M, K)

\* Only the nodes of a list count.
LEMMA SameLinks ==
  ASSUME NEW S, NEW N, NEW K, NEW M, NEW H, Linked(S, N, K),
         \A n \in S : M[n] = N[n] /\ H[n] = K[n]
  PROVE  Linked(S, M, H)
  BY DEF Linked

\* A node of the common list that one list links to again is in the other one too.
LEMMA SharedNode ==
  ASSUME NEW L, NEW N, NEW K, Linked(L, N, K),
         NEW O1, NEW D1, NEW R1, NEW M1, Overlay(L, N, K, O1, D1, R1, M1),
         NEW O2, NEW D2, NEW R2, NEW M2, Overlay(L, N, K, O2, D2, R2, M2),
         D1 \cap D2 = {},
         NEW n \in D1 \cup O1, n \notin R1, M1[n] # Null, M1[n] \in L
  PROVE  /\ M1[n] \in (L \cup O2) \ R2
         /\ \E a \in D1 \cap L : N[a] = M1[n]
  <1> DEFINE m == M1[n]
             V1 == (L \cup O1) \ R1
             V2 == (L \cup O2) \ R2
  <1>1. n \in V1 BY DEF Overlay
  <1>2. m \in V1 \ {Sentinel} BY <1>1 DEF Overlay, Linked
  <1>3. PICK a \in L : N[a] = m BY <1>2 DEF Linked
  <1>4. a \in D1
    <2>1. SUFFICES ASSUME a \notin D1 PROVE FALSE OBVIOUS
    <2>2. a \in V1 /\ M1[a] = m BY <1>3, <2>1 DEF Overlay
    <2>3. a = n BY <1>1, <2>2 DEF Overlay, Linked
    <2> QED BY <2>1, <2>3 DEF Overlay
  <1>5. a \in V2 /\ M2[a] = m BY <1>3, <1>4 DEF Overlay
  <1>6. m \in V2 BY <1>5 DEF Overlay, Linked
  <1> QED BY <1>3, <1>4, <1>6

\* The links of one list lead to nodes of the joint one.
LEMMA JointNext ==
  ASSUME NEW L, NEW N, NEW K, Linked(L, N, K),
         NEW O1, NEW D1, NEW R1, NEW M1, Overlay(L, N, K, O1, D1, R1, M1),
         NEW O2, NEW D2, NEW R2, NEW M2, Overlay(L, N, K, O2, D2, R2, M2),
         D1 \cap D2 = {}, O1 \cap O2 = {},
         NEW n \in D1 \cup O1, n \notin R1, M1[n] # Null
  PROVE  /\ M1[n] \in ((L \cup O1 \cup O2) \ (R1 \cup R2)) \ {Sentinel}
         /\ n # Sentinel => K[n] < K[M1[n]]
  <1> DEFINE m == M1[n]
  <1>1. n \in (L \cup O1) \ R1 BY DEF Overlay
  <1>2. m \in ((L \cup O1) \ R1) \ {Sentinel} /\ (n # Sentinel => K[n] < K[m])
    BY <1>1 DEF Overlay, Linked
  <1>3. m \notin R2
    <2>1. CASE m \in L BY <2>1, SharedNode
    <2>2. CASE m \notin L BY <1>2, <2>2 DEF Overlay
    <2> QED BY <2>1, <2>2
  <1> QED BY <1>2, <1>3

\* A node that only one list has is linked to in the joint one.
LEMMA JointPrevious ==
  ASSUME NEW L, NEW N, NEW K, Linked(L, N, K),
         NEW O1, NEW D1, NEW R1, NEW M1, Overlay(L, N, K, O1, D1, R1, M1),
         NEW O2, NEW D2, NEW R2, NEW M2, Overlay(L, N, K, O2, D2, R2, M2),
         D1 \cap D2 = {}, O1 \cap O2 = {},
         NEW m \in ((L \cup O1) \ R1) \ {Sentinel}, m # Null,
         m \in O1 \/ \E a \in D1 \cap L : N[a] = m
  PROVE  \E p \in D1 \cup O1 : p \in (L \cup O1 \cup O2) \ (R1 \cup R2) /\ M1[p] = m
  <1>1. PICK p \in (L \cup O1) \ R1 : M1[p] = m BY DEF Overlay, Linked
  <1>2. p \in D1 \cup O1
    <2>1. SUFFICES ASSUME p \notin D1 \cup O1 PROVE FALSE OBVIOUS
    <2>2. p \in L /\ N[p] = m BY <1>1, <2>1 DEF Overlay
    <2>3. CASE m \in O1 BY <2>2, <2>3 DEF Overlay, Linked
    <2>4. CASE \E a \in D1 \cap L : N[a] = m BY <2>1, <2>2, <2>4 DEF Linked
    <2> QED BY <2>3, <2>4
  <1>3. p \notin R2 BY <1>2 DEF Overlay
  <1> QED BY <1>1, <1>2, <1>3

\* Two lists over a common one that change different nodes join to one list.
LEMMA JointList ==
  ASSUME NEW L, NEW N, NEW K, Linked(L, N, K), Null \notin L,
         NEW O1, NEW D1, NEW R1, NEW M1, Overlay(L, N, K, O1, D1, R1, M1),
         NEW O2, NEW D2, NEW R2, NEW M2, Overlay(L, N, K, O2, D2, R2, M2),
         D1 \cap D2 = {}, O1 \cap O2 = {}, Null \notin O1 \cup O2,
         NEW M, \A n \in D1 : M[n] = M1[n], \A n \in D2 : M[n] = M2[n],
         \A n \in (L \cup O1 \cup O2) \ (D1 \cup D2) : M[n] = N[n]
  PROVE  Linked((L \cup O1 \cup O2) \ (R1 \cup R2), M, K)
  <1> DEFINE J == (L \cup O1 \cup O2) \ (R1 \cup R2)
             P1 == D1 \cup O1
             P2 == D2 \cup O2
  <1>1. /\ \A n \in P1 : M[n] = M1[n]
        /\ \A n \in P2 : M[n] = M2[n]
        /\ P1 \cap P2 = {} /\ R1 \subseteq P1 /\ R2 \subseteq P2
    BY DEF Overlay
  <1>2. \A n \in J \ (P1 \cup P2) :
          n \in L /\ M[n] = N[n] /\ M1[n] = N[n] /\ M2[n] = N[n]
          /\ n \in (L \cup O1) \ R1 /\ n \in (L \cup O2) \ R2
    BY DEF Overlay
  <1>3. \A n \in J \cap P1 : n \in (L \cup O1) \ R1
    BY <1>1 DEF Overlay
  <1>4. \A n \in J \cap P2 : n \in (L \cup O2) \ R2
    BY <1>1 DEF Overlay
  <1>5. Sentinel \in J BY DEF Overlay, Linked
  <1>6. ASSUME NEW n \in J, M[n] # Null
        PROVE  M[n] \in J \ {Sentinel} /\ (n # Sentinel => K[n] < K[M[n]])
    <2>1. CASE n \in P1 BY <1>1, <1>6, <2>1, JointNext
    <2>2. CASE n \in P2
      <3>1. n \in D2 \cup O2 /\ n \notin R2 /\ M2[n] # Null /\ O2 \cap O1 = {} /\ D2 \cap D1 = {}
        BY <1>1, <1>6, <2>2
      <3>2. M2[n] \in ((L \cup O2 \cup O1) \ (R2 \cup R1)) \ {Sentinel}
            /\ (n # Sentinel => K[n] < K[M2[n]])
        BY <3>1, JointNext
      <3> QED BY <1>1, <2>2, <3>2
    <2>3. CASE n \notin P1 \cup P2
      <3>1. n \in L /\ N[n] = M[n] BY <1>2, <2>3
      <3>2. N[n] \in L \ {Sentinel} /\ (n # Sentinel => K[n] < K[N[n]])
        BY <1>6, <3>1 DEF Linked
      <3>3. N[n] \notin R1
        <4>1. n \in (L \cup O1) \ R1 /\ M1[n] = N[n] BY <1>2, <2>3
        <4> QED BY <1>6, <3>1, <4>1 DEF Overlay, Linked
      <3>4. N[n] \notin R2
        <4>1. n \in (L \cup O2) \ R2 /\ M2[n] = N[n] BY <1>2, <2>3
        <4> QED BY <1>6, <3>1, <4>1 DEF Overlay, Linked
      <3> QED BY <3>1, <3>2, <3>3, <3>4
    <2> QED BY <2>1, <2>2, <2>3
  <1>7. ASSUME NEW p \in J, NEW q \in J, M[p] = M[q], M[p] # Null
        PROVE  p = q
    <2>1. CASE p \in P1 /\ q \in P1 BY <1>1, <1>3, <1>7, <2>1 DEF Overlay, Linked
    <2>2. CASE p \in P2 /\ q \in P2 BY <1>1, <1>4, <1>7, <2>2 DEF Overlay, Linked
    <2>3. CASE p \notin P1 \cup P2 /\ q \notin P1 \cup P2
      <3>1. p \in L /\ q \in L /\ N[p] = N[q] /\ N[p] # Null BY <1>2, <1>7, <2>3
      <3> QED BY <3>1 DEF Linked
    <2>4. ASSUME NEW a \in J, NEW b \in J, M[a] = M[b], M[a] # Null
          PROVE  ~(a \in P1 /\ b \notin P1 \cup P2) /\ ~(a \in P2 /\ b \notin P1 \cup P2)
      <3>1. ASSUME a \in P1, b \notin P1 \cup P2 PROVE FALSE
        <4>1. a \in (L \cup O1) \ R1 /\ M1[a] = M[a] BY <1>1, <1>3, <3>1
        <4>2. b \in (L \cup O1) \ R1 /\ M1[b] = M[b] BY <1>2, <3>1
        <4>3. a = b BY <2>4, <4>1, <4>2 DEF Overlay, Linked
        <4> QED BY <3>1, <4>3
      <3>2. ASSUME a \in P2, b \notin P1 \cup P2 PROVE FALSE
        <4>1. a \in (L \cup O2) \ R2 /\ M2[a] = M[a] BY <1>1, <1>4, <3>2
        <4>2. b \in (L \cup O2) \ R2 /\ M2[b] = M[b] BY <1>2, <3>2
        <4>3. a = b BY <2>4, <4>1, <4>2 DEF Overlay, Linked
        <4> QED BY <3>2, <4>3
      <3> QED BY <3>1, <3>2
    <2>5. ASSUME NEW a \in J \cap P1, NEW b \in J \cap P2, M[a] = M[b], M[a] # Null
          PROVE  FALSE
      <3>1. M1[a] = M[a] /\ M2[b] = M[a] BY <1>1, <2>5
      <3>2. M[a] \in L \cup O1 BY <1>3, <2>5, <3>1 DEF Overlay, Linked
      <3>3. M[a] \in L \cup O2 BY <1>4, <2>5, <3>1 DEF Overlay, Linked
      <3>4. M[a] \in L BY <3>2, <3>3
      <3>5. \E c \in D1 \cap L : N[c] = M[a] BY <2>5, <3>1, <3>4, SharedNode
      <3>6. \E c \in D2 \cap L : N[c] = M[a]
        <4>1. b \in D2 \cup O2 /\ b \notin R2 /\ M2[b] # Null /\ M2[b] \in L /\ D2 \cap D1 = {}
          BY <2>5, <3>1, <3>4
        <4>2. \E c \in D2 \cap L : N[c] = M2[b] BY <4>1, SharedNode
        <4> QED BY <3>1, <4>2
      <3> QED BY <2>5, <3>5, <3>6 DEF Linked
    <2> QED BY <1>7, <2>1, <2>2, <2>3, <2>4, <2>5
  <1>8. ASSUME NEW m \in J \ {Sentinel} PROVE \E p \in J : M[p] = m
    <2>1. m # Null OBVIOUS
    <2>2. CASE m \in O1
      <3>1. \E p \in D1 \cup O1 : p \in J /\ M1[p] = m BY <1>8, <2>1, <2>2, JointPrevious
      <3> QED BY <1>1, <3>1
    <2>3. CASE m \in O2
      <3>1. m \in ((L \cup O2) \ R2) \ {Sentinel} /\ D2 \cap D1 = {} /\ O2 \cap O1 = {}
        BY <1>8, <2>3
      <3>2. \E p \in D2 \cup O2 : p \in (L \cup O2 \cup O1) \ (R2 \cup R1) /\ M2[p] = m
        BY <2>1, <2>3, <3>1, JointPrevious
      <3> QED BY <1>1, <3>2
    <2>4. CASE m \in L
      <3>1. PICK a \in L : N[a] = m BY <1>8, <2>4 DEF Linked
      <3>2. CASE a \in D1
        <4>1. m \in ((L \cup O1) \ R1) \ {Sentinel} BY <1>8, <2>4
        <4>2. \E p \in D1 \cup O1 : p \in J /\ M1[p] = m
          BY <2>1, <3>1, <3>2, <4>1, JointPrevious
        <4> QED BY <1>1, <4>2
      <3>3. CASE a \in D2
        <4>1. m \in ((L \cup O2) \ R2) \ {Sentinel} /\ D2 \cap D1 = {} /\ O2 \cap O1 = {}
          BY <1>8, <2>4
        <4>2. \E p \in D2 \cup O2 : p \in (L \cup O2 \cup O1) \ (R2 \cup R1) /\ M2[p] = m
          BY <2>1, <3>1, <3>3, <4>1, JointPrevious
        <4> QED BY <1>1, <4>2
      <3>4. CASE a \notin D1 \cup D2 BY <3>1, <3>4 DEF Overlay
      <3> QED BY <3>2, <3>3, <3>4
    <2> QED BY <2>2, <2>3, <2>4
  <1> HIDE DEF J
  <1>9. Linked(J, M, K) BY <1>5, <1>6, <1>7, <1>8 DEF Linked
  <1> QED BY <1>9 DEF J

\* The node behind p is taken out.
LEMMA Unlink ==
  ASSUME NEW S, NEW N, NEW K, Linked(S, N, K), NEW p \in S, N[p] # Null, Null \notin S,
         \A n \in S : K[n] \in Int,
         NEW M, M[p] = N[N[p]], \A n \in S \ {p} : M[n] = N[n]
  PROVE  Linked(S \ {N[p]}, M, K)
  <1> DEFINE s == N[p]
             T == S \ {s}
  <1>1. s \in S \ {Sentinel} /\ (p # Sentinel => K[p] < K[s]) BY DEF Linked
  <1>2. s # p
    <2>1. CASE p = Sentinel BY <1>1, <2>1
    <2>2. CASE p # Sentinel BY <1>1, <2>2
    <2> QED BY <2>1, <2>2
  <1>3. N[s] # Null => N[s] \in S \ {Sentinel} /\ K[s] < K[N[s]] /\ N[s] # s
    BY <1>1 DEF Linked
  <1>4. Sentinel \in T BY <1>1 DEF Linked
  <1>5. \A n \in T : M[n] # Null =>
          M[n] \in T \ {Sentinel} /\ (n # Sentinel => K[n] < K[M[n]])
    <2>1. CASE N[s] # Null
      <3>1. p # Sentinel => K[p] < K[N[s]] BY <1>1, <1>3, <2>1
      <3> QED BY <1>1, <1>3, <3>1, <2>1 DEF Linked
    <2>2. CASE N[s] = Null BY <1>1, <2>2 DEF Linked
    <2> QED BY <2>1, <2>2
  <1>6. \A m, n \in T : M[m] = M[n] /\ M[m] # Null => m = n
    BY <1>1, <1>2 DEF Linked
  <1>7. \A m \in T \ {Sentinel} : \E n \in T : M[n] = m
    <2>1. SUFFICES ASSUME NEW m \in T \ {Sentinel} PROVE \E n \in T : M[n] = m OBVIOUS
    <2>2. PICK n \in S : N[n] = m BY DEF Linked
    <2>3. CASE n = s BY <1>1, <1>2, <2>2, <2>3
    <2>4. CASE n # s
      <3>1. n # p BY <2>1, <2>2
      <3> QED BY <2>2, <2>4, <3>1
    <2> QED BY <2>3, <2>4
  <1> HIDE DEF T
  <1>8. Linked(T, M, K) BY <1>4, <1>5, <1>6, <1>7 DEF Linked
  <1> QED BY <1>8 DEF T

\* A new node is linked in behind p.
LEMMA LinkIn ==
  ASSUME NEW S, NEW N, NEW K, Linked(S, N, K), NEW p \in S, NEW c, c \notin S, c # Null,
         Null \notin S,
         NEW M, NEW H, M[p] = c, M[c] = N[p], \A n \in S \ {p} : M[n] = N[n],
         \A n \in S : H[n] = K[n],
         p # Sentinel => H[p] < H[c], N[p] # Null => H[c] < H[N[p]]
  PROVE  Linked(S \cup {c}, M, H)
  <1> DEFINE s == N[p]
             T == S \cup {c}
  <1>1. s # Null => s \in S \ {Sentinel} BY DEF Linked
  <1>2. Sentinel \in T /\ c # Sentinel BY DEF Linked
  <1>3. \A n \in T : M[n] # Null =>
          M[n] \in T \ {Sentinel} /\ (n # Sentinel => H[n] < H[M[n]])
    <2>1. SUFFICES ASSUME NEW n \in T, M[n] # Null
                   PROVE  M[n] \in T \ {Sentinel} /\ (n # Sentinel => H[n] < H[M[n]])
      OBVIOUS
    <2>2. CASE n = p BY <1>2, <2>2
    <2>3. CASE n = c BY <1>1, <2>1, <2>3
    <2>4. CASE n \in S \ {p} BY <2>1, <2>4 DEF Linked
    <2> QED BY <2>2, <2>3, <2>4
  <1>4. \A m, n \in T : M[m] = M[n] /\ M[m] # Null => m = n
    <2>1. \A n \in S \ {p} : M[n] # c BY DEF Linked
    <2>2. \A n \in S \ {p} : s # Null => M[n] # s BY DEF Linked
    <2>3. \A m, n \in S \ {p} : M[m] = M[n] /\ M[m] # Null => m = n BY DEF Linked
    <2>4. s # c BY <1>1
    <2> QED BY <2>1, <2>2, <2>3, <2>4
  <1>5. \A m \in T \ {Sentinel} : \E n \in T : M[n] = m
    <2>1. SUFFICES ASSUME NEW m \in S \ {Sentinel} PROVE \E n \in T : M[n] = m OBVIOUS
    <2>2. PICK n \in S : N[n] = m BY DEF Linked
    <2> QED BY <2>2
  <1> HIDE DEF T
  <1>6. Linked(T, M, H) BY <1>2, <1>3, <1>4, <1>5 DEF Linked
  <1> QED BY <1>6 DEF T

-----------------------------------------------------------------------------
(* The decided list. *)

WriterUnique == \A u \in Thread, n \in Node : Pending(u, n) => Decided(n) /\ Writer(n) = u

\* Only one thread at a time has decided on a node.
LEMMA WriterOf == IInv => WriterUnique
  <1> SUFFICES ASSUME IInv, NEW u \in Thread, NEW n \in Node, Pending(u, n)
               PROVE  Decided(n) /\ Writer(n) = u
    BY DEF WriterUnique
  <1>1. \A v \in Thread : Pending(v, n) => v = u BY DEF IInv, Ownership, Pending
  <1> QED BY <1>1 DEF Writer, Decided

\* The decided list has the same for node n after the step.
Same(n) ==
    /\ DecidedNext(n)' = DecidedNext(n) /\ DecidedMark(n)' = DecidedMark(n)
    /\ DecidedVersion(n)' = DecidedVersion(n) /\ node'[n].key = node[n].key

\* Neither who has decided on n changes nor what it has decided, nor, if nobody has,
\* the node itself.
LEMMA SameDecision ==
  ASSUME IInv, IInv', NEW n \in Node,
         \A u \in Thread : Pending(u, n)' <=> Pending(u, n),
         \A u \in Thread : Pending(u, n) => txn'[u] = txn[u],
         ~Decided(n) => /\ node'[n].next = node[n].next
                        /\ lock'[n].deleted = lock[n].deleted /\ lock'[n].version = lock[n].version,
         node'[n].key = node[n].key
  PROVE  Same(n)
  <1>1. WriterUnique /\ WriterUnique'
    <2>1. (IInv => WriterUnique)' BY WriterOf, PTL
    <2> QED BY <2>1, WriterOf
  <1>2. CASE Decided(n)
    <2>1. PICK u \in Thread : Pending(u, n) BY <1>2 DEF Decided
    <2>2. Decided(n) /\ Writer(n) = u /\ Decided(n)' /\ Writer(n)' = u /\ txn'[u] = txn[u]
      BY <1>1, <2>1 DEF WriterUnique
    <2> QED BY <2>2 DEF Same, DecidedNext, DecidedMark, DecidedVersion, Decision
  <1>3. CASE ~Decided(n)
    <2>1. ~Decided(n)' BY <1>3 DEF Decided
    <2> QED BY <1>3, <2>1 DEF Same, DecidedNext, DecidedMark, DecidedVersion
  <1> QED BY <1>2, <1>3

\* Nobody has decided on a node that a thread hides.
LEMMA HiddenUndecided ==
  ASSUME IInv, NEW t \in Thread, NEW n \in Hidden(t)
  PROVE  ~Decided(n) /\ n \in txn[t].fresh /\ pc[t] \notin Committing /\ n \in Node \cap alloc
  <1>1. n \in txn[t].fresh /\ pc[t] \notin Committing BY DEF Hidden
  <1>2. \A u \in Thread \ {t} : n \notin held[u] BY DEF IInv, References, Refs
  <1>3. n \in Node \cap alloc BY <1>1 DEF IInv, References, Types, MemoryOK
  <1> QED BY <1>1, <1>2, <1>3 DEF Decided, Pending

\* The next node in the decided list exists, and is hidden only behind one's own.
LEMMA DecidedNextSeen ==
  ASSUME IInv, NEW n \in Node
  PROVE  /\ DecidedNext(n) \in alloc \cup {Null}
         /\ \A t \in Thread : n \notin txn[t].fresh => DecidedNext(n) \notin Hidden(t)
  <1>1. CASE Decided(n)
    <2>1. PICK u \in Thread : Pending(u, n) BY <1>1 DEF Decided
    <2>2. Writer(n) = u BY <2>1, WriterOf DEF WriterUnique
    <2>3. n \in DOMAIN txn[u].writeSet
      BY <2>1 DEF Pending, IInv, Ownership, HoldsOK
    <2>4. DecidedNext(n) \in Refs(u)
      BY <1>1, <2>2, <2>3 DEF DecidedNext, Decision, Refs
    <2>5. Hidden(u) = {} BY <2>1 DEF Pending, Hidden
    <2> QED BY <2>4, <2>5 DEF IInv, References
  <1>2. CASE ~Decided(n)
    BY <1>2 DEF DecidedNext, IInv, References
  <1> QED BY <1>1, <1>2

\* What thread u has to do with is nothing that thread t hides.
LEMMA NotHidden ==
  ASSUME IInv, NEW t \in Thread, NEW u \in Thread \ {t}
  PROVE  /\ Refs(u) \subseteq (alloc \ Hidden(t)) \cup {Null}
         /\ txn[u].fresh \subseteq alloc \ Hidden(t)
         /\ \A n \in Refs(u) \cap Node :
              /\ DecidedNext(n) \in (alloc \ Hidden(t)) \cup {Null}
              /\ node[n].next \in (alloc \ Hidden(t)) \cup {Null}
  <1>1. Refs(u) \subseteq (alloc \ Hidden(t)) \cup {Null} BY DEF IInv, References
  <1>2. txn[u].fresh \subseteq alloc \ Hidden(t) BY DEF IInv, References, Hidden
  <1>3. Null \notin alloc BY NodeAssumption DEF IInv, Types, MemoryOK
  <1>4. ASSUME NEW n \in Refs(u) \cap Node
        PROVE  /\ DecidedNext(n) \in (alloc \ Hidden(t)) \cup {Null}
               /\ node[n].next \in (alloc \ Hidden(t)) \cup {Null}
    <2>1. CASE n \in txn[t].fresh
      <3>1. Hidden(t) = {} BY <1>1, <1>3, <2>1, NodeAssumption DEF Hidden
      <3> QED BY <3>1, DecidedNextSeen DEF IInv, References
    <2>2. CASE n \notin txn[t].fresh BY <2>2, DecidedNextSeen DEF IInv, References
    <2> QED BY <2>1, <2>2
  <1> QED BY <1>1, <1>2, <1>4

\* The decided list has existing nodes that nobody hides.
LEMMA LiveNodes ==
  IInv => /\ Live \subseteq alloc /\ alloc \subseteq Node /\ Null \notin alloc
          /\ \A t \in Thread : Live \cap Hidden(t) = {}
  BY NodeAssumption DEF Live, Visible, IInv, Types, MemoryOK

\* Nodes appear and disappear only among those that t hides, and the others are
\* the same.
LEMMA SameLive ==
  ASSUME IInv, IInv', NEW t \in Thread,
         alloc' \ Hidden(t)' = alloc \ Hidden(t),
         \A u \in Thread \ {t} : Hidden(u)' = Hidden(u),
         \A n \in alloc \ Hidden(t) : Same(n)
  PROVE  Live' = Live
  <1>1. ASSUME NEW n
        PROVE  n \in alloc /\ Visible(n) <=> n \in alloc' /\ Visible(n)'
    BY DEF Visible
  <1>2. \A n \in alloc : Visible(n) => n \in alloc \ Hidden(t) BY DEF Visible
  <1>3. \A n \in alloc : Visible(n) =>
          (DecidedMark(n)' = DecidedMark(n) /\ node'[n].key = node[n].key)
    BY <1>2 DEF Same
  <1> QED BY <1>1, <1>3 DEF Live

-----------------------------------------------------------------------------
(* The list of a thread. *)

\* What thread u makes of the decided list stays the same if nothing it has to do
\* with changes.
LEMMA SameView ==
  ASSUME IInv, NEW u \in Thread, NEW S \in SUBSET Node, Live' = Live, Live \subseteq S,
         txn'[u].writeSet = txn[u].writeSet, txn'[u].fresh = txn[u].fresh,
         txn'[u].readVersion = txn[u].readVersion, Gone(u)' = Gone(u),
         Touched(u) \subseteq S, txn[u].fresh \subseteq S,
         \A n \in DOMAIN txn[u].writeSet : txn[u].writeSet[n].next \in S \cup {Null},
         \A n \in S : Same(n)
  PROVE  /\ View(u)' = View(u) /\ Touched(u)' = Touched(u) /\ Own(u)' = Own(u)
         /\ \A n \in S : /\ Old(u, n)' <=> Old(u, n)
                         /\ ViewNext(u)'[n] = ViewNext(u)[n]
         /\ Consistent(u)' <=> Consistent(u)
         /\ ViewOK(u) => ViewOK(u)'
         /\ \A n \in S \cup {Null} : Fine(u, n) => Fine(u, n)'
  <1>1. Own(u)' = Own(u) BY DEF Own, Same
  <1>2. Removed(u)' = Removed(u) /\ Touched(u)' = Touched(u) BY DEF Removed, Touched
  <1>3. View(u)' = View(u) BY <1>1, <1>2 DEF View
  <1>4. ASSUME NEW n \in S
        PROVE  /\ Old(u, n)' <=> Old(u, n)
               /\ ViewNext(u)'[n] = ViewNext(u)[n]
    BY DEF Old, ViewNext, Same, InWriteSet
  <1>5. Consistent(u)' <=> Consistent(u) BY <1>2, <1>4 DEF Consistent
  <1>6. \A n \in S \cup {Null} : Fine(u, n) => Fine(u, n)'
    BY <1>3, <1>4, <1>5 DEF Fine, Same
  <1>7. ASSUME ViewOK(u) PROVE ViewOK(u)'
    <2>1. SUFFICES ASSUME Consistent(u)
                   PROVE  /\ Touched(u)' \subseteq Live' \cup Own(u)'
                          /\ Linked(View(u), ViewNext(u)', KeyOf')
                          /\ \A n \in DOMAIN txn[u].writeSet : txn[u].writeSet[n].deleted =>
                              /\ txn[u].writeSet[n].next # Null
                              /\ node'[txn[u].writeSet[n].next].key = DefaultKey
      BY <1>3, <1>5 DEF ViewOK
    <2>2. Touched(u)' \subseteq Live' \cup Own(u)' BY <1>1, <1>2, <1>7, <2>1 DEF ViewOK
    <2>3. Linked(View(u), ViewNext(u)', KeyOf')
      <3>1. View(u) \subseteq S BY DEF View, Own
      <3>2. \A n \in View(u) : ViewNext(u)'[n] = ViewNext(u)[n] /\ KeyOf'[n] = KeyOf[n]
        BY <1>4, <3>1 DEF KeyOf, Same
      <3>3. Linked(View(u), ViewNext(u), KeyOf) BY <1>7, <2>1 DEF ViewOK
      <3> QED BY <3>2, <3>3, SameLinks
    <2>4. \A n \in DOMAIN txn[u].writeSet : txn[u].writeSet[n].deleted =>
                              /\ txn[u].writeSet[n].next # Null
                              /\ node'[txn[u].writeSet[n].next].key = DefaultKey
      BY <1>7, <2>1 DEF ViewOK, Same
    <2> QED BY <2>2, <2>3, <2>4
  <1> QED BY <1>1, <1>2, <1>3, <1>4, <1>5, <1>6, <1>7

-----------------------------------------------------------------------------
(* Steps that decide nothing. *)

\* A step of thread t that decides nothing: the others do not see it.
Silent(t) ==
    /\ \A u \in Thread \ {t} : /\ pc'[u] = pc[u] /\ txn'[u] = txn[u] /\ frame'[u] = frame[u]
                               /\ held'[u] = held[u] /\ todo'[u] = todo[u] /\ cur'[u] = cur[u]
    /\ alloc' \ Hidden(t)' = alloc \ Hidden(t)
    /\ \A n \in alloc \ Hidden(t) : Same(n) /\ node'[n].next \in {node[n].next, DecidedNext(n)}
    /\ \A n \in Node : Pending(t, n)' => Pending(t, n) /\ txn'[t].writeVersion = txn[t].writeVersion
    /\ gvc' = gvc

\* The decided list stays as it is.
LEMMA SilentMemory ==
  ASSUME IInv, IInv', NEW t \in Thread, Silent(t), Linked(Live, DecidedNexts, KeyOf)
  PROVE  Live' = Live /\ Linked(Live, DecidedNexts', KeyOf')
  <1>1. \A u \in Thread \ {t} : Hidden(u)' = Hidden(u) BY DEF Silent, Hidden
  <1>2. Live' = Live BY <1>1, SameLive DEF Silent
  <1>3. Live \subseteq alloc \ Hidden(t) /\ Live \subseteq Node BY LiveNodes
  <1>4. \A n \in Live : DecidedNexts'[n] = DecidedNexts[n] /\ KeyOf'[n] = KeyOf[n]
    BY <1>3 DEF Silent, Same, DecidedNexts, KeyOf
  <1> QED BY <1>2, <1>4, SameLinks

\* Where another thread is stays right.
LEMMA SilentPlace ==
  ASSUME IInv, NEW u \in Thread, ThreadShape(u), NEW S \in SUBSET Node,
         pc[u] \in Running, pc'[u] = pc[u], txn'[u] = txn[u], frame'[u] = frame[u],
         Refs(u) \subseteq S \cup {Null},
         \A n \in S : /\ Same(n) /\ node'[n].next \in {node[n].next, DecidedNext(n)}
                      /\ Old(u, n)' <=> Old(u, n)
                      /\ ViewNext(u)'[n] = ViewNext(u)[n]
                      /\ Visible(n) => Visible(n)'
                      /\ Settled(u, n) => Settled(u, n)',
         View(u)' = View(u), Consistent(u)' <=> Consistent(u),
         \A n \in S \cup {Null} : Fine(u, n) => Fine(u, n)',
         \A n \in Refs(u) \cap Node : {DecidedNext(n), node[n].next} \subseteq S \cup {Null}
  PROVE  PredecessorOK(u)' /\ SuccessorOK(u)' /\ PlaceFound(u)'
  <1> DEFINE f == frame[u]
  <1>1. FrameFits(pc[u], f) /\ f \in Frame(f.results) BY DEF IInv, Types, ThreadOK, FrameFits
  <1>2. {f.pred, f.succ, f.at} \subseteq Refs(u) BY DEF Refs
  <1>3. pc[u] \in Placed => f.pred \in S
    <2>1. pc[u] \in Placed => f.pred \in Node BY <1>1 DEF FrameFits
    <2> QED BY <1>2, <2>1, NodeAssumption
  <1>4. pc[u] \in AtNode => f.at \in S /\ f.at \in Node
    <2>1. pc[u] \in AtNode => f.at \in Node BY <1>1 DEF FrameFits
    <2> QED BY <1>2, <2>1, NodeAssumption
  <1>5. f.succ \in S \cup {Null} BY <1>2
  <1>6. pc[u] \in AtFound \/ f.removing => f.succ \in S
    <2>1. pc[u] \in AtFound \/ f.removing => f.succ \in Node BY <1>1 DEF FrameFits
    <2> QED BY <1>2, <2>1, NodeAssumption
  <1>7. Between(u)' <=> Between(u) BY DEF Between
  <1>8. Between(u) => pc[u] \in Placed BY DEF Between, Placed, AtNode
  <1>9. PredecessorOK(u)'
    <2>1. pc[u] \in Placed => node'[f.pred].key = node[f.pred].key BY <1>3 DEF Same
    <2>2. pc[u] \in {"predecessorVersion", "predecessorDeleted"} => Visible(f.pred)'
      BY <1>3 DEF ThreadShape, PredecessorOK, Placed
    <2>3. pc[u] = "predecessorDeleted" => Settled(u, f.pred)'
      BY <1>3 DEF ThreadShape, PredecessorOK, Placed
    <2>4. pc[u] \in AtNode \/ Between(u) => (Consistent(u)' /\ Old(u, f.pred)' => f.pred \in View(u)')
      BY <1>3, <1>8 DEF ThreadShape, PredecessorOK, Placed, AtNode
    <2> QED BY <1>7, <2>1, <2>2, <2>3, <2>4 DEF ThreadShape, PredecessorOK, Placed
  <1>10. SuccessorOK(u)'
    <2>1. pc[u] \in {"successorVersion", "successorNext"} => ~InWriteSet(u, f.at)'
      BY DEF ThreadShape, SuccessorOK, InWriteSet
    <2>2. pc[u] = "successorNext" => Settled(u, f.at)'
      BY <1>4 DEF ThreadShape, SuccessorOK, AtNode
    <2>3. ASSUME pc[u] = "successorNext", ~f.removing
          PROVE  (Fine(u, DecidedNext(frame[u].at)) /\ Fine(u, node[frame[u].at].next))'
      <3>1. f.at \in S /\ f.at \in Refs(u) \cap Node BY <1>2, <1>4, <2>3 DEF AtNode
      <3>2. /\ DecidedNext(f.at)' = DecidedNext(f.at)
            /\ node'[f.at].next \in {node[f.at].next, DecidedNext(f.at)}
        BY <3>1 DEF Same
      <3>3. Fine(u, DecidedNext(f.at)) /\ Fine(u, node[f.at].next)
        BY <2>3 DEF ThreadShape, SuccessorOK
      <3>4. DecidedNext(f.at) \in S \cup {Null} /\ node[f.at].next \in S \cup {Null}
        BY <3>1
      <3> QED BY <3>2, <3>3, <3>4
    <2> QED BY <2>1, <2>2, <2>3 DEF ThreadShape, SuccessorOK
  <1>11. PlaceFound(u)'
    <2>1. f.succ # Null => node'[f.succ].key = node[f.succ].key BY <1>5 DEF Same
    <2>2. Between(u) => Fine(u, f.succ)' BY <1>5 DEF ThreadShape, PlaceFound
    <2>3. Between(u) => (Consistent(u)' /\ Old(u, f.pred)' => ViewNext(u)'[f.pred] = f.succ)
      BY <1>3, <1>8 DEF ThreadShape, PlaceFound
    <2>4. pc[u] \in AtFound \/ (pc[u] \in AtNode /\ f.removing) => node'[f.succ].key = f.op.key
      BY <1>6 DEF ThreadShape, PlaceFound, Same
    <2>5. pc[u] \in {"removePredecessor", "insertDeleted"} =>
            (Consistent(u)' /\ Old(u, f.succ)' => ViewNext(u)'[f.succ] = f.link)
      BY <1>6 DEF ThreadShape, PlaceFound, AtFound
    <2> QED BY <1>7, <2>1, <2>2, <2>3, <2>4, <2>5 DEF ThreadShape, PlaceFound
  <1> QED BY <1>9, <1>10, <1>11

\* What another thread has to do stays right.
LEMMA SilentOther ==
  ASSUME IInv, IInv', ListInv, NEW t \in Thread, Silent(t), NEW u \in Thread \ {t},
         pc[u] \in Running
  PROVE  ThreadShape(u)'
  <1> DEFINE S == alloc \ Hidden(t)
  <1>1. ThreadShape(u) BY DEF ListInv
  <1>2. Live' = Live /\ Live \subseteq S /\ S \in SUBSET Node
    BY SilentMemory, LiveNodes DEF ListInv, ListMemory
  <1>3. /\ Refs(u) \subseteq S \cup {Null} /\ txn[u].fresh \subseteq S
        /\ \A n \in Refs(u) \cap Node : {DecidedNext(n), node[n].next} \subseteq S \cup {Null}
    BY NotHidden
  <1>4. /\ pc'[u] = pc[u] /\ txn'[u] = txn[u] /\ frame'[u] = frame[u]
        /\ held'[u] = held[u] /\ todo'[u] = todo[u] /\ cur'[u] = cur[u]
    BY DEF Silent
  <1>5. Gone(u)' = Gone(u) BY <1>4 DEF Gone
  <1>6. DOMAIN txn[u].writeSet \subseteq S /\ Touched(u) \subseteq S
        /\ \A n \in DOMAIN txn[u].writeSet : txn[u].writeSet[n].next \in S \cup {Null}
    <2>1. DOMAIN txn[u].writeSet \subseteq Node BY DEF IInv, Types, ThreadOK, TxnTyped
    <2>2. Gone(u) \subseteq Node
      BY DEF IInv, Types, ThreadOK, FrameFits, Gone, AtFound
    <2>3. Gone(u) \cup DOMAIN txn[u].writeSet \subseteq Refs(u) BY DEF Gone, Refs
    <2>4. \A n \in DOMAIN txn[u].writeSet : txn[u].writeSet[n].next \in Refs(u) BY DEF Refs
    <2> QED BY <1>3, <2>1, <2>2, <2>3, <2>4, NodeAssumption DEF Touched
  <1>7. \A n \in S : Same(n) /\ node'[n].next \in {node[n].next, DecidedNext(n)} BY DEF Silent
  <1> HIDE DEF S
  <1>8. /\ View(u)' = View(u)
        /\ \A n \in S : /\ Old(u, n)' <=> Old(u, n)
                        /\ ViewNext(u)'[n] = ViewNext(u)[n]
        /\ Consistent(u)' <=> Consistent(u)
        /\ ViewOK(u) => ViewOK(u)'
        /\ \A n \in S \cup {Null} : Fine(u, n) => Fine(u, n)'
    BY <1>2, <1>3, <1>4, <1>5, <1>6, <1>7, SameView
  <1>9. \A n \in S : Visible(n) => Visible(n)'
    <2>1. \A v \in Thread \ {t} : Hidden(v)' = Hidden(v) BY DEF Silent, Hidden
    <2>2. \A n \in S : n \notin Hidden(t)' BY DEF Silent, S
    <2> QED BY <2>1, <2>2 DEF Visible
  <1>10. \A n \in S : Settled(u, n) => Settled(u, n)'
    <2>1. SUFFICES ASSUME NEW n \in S, Settled(u, n), NEW v \in Thread, Pending(v, n)'
                   PROVE  txn'[v].writeVersion > txn[u].readVersion
      BY <1>4 DEF Settled
    <2>2. Pending(v, n) /\ txn'[v].writeVersion = txn[v].writeVersion
      BY <1>2, <2>1 DEF Silent, Pending
    <2> QED BY <2>1, <2>2 DEF Settled
  <1>11. PredecessorOK(u)' /\ SuccessorOK(u)' /\ PlaceFound(u)'
    BY <1>1, <1>2, <1>3, <1>4, <1>7, <1>8, <1>9, <1>10, SilentPlace
  <1>12. Checked(u)'
    BY <1>1, <1>4, <1>6, <1>8 DEF ThreadShape, Checked
  <1> QED BY <1>1, <1>8, <1>11, <1>12 DEF ThreadShape

-----------------------------------------------------------------------------
(* A decision. *)

\* What IncrementWriteVersion does.
LEMMA Decides ==
  ASSUME IInv, NEW t \in Thread, PassValidation(t)
  PROVE  /\ pc[t] = "validate" /\ todo[t] = {} /\ pc'[t] = "write"
         /\ DOMAIN txn[t].writeSet = held[t] /\ held[t] \subseteq Node
         /\ UNCHANGED <<lock, node, alloc, index, held, cur, frame>> /\ gvc' = gvc + 1
         /\ \A u \in Thread \ {t} : pc'[u] = pc[u] /\ txn'[u] = txn[u] /\ todo'[u] = todo[u]
         /\ txn'[t].writeSet = txn[t].writeSet /\ txn'[t].fresh = txn[t].fresh
         /\ txn'[t].writeVersion = gvc + 1 /\ txn'[t].readVersion = txn[t].readVersion
         /\ todo'[t] = DOMAIN txn[t].writeSet
         /\ Hidden(t) = txn[t].fresh /\ Hidden(t)' = {}
         /\ \A u \in Thread \ {t} : Hidden(u)' = Hidden(u)
  <1>1. /\ pc[t] = "validate" /\ todo[t] = {} /\ gvc' = gvc + 1
        /\ UNCHANGED <<lock, node, alloc, index, held, cur, frame>>
        /\ todo' = [todo EXCEPT ![t] = DOMAIN txn[t].writeSet]
        /\ txn' = [txn EXCEPT ![t].readSet = {}, ![t].writeVersion = gvc + 1]
        /\ pc' = [pc EXCEPT ![t] = "write"]
    BY DEF PassValidation, IncrementWriteVersion, Visit, Goto
  <1>2. TxnTyped(txn[t]) /\ held[t] \subseteq Node /\ DOMAIN txn[t].writeSet = held[t]
    BY <1>1, Committer DEF IInv, Ownership, HoldsOK, Holding, Validating
  <1>3. /\ pc'[t] = "write" /\ \A u \in Thread \ {t} : pc'[u] = pc[u]
        /\ todo'[t] = DOMAIN txn[t].writeSet /\ \A u \in Thread \ {t} : todo'[u] = todo[u]
        /\ \A u \in Thread \ {t} : txn'[u] = txn[u]
        /\ txn'[t] = [txn[t] EXCEPT !.readSet = {}, !.writeVersion = gvc + 1]
    BY <1>1 DEF IInv, Types, CommitOK
  <1>4. /\ txn'[t].writeSet = txn[t].writeSet /\ txn'[t].fresh = txn[t].fresh
        /\ txn'[t].writeVersion = gvc + 1 /\ txn'[t].readVersion = txn[t].readVersion
    BY <1>2, <1>3 DEF TxnTyped, Txn
  <1>5. Hidden(t) = txn[t].fresh /\ Hidden(t)' = {}
        /\ \A u \in Thread \ {t} : Hidden(u)' = Hidden(u)
    <2>1. pc[t] = "validate" BY <1>1
    <2>2. Hidden(t) = txn[t].fresh BY <2>1 DEF Hidden, Committing
    <2>3. Hidden(t)' = {} BY <1>3 DEF Hidden, Committing
    <2>4. \A u \in Thread \ {t} : Hidden(u)' = Hidden(u) BY <1>3 DEF Hidden
    <2> QED BY <2>2, <2>3, <2>4
  <1> QED BY <1>1, <1>2, <1>3, <1>4, <1>5

\* A transaction that passes its validation is consistent.
LEMMA DeciderConsistent ==
  ASSUME IInv, ListInv, NEW t \in Thread, PassValidation(t)
  PROVE  Consistent(t) /\ ViewOK(t) /\ Gone(t) = {} /\ Touched(t) = held[t]
  <1>1. /\ pc[t] = "validate" /\ todo[t] = {} /\ DOMAIN txn[t].writeSet = held[t] BY Decides
  <1>2. ThreadShape(t) BY <1>1 DEF ListInv, Running, Validating
  <1>3. Gone(t) = {} /\ Touched(t) = held[t] BY <1>1 DEF Gone, Touched
  <1> QED BY <1>1, <1>2, <1>3 DEF ThreadShape, Checked, Consistent, Validating

\* The decided list becomes what the transaction has made of it, all at once.
LEMMA DecideNodes ==
  ASSUME IInv, IInv', ListInv, NEW t \in Thread, PassValidation(t), NEW n \in Node
  PROVE  /\ n \notin held[t] => Same(n)
         /\ n \in held[t] => /\ DecidedNext(n)' = txn[t].writeSet[n].next
                             /\ DecidedMark(n)' = txn[t].writeSet[n].deleted
                             /\ DecidedVersion(n)' = gvc + 1
         /\ DecidedNexts'[n] = ViewNext(t)[n]
  <1>1. /\ pc[t] = "validate" /\ pc'[t] = "write" /\ DOMAIN txn[t].writeSet = held[t]
        /\ UNCHANGED <<lock, node, alloc, held>>
        /\ \A u \in Thread \ {t} : pc'[u] = pc[u] /\ txn'[u] = txn[u]
        /\ txn'[t].writeSet = txn[t].writeSet /\ txn'[t].writeVersion = gvc + 1
    BY Decides
  <1>2. n \notin held[t] => Same(n)
    <2>1. SUFFICES ASSUME n \notin held[t] PROVE Same(n) OBVIOUS
    <2>2. \A u \in Thread : Pending(u, n)' <=> Pending(u, n) BY <1>1, <2>1 DEF Pending
    <2>3. \A u \in Thread : Pending(u, n) => txn'[u] = txn[u] BY <1>1, <2>1 DEF Pending
    <2> QED BY <1>1, <2>2, <2>3, SameDecision
  <1>3. n \in held[t] => /\ DecidedNext(n)' = txn[t].writeSet[n].next
                         /\ DecidedMark(n)' = txn[t].writeSet[n].deleted
                         /\ DecidedVersion(n)' = gvc + 1
    <2>1. (IInv => WriterUnique)' BY WriterOf, PTL
    <2>2. n \in held[t] => Pending(t, n)' BY <1>1 DEF Pending, Committing
    <2>3. n \in held[t] => Decided(n)' /\ Writer(n)' = t BY <2>1, <2>2 DEF WriterUnique
    <2> QED BY <1>1, <2>3 DEF DecidedNext, DecidedMark, DecidedVersion, Decision
  <1>4. DecidedNexts'[n] = DecidedNext(n)' BY DEF DecidedNexts
  <1>5. ViewNext(t)[n] = IF n \in held[t] THEN txn[t].writeSet[n].next ELSE DecidedNext(n)
    BY <1>1 DEF ViewNext, InWriteSet
  <1>6. DecidedNexts'[n] = ViewNext(t)[n] BY <1>2, <1>3, <1>4, <1>5 DEF Same
  <1> QED BY <1>2, <1>3, <1>6

\* The decision makes the list that the transaction has in mind the decided one.
LEMMA DecideLive ==
  ASSUME IInv, IInv', ListInv, NEW t \in Thread, PassValidation(t)
  PROVE  Live' = View(t)
  <1>1. /\ UNCHANGED <<lock, node, alloc, held>> /\ DOMAIN txn[t].writeSet = held[t]
        /\ Hidden(t) = txn[t].fresh /\ Hidden(t)' = {}
        /\ \A u \in Thread \ {t} : Hidden(u)' = Hidden(u)
    BY Decides
  <1>2. /\ Gone(t) = {} /\ Touched(t) = held[t] /\ held[t] \subseteq Live \cup Own(t)
    BY DeciderConsistent DEF ViewOK
  <1>3. Removed(t) = {n \in held[t] : txn[t].writeSet[n].deleted}
    BY <1>1, <1>2 DEF Removed
  <1>4. alloc \subseteq Node /\ Live \subseteq alloc BY LiveNodes
  <1>5. txn[t].fresh \subseteq alloc \ {Sentinel} /\ \A u \in Thread \ {t} : txn[t].fresh \cap Hidden(u) = {}
    BY DEF IInv, References, Hidden
  <1>6. ASSUME NEW n \in Live' PROVE n \in View(t)
    <2>1. /\ n \in alloc /\ (n = Sentinel \/ node[n].key # DefaultKey) /\ ~DecidedMark(n)'
          /\ Visible(n)'
      BY <1>1 DEF Live
    <2>2. CASE n \in held[t]
      <3>1. ~txn[t].writeSet[n].deleted BY <1>4, <2>1, <2>2, DecideNodes
      <3> QED BY <1>2, <1>3, <2>2, <3>1 DEF View
    <2>3. CASE n \notin held[t]
      <3>1. ~DecidedMark(n) BY <1>4, <2>1, <2>3, DecideNodes DEF Same
      <3>2. CASE n \in txn[t].fresh BY <1>3, <1>5, <2>1, <2>3, <3>2 DEF View, Own
      <3>3. CASE n \notin txn[t].fresh
        <4>1. Visible(n) BY <1>1, <2>1, <3>3 DEF Visible
        <4> QED BY <1>3, <2>1, <2>3, <3>1, <4>1 DEF View, Live
      <3> QED BY <3>2, <3>3
    <2> QED BY <2>2, <2>3
  <1>7. ASSUME NEW n \in View(t) PROVE n \in Live'
    <2>1. n \in Live \cup Own(t) /\ n \notin Removed(t) BY DEF View
    <2>2. n \in alloc /\ (n = Sentinel \/ node[n].key # DefaultKey) /\ Visible(n)'
      <3>1. CASE n \in Live BY <1>1, <3>1 DEF Live, Visible
      <3>2. CASE n \in Own(t) BY <1>1, <1>5, <3>2 DEF Own, Visible
      <3> QED BY <2>1, <3>1, <3>2
    <2>3. ~DecidedMark(n)'
      <3>1. CASE n \in held[t] BY <1>3, <1>4, <2>1, <2>2, <3>1, DecideNodes
      <3>2. CASE n \notin held[t]
        <4>1. DecidedMark(n)' = DecidedMark(n) BY <1>4, <2>2, <3>2, DecideNodes DEF Same
        <4>2. CASE n \in Live BY <4>1, <4>2 DEF Live
        <4>3. CASE n \in Own(t)
          <5>1. n \in Hidden(t) BY <1>1, <4>3 DEF Own
          <5>2. ~Decided(n) BY <5>1, HiddenUndecided
          <5>3. ~lock[n].deleted BY <5>1 DEF ListInv, ListMemory
          <5> QED BY <4>1, <5>2, <5>3 DEF DecidedMark
        <4> QED BY <2>1, <4>2, <4>3
      <3> QED BY <3>1, <3>2
    <2> QED BY <1>1, <2>2, <2>3 DEF Live
  <1> QED BY <1>6, <1>7

\* The new decided list is a list.
LEMMA DecideMemory ==
  ASSUME IInv, IInv', ListInv, NEW t \in Thread, PassValidation(t)
  PROVE  Linked(Live', DecidedNexts', KeyOf')
  <1>1. Live' = View(t) BY DecideLive
  <1>2. View(t) \subseteq Node
    <2>1. Live \subseteq Node BY LiveNodes
    <2>2. Own(t) \subseteq Node BY DEF Own, IInv, References, Types, MemoryOK
    <2> QED BY <2>1, <2>2 DEF View
  <1>3. \A n \in View(t) : DecidedNexts'[n] = ViewNext(t)[n] /\ KeyOf'[n] = KeyOf[n]
    BY <1>2, DecideNodes, Decides DEF KeyOf
  <1>4. Linked(View(t), ViewNext(t), KeyOf) BY DeciderConsistent DEF ViewOK
  <1> QED BY <1>1, <1>3, <1>4, SameLinks

\* The list of a thread lies over the decided list.
LEMMA ViewOverlay ==
  ASSUME IInv, NEW t \in Thread, pc[t] \in Running, ViewOK(t), Consistent(t)
  PROVE  Overlay(Live, DecidedNexts, KeyOf, Own(t), Touched(t), Removed(t), ViewNext(t))
  <1>1. Hidden(t) = txn[t].fresh
    BY DEF Hidden, Running, Operating, Placed, Validating, Committing
  <1>2. Own(t) \cap Live = {} BY <1>1, LiveNodes DEF Own
  <1>3. Touched(t) \subseteq Live \cup Own(t) BY DEF ViewOK
  <1>4. Removed(t) \subseteq Touched(t) BY DEF Removed, Touched
  <1>5. \A n \in (Live \cup Own(t)) \ Touched(t) : ViewNext(t)[n] = DecidedNexts[n]
    <2>1. Live \subseteq Node BY LiveNodes
    <2>2. Own(t) \subseteq Node BY DEF Own, IInv, References, Types, MemoryOK
    <2> QED BY <2>1, <2>2 DEF ViewNext, DecidedNexts, Touched, InWriteSet
  <1>6. Linked((Live \cup Own(t)) \ Removed(t), ViewNext(t), KeyOf) BY DEF ViewOK, View
  <1> QED BY <1>2, <1>3, <1>4, <1>5, <1>6 DEF Overlay

\* Another transaction that is consistent still had nothing to do with the nodes that
\* have been decided on.
LEMMA OldAfter ==
  ASSUME IInv, IInv', ListInv, NEW t \in Thread, PassValidation(t), NEW u \in Thread \ {t},
         pc[u] \in Running, NEW n \in Node, Old(u, n)'
  PROVE  Old(u, n) /\ n \notin held[t] /\ Same(n)
  <1>1. txn'[u] = txn[u] BY Decides
  <1>2. CASE n \in txn[u].fresh
    <2>1. n \in Hidden(u) BY <1>2 DEF Hidden, Running, Operating, Placed, Validating, Committing
    <2>2. n \notin held[t] BY <2>1 DEF IInv, References, Refs
    <2> QED BY <1>2, <2>2, DecideNodes DEF Old
  <1>3. CASE n \notin txn[u].fresh
    <2>1. DecidedVersion(n)' <= txn[u].readVersion BY <1>1, <1>3 DEF Old
    <2>2. txn[u].readVersion <= gvc BY DEF ListInv, ListMemory
    <2>3. gvc \in Nat /\ txn[u].readVersion \in Nat
      BY DEF IInv, Types, MemoryOK, ThreadOK, TxnTyped, Txn
    <2>4. n \notin held[t]
      <3>1. SUFFICES ASSUME n \in held[t] PROVE FALSE OBVIOUS
      <3>2. DecidedVersion(n)' = gvc + 1 BY <3>1, DecideNodes
      <3> QED BY <2>1, <2>2, <2>3, <3>2
    <2>5. Same(n) BY <2>4, DecideNodes
    <2> QED BY <2>1, <2>4, <2>5 DEF Same, Old
  <1> QED BY <1>2, <1>3

\* Two transactions that have changed different nodes do not disturb each other: the
\* list of the one lies over the list that the other has decided.
LEMMA DecideView ==
  ASSUME IInv, IInv', ListInv, NEW t \in Thread, PassValidation(t), NEW u \in Thread \ {t},
         pc[u] \in Running
  PROVE  /\ Consistent(u)' => Consistent(u) /\ Touched(u) \cap held[t] = {}
         /\ ViewOK(u)' /\ Own(u)' = Own(u) /\ Removed(u)' = Removed(u)
         /\ View(u) \ held[t] \subseteq View(u)'
  <1>1. /\ txn'[u] = txn[u] /\ pc'[u] = pc[u] /\ UNCHANGED <<node, frame, alloc, lock>>
    BY Decides
  <1>2. Own(u)' = Own(u) /\ Removed(u)' = Removed(u) /\ Touched(u)' = Touched(u)
    BY <1>1 DEF Own, Removed, Touched, Gone
  <1>3. /\ DOMAIN txn[u].writeSet \subseteq Node /\ Touched(u) \subseteq Node
        /\ Live \subseteq Node /\ txn[u].fresh \subseteq Node
        /\ Null \notin Node
    <2>1. DOMAIN txn[u].writeSet \subseteq Node BY DEF IInv, Types, ThreadOK, TxnTyped
    <2>2. Gone(u) \subseteq Node
      BY DEF IInv, Types, ThreadOK, FrameFits, Gone, AtFound
    <2>3. txn[u].fresh \subseteq Node BY DEF IInv, References, Types, MemoryOK
    <2> QED BY <2>1, <2>2, <2>3, LiveNodes, NodeAssumption DEF Touched
  <1>4. Consistent(u)' => Consistent(u) /\ Touched(u) \cap held[t] = {}
    BY <1>2, <1>3, OldAfter DEF Consistent
  <1>5. /\ Consistent(t) /\ ViewOK(t) /\ Gone(t) = {} /\ Touched(t) = held[t]
        /\ pc[t] = "validate" /\ pc[t] \in Running
    BY DeciderConsistent, Decides DEF Running, Validating
  <1>6. Removed(t) \subseteq held[t] BY <1>5 DEF Removed, Touched
  <1>7. Live' = (Live \cup Own(t)) \ Removed(t) BY DecideLive DEF View
  <1>8. View(u) \ held[t] \subseteq View(u)' BY <1>2, <1>6, <1>7 DEF View
  <1>9. /\ Own(t) \subseteq txn[t].fresh /\ Own(u) \subseteq txn[u].fresh
        /\ txn[t].fresh \cap txn[u].fresh = {} /\ Null \notin txn[t].fresh \cup txn[u].fresh
        /\ held[t] \cap Own(u) = {}
    <2>1. txn[t].fresh \cap txn[u].fresh = {} /\ txn[t].fresh \subseteq alloc BY DEF IInv, References
    <2>2. held[t] \cap txn[u].fresh = {}
      <3>1. Hidden(u) = txn[u].fresh
        BY DEF Hidden, Running, Operating, Placed, Validating, Committing
      <3> QED BY <3>1 DEF IInv, References, Refs
    <2> QED BY <1>3, <2>1, <2>2, LiveNodes DEF Own
  <1>10. ASSUME Consistent(u)' PROVE Linked(View(u)', ViewNext(u)', KeyOf')
    <2>1. Consistent(u) /\ Touched(u) \cap held[t] = {} /\ ViewOK(u)
      BY <1>4, <1>10 DEF ListInv, ThreadShape
    <2> DEFINE L == Live
               N == DecidedNexts
               O1 == Own(t)
               D1 == Touched(t)
               R1 == Removed(t)
               M1 == ViewNext(t)
               O2 == Own(u)
               D2 == Touched(u)
               R2 == Removed(u)
               M2 == ViewNext(u)
               M == ViewNext(u)'
    <2>2. Linked(L, N, KeyOf) BY DEF ListInv, ListMemory
    <2>3. Overlay(L, N, KeyOf, O1, D1, R1, M1) BY <1>5, ViewOverlay
    <2>4. Overlay(L, N, KeyOf, O2, D2, R2, M2) BY <2>1, ViewOverlay
    <2>5. D1 \cap D2 = {} /\ O1 \cap O2 = {} /\ Null \notin O1 \cup O2 /\ Null \notin L
      BY <1>3, <1>5, <1>9, <2>1
    <2>6. /\ \A n \in held[t] \ DOMAIN txn[u].writeSet : M[n] = M1[n]
          /\ \A n \in DOMAIN txn[u].writeSet : M[n] = M2[n]
          /\ \A n \in Node \ (held[t] \cup DOMAIN txn[u].writeSet) : M[n] = N[n] /\ M2[n] = N[n]
      <3>1. \A n \in Node : M[n] = IF n \in DOMAIN txn[u].writeSet THEN txn[u].writeSet[n].next
                                   ELSE DecidedNext(n)'
        BY <1>1 DEF ViewNext, InWriteSet
      <3>2. \A n \in Node : DecidedNext(n)' = M1[n] BY DecideNodes DEF DecidedNexts
      <3>3. \A n \in Node \ held[t] : DecidedNext(n)' = DecidedNext(n)
        BY DecideNodes DEF Same
      <3>4. held[t] \subseteq Node BY Decides
      <3> QED BY <1>3, <3>1, <3>2, <3>3, <3>4 DEF ViewNext, InWriteSet, DecidedNexts
    <2>7. /\ \A n \in D1 : M[n] = M1[n]
          /\ \A n \in D2 : M[n] = M2[n]
          /\ \A n \in (L \cup O1 \cup O2) \ (D1 \cup D2) : M[n] = N[n]
      <3>1. DOMAIN txn[u].writeSet \subseteq Touched(u) BY DEF Touched
      <3>2. L \cup O1 \cup O2 \subseteq Node
        BY <1>3, <1>9 DEF IInv, References, Types, MemoryOK
      <3>3. \A n \in D1 : M[n] = M1[n] BY <1>5, <2>1, <2>6, <3>1
      <3>4. \A n \in D2 : M[n] = M2[n] BY <1>3, <1>5, <2>1, <2>6
      <3>5. \A n \in (L \cup O1 \cup O2) \ (D1 \cup D2) : M[n] = N[n]
        BY <1>5, <2>6, <3>1, <3>2
      <3> QED BY <3>3, <3>4, <3>5
    <2>8. View(u)' = (L \cup O1 \cup O2) \ (R1 \cup R2)
      BY <1>2, <1>6, <1>7, <1>9 DEF View
    <2>9. KeyOf' = KeyOf BY <1>1 DEF KeyOf
    <2> HIDE DEF L, N, O1, D1, R1, M1, O2, D2, R2, M2, M
    <2>10. Linked((L \cup O1 \cup O2) \ (R1 \cup R2), M, KeyOf)
      BY <2>2, <2>3, <2>4, <2>5, <2>7, JointList
    <2> QED BY <2>8, <2>9, <2>10 DEF M
  <1>11. Consistent(u)' => Touched(u)' \subseteq Live' \cup Own(u)'
    <2>1. Consistent(u)' => Touched(u) \subseteq Live \cup Own(u)
      BY <1>4 DEF ListInv, ThreadShape, ViewOK
    <2> QED BY <1>2, <1>4, <1>6, <1>7, <2>1
  <1>12. Consistent(u)' => \A n \in DOMAIN txn'[u].writeSet : txn'[u].writeSet[n].deleted =>
           txn'[u].writeSet[n].next # Null /\ node'[txn'[u].writeSet[n].next].key = DefaultKey
    BY <1>1, <1>4 DEF ListInv, ThreadShape, ViewOK
  <1>13. ViewOK(u)' BY <1>10, <1>11, <1>12 DEF ViewOK
  <1> QED BY <1>2, <1>4, <1>8, <1>13

\* Where another thread is stays right as a transaction is decided.
LEMMA DecideOther ==
  ASSUME IInv, IInv', ListInv, NEW t \in Thread, PassValidation(t), NEW u \in Thread \ {t},
         pc[u] \in Running
  PROVE  ThreadShape(u)'
  <1> DEFINE f == frame[u]
  <1>1. /\ txn'[u] = txn[u] /\ pc'[u] = pc[u] /\ frame' = frame /\ node' = node /\ held' = held
        /\ todo'[u] = todo[u] /\ cur' = cur /\ alloc' = alloc
        /\ \A v \in Thread : Hidden(v)' \subseteq Hidden(v)
    BY Decides
  <1>2. ThreadShape(u) BY DEF ListInv
  <1>3. /\ Consistent(u)' => Consistent(u) /\ Touched(u) \cap held[t] = {}
        /\ ViewOK(u)' /\ Own(u)' = Own(u) /\ Removed(u)' = Removed(u)
        /\ View(u) \ held[t] \subseteq View(u)'
    BY DecideView
  <1>4. FrameFits(pc[u], f) /\ f \in Frame(f.results) BY DEF IInv, Types, ThreadOK, FrameFits
  <1>5. pc[u] \in Placed => f.pred \in Node BY <1>4 DEF FrameFits
  <1>6. pc[u] \in AtNode => f.at \in Node BY <1>4 DEF FrameFits
  <1>7. f.succ \in Node \cup {Null} /\ (pc[u] \in AtFound \/ f.removing => f.succ \in Node)
    BY <1>4 DEF FrameFits, Frame, Link
  <1>8. Between(u)' <=> Between(u) BY <1>1 DEF Between
  <1>9. Between(u) => pc[u] \in Placed BY DEF Between, Placed, AtNode
  <1>10. ASSUME NEW n \in Node, Consistent(u)', Old(u, n)'
         PROVE  /\ Consistent(u) /\ Old(u, n) /\ n \notin held[t]
                /\ ViewNext(u)'[n] = ViewNext(u)[n] /\ (n \in View(u) => n \in View(u)')
    <2>1. Old(u, n) /\ n \notin held[t] /\ Same(n) BY <1>10, OldAfter
    <2> QED BY <1>1, <1>3, <1>10, <2>1 DEF ViewNext, InWriteSet, Same
  <1>11. \A n \in Node \cup {Null} : Fine(u, n) => Fine(u, n)'
    BY <1>1, <1>10 DEF Fine
  <1>12. \A n \in Node : Settled(u, n) => Settled(u, n)'
    <2>1. SUFFICES ASSUME NEW n \in Node, Settled(u, n), NEW v \in Thread, Pending(v, n)'
                   PROVE  txn'[v].writeVersion > txn[u].readVersion
      BY <1>1 DEF Settled
    <2>2. CASE v = t
      <3>1. txn'[t].writeVersion = gvc + 1 BY Decides
      <3>2. txn[u].readVersion <= gvc BY DEF ListInv, ListMemory
      <3>3. gvc \in Nat /\ txn[u].readVersion \in Nat
        BY DEF IInv, Types, MemoryOK, ThreadOK, TxnTyped, Txn
      <3> QED BY <2>2, <3>1, <3>2, <3>3
    <2>3. CASE v # t
      <3>1. txn'[v] = txn[v] /\ pc'[v] = pc[v] BY <2>3, Decides
      <3> QED BY <1>1, <2>1, <3>1 DEF Settled, Pending
    <2> QED BY <2>2, <2>3
  <1>13. PredecessorOK(u)'
    <2>1. pc[u] \in AtNode \/ Between(u) => (Consistent(u)' /\ Old(u, f.pred)' => f.pred \in View(u)')
      BY <1>1, <1>2, <1>5, <1>9, <1>10 DEF ThreadShape, PredecessorOK, Placed, AtNode
    <2>2. Visible(f.pred) => Visible(f.pred)' BY <1>1 DEF Visible
    <2>3. pc[u] = "predecessorDeleted" => Settled(u, f.pred)'
      BY <1>1, <1>2, <1>5, <1>12 DEF ThreadShape, PredecessorOK, Placed
    <2> QED BY <1>1, <1>2, <1>8, <2>1, <2>2, <2>3 DEF ThreadShape, PredecessorOK
  <1>14. SuccessorOK(u)'
    <2>1. pc[u] = "successorNext" => Settled(u, f.at)'
      BY <1>1, <1>2, <1>6, <1>12 DEF ThreadShape, SuccessorOK, AtNode
    <2>2. ASSUME pc[u] = "successorNext", ~f.removing
          PROVE  (Fine(u, DecidedNext(frame[u].at)) /\ Fine(u, node[frame[u].at].next))'
      <3> DEFINE n == f.at
                 m == txn[t].writeSet[n].next
      <3>1. n \in Node BY <1>6, <2>2 DEF AtNode
      <3>2. Fine(u, DecidedNext(n)) /\ Fine(u, node[n].next) /\ ~InWriteSet(u, n)
        BY <1>2, <2>2 DEF ThreadShape, SuccessorOK
      <3>3. DecidedNext(n) \in Node \cup {Null} /\ node[n].next \in Node \cup {Null}
        BY <3>1, DecidedNextSeen, LiveNodes DEF IInv, Types, MemoryOK, Link
      <3>4. CASE n \notin held[t]
        <4>1. DecidedNext(n)' = DecidedNext(n) BY <1>1, <3>1, <3>4, DecideNodes DEF Same
        <4> QED BY <1>1, <1>11, <3>2, <3>3, <4>1
      <3>5. CASE n \in held[t]
        <4>0. txn'[t].writeSet = txn[t].writeSet BY Decides
        <4>1. DecidedNext(n)' = m BY <4>0, <1>1, <3>1, <3>5, DecideNodes
        <4>2. DOMAIN txn[t].writeSet = held[t] /\ Gone(t) = {} /\ Touched(t) = held[t]
              /\ Consistent(t) /\ ViewOK(t)
          BY Decides, DeciderConsistent
        <4>3. Fine(u, m)'
          <5>1. SUFFICES ASSUME Consistent(u)', m # Null
                         PROVE  m \in View(u)' \/ node[m].key = DefaultKey
            BY <1>1, <4>0 DEF Fine
          <5>2. CASE txn[t].writeSet[n].deleted BY <3>5, <4>2, <5>2 DEF ViewOK
          <5>3. CASE ~txn[t].writeSet[n].deleted
            <6>1. n \in View(t) BY <3>5, <4>2, <5>3 DEF ViewOK, View, Removed
            <6>2. n \notin Removed(u) BY <1>3, <3>5, <5>1 DEF Removed, Touched
            <6>3. n \in View(u)' BY <1>3, <6>1, <6>2, DecideLive DEF View
            <6>4. ViewNext(u)'[n] = m BY <1>1, <3>1, <3>2, <4>1 DEF ViewNext, InWriteSet
            <6>5. Linked(View(u)', ViewNext(u)', KeyOf') BY <1>3, <5>1 DEF ViewOK
            <6> QED BY <5>1, <6>3, <6>4, <6>5 DEF Linked
          <5> QED BY <5>2, <5>3
        <4> QED BY <1>1, <4>0, <1>11, <3>2, <3>3, <4>1, <4>3
      <3> QED BY <3>4, <3>5
    <2> QED BY <1>1, <1>2, <2>1, <2>2 DEF ThreadShape, SuccessorOK, InWriteSet
  <1>15. PlaceFound(u)'
    <2>1. Between(u) => Fine(u, f.succ)' BY <1>1, <1>2, <1>7, <1>11 DEF ThreadShape, PlaceFound
    <2>2. Between(u) => (Consistent(u)' /\ Old(u, f.pred)' => ViewNext(u)'[f.pred] = f.succ)
      BY <1>1, <1>2, <1>5, <1>9, <1>10 DEF ThreadShape, PlaceFound
    <2>3. pc[u] \in {"removePredecessor", "insertDeleted"} =>
            (Consistent(u)' /\ Old(u, f.succ)' => ViewNext(u)'[f.succ] = f.link)
      BY <1>1, <1>2, <1>7, <1>10 DEF ThreadShape, PlaceFound, AtFound
    <2> QED BY <1>1, <1>2, <1>8, <2>1, <2>2, <2>3 DEF ThreadShape, PlaceFound
  <1>16. Checked(u)'
    <2>1. ASSUME NEW n \in DOMAIN txn[u].writeSet, pc[u] \in Validating, Old(u, n) PROVE Old(u, n)'
      <3>1. n \in held[u] BY <2>1 DEF IInv, Ownership, HoldsOK
      <3>2. n \notin held[t] /\ n \in Node BY <3>1 DEF IInv, Ownership, Types, CommitOK
      <3>3. Same(n) BY <3>2, DecideNodes
      <3> QED BY <1>1, <2>1, <3>3 DEF Old, Same
    <2> QED BY <1>1, <1>2, <2>1 DEF ThreadShape, Checked, Validating
  <1> QED BY <1>3, <1>13, <1>14, <1>15, <1>16 DEF ThreadShape

-----------------------------------------------------------------------------
(* Steps that leave the nodes alone. *)

\* Who holds a node has its mark and its links to itself.
LEMMA SilentWritten ==
  ASSUME IInv, ListInv, NEW t \in Thread, Silent(t), NEW u \in Thread \ {t},
         \A n \in held[u] : /\ node'[n].next = node[n].next /\ lock'[n].deleted = lock[n].deleted
                            /\ lock'[n].version = lock[n].version
  PROVE  Written(u)'
  <1>1. Written(u) BY DEF ListInv, ListMemory
  <1>2. /\ pc'[u] = pc[u] /\ txn'[u] = txn[u] /\ held'[u] = held[u] /\ todo'[u] = todo[u]
        /\ cur'[u] = cur[u]
    BY DEF Silent
  <1> QED BY <1>1, <1>2 DEF Written

\* A step that decides nothing keeps the invariant if it is right for its own thread.
LEMMA SilentStep ==
  ASSUME IInv, IInv', ListInv, NEW t \in Thread, Silent(t),
         \A u \in Thread \ {t} : \A n \in held[u] :
            /\ node'[n].next = node[n].next /\ lock'[n].deleted = lock[n].deleted
            /\ lock'[n].version = lock[n].version,
         Written(t)', txn'[t].readVersion <= gvc, \A n \in Hidden(t)' : ~lock'[n].deleted,
         \A k \in Key : index'[k] # Null => node'[index'[k]].key = k,
         pc'[t] \in Running => ThreadShape(t)'
  PROVE  ListInv'
  <1>1. Live' = Live /\ Linked(Live, DecidedNexts', KeyOf')
    BY SilentMemory DEF ListInv, ListMemory
  <1>2. node'[Sentinel].key = DefaultKey
    <2>1. Sentinel \in Live BY DEF ListInv, ListMemory, Linked
    <2>2. Same(Sentinel) BY <2>1, LiveNodes DEF Silent
    <2> QED BY <2>2 DEF Same, ListInv, ListMemory
  <1>3. ASSUME NEW u \in Thread
        PROVE  /\ Written(u)' /\ txn'[u].readVersion <= gvc'
               /\ \A n \in Hidden(u)' : ~lock'[n].deleted
    <2>1. CASE u = t BY <2>1 DEF Silent
    <2>2. CASE u # t
      <3>1. Written(u)' BY <2>2, SilentWritten
      <3>2. txn'[u].readVersion <= gvc' BY <2>2 DEF Silent, ListInv, ListMemory
      <3>3. ASSUME NEW n \in Hidden(u)' PROVE ~lock'[n].deleted
        <4>1. n \in Hidden(u) BY <2>2, <3>3 DEF Silent, Hidden
        <4>2. ~lock[n].deleted /\ ~Decided(n) BY <4>1, HiddenUndecided DEF ListInv, ListMemory
        <4>3. n \in txn[u].fresh /\ txn[u].fresh \subseteq alloc \ Hidden(t)
          BY <2>2, <4>1, HiddenUndecided, NotHidden
        <4>4. DecidedMark(n)' = DecidedMark(n) BY <4>3 DEF Silent, Same
        <4>5. ~Decided(n)'
          <5>1. n \in txn'[u].fresh /\ pc'[u] \notin Committing
            BY <3>3 DEF Hidden
          <5>2. \A v \in Thread \ {u} : n \notin held'[v]
            BY <3>3 DEF IInv, References, Refs
          <5> QED BY <5>1, <5>2 DEF Decided, Pending
        <4> QED BY <4>2, <4>4, <4>5 DEF DecidedMark
      <3> QED BY <3>1, <3>2, <3>3
    <2> QED BY <2>1, <2>2
  <1>4. ListMemory' BY <1>1, <1>2, <1>3 DEF ListMemory
  <1>5. ASSUME NEW u \in Thread, pc'[u] \in Running PROVE ThreadShape(u)'
    <2>1. CASE u = t BY <1>5, <2>1
    <2>2. CASE u # t BY <1>5, <2>2, SilentOther DEF Silent
    <2> QED BY <2>1, <2>2
  <1> QED BY <1>4, <1>5 DEF ListInv

\* A step of thread t that writes to no node.
Quiet(t) ==
    /\ UNCHANGED <<gvc, node, alloc, index>> /\ Alone(t)
    /\ \A u \in Thread \ {t} : held'[u] = held[u] /\ todo'[u] = todo[u] /\ cur'[u] = cur[u]
    /\ pc[t] \notin Committing /\ pc'[t] \notin Committing
    /\ \A n \in Node : lock'[n].deleted = lock[n].deleted /\ lock'[n].version = lock[n].version

\* It changes nothing in the decided list.
LEMMA QuietSame ==
  ASSUME IInv, IInv', NEW t \in Thread, Quiet(t), Hidden(t)' = Hidden(t)
  PROVE  /\ Silent(t) /\ Live' = Live /\ \A n \in Node : Same(n) /\ (Visible(n) => Visible(n)')
  <1>1. \A n \in Node : \A u \in Thread : Pending(u, n)' <=> Pending(u, n)
    BY DEF Quiet, Alone, Pending
  <1>2. \A n \in Node : \A u \in Thread : Pending(u, n) => txn'[u] = txn[u]
    BY DEF Quiet, Alone, Pending
  <1>3. \A n \in Node : Same(n)
    <2>1. SUFFICES ASSUME NEW n \in Node PROVE Same(n) OBVIOUS
    <2>2. node'[n].next = node[n].next /\ node'[n].key = node[n].key
          /\ lock'[n].deleted = lock[n].deleted /\ lock'[n].version = lock[n].version
      BY DEF Quiet
    <2> QED BY <1>1, <1>2, <2>2, SameDecision
  <1>4. \A u \in Thread \ {t} : Hidden(u)' = Hidden(u) BY DEF Quiet, Alone, Hidden
  <1>5. alloc \subseteq Node BY LiveNodes
  <1>6. Silent(t)
    <2>1. \A n \in Node : ~Pending(t, n)' BY DEF Quiet, Pending
    <2> QED BY <1>3, <1>5, <2>1 DEF Silent, Quiet, Alone
  <1>7. Live' = Live BY <1>3, <1>4, <1>5, SameLive DEF Quiet
  <1>8. \A n \in Node : Visible(n) => Visible(n)' BY <1>4 DEF Visible
  <1> QED BY <1>3, <1>6, <1>7, <1>8

\* It keeps the invariant if it is right for its own thread.
LEMMA QuietShape ==
  ASSUME IInv, IInv', ListInv, NEW t \in Thread, Quiet(t), Hidden(t)' = Hidden(t),
         txn'[t].readVersion <= gvc, pc'[t] \in Running => ThreadShape(t)'
  PROVE  ListInv'
  <1>1. Silent(t) BY QuietSame
  <1>2. \A u \in Thread \ {t} : held[u] \subseteq Node BY DEF IInv, Types, CommitOK
  <1>3. \A u \in Thread \ {t} : \A n \in held[u] :
            /\ node'[n].next = node[n].next /\ lock'[n].deleted = lock[n].deleted
            /\ lock'[n].version = lock[n].version
    BY <1>2 DEF Quiet
  <1>4. Written(t)' BY DEF Written, Quiet
  <1>5. \A n \in Hidden(t)' : ~lock'[n].deleted
    <2>1. Hidden(t) \subseteq Node BY HiddenUndecided
    <2> QED BY <2>1 DEF Quiet, ListInv, ListMemory
  <1>6. \A k \in Key : index'[k] # Null => node'[index'[k]].key = k
    BY DEF Quiet, ListInv, ListMemory
  <1> QED BY <1>1, <1>3, <1>4, <1>5, <1>6, SilentStep

\* Nor in what the thread makes of it, if it leaves its write set alone.
LEMMA QuietView ==
  ASSUME IInv, IInv', NEW t \in Thread, Quiet(t), Hidden(t)' = Hidden(t),
         txn'[t].writeSet = txn[t].writeSet, txn'[t].fresh = txn[t].fresh,
         txn'[t].readVersion = txn[t].readVersion, Gone(t)' = Gone(t)
  PROVE  /\ View(t)' = View(t) /\ Touched(t)' = Touched(t) /\ Own(t)' = Own(t)
         /\ \A n \in Node : /\ Old(t, n)' <=> Old(t, n)
                            /\ ViewNext(t)'[n] = ViewNext(t)[n]
                            /\ Settled(t, n) => Settled(t, n)'
         /\ Consistent(t)' <=> Consistent(t)
         /\ ViewOK(t) => ViewOK(t)'
         /\ \A n \in Node \cup {Null} : Fine(t, n) => Fine(t, n)'
  <1>1. Live' = Live /\ \A n \in Node : Same(n) BY QuietSame
  <1>2. /\ Live \subseteq Node /\ Touched(t) \subseteq Node /\ txn[t].fresh \subseteq Node
        /\ \A n \in DOMAIN txn[t].writeSet : txn[t].writeSet[n].next \in Node \cup {Null}
    <2>1. DOMAIN txn[t].writeSet \subseteq Node BY DEF IInv, Types, ThreadOK, TxnTyped
    <2>2. Gone(t) \subseteq Node
      BY DEF IInv, Types, ThreadOK, FrameFits, Gone, AtFound
    <2>3. txn[t].fresh \subseteq Node BY DEF IInv, References, Types, MemoryOK
    <2>4. \A n \in DOMAIN txn[t].writeSet : txn[t].writeSet[n] \in WriteSetElement
      BY DEF IInv, Types, ThreadOK, TxnTyped, Txn
    <2> QED BY <2>1, <2>2, <2>3, <2>4, LiveNodes DEF Touched, WriteSetElement
  <1>3. \A n \in Node : Settled(t, n) => Settled(t, n)'
    BY DEF Settled, Pending, Quiet, Alone
  <1> DEFINE S == Node
  <1>4. S \in SUBSET Node OBVIOUS
  <1> QED BY <1>1, <1>2, <1>3, <1>4, SameView

-----------------------------------------------------------------------------
(* The steps, and the list. *)

\* A step of an operation that only reads.
LEMMA OperationQuiet ==
  ASSUME IInv, IInv', NEW t \in Thread, UNCHANGED <<sharedVars, commitVars>>,
         pc[t] \in Running, NEW label \in Running \cup {"abort", "fault"}, Goto(t, label),
         DOMAIN txn' = Thread, DOMAIN frame' = Thread,
         \A u \in Thread \ {t} : txn'[u] = txn[u] /\ frame'[u] = frame[u],
         txn'[t].fresh = txn[t].fresh
  PROVE  Quiet(t) /\ pc'[t] = label /\ Hidden(t)' = Hidden(t)
  <1>1. pc'[t] = label /\ \A u \in Thread \ {t} : pc'[u] = pc[u]
    BY DEF Goto, IInv, Types
  <1>2. Alone(t) BY <1>1 DEF Alone, IInv, Types
  <1>3. pc[t] \notin Committing /\ pc'[t] \notin Committing
    BY <1>1 DEF Running, Operating, Placed, Validating, Committing
  <1>4. Hidden(t)' = Hidden(t)
    BY <1>1 DEF Hidden, Running, Operating, Placed, Validating, Committing
  <1> QED BY <1>1, <1>2, <1>3, <1>4 DEF Quiet, sharedVars, commitVars

\* Between operations, and in the validation, a thread has no place in the list.
LEMMA NoPlace ==
  ASSUME NEW t \in Thread, pc'[t] \in {"next", "lock"} \cup Validating,
         pc'[t] = "next" => ~frame'[t].removing, ViewOK(t)', Checked(t)'
  PROVE  ThreadShape(t)'
  <1>1. pc'[t] \notin Searching \cup Placed \cup AtNode \cup AtFound /\ ~Between(t)'
    BY DEF Searching, Placed, AtNode, AtFound, Validating, Between
  <1>2. PredecessorOK(t)' BY <1>1 DEF PredecessorOK, Searching, Placed, Validating
  <1>3. SuccessorOK(t)' BY <1>1 DEF SuccessorOK, AtNode
  <1>4. PlaceFound(t)' BY <1>1 DEF PlaceFound, AtFound
  <1> QED BY <1>2, <1>3, <1>4 DEF ThreadShape

\* Of a node that is old for t, and that nobody who decided before t began is still
\* writing to, the memory has what has been decided.
LEMMA SettledOld ==
  ASSUME IInv, NEW t \in Thread, pc[t] \in Running, NEW n \in Node, Settled(t, n), Old(t, n)
  PROVE  ~Decided(n)
  <1>1. Hidden(t) = txn[t].fresh
    BY DEF Hidden, Running, Operating, Placed, Validating, Committing
  <1>2. CASE n \in txn[t].fresh BY <1>1, <1>2, HiddenUndecided
  <1>3. CASE n \notin txn[t].fresh
    <2>1. SUFFICES ASSUME NEW u \in Thread, Pending(u, n) PROVE FALSE BY DEF Decided
    <2>2. Decided(n) /\ Writer(n) = u BY <2>1, WriterOf DEF WriterUnique
    <2>3. txn[u].writeVersion <= txn[t].readVersion
      BY <1>3, <2>2 DEF Old, DecidedVersion
    <2>4. txn[u].writeVersion > txn[t].readVersion BY <2>1 DEF Settled
    <2>5. txn[u].writeVersion \in Nat /\ txn[t].readVersion \in Nat
      BY DEF IInv, Types, ThreadOK, TxnTyped, Txn
    <2> QED BY <2>3, <2>4, <2>5
  <1> QED BY <1>2, <1>3

\* Nobody is writing to a node that is not locked.
LEMMA UnlockedUndecided ==
  ASSUME IInv, NEW n \in Node, ~lock[n].locked
  PROVE  ~Decided(n) /\ \A t \in Thread : Settled(t, n)
  BY DEF IInv, Ownership, Decided, Pending, Settled

-----------------------------------------------------------------------------

\* A transaction begins with the decided list.
LEMMA BeginShape ==
  ASSUME IInv, IInv', ListInv, NEW t \in Thread, Begin(t)
  PROVE  ListInv'
  <1>1. /\ pc[t] = "idle" /\ UNCHANGED <<sharedVars, commitVars, frame>> /\ Goto(t, "next")
        /\ txn' = [txn EXCEPT ![t] = [txn[t] EXCEPT !.active = TRUE, !.readVersion = gvc]]
    BY DEF Begin, LocalTxnPrologue
  <1>2. txn[t] = EmptyTxn /\ frame[t] = EmptyFrame BY <1>1 DEF IInv, Types, ThreadOK
  <1>3. pc'[t] = "next" /\ Alone(t) BY <1>1 DEF Goto, Alone, IInv, Types, TxnLabel
  <1>4. /\ txn'[t].writeSet = <<>> /\ txn'[t].fresh = {} /\ txn[t].fresh = {}
        /\ txn'[t].readVersion = gvc
    BY <1>1, <1>2 DEF EmptyTxn, IInv, Types
  <1>5. Quiet(t) /\ Hidden(t)' = Hidden(t)
    BY <1>1, <1>3, <1>4 DEF Quiet, Hidden, sharedVars, commitVars, Committing
  <1>6. DOMAIN txn'[t].writeSet = {} BY <1>4
  <1>7. ViewOK(t)'
    <2>1. Gone(t)' = {} /\ Own(t)' = {} /\ Removed(t)' = {} /\ Touched(t)' = {}
      BY <1>3, <1>4, <1>6 DEF Gone, Own, Removed, Touched
    <2>2. View(t)' = Live' BY <2>1 DEF View
    <2>3. ViewNext(t)' = DecidedNexts' BY <1>6 DEF ViewNext, DecidedNexts, InWriteSet
    <2>4. Linked(Live', DecidedNexts', KeyOf')
      BY <1>5, QuietSame, SilentMemory DEF ListInv, ListMemory
    <2> QED BY <1>6, <2>1, <2>2, <2>3, <2>4 DEF ViewOK
  <1>8. Checked(t)' BY <1>3, <1>6 DEF Checked, Validating
  <1>9. ~frame'[t].removing BY <1>1, <1>2 DEF EmptyFrame
  <1>10. ThreadShape(t)' BY <1>3, <1>7, <1>8, <1>9, NoPlace
  <1>11. gvc \in Nat BY DEF IInv, Types, MemoryOK
  <1> QED BY <1>4, <1>5, <1>10, <1>11, QuietShape

\* A step that reads, with the list of the thread as it was.
LEMMA ReadShape ==
  ASSUME IInv, IInv', ListInv, NEW t \in Thread, UNCHANGED <<sharedVars, commitVars>>,
         pc[t] \in Running, NEW label \in Running \cup {"abort", "fault"}, Goto(t, label),
         pc[t] # "removeSuccessor", label # "removeSuccessor",
         DOMAIN txn' = Thread, DOMAIN frame' = Thread,
         \A u \in Thread \ {t} : txn'[u] = txn[u] /\ frame'[u] = frame[u],
         txn'[t].writeSet = txn[t].writeSet, txn'[t].fresh = txn[t].fresh,
         txn'[t].readVersion = txn[t].readVersion, txn[t].readSet \subseteq txn'[t].readSet
  PROVE  /\ pc'[t] = label /\ ThreadShape(t)
         /\ View(t)' = View(t)
         /\ \A n \in Node : /\ Old(t, n)' <=> Old(t, n)
                            /\ ViewNext(t)'[n] = ViewNext(t)[n]
                            /\ Settled(t, n) => Settled(t, n)'
                            /\ Visible(n) => Visible(n)'
                            /\ DecidedNext(n)' = DecidedNext(n)
         /\ Consistent(t)' <=> Consistent(t)
         /\ ViewOK(t)'
         /\ \A n \in Node \cup {Null} : Fine(t, n) => Fine(t, n)'
         /\ DOMAIN txn'[t].writeSet \subseteq txn'[t].readSet
         /\ ThreadShape(t)' \/ label \notin Running => ListInv'
  <1>1. Quiet(t) /\ pc'[t] = label /\ Hidden(t)' = Hidden(t) BY OperationQuiet
  <1>2. Gone(t)' = Gone(t) BY <1>1 DEF Gone
  <1>3. ThreadShape(t) BY DEF ListInv
  <1>4. \A n \in Node : Same(n) /\ (Visible(n) => Visible(n)') BY <1>1, QuietSame
  <1>5. DOMAIN txn'[t].writeSet \subseteq txn'[t].readSet
    BY <1>3 DEF ThreadShape, Checked
  <1>6. txn'[t].readVersion <= gvc BY DEF ListInv, ListMemory
  <1>7. ThreadShape(t)' \/ label \notin Running => ListInv' BY <1>1, <1>6, QuietShape
  <1>8. /\ View(t)' = View(t)
        /\ \A n \in Node : /\ Old(t, n)' <=> Old(t, n)
                           /\ ViewNext(t)'[n] = ViewNext(t)[n]
                           /\ Settled(t, n) => Settled(t, n)'
        /\ Consistent(t)' <=> Consistent(t)
        /\ ViewOK(t) => ViewOK(t)'
        /\ \A n \in Node \cup {Null} : Fine(t, n) => Fine(t, n)'
    BY <1>1, <1>2, QuietView
  <1>9. \A n \in Node : DecidedNext(n)' = DecidedNext(n) BY <1>4 DEF Same
  <1>10. ViewOK(t)' BY <1>3, <1>8 DEF ThreadShape
  <1> QED BY <1>1, <1>3, <1>4, <1>5, <1>7, <1>8, <1>9, <1>10

-----------------------------------------------------------------------------
(* TraverseTo. *)

\* Between operations a thread keeps its list and what it has read.
LEMMA ExecuteShape ==
  ASSUME IInv, IInv', ListInv, NEW t \in Thread, Execute(t)
  PROVE  ListInv'
  <1> DEFINE op == Job(t).body[Len(Results(t)) + 1]
             label == IF op.kind = "Throw" THEN "fault" ELSE "findPrevious"
  <1>1. /\ pc[t] = "next" /\ UNCHANGED <<sharedVars, commitVars, txn>> /\ Goto(t, label)
        /\ frame' = [frame EXCEPT ![t].op = op, ![t].cand = op.key]
    BY DEF Execute, CallOperation, operatorVars
  <1>2. /\ pc[t] \in Running /\ label \in Running \cup {"abort", "fault"}
        /\ label # "removeSuccessor" /\ pc[t] # "removeSuccessor"
    BY <1>1 DEF Running, Operating
  <1>3. /\ DOMAIN frame' = Thread /\ DOMAIN txn' = Thread
        /\ \A u \in Thread \ {t} : txn'[u] = txn[u] /\ frame'[u] = frame[u]
        /\ frame'[t] = [frame[t] EXCEPT !.op = op, !.cand = op.key]
    BY <1>1 DEF IInv, Types
  <1>4. frame[t] \in Frame(frame[t].results) BY DEF IInv, Types, ThreadOK, FrameFits
  <1>5. frame'[t].op = op /\ frame'[t].cand = op.key /\ frame'[t].removing = frame[t].removing
    BY <1>3, <1>4 DEF Frame
  <1>6. /\ pc'[t] = label /\ ThreadShape(t) /\ ViewOK(t)'
        /\ DOMAIN txn'[t].writeSet \subseteq txn'[t].readSet
        /\ ThreadShape(t)' \/ label \notin Running => ListInv'
    BY <1>1, <1>2, <1>3, ReadShape
  <1>7. CASE op.kind = "Throw"
    BY <1>6, <1>7 DEF Running, Operating, Placed, Validating
  <1>8. CASE op.kind # "Throw"
    <2>1. pc'[t] = "findPrevious" BY <1>6, <1>8
    <2>2. op.key \in Key
      <3>1. frame'[t].op \in Operation
        BY <2>1 DEF IInv, Types, ThreadOK, FrameFits, Operating
      <3> QED BY <1>5, <3>1 DEF Operation
    <2>3. PredecessorOK(t)'
      <3>1. ~frame[t].removing BY <1>1, <1>6 DEF ThreadShape, PredecessorOK
      <3>2. op.key \in Int BY <2>2, KeyAssumption
      <3>3. op.key <= op.key BY <3>2
      <3> QED BY <1>5, <2>1, <2>2, <3>1, <3>3
          DEF PredecessorOK, Searching, Placed, AtNode, Between
    <2>4. SuccessorOK(t)' BY <2>1 DEF SuccessorOK, AtNode
    <2>5. PlaceFound(t)' BY <2>1 DEF PlaceFound, Between, AtNode, AtFound
    <2>6. Checked(t)' BY <1>6, <2>1 DEF Checked, Validating
    <2> QED BY <1>6, <2>3, <2>4, <2>5, <2>6 DEF ThreadShape
  <1> QED BY <1>7, <1>8

\* The largest entry of the index below a key.
LEMMA PreviousBelow ==
  ASSUME Types, NEW k \in Key
  PROVE  \/ GetPrevious(k) = Sentinel
         \/ \E j \in Key : index[j] # Null /\ j < k /\ GetPrevious(k) = index[j]
  <1> DEFINE below == {j \in Key : index[j] # Null /\ j < k}
  <1>1. CASE below = {} BY <1>1 DEF GetPrevious
  <1>2. CASE below # {}
    <2>1. \E j \in below : \A i \in below : i <= j BY <1>2, KeyOrderAssumption
    <2>2. (CHOOSE j \in below : \A i \in below : i <= j) \in below BY <2>1
    <2> QED BY <1>2, <2>2 DEF GetPrevious
  <1> QED BY <1>1, <1>2

\* The search starts in front of the key.
LEMMA FindPreviousShape ==
  ASSUME IInv, IInv', ListInv, NEW t \in Thread, FindPrevious(t)
  PROVE  ListInv'
  <1> DEFINE label == "predecessorVersion"
             f == frame[t]
             p == GetPrevious(f.cand)
  <1>1. /\ pc[t] = "findPrevious" /\ UNCHANGED <<sharedVars, commitVars, txn>> /\ Goto(t, label)
        /\ frame' = [frame EXCEPT ![t].pred = p]
    BY DEF FindPrevious, operatorVars
  <1>2. pc[t] \in Running /\ label \in Running BY <1>1 DEF Running, Operating, Placed
  <1>3. /\ DOMAIN frame' = Thread /\ DOMAIN txn' = Thread
        /\ \A u \in Thread \ {t} : txn'[u] = txn[u] /\ frame'[u] = frame[u]
        /\ frame'[t] = [frame[t] EXCEPT !.pred = p]
    BY <1>1 DEF IInv, Types
  <1>4. f \in Frame(f.results) /\ f.op \in Operation
    BY <1>1 DEF IInv, Types, ThreadOK, FrameFits, Operating
  <1>5. /\ frame'[t].op = f.op /\ frame'[t].cand = f.cand /\ frame'[t].removing = f.removing
        /\ frame'[t].pred = p
    BY <1>3, <1>4 DEF Frame
  <1>6. /\ pc'[t] = label /\ ThreadShape(t) /\ ViewOK(t)'
        /\ DOMAIN txn'[t].writeSet \subseteq txn'[t].readSet
        /\ \A n \in Node : Visible(n) => Visible(n)'
        /\ ThreadShape(t)' => ListInv'
    BY <1>1, <1>2, <1>3, ReadShape
  <1>7. ~f.removing /\ f.cand \in Key /\ f.cand <= f.op.key
    BY <1>1, <1>6 DEF ThreadShape, PredecessorOK, Searching
  <1>8. PredecessorOK(t)'
    <2>1. p \in Node /\ Visible(p) /\ (p = Sentinel \/ (node[p].key \in Key /\ node[p].key < f.cand))
      <3>1. CASE p = Sentinel BY <3>1, NodeAssumption DEF Visible, IInv, References, Hidden
      <3>2. CASE p # Sentinel
        <4>1. PICK j \in Key : index[j] # Null /\ j < f.cand /\ p = index[j]
          BY <1>7, <3>2, PreviousBelow DEF IInv
        <4>2. node[p].key = j BY <4>1 DEF ListInv, ListMemory
        <4>3. Visible(p) BY <4>1 DEF IInv, References, Visible
        <4>4. p \in Node BY <4>1 DEF IInv, Types, MemoryOK, Link
        <4> QED BY <4>1, <4>2, <4>3, <4>4
      <3> QED BY <3>1, <3>2
    <2>2. node' = node BY <1>1 DEF sharedVars
    <2>3. node[p].key \in Key /\ node[p].key < f.cand => node[p].key < f.op.key
      <3>1. f.op.key \in Int /\ f.cand \in Int BY <1>4, <1>7, KeyAssumption DEF Operation
      <3>2. node[p].key \in Key => node[p].key \in Int BY KeyAssumption
      <3> QED BY <1>7, <3>1, <3>2
    <2>4. p = Sentinel \/ (node'[p].key \in Key /\ node'[p].key < f.op.key)
      BY <2>1, <2>2, <2>3
    <2>5. Visible(frame[t].pred)' BY <1>5, <2>1, <1>6
    <2> QED BY <1>5, <1>6, <1>7, <2>1, <2>4, <2>5 DEF PredecessorOK, Searching, AtNode, Between
  <1>9. SuccessorOK(t)' BY <1>6 DEF SuccessorOK, AtNode
  <1>10. PlaceFound(t)' BY <1>6 DEF PlaceFound, Between, AtNode, AtFound
  <1>11. Checked(t)' BY <1>6 DEF Checked, Validating
  <1> QED BY <1>6, <1>8, <1>9, <1>10, <1>11 DEF ThreadShape

\* The predecessor is not locked: whoever decides on it later decides after the
\* transaction began.
LEMMA PredecessorVersionShape ==
  ASSUME IInv, IInv', ListInv, NEW t \in Thread, PredecessorVersion(t)
  PROVE  ListInv'
  <1> DEFINE f == frame[t]
             p == f.pred
             ok == ValidVersionAndReleased(lock[p], ReadVersion(t))
             label == IF ok THEN "predecessorDeleted" ELSE "abort"
  <1>1. /\ pc[t] = "predecessorVersion" /\ UNCHANGED <<sharedVars, commitVars, txn, frame>>
        /\ Goto(t, label)
    BY DEF PredecessorVersion, operatorVars
  <1>2. pc[t] \in Running /\ label \in Running \cup {"abort", "fault"} /\ label # "removeSuccessor"
    BY <1>1 DEF Running, Operating, Placed
  <1>3. DOMAIN frame' = Thread /\ DOMAIN txn' = Thread BY <1>1 DEF IInv, Types
  <1>4. p \in Node BY <1>1 DEF IInv, Types, ThreadOK, FrameFits, Placed
  <1>5. /\ pc'[t] = label /\ ThreadShape(t) /\ ViewOK(t)'
        /\ DOMAIN txn'[t].writeSet \subseteq txn'[t].readSet
        /\ \A n \in Node : (Visible(n) => Visible(n)') /\ (Settled(t, n) => Settled(t, n)')
        /\ ThreadShape(t)' \/ label \notin Running => ListInv'
    BY <1>1, <1>2, <1>3, ReadShape
  <1>6. CASE ~ok BY <1>5, <1>6 DEF Running, Operating, Placed, Validating
  <1>7. CASE ok
    <2>1. pc'[t] = "predecessorDeleted" BY <1>5, <1>7
    <2>2. ~lock[p].locked BY <1>7 DEF ValidVersionAndReleased
    <2>3. Settled(t, p) BY <1>4, <2>2, UnlockedUndecided
    <2>4. Settled(t, p)' /\ Visible(p)'
      BY <1>1, <1>4, <1>5, <2>3 DEF ThreadShape, PredecessorOK
    <2>5. PredecessorOK(t)'
      BY <1>1, <1>5, <2>1, <2>4
      DEF ThreadShape, PredecessorOK, Searching, Placed, AtNode, Between, sharedVars
    <2>6. SuccessorOK(t)' BY <2>1 DEF SuccessorOK, AtNode
    <2>7. PlaceFound(t)' BY <2>1 DEF PlaceFound, Between, AtNode, AtFound
    <2>8. Checked(t)' BY <1>5, <2>1 DEF Checked, Validating
    <2> QED BY <1>5, <2>5, <2>6, <2>7, <2>8 DEF ThreadShape
  <1> QED BY <1>6, <1>7

\* A predecessor that is visible, not marked and old belongs to the thread's list.
LEMMA PredecessorDeletedShape ==
  ASSUME IInv, IInv', ListInv, KeysPrecedeDefault, NEW t \in Thread, PredecessorDeleted(t)
  PROVE  ListInv'
  <1> DEFINE f == frame[t]
             p == f.pred
             gone == GetUpdatedIsDeleted(t, p)
             label == IF ~gone THEN "successorLocked"
                      ELSE IF p = Sentinel THEN "fault" ELSE "findPrevious"
             g == IF ~gone THEN [f EXCEPT !.at = p] ELSE [f EXCEPT !.cand = node[p].key]
  <1>1. /\ pc[t] = "predecessorDeleted" /\ UNCHANGED <<sharedVars, commitVars, txn>>
        /\ Goto(t, label) /\ frame' = [frame EXCEPT ![t] = g]
    BY DEF PredecessorDeleted, operatorVars
  <1>2. pc[t] \in Running /\ label \in Running \cup {"abort", "fault"} /\ label # "removeSuccessor"
    BY <1>1 DEF Running, Operating, Placed
  <1>3. /\ DOMAIN frame' = Thread /\ DOMAIN txn' = Thread
        /\ \A u \in Thread \ {t} : txn'[u] = txn[u] /\ frame'[u] = frame[u]
        /\ frame'[t] = g
    BY <1>1 DEF IInv, Types
  <1>4. p \in Node /\ f \in Frame(f.results) /\ f.op \in Operation
    BY <1>1 DEF IInv, Types, ThreadOK, FrameFits, Placed, Operating
  <1>5. /\ pc'[t] = label /\ ThreadShape(t) /\ ViewOK(t)' /\ View(t)' = View(t)
        /\ DOMAIN txn'[t].writeSet \subseteq txn'[t].readSet
        /\ \A n \in Node : Old(t, n)' <=> Old(t, n)
        /\ Consistent(t)' <=> Consistent(t)
        /\ ThreadShape(t)' \/ label \notin Running => ListInv'
    BY <1>1, <1>2, <1>3, ReadShape
  <1>6. /\ p = Sentinel \/ (node[p].key \in Key /\ node[p].key < f.op.key)
        /\ ~f.removing /\ Visible(p) /\ Settled(t, p)
    BY <1>1, <1>5 DEF ThreadShape, PredecessorOK, Searching, Placed
  <1>7. CASE ~gone
    <2>1. /\ pc'[t] = "successorLocked" /\ frame'[t].at = p /\ frame'[t].pred = p
          /\ ~frame'[t].removing /\ frame'[t].op = f.op /\ node' = node
      BY <1>1, <1>3, <1>4, <1>5, <1>6, <1>7 DEF Frame, sharedVars
    <2>2. ASSUME Consistent(t), Old(t, p) PROVE p \in View(t)
      <3>1. Gone(t) = {} BY <1>1 DEF Gone
      <3>2. CASE InWriteSet(t, p)
        <4>1. ~txn[t].writeSet[p].deleted BY <1>7, <3>2 DEF GetUpdatedIsDeleted
        <4>2. p \in Live \cup Own(t)
          BY <1>5, <2>2, <3>2 DEF ThreadShape, ViewOK, Touched, InWriteSet
        <4> QED BY <3>1, <4>1, <4>2 DEF View, Removed
      <3>3. CASE ~InWriteSet(t, p)
        <4>1. ~lock[p].deleted BY <1>7, <3>3 DEF GetUpdatedIsDeleted
        <4>2. ~Decided(p) BY <1>2, <1>4, <1>6, <2>2, SettledOld
        <4>3. p \in alloc BY <1>4, NodeAssumption DEF IInv, References, Refs
        <4>4. p = Sentinel \/ node[p].key # DefaultKey
          BY <1>6, KeyAssumption DEF KeysPrecedeDefault
        <4>5. p \in Live BY <1>6, <4>1, <4>2, <4>3, <4>4 DEF Live, DecidedMark
        <4> QED BY <3>1, <3>3, <4>5 DEF View, Removed, InWriteSet
      <3> QED BY <3>2, <3>3
    <2>3. PredecessorOK(t)'
      BY <1>4, <1>5, <1>6, <2>1, <2>2 DEF PredecessorOK, Searching, Placed, AtNode, Between
    <2>4. SuccessorOK(t)' BY <2>1 DEF SuccessorOK
    <2>5. PlaceFound(t)' BY <2>1 DEF PlaceFound, Between, AtNode, AtFound
    <2>6. Checked(t)' BY <1>5, <2>1 DEF Checked, Validating
    <2> QED BY <1>5, <2>3, <2>4, <2>5, <2>6 DEF ThreadShape
  <1>8. CASE gone /\ p # Sentinel
    <2>1. /\ pc'[t] = "findPrevious" /\ frame'[t].cand = node[p].key
          /\ ~frame'[t].removing /\ frame'[t].op = f.op
      BY <1>3, <1>4, <1>5, <1>6, <1>8 DEF Frame
    <2>2. node[p].key <= f.op.key
      <3>1. f.op.key \in Int /\ node[p].key \in Int
        BY <1>4, <1>6, <1>8, KeyAssumption DEF Operation
      <3> QED BY <1>6, <1>8, <3>1
    <2>3. PredecessorOK(t)'
      BY <1>6, <1>8, <2>1, <2>2 DEF PredecessorOK, Searching, Placed, AtNode, Between
    <2>4. SuccessorOK(t)' BY <2>1 DEF SuccessorOK, AtNode
    <2>5. PlaceFound(t)' BY <2>1 DEF PlaceFound, Between, AtNode, AtFound
    <2>6. Checked(t)' BY <1>5, <2>1 DEF Checked, Validating
    <2> QED BY <1>5, <2>3, <2>4, <2>5, <2>6 DEF ThreadShape
  <1>9. CASE gone /\ p = Sentinel BY <1>5, <1>9 DEF Running, Operating, Placed, Validating
  <1> QED BY <1>7, <1>8, <1>9

\* Where a thread is that looks at a node: what it knows of its place.
LEMMA AtNodePlace ==
  ASSUME IInv, ListInv, NEW t \in Thread, pc[t] \in AtNode
  PROVE  LET f == frame[t]
             p == f.pred
         IN  /\ f \in Frame(f.results) /\ f.op \in Operation /\ p \in Node /\ f.at \in Node
             /\ f.op.key \in Key /\ f.op.key \in Int
             /\ f.removing => f.succ \in Node /\ f.at = f.succ /\ Between(t)
             /\ ~f.removing => f.at = p
             /\ ThreadShape(t) /\ pc[t] \in Running /\ pc[t] # "removeSuccessor"
             /\ p = Sentinel \/ (node[p].key \in Key /\ node[p].key < f.op.key)
             /\ Consistent(t) /\ Old(t, p) => p \in View(t)
  <1>1. pc[t] \in Running /\ pc[t] \in Placed /\ pc[t] \in Operating /\ pc[t] # "removeSuccessor"
    BY DEF AtNode, Placed, Operating, Running
  <1>2. ThreadShape(t) BY <1>1 DEF ListInv
  <1>3. FrameFits(pc[t], frame[t]) BY DEF IInv, Types, ThreadOK
  <1>4. frame[t].op.key \in Key /\ frame[t].op.key \in Int
    BY <1>1, <1>3, KeyAssumption DEF FrameFits, Operation
  <1> QED BY <1>1, <1>2, <1>3, <1>4
          DEF FrameFits, ThreadShape, PredecessorOK, SuccessorOK, Between

\* A step of GetValidatedSuccessor to the next check.
LEMMA CheckSuccessorShape ==
  ASSUME IInv, IInv', ListInv, NEW t \in Thread, pc[t] \in {"successorLocked", "successorVersion"},
         UNCHANGED <<sharedVars, commitVars, txn, frame>>,
         NEW label \in {"successorVersion", "successorNext"}, Goto(t, label),
         ~InWriteSet(t, frame[t].at),
         label = "successorNext" => ~lock[frame[t].at].locked
                                    /\ lock[frame[t].at].version <= txn[t].readVersion
  PROVE  ListInv'
  <1> DEFINE f == frame[t]
             n == f.at
  <1>1. pc[t] \in AtNode /\ label \in AtNode /\ label \in Running /\ label # "removeSuccessor"
    BY DEF AtNode, Running, Operating, Placed
  <1>2. /\ n \in Node /\ f.pred \in Node /\ ThreadShape(t) /\ pc[t] \in Running
        /\ f.removing => f.succ \in Node /\ Between(t)
        /\ ~f.removing => n = f.pred
        /\ pc[t] # "removeSuccessor" /\ (Consistent(t) /\ Old(t, f.pred) => f.pred \in View(t))
    BY <1>1, AtNodePlace
  <1>3. DOMAIN frame' = Thread /\ DOMAIN txn' = Thread BY DEF IInv, Types
  <1>4. /\ pc'[t] = label /\ View(t)' = View(t) /\ ViewOK(t)'
        /\ \A m \in Node : /\ Old(t, m)' <=> Old(t, m)
                           /\ ViewNext(t)'[m] = ViewNext(t)[m]
                           /\ Settled(t, m) => Settled(t, m)'
                           /\ DecidedNext(m)' = DecidedNext(m)
        /\ Consistent(t)' <=> Consistent(t)
        /\ \A m \in Node \cup {Null} : Fine(t, m) => Fine(t, m)'
        /\ DOMAIN txn'[t].writeSet \subseteq txn'[t].readSet
        /\ ThreadShape(t)' => ListInv'
    BY <1>1, <1>2, <1>3, ReadShape
  <1>5. Between(t)' <=> f.removing
    BY <1>1, <1>4 DEF Between, AtNode
  <1>6. PredecessorOK(t)'
    BY <1>1, <1>2, <1>4 DEF PredecessorOK, ThreadShape, Searching, Placed, AtNode, Between, sharedVars
  <1>7. SuccessorOK(t)'
    <2>1. n = IF f.removing THEN f.succ ELSE f.pred
      BY <1>1, <1>2 DEF ThreadShape, SuccessorOK
    <2>2. ~InWriteSet(t, n)' BY DEF InWriteSet
    <2>3. ASSUME label = "successorNext" PROVE Settled(t, frame[t].at)'
      BY <1>2, <1>4, <2>3, UnlockedUndecided
    <2>4. ASSUME label = "successorNext", ~f.removing
          PROVE  (Fine(t, DecidedNext(frame[t].at)) /\ Fine(t, node[frame[t].at].next))'
      <3> DEFINE m == node[n].next
      <3>1. ~Decided(n) BY <1>2, <2>4, UnlockedUndecided
      <3>2. DecidedNext(n) = m /\ DecidedVersion(n) <= txn[t].readVersion
        BY <2>4, <3>1 DEF DecidedNext, DecidedVersion
      <3>3. Old(t, n) BY <3>2 DEF Old
      <3>4. Fine(t, m)
        <4>1. SUFFICES ASSUME Consistent(t), m # Null PROVE m \in View(t) BY DEF Fine
        <4>2. n \in View(t) BY <1>2, <2>4, <3>3, <4>1
        <4>3. ViewNext(t)[n] = m BY <1>2, <3>2 DEF ViewNext
        <4>4. Linked(View(t), ViewNext(t), KeyOf) BY <1>2, <4>1 DEF ThreadShape, ViewOK
        <4> QED BY <4>1, <4>2, <4>3, <4>4 DEF Linked
      <3>5. m \in Node \cup {Null} BY <1>2 DEF IInv, Types, MemoryOK, Link
      <3>6. frame' = frame /\ node' = node BY DEF sharedVars
      <3>7. Fine(t, m)' BY <1>4, <3>4, <3>5, <3>6
      <3>8. DecidedNext(frame[t].at)' = m BY <1>2, <1>4, <3>2, <3>6
      <3> QED BY <3>6, <3>7, <3>8
    <2> QED BY <1>1, <1>4, <2>1, <2>2, <2>3, <2>4 DEF SuccessorOK
  <1>8. PlaceFound(t)'
    <2>1. PlaceFound(t) BY <1>2 DEF ThreadShape
    <2>2. f.removing =>
            /\ f.pred \in txn[t].readSet
            /\ f.succ # Null => node[f.succ].key >= f.op.key
            /\ Consistent(t) /\ Old(t, f.pred) => ViewNext(t)[f.pred] = f.succ
            /\ Fine(t, f.succ) /\ node[f.succ].key = f.op.key
      BY <1>1, <1>2, <2>1 DEF PlaceFound
    <2>3. f.removing => Fine(t, frame[t].succ)' BY <1>2, <1>4, <2>2
    <2>4. f.removing => (Consistent(t)' /\ Old(t, frame[t].pred)' =>
                            ViewNext(t)'[f.pred] = f.succ)
      BY <1>2, <1>4, <2>2
    <2> QED BY <1>1, <1>4, <1>5, <2>2, <2>3, <2>4 DEF PlaceFound, AtNode, AtFound, sharedVars
  <1>9. Checked(t)' BY <1>1, <1>4 DEF Checked, Validating, AtNode
  <1> QED BY <1>4, <1>6, <1>7, <1>8, <1>9 DEF ThreadShape

\* An operation gives up.
LEMMA AbortShape ==
  ASSUME IInv, IInv', ListInv, NEW t \in Thread, UNCHANGED <<sharedVars, commitVars, txn, frame>>,
         pc[t] \in Running, pc[t] # "removeSuccessor", Goto(t, "abort")
  PROVE  ListInv'
  <1>1. DOMAIN frame' = Thread /\ DOMAIN txn' = Thread BY DEF IInv, Types
  <1>2. "abort" \notin Running BY DEF Running, Operating, Placed, Validating
  <1> QED BY <1>1, <1>2, ReadShape

\* The next node has been read.
LEMMA GotSuccessorShape ==
  ASSUME IInv, IInv', ListInv, KeysPrecedeDefault, NEW t \in Thread,
         pc[t] \in AtNode, UNCHANGED <<sharedVars, commitVars>>,
         NEW n \in Node \cup {Null}, GotSuccessor(t, n),
         ~frame[t].removing => Fine(t, n),
         Consistent(t) /\ Old(t, frame[t].at) => ViewNext(t)[frame[t].at] = n
  PROVE  ListInv'
  <1> DEFINE f == frame[t]
             p == f.pred
  <1>1. /\ f \in Frame(f.results) /\ p \in Node /\ f.at \in Node
        /\ f.op.key \in Key /\ f.op.key \in Int
        /\ f.removing => f.succ \in Node /\ f.at = f.succ /\ Between(t)
        /\ ~f.removing => f.at = p
        /\ ThreadShape(t) /\ pc[t] \in Running /\ pc[t] # "removeSuccessor"
        /\ p = Sentinel \/ (node[p].key \in Key /\ node[p].key < f.op.key)
        /\ Consistent(t) /\ Old(t, p) => p \in View(t)
    BY AtNodePlace
  <1>2. CASE f.removing
    <2> DEFINE label == "removePredecessor"
    <2>1. /\ frame' = [frame EXCEPT ![t] = [f EXCEPT !.link = n]] /\ Goto(t, label)
          /\ UNCHANGED txn
      BY <1>2 DEF GotSuccessor
    <2>2. /\ DOMAIN frame' = Thread /\ DOMAIN txn' = Thread
          /\ \A u \in Thread \ {t} : txn'[u] = txn[u] /\ frame'[u] = frame[u]
          /\ frame'[t] = [f EXCEPT !.link = n]
      BY <2>1 DEF IInv, Types
    <2>3. /\ frame'[t].pred = p /\ frame'[t].succ = f.succ /\ frame'[t].op = f.op
          /\ frame'[t].link = n
      BY <1>1, <2>2 DEF Frame
    <2>4. label \in Running /\ label # "removeSuccessor" BY DEF Running, Operating, Placed
    <2>5. /\ pc'[t] = label /\ View(t)' = View(t) /\ ViewOK(t)'
          /\ \A m \in Node : /\ Old(t, m)' <=> Old(t, m)
                             /\ ViewNext(t)'[m] = ViewNext(t)[m]
          /\ Consistent(t)' <=> Consistent(t)
          /\ \A m \in Node \cup {Null} : Fine(t, m) => Fine(t, m)'
          /\ DOMAIN txn'[t].writeSet \subseteq txn'[t].readSet
          /\ ThreadShape(t)' => ListInv'
      BY <1>1, <2>1, <2>2, <2>4, ReadShape
    <2>6. node' = node BY DEF sharedVars
    <2>7. PredecessorOK(t)'
      BY <1>1, <2>3, <2>5, <2>6 DEF PredecessorOK, Searching
    <2>8. SuccessorOK(t)' BY <2>5 DEF SuccessorOK, AtNode
    <2>9. /\ p \in txn[t].readSet /\ node[f.succ].key >= f.op.key
          /\ Consistent(t) /\ Old(t, p) => ViewNext(t)[p] = f.succ
          /\ Fine(t, f.succ) /\ node[f.succ].key = f.op.key
      BY <1>1, <1>2, NodeAssumption DEF ThreadShape, PlaceFound
    <2>10. Fine(t, frame[t].succ)' BY <1>1, <1>2, <2>3, <2>5, <2>9
    <2>11. Consistent(t)' /\ Old(t, frame[t].pred)' => ViewNext(t)'[p] = f.succ
      BY <1>1, <2>3, <2>5, <2>9
    <2>12. Consistent(t)' /\ Old(t, frame[t].succ)' => ViewNext(t)'[f.succ] = n
      BY <1>1, <1>2, <2>3, <2>5
    <2>13. PlaceFound(t)'
      BY <2>1, <2>3, <2>5, <2>6, <2>9, <2>10, <2>11, <2>12 DEF PlaceFound
    <2>14. Checked(t)' BY <2>5 DEF Checked, Validating
    <2> QED BY <2>5, <2>7, <2>8, <2>13, <2>14 DEF ThreadShape
  <1>3. CASE ~f.removing /\ n # Null /\ node[n].key < f.op.key
    <2> DEFINE label == "successorLocked"
    <2>1. /\ frame' = [frame EXCEPT ![t] = [f EXCEPT !.pred = n, !.at = n]] /\ Goto(t, label)
          /\ UNCHANGED txn
      BY <1>3 DEF GotSuccessor, Traversed
    <2>2. /\ DOMAIN frame' = Thread /\ DOMAIN txn' = Thread
          /\ \A u \in Thread \ {t} : txn'[u] = txn[u] /\ frame'[u] = frame[u]
          /\ frame'[t] = [f EXCEPT !.pred = n, !.at = n]
      BY <2>1 DEF IInv, Types
    <2>3. /\ frame'[t].pred = n /\ frame'[t].at = n /\ frame'[t].op = f.op
          /\ frame'[t].removing = f.removing
      BY <1>1, <2>2 DEF Frame
    <2>4. label \in Running /\ label # "removeSuccessor" BY DEF Running, Operating, Placed
    <2>5. /\ pc'[t] = label /\ View(t)' = View(t) /\ ViewOK(t)'
          /\ \A m \in Node : Old(t, m)' <=> Old(t, m)
          /\ Consistent(t)' <=> Consistent(t)
          /\ DOMAIN txn'[t].writeSet \subseteq txn'[t].readSet
          /\ ThreadShape(t)' => ListInv'
      BY <1>1, <2>1, <2>2, <2>4, ReadShape
    <2>6. node' = node BY DEF sharedVars
    <2>7. node[n].key \in Key /\ node[n].key # DefaultKey
      <3>1. n \in Node BY <1>3
      <3>2. node[n].key \in Key \cup {DefaultKey} BY <3>1 DEF IInv, Types, MemoryOK
      <3>3. f.op.key < DefaultKey BY <1>1 DEF KeysPrecedeDefault
      <3>4. node[n].key \in Int /\ DefaultKey \in Int BY <3>2, KeyAssumption
      <3> QED BY <1>1, <1>3, <3>2, <3>3, <3>4
    <2>8. Consistent(t) /\ Old(t, n) => n \in View(t) BY <1>3, <2>7 DEF Fine
    <2>9. PredecessorOK(t)'
      BY <1>3, <2>3, <2>5, <2>6, <2>7, <2>8 DEF PredecessorOK, Searching, Between, AtNode
    <2>10. SuccessorOK(t)' BY <1>3, <2>3, <2>5 DEF SuccessorOK, AtNode
    <2>11. PlaceFound(t)' BY <1>3, <2>3, <2>5 DEF PlaceFound, Between, AtNode, AtFound
    <2>12. Checked(t)' BY <2>5 DEF Checked, Validating
    <2> QED BY <2>5, <2>9, <2>10, <2>11, <2>12 DEF ThreadShape
  <1>4. CASE ~f.removing /\ ~(n # Null /\ node[n].key < f.op.key)
    <2> DEFINE label == "apply"
               y == [txn[t] EXCEPT !.readSet = txn[t].readSet \cup {p}]
    <2>1. /\ frame' = [frame EXCEPT ![t] = [f EXCEPT !.succ = n]] /\ Goto(t, label)
          /\ txn' = [txn EXCEPT ![t] = y]
      BY <1>4 DEF GotSuccessor, Traversed
    <2>2. /\ DOMAIN frame' = Thread /\ DOMAIN txn' = Thread
          /\ \A u \in Thread \ {t} : txn'[u] = txn[u] /\ frame'[u] = frame[u]
          /\ frame'[t] = [f EXCEPT !.succ = n] /\ txn'[t] = y
      BY <2>1 DEF IInv, Types
    <2>3. /\ frame'[t].pred = p /\ frame'[t].succ = n /\ frame'[t].op = f.op
          /\ frame'[t].removing = f.removing
      BY <1>1, <2>2 DEF Frame
    <2>4. label \in Running /\ label # "removeSuccessor" BY DEF Running, Operating, Placed
    <2>5. /\ txn'[t].writeSet = txn[t].writeSet /\ txn'[t].fresh = txn[t].fresh
          /\ txn'[t].readVersion = txn[t].readVersion
          /\ txn'[t].readSet = txn[t].readSet \cup {p}
      BY <2>2 DEF IInv, Types, ThreadOK, TxnTyped, Txn
    <2>6. /\ pc'[t] = label /\ View(t)' = View(t) /\ ViewOK(t)'
          /\ \A m \in Node : /\ Old(t, m)' <=> Old(t, m)
                             /\ ViewNext(t)'[m] = ViewNext(t)[m]
          /\ Consistent(t)' <=> Consistent(t)
          /\ \A m \in Node \cup {Null} : Fine(t, m) => Fine(t, m)'
          /\ DOMAIN txn'[t].writeSet \subseteq txn'[t].readSet
          /\ ThreadShape(t)' => ListInv'
      BY <1>1, <2>1, <2>2, <2>4, <2>5, ReadShape
    <2>7. node' = node BY DEF sharedVars
    <2>8. n # Null => node[n].key >= f.op.key
      <3>1. n # Null => node[n].key \in Key \cup {DefaultKey} BY DEF IInv, Types, MemoryOK
      <3>2. n # Null => node[n].key \in Int BY <3>1, KeyAssumption
      <3> QED BY <1>1, <1>4, <3>2
    <2>9. PredecessorOK(t)'
      BY <1>1, <1>4, <2>3, <2>6, <2>7 DEF PredecessorOK, Searching
    <2>10. SuccessorOK(t)' BY <2>6 DEF SuccessorOK, AtNode
    <2>11. Fine(t, frame[t].succ)' BY <1>4, <2>3, <2>6
    <2>12. Consistent(t)' /\ Old(t, frame[t].pred)' => ViewNext(t)'[p] = n
      BY <1>1, <1>4, <2>3, <2>6
    <2>13. PlaceFound(t)'
      BY <2>3, <2>5, <2>6, <2>7, <2>8, <2>11, <2>12 DEF PlaceFound, AtNode, AtFound
    <2>14. Checked(t)' BY <2>6 DEF Checked, Validating
    <2> QED BY <2>6, <2>9, <2>10, <2>13, <2>14 DEF ThreadShape
  <1> QED BY <1>2, <1>3, <1>4

\* The lock of the node whose successor is wanted: its own write set comes first.
LEMMA SuccessorLockedShape ==
  ASSUME IInv, IInv', ListInv, KeysPrecedeDefault, NEW t \in Thread, SuccessorLocked(t)
  PROVE  ListInv'
  <1> DEFINE n == frame[t].at
             m == txn[t].writeSet[n].next
  <1>1. pc[t] = "successorLocked" /\ UNCHANGED <<sharedVars, commitVars>> BY DEF SuccessorLocked
  <1>2. pc[t] \in AtNode BY <1>1 DEF AtNode
  <1>3. /\ n \in Node /\ ThreadShape(t) /\ pc[t] \in Running /\ (~frame[t].removing => n = frame[t].pred)
        /\ (Consistent(t) /\ Old(t, frame[t].pred) => frame[t].pred \in View(t))
    BY <1>2, AtNodePlace
  <1>4. CASE InWriteSet(t, n)
    <2>1. GotSuccessor(t, m) BY <1>4 DEF SuccessorLocked
    <2>2. m \in Node \cup {Null}
      BY <1>4 DEF InWriteSet, IInv, Types, ThreadOK, TxnTyped, Txn, WriteSetElement
    <2>3. ViewNext(t)[n] = m BY <1>3, <1>4 DEF ViewNext
    <2>4. ASSUME ~frame[t].removing PROVE Fine(t, m)
      <3>1. SUFFICES ASSUME Consistent(t), m # Null PROVE m \in View(t) BY DEF Fine
      <3>2. Old(t, n) BY <1>4, <3>1 DEF Consistent, Touched, InWriteSet
      <3>3. n \in View(t) BY <1>3, <2>4, <3>1, <3>2
      <3>4. Linked(View(t), ViewNext(t), KeyOf) BY <1>3, <3>1 DEF ThreadShape, ViewOK
      <3> QED BY <2>3, <3>1, <3>3, <3>4 DEF Linked
    <2> QED BY <1>1, <1>2, <2>1, <2>2, <2>3, <2>4, GotSuccessorShape
  <1>5. CASE ~InWriteSet(t, n) /\ lock[n].locked
    BY <1>1, <1>3, <1>5, AbortShape DEF SuccessorLocked
  <1>6. CASE ~InWriteSet(t, n) /\ ~lock[n].locked
    <2> DEFINE label == "successorVersion"
    <2>1. Goto(t, label) /\ UNCHANGED <<txn, frame>> BY <1>6 DEF SuccessorLocked
    <2> QED BY <1>1, <1>6, <2>1, CheckSuccessorShape
  <1> QED BY <1>4, <1>5, <1>6

\* Its version.
LEMMA SuccessorVersionShape ==
  ASSUME IInv, IInv', ListInv, NEW t \in Thread, SuccessorVersion(t)
  PROVE  ListInv'
  <1> DEFINE n == frame[t].at
             ok == ValidVersionAndReleased(lock[n], ReadVersion(t))
  <1>1. pc[t] = "successorVersion" /\ UNCHANGED <<sharedVars, commitVars, txn, frame>>
        /\ Goto(t, IF ok THEN "successorNext" ELSE "abort")
    BY DEF SuccessorVersion, operatorVars
  <1>2. pc[t] \in AtNode BY <1>1 DEF AtNode
  <1>3. ThreadShape(t) /\ pc[t] \in Running BY <1>2, AtNodePlace
  <1>4. ~InWriteSet(t, n) BY <1>1, <1>3 DEF ThreadShape, SuccessorOK
  <1>5. CASE ok
    <2> DEFINE label == "successorNext"
    <2>1. Goto(t, label) BY <1>1, <1>5
    <2>2. ~lock[n].locked /\ lock[n].version <= txn[t].readVersion
      BY <1>5 DEF ValidVersionAndReleased, ReadVersion
    <2> QED BY <1>1, <1>4, <2>1, <2>2, CheckSuccessorShape
  <1>6. CASE ~ok BY <1>1, <1>3, <1>6, AbortShape
  <1> QED BY <1>5, <1>6

\* The link itself.
LEMMA SuccessorNextShape ==
  ASSUME IInv, IInv', ListInv, KeysPrecedeDefault, NEW t \in Thread, SuccessorNext(t)
  PROVE  ListInv'
  <1> DEFINE n == frame[t].at
             m == node[n].next
  <1>1. pc[t] = "successorNext" /\ UNCHANGED <<sharedVars, commitVars>> /\ GotSuccessor(t, m)
    BY DEF SuccessorNext
  <1>2. pc[t] \in AtNode BY <1>1 DEF AtNode
  <1>3. n \in Node /\ ThreadShape(t) /\ pc[t] \in Running BY <1>2, AtNodePlace
  <1>4. m \in Node \cup {Null} BY <1>3 DEF IInv, Types, MemoryOK, Link
  <1>5. ~InWriteSet(t, n) /\ Settled(t, n) /\ (~frame[t].removing => Fine(t, m))
    BY <1>1, <1>3 DEF ThreadShape, SuccessorOK
  <1>6. ASSUME Consistent(t), Old(t, n) PROVE ViewNext(t)[n] = m
    <2>1. ~Decided(n) BY <1>3, <1>5, <1>6, SettledOld
    <2> QED BY <1>3, <1>5, <2>1 DEF ViewNext, DecidedNext
  <1> QED BY <1>1, <1>2, <1>4, <1>5, <1>6, GotSuccessorShape

-----------------------------------------------------------------------------
(* The operations, once the place is found. *)

\* What a thread knows that has found the place of its key.
LEMMA FoundPlace ==
  ASSUME IInv, ListInv, NEW t \in Thread,
         pc[t] \in {"apply", "removePredecessor", "insertDeleted"}
  PROVE  LET f == frame[t]
             p == f.pred
             s == f.succ
         IN  /\ f \in Frame(f.results) /\ f.op \in Operation /\ p \in Node
             /\ s \in Node \cup {Null} /\ f.link \in Node \cup {Null}
             /\ f.op.key \in Key /\ f.op.key \in Int
             /\ ThreadShape(t) /\ pc[t] \in Running /\ Between(t)
             /\ p = Sentinel \/ (node[p].key \in Key /\ node[p].key < f.op.key)
             /\ Consistent(t) /\ Old(t, p) => p \in View(t) /\ ViewNext(t)[p] = s
             /\ p \in txn[t].readSet /\ Fine(t, s)
             /\ s # Null => node[s].key >= f.op.key
             /\ pc[t] # "apply" =>
                   /\ s \in Node /\ node[s].key = f.op.key
                   /\ Consistent(t) /\ Old(t, s) => ViewNext(t)[s] = f.link
             /\ DOMAIN txn[t].writeSet \subseteq txn[t].readSet
  <1>1. pc[t] \in Running /\ pc[t] \in Placed /\ pc[t] \in Operating /\ Between(t)
    BY DEF Placed, Operating, Running, Between
  <1>2. ThreadShape(t) BY <1>1 DEF ListInv
  <1>3. FrameFits(pc[t], frame[t]) BY DEF IInv, Types, ThreadOK
  <1>4. frame[t].op.key \in Key /\ frame[t].op.key \in Int
    BY <1>1, <1>3, KeyAssumption DEF FrameFits, Operation
  <1>5. pc[t] # "apply" => pc[t] \in AtFound BY DEF AtFound
  <1>6. /\ frame[t] \in Frame(frame[t].results) /\ frame[t].op \in Operation
        /\ frame[t].pred \in Node /\ (pc[t] # "apply" => frame[t].succ \in Node)
        /\ frame[t].succ \in Node \cup {Null} /\ frame[t].link \in Node \cup {Null}
    BY <1>1, <1>3, <1>5 DEF FrameFits, Frame, Link
  <1>7. DOMAIN txn[t].writeSet \subseteq txn[t].readSet BY <1>1, <1>2 DEF ThreadShape, Checked
  <1>8. PredecessorOK(t) /\ PlaceFound(t) BY <1>2 DEF ThreadShape
  <1> QED BY <1>1, <1>2, <1>4, <1>5, <1>6, <1>7, <1>8 DEF PredecessorOK, PlaceFound

\* An operation returns without having changed anything.
LEMMA AnswerShape ==
  ASSUME IInv, IInv', ListInv, NEW t \in Thread, Contains(t) \/ Get(t) \/ RemoveNothing(t)
  PROVE  ListInv'
  <1> DEFINE label == "next"
  <1>1. /\ pc[t] = "apply" /\ UNCHANGED <<sharedVars, commitVars, txn>>
        /\ \E r : Return(t, r)
    BY DEF Contains, Get, RemoveNothing, operatorVars
  <1>2. PICK r : Return(t, r) BY <1>1
  <1>3. /\ Goto(t, label)
        /\ frame' = [frame EXCEPT ![t] = [EmptyFrame EXCEPT !.results = Append(frame[t].results, r)]]
    BY <1>2 DEF Return
  <1>4. /\ DOMAIN frame' = Thread /\ DOMAIN txn' = Thread
        /\ \A u \in Thread \ {t} : txn'[u] = txn[u] /\ frame'[u] = frame[u]
        /\ frame'[t] = [EmptyFrame EXCEPT !.results = Append(frame[t].results, r)]
    BY <1>1, <1>3 DEF IInv, Types
  <1>5. ~frame'[t].removing BY <1>4 DEF EmptyFrame
  <1>6. pc[t] \in Running /\ label \in Running BY <1>1 DEF Running, Operating, Placed
  <1>7. /\ pc'[t] = label /\ ViewOK(t)' /\ DOMAIN txn'[t].writeSet \subseteq txn'[t].readSet
        /\ ThreadShape(t)' => ListInv'
    BY <1>1, <1>3, <1>4, <1>6, ReadShape
  <1>8. Checked(t)' BY <1>7 DEF Checked, Validating
  <1> QED BY <1>5, <1>7, <1>8, NoPlace

\* Remove goes on to the node behind the one it has found.
LEMMA RemoveFoundShape ==
  ASSUME IInv, IInv', ListInv, NEW t \in Thread, RemoveFound(t)
  PROVE  ListInv'
  <1> DEFINE f == frame[t]
             p == f.pred
             s == f.succ
             label == "successorLocked"
  <1>1. /\ pc[t] = "apply" /\ UNCHANGED <<sharedVars, commitVars, txn>> /\ Goto(t, label)
        /\ frame' = [frame EXCEPT ![t] = [f EXCEPT !.at = s, !.removing = TRUE]]
        /\ s # Null /\ node[s].key = f.op.key
    BY DEF RemoveFound, Found, operatorVars
  <1>2. /\ DOMAIN frame' = Thread /\ DOMAIN txn' = Thread
        /\ \A u \in Thread \ {t} : txn'[u] = txn[u] /\ frame'[u] = frame[u]
        /\ frame'[t] = [f EXCEPT !.at = s, !.removing = TRUE]
    BY <1>1 DEF IInv, Types
  <1>3. /\ f \in Frame(f.results) /\ p \in Node /\ s \in Node \cup {Null} /\ Between(t)
        /\ ThreadShape(t) /\ pc[t] \in Running
        /\ p = Sentinel \/ (node[p].key \in Key /\ node[p].key < f.op.key)
        /\ Consistent(t) /\ Old(t, p) => p \in View(t) /\ ViewNext(t)[p] = s
        /\ p \in txn[t].readSet /\ Fine(t, s) /\ (s # Null => node[s].key >= f.op.key)
    BY <1>1, FoundPlace
  <1>4. /\ frame'[t].pred = p /\ frame'[t].succ = s /\ frame'[t].op = f.op
        /\ frame'[t].removing = TRUE /\ frame'[t].at = s
    BY <1>2, <1>3 DEF Frame
  <1>5. label \in Running BY DEF Running, Operating, Placed
  <1>6. /\ pc'[t] = label /\ View(t)' = View(t) /\ ViewOK(t)'
        /\ \A m \in Node : /\ Old(t, m)' <=> Old(t, m)
                           /\ ViewNext(t)'[m] = ViewNext(t)[m]
        /\ Consistent(t)' <=> Consistent(t)
        /\ \A m \in Node \cup {Null} : Fine(t, m) => Fine(t, m)'
        /\ DOMAIN txn'[t].writeSet \subseteq txn'[t].readSet
        /\ ThreadShape(t)' => ListInv'
    BY <1>1, <1>2, <1>3, <1>5, ReadShape
  <1>7. node' = node BY <1>1 DEF sharedVars
  <1>8. PredecessorOK(t)' BY <1>3, <1>4, <1>6, <1>7 DEF PredecessorOK, Searching
  <1>9. SuccessorOK(t)' BY <1>4, <1>6 DEF SuccessorOK
  <1>10. Fine(t, frame[t].succ)' BY <1>3, <1>4, <1>6
  <1>11. Consistent(t)' /\ Old(t, frame[t].pred)' => ViewNext(t)'[p] = s
    BY <1>3, <1>4, <1>6
  <1>12. PlaceFound(t)'
    BY <1>1, <1>3, <1>4, <1>6, <1>7, <1>10, <1>11 DEF PlaceFound, AtFound
  <1>13. Checked(t)' BY <1>6 DEF Checked, Validating
  <1> QED BY <1>6, <1>8, <1>9, <1>12, <1>13 DEF ThreadShape

\* Insert copies the next node, as the decided list has it (CopiesCurrent).
LEMMA InsertExistingShape ==
  ASSUME IInv, IInv', ListInv, NEW t \in Thread, InsertExisting(t),
         InWriteSet(t, frame[t].succ)
            \/ node[frame[t].succ].next = DecidedNext(frame[t].succ)
  PROVE  ListInv'
  <1> DEFINE f == frame[t]
             p == f.pred
             s == f.succ
             n == GetUpdatedNext(t, s)
             label == "insertDeleted"
  <1>1. /\ pc[t] = "apply" /\ UNCHANGED <<sharedVars, commitVars, txn>> /\ Goto(t, label)
        /\ frame' = [frame EXCEPT ![t] = [f EXCEPT !.link = n]]
        /\ s # Null /\ node[s].key = f.op.key
    BY DEF InsertExisting, Found, operatorVars
  <1>2. /\ DOMAIN frame' = Thread /\ DOMAIN txn' = Thread
        /\ \A u \in Thread \ {t} : txn'[u] = txn[u] /\ frame'[u] = frame[u]
        /\ frame'[t] = [f EXCEPT !.link = n]
    BY <1>1 DEF IInv, Types
  <1>3. /\ f \in Frame(f.results) /\ p \in Node /\ s \in Node \cup {Null} /\ Between(t)
        /\ ThreadShape(t) /\ pc[t] \in Running
        /\ p = Sentinel \/ (node[p].key \in Key /\ node[p].key < f.op.key)
        /\ Consistent(t) /\ Old(t, p) => p \in View(t) /\ ViewNext(t)[p] = s
        /\ p \in txn[t].readSet /\ Fine(t, s) /\ (s # Null => node[s].key >= f.op.key)
    BY <1>1, FoundPlace
  <1>4. /\ frame'[t].pred = p /\ frame'[t].succ = s /\ frame'[t].op = f.op /\ frame'[t].link = n
    BY <1>2, <1>3 DEF Frame
  <1>5. label \in Running BY DEF Running, Operating, Placed
  <1>6. /\ pc'[t] = label /\ View(t)' = View(t) /\ ViewOK(t)'
        /\ \A m \in Node : /\ Old(t, m)' <=> Old(t, m)
                           /\ ViewNext(t)'[m] = ViewNext(t)[m]
        /\ Consistent(t)' <=> Consistent(t)
        /\ \A m \in Node \cup {Null} : Fine(t, m) => Fine(t, m)'
        /\ DOMAIN txn'[t].writeSet \subseteq txn'[t].readSet
        /\ ThreadShape(t)' => ListInv'
    BY <1>1, <1>2, <1>3, <1>5, ReadShape
  <1>7. node' = node BY <1>1 DEF sharedVars
  <1>8. PredecessorOK(t)' BY <1>3, <1>4, <1>6, <1>7 DEF PredecessorOK, Searching
  <1>9. SuccessorOK(t)' BY <1>6 DEF SuccessorOK, AtNode
  <1>10. Fine(t, frame[t].succ)' BY <1>3, <1>4, <1>6
  <1>11. Consistent(t)' /\ Old(t, frame[t].pred)' => ViewNext(t)'[p] = s
    BY <1>3, <1>4, <1>6
  <1>12. ViewNext(t)'[s] = n
    <2>1. s \in Node BY <1>1, <1>3
    <2>2. ViewNext(t)[s] = n BY <2>1 DEF ViewNext, GetUpdatedNext
    <2> QED BY <1>6, <2>1, <2>2
  <1>13. PlaceFound(t)'
    BY <1>1, <1>3, <1>4, <1>6, <1>7, <1>10, <1>11, <1>12 DEF PlaceFound, AtFound, AtNode
  <1>14. Checked(t)' BY <1>6 DEF Checked, Validating
  <1> QED BY <1>6, <1>8, <1>9, <1>13, <1>14 DEF ThreadShape

\* No step has marked a node of the thread's list that is not in its write set.
LEMMA ViewUnmarked ==
  ASSUME IInv, ListInv, NEW t \in Thread, pc[t] \in Running, NEW n \in View(t)
  PROVE  GetUpdatedIsDeleted(t, n) = FALSE
  <1>1. n \in Node
    <2>1. Live \subseteq Node BY LiveNodes
    <2>2. Own(t) \subseteq Node BY DEF Own, IInv, References, Types, MemoryOK
    <2> QED BY <2>1, <2>2 DEF View
  <1>2. lock[n].deleted \in BOOLEAN BY <1>1 DEF IInv, Types, MemoryOK, Word
  <1>3. CASE InWriteSet(t, n)
    <2>1. ~txn[t].writeSet[n].deleted BY <1>3 DEF View, Removed, InWriteSet
    <2>2. txn[t].writeSet[n].deleted \in BOOLEAN
      BY <1>3 DEF InWriteSet, IInv, Types, ThreadOK, TxnTyped, Txn, WriteSetElement
    <2> QED BY <1>3, <2>1, <2>2 DEF GetUpdatedIsDeleted
  <1>4. CASE ~InWriteSet(t, n)
    <2>1. CASE n \in Own(t)
      <3>1. n \in Hidden(t)
        BY <2>1 DEF Own, Hidden, Running, Operating, Placed, Validating, Committing
      <3> QED BY <1>2, <1>4, <3>1 DEF ListInv, ListMemory, GetUpdatedIsDeleted
    <2>2. CASE n \in Live
      <3>1. ~DecidedMark(n) BY <2>2 DEF Live
      <3>2. CASE ~Decided(n) BY <1>2, <1>4, <3>1, <3>2 DEF DecidedMark, GetUpdatedIsDeleted
      <3>3. CASE Decided(n)
        <4>1. PICK u \in Thread : Pending(u, n) BY <3>3 DEF Decided
        <4>2. Writer(n) = u BY <1>1, <4>1, WriterOf DEF WriterUnique
        <4>3. ~txn[u].writeSet[n].deleted BY <3>1, <3>3, <4>2 DEF DecidedMark, Decision
        <4>4. ~lock[n].deleted BY <4>1, <4>3 DEF ListInv, ListMemory, Written, Pending
        <4> QED BY <1>2, <1>4, <4>4 DEF GetUpdatedIsDeleted
      <3> QED BY <3>2, <3>3
    <2> QED BY <2>1, <2>2 DEF View
  <1> QED BY <1>3, <1>4

\* Insert puts the node that has the key in the write set.
LEMMA InsertExistingDeletedShape ==
  ASSUME IInv, IInv', ListInv, KeysPrecedeDefault, NEW t \in Thread, InsertExistingDeleted(t)
  PROVE  ListInv'
  <1> DEFINE f == frame[t]
             s == f.succ
             mark == GetUpdatedIsDeleted(t, s)
             w == Put(t, s, f.link, mark, f.op.value)
             y == [txn[t] EXCEPT !.writeSet = w, !.readSet = txn[t].readSet \cup {s}]
             label == "next"
  <1>1. /\ pc[t] = "insertDeleted" /\ UNCHANGED <<sharedVars, commitVars>>
        /\ txn' = [txn EXCEPT ![t] = y] /\ Return(t, Null)
    BY DEF InsertExistingDeleted
  <1>2. /\ Goto(t, label)
        /\ frame' = [frame EXCEPT ![t] = [EmptyFrame EXCEPT !.results = Append(f.results, Null)]]
    BY <1>1 DEF Return
  <1>3. /\ DOMAIN frame' = Thread /\ DOMAIN txn' = Thread
        /\ \A u \in Thread \ {t} : txn'[u] = txn[u] /\ frame'[u] = frame[u]
        /\ frame'[t] = [EmptyFrame EXCEPT !.results = Append(f.results, Null)]
        /\ txn'[t] = y
    BY <1>1, <1>2 DEF IInv, Types
  <1>4. ~frame'[t].removing BY <1>3 DEF EmptyFrame
  <1>5. /\ txn'[t].writeSet = w /\ txn'[t].fresh = txn[t].fresh
        /\ txn'[t].readVersion = txn[t].readVersion
        /\ txn'[t].readSet = txn[t].readSet \cup {s}
    BY <1>3 DEF IInv, Types, ThreadOK, TxnTyped, Txn
  <1>6. /\ pc[t] \in Running /\ ThreadShape(t) /\ s \in Node /\ node[s].key = f.op.key
        /\ f.op.key \in Key /\ Fine(t, s)
        /\ Consistent(t) /\ Old(t, s) => ViewNext(t)[s] = f.link
        /\ DOMAIN txn[t].writeSet \subseteq txn[t].readSet
    BY <1>1, FoundPlace
  <1>7. label \in Running BY DEF Running
  <1>8. Quiet(t) /\ pc'[t] = label /\ Hidden(t)' = Hidden(t)
    BY <1>1, <1>2, <1>3, <1>5, <1>6, <1>7, OperationQuiet
  <1>9. Live' = Live /\ \A n \in Node : Same(n) BY <1>8, QuietSame
  <1> HIDE DEF y
  <1>10. /\ DOMAIN w = DOMAIN txn[t].writeSet \cup {s}
         /\ w[s].next = f.link /\ w[s].deleted = mark
         /\ \A m \in DOMAIN txn[t].writeSet : m # s => w[m] = txn[t].writeSet[m]
    BY DEF Put
  <1> HIDE DEF w
  <1>11. /\ DOMAIN txn[t].writeSet \subseteq Node /\ txn[t].fresh \subseteq Node
         /\ Live \subseteq Node /\ Own(t) \subseteq Node
    BY LiveNodes DEF Own, IInv, Types, ThreadOK, TxnTyped, References, MemoryOK
  <1>12. Gone(t) = {} /\ Gone(t)' = {} BY <1>1, <1>8 DEF Gone
  <1>13. Touched(t)' = Touched(t) \cup {s} BY <1>5, <1>10, <1>12 DEF Touched
  <1>14. Own(t)' = Own(t) BY <1>5, <1>9, <1>11 DEF Own, Same
  <1>15. \A n \in Node : Old(t, n)' <=> Old(t, n) BY <1>5, <1>9 DEF Old, Same
  <1>16. ASSUME Consistent(t)'
         PROVE  /\ Touched(t)' \subseteq Live' \cup Own(t)'
                /\ Linked(View(t)', ViewNext(t)', KeyOf')
                /\ \A n \in DOMAIN txn'[t].writeSet : txn'[t].writeSet[n].deleted =>
                      /\ txn'[t].writeSet[n].next # Null
                      /\ node'[txn'[t].writeSet[n].next].key = DefaultKey
    <2>1. Consistent(t) /\ Old(t, s)
      BY <1>6, <1>11, <1>12, <1>13, <1>15, <1>16 DEF Consistent, Touched
    <2>2. s \in View(t)
      <3>1. node[s].key # DefaultKey BY <1>6, KeyAssumption DEF KeysPrecedeDefault
      <3> QED BY <1>6, <2>1, <3>1, NodeAssumption DEF Fine
    <2>3. mark = FALSE BY <1>6, <2>2, ViewUnmarked
    <2>4. ViewOK(t) BY <1>6 DEF ThreadShape
    <2>5. Removed(t)' = Removed(t)
      <3>1. s \notin Removed(t) BY <2>2 DEF View
      <3> QED BY <1>5, <1>10, <1>12, <2>3, <3>1 DEF Removed
    <2>6. View(t)' = View(t) BY <1>9, <1>14, <2>5 DEF View
    <2>7. \A n \in View(t) : ViewNext(t)'[n] = ViewNext(t)[n] /\ KeyOf'[n] = KeyOf[n]
      <3>1. SUFFICES ASSUME NEW n \in View(t)
                     PROVE  ViewNext(t)'[n] = ViewNext(t)[n] /\ KeyOf'[n] = KeyOf[n]
        OBVIOUS
      <3>2. n \in Node BY <1>11 DEF View
      <3>3. KeyOf'[n] = KeyOf[n] BY <1>9, <3>2 DEF KeyOf, Same
      <3>4. CASE n = s BY <1>5, <1>6, <1>10, <2>1, <3>2, <3>3, <3>4 DEF ViewNext, InWriteSet
      <3>5. CASE n # s BY <1>5, <1>9, <1>10, <3>2, <3>3, <3>5 DEF ViewNext, InWriteSet, Same
      <3> QED BY <3>3, <3>4, <3>5
    <2>8. Linked(View(t), ViewNext(t), KeyOf) BY <2>1, <2>4 DEF ViewOK
    <2>9. Linked(View(t)', ViewNext(t)', KeyOf') BY <2>6, <2>7, <2>8, SameLinks
    <2>10. Touched(t)' \subseteq Live' \cup Own(t)'
      BY <1>9, <1>13, <1>14, <2>1, <2>2, <2>4 DEF ViewOK, View
    <2>11. node' = node BY <1>1 DEF sharedVars
    <2>12. \A n \in DOMAIN txn'[t].writeSet : txn'[t].writeSet[n].deleted =>
              /\ txn'[t].writeSet[n].next # Null
              /\ node'[txn'[t].writeSet[n].next].key = DefaultKey
      BY <1>5, <1>10, <2>1, <2>3, <2>4, <2>11 DEF ViewOK
    <2> QED BY <2>9, <2>10, <2>12
  <1>17. ViewOK(t)' BY <1>16 DEF ViewOK
  <1>18. Checked(t)' BY <1>5, <1>6, <1>8, <1>10 DEF Checked, Validating
  <1>19. ThreadShape(t)' BY <1>4, <1>8, <1>17, <1>18, NoPlace
  <1>20. txn'[t].readVersion <= gvc BY <1>5 DEF ListInv, ListMemory
  <1> QED BY <1>8, <1>19, <1>20, QuietShape

\* Remove unlinks the node from the thread's list.
LEMMA RemovePredecessorShape ==
  ASSUME IInv, IInv', ListInv, KeysPrecedeDefault, NEW t \in Thread, RemovePredecessor(t)
  PROVE  ListInv'
  <1> DEFINE f == frame[t]
             p == f.pred
             s == f.succ
             value == GetUpdatedValue(t, p)
             w == Put(t, p, f.link, FALSE, value)
             y == [txn[t] EXCEPT !.writeSet = w]
             label == "removeSuccessor"
  <1>1. /\ pc[t] = "removePredecessor" /\ UNCHANGED <<sharedVars, commitVars, frame>>
        /\ txn' = [txn EXCEPT ![t] = y] /\ Goto(t, label)
    BY DEF RemovePredecessor
  <1>2. /\ DOMAIN frame' = Thread /\ DOMAIN txn' = Thread
        /\ \A u \in Thread \ {t} : txn'[u] = txn[u]
        /\ txn'[t] = y
    BY <1>1 DEF IInv, Types
  <1>3. /\ txn'[t].writeSet = w /\ txn'[t].fresh = txn[t].fresh
        /\ txn'[t].readVersion = txn[t].readVersion /\ txn'[t].readSet = txn[t].readSet
    BY <1>2 DEF IInv, Types, ThreadOK, TxnTyped, Txn
  <1>4. /\ pc[t] \in Running /\ ThreadShape(t) /\ p \in Node /\ s \in Node
        /\ node[s].key = f.op.key /\ f.op.key \in Key
        /\ p = Sentinel \/ (node[p].key \in Key /\ node[p].key < f.op.key)
        /\ Consistent(t) /\ Old(t, p) => p \in View(t) /\ ViewNext(t)[p] = s
        /\ p \in txn[t].readSet
        /\ Consistent(t) /\ Old(t, s) => ViewNext(t)[s] = f.link
        /\ DOMAIN txn[t].writeSet \subseteq txn[t].readSet
    BY <1>1, FoundPlace
  <1>5. label \in Running BY DEF Running, Operating, Placed
  <1>6. Quiet(t) /\ pc'[t] = label /\ Hidden(t)' = Hidden(t)
    BY <1>1, <1>2, <1>3, <1>4, <1>5, OperationQuiet
  <1>7. Live' = Live /\ \A n \in Node : Same(n) BY <1>6, QuietSame
  <1> HIDE DEF y
  <1>8. /\ DOMAIN w = DOMAIN txn[t].writeSet \cup {p}
        /\ w[p].next = f.link /\ w[p].deleted = FALSE
        /\ \A m \in DOMAIN txn[t].writeSet : m # p => w[m] = txn[t].writeSet[m]
    BY DEF Put
  <1> HIDE DEF w, value
  <1>9. /\ DOMAIN txn[t].writeSet \subseteq Node /\ txn[t].fresh \subseteq Node
        /\ Live \subseteq Node /\ Own(t) \subseteq Node /\ Null \notin Node
    BY LiveNodes, NodeAssumption DEF Own, IInv, Types, ThreadOK, TxnTyped, References, MemoryOK
  <1>10. Gone(t) = {} /\ Gone(t)' = {s} BY <1>1, <1>6 DEF Gone
  <1>11. Touched(t)' = Touched(t) \cup {p, s} BY <1>3, <1>8, <1>10 DEF Touched
  <1>12. Own(t)' = Own(t) BY <1>3, <1>7, <1>9 DEF Own, Same
  <1>13. \A n \in Node : Old(t, n)' <=> Old(t, n) BY <1>3, <1>7 DEF Old, Same
  <1>14. node' = node BY <1>1 DEF sharedVars
  <1>15. ASSUME Consistent(t)'
         PROVE  /\ Touched(t)' \subseteq Live' \cup Own(t)'
                /\ Linked(View(t)', ViewNext(t)', KeyOf')
                /\ \A n \in DOMAIN txn'[t].writeSet : txn'[t].writeSet[n].deleted =>
                      /\ txn'[t].writeSet[n].next # Null
                      /\ node'[txn'[t].writeSet[n].next].key = DefaultKey
    <2>1. Consistent(t) /\ Old(t, p) /\ Old(t, s)
      BY <1>4, <1>9, <1>10, <1>11, <1>13, <1>15 DEF Consistent, Touched
    <2>2. p \in View(t) /\ ViewNext(t)[p] = s /\ ViewNext(t)[s] = f.link BY <1>4, <2>1
    <2>3. ViewOK(t) /\ Linked(View(t), ViewNext(t), KeyOf)
      BY <1>4, <2>1 DEF ThreadShape, ViewOK
    <2>4. s \in View(t) BY <1>4, <1>9, <2>2, <2>3 DEF Linked
    <2>5. Removed(t)' = Removed(t) \cup {s}
      <3>1. p \notin Removed(t) BY <2>2 DEF View
      <3> QED BY <1>3, <1>8, <1>10, <3>1 DEF Removed
    <2>6. View(t)' = View(t) \ {s} BY <1>7, <1>12, <2>5 DEF View
    <2>7. View(t) \subseteq Node BY <1>9 DEF View
    <2>8. \A n \in View(t) : KeyOf[n] \in Int
      BY <2>7, KeyAssumption DEF KeyOf, IInv, Types, MemoryOK
    <2> DEFINE M == ViewNext(t)'
    <2>9. M[p] = f.link BY <1>3, <1>4, <1>8 DEF ViewNext, InWriteSet
    <2>10. \A n \in View(t) \ {p} : M[n] = ViewNext(t)[n]
      BY <1>3, <1>7, <1>8, <2>7 DEF ViewNext, InWriteSet, Same
    <2> HIDE DEF M
    <2>11. Linked(View(t) \ {s}, M, KeyOf)
      BY <1>4, <1>9, <2>2, <2>3, <2>7, <2>8, <2>9, <2>10, Unlink
    <2>12. KeyOf' = KeyOf BY <1>14 DEF KeyOf
    <2>13. Linked(View(t)', ViewNext(t)', KeyOf') BY <2>6, <2>11, <2>12 DEF M
    <2>14. Touched(t)' \subseteq Live' \cup Own(t)'
      BY <1>7, <1>11, <1>12, <2>1, <2>2, <2>3, <2>4 DEF ViewOK, View
    <2>15. \A n \in DOMAIN txn'[t].writeSet : txn'[t].writeSet[n].deleted =>
              /\ txn'[t].writeSet[n].next # Null
              /\ node'[txn'[t].writeSet[n].next].key = DefaultKey
      BY <1>3, <1>8, <1>14, <2>1, <2>3 DEF ViewOK
    <2> QED BY <2>13, <2>14, <2>15
  <1>16. ViewOK(t)' BY <1>15 DEF ViewOK
  <1>17. Checked(t)' BY <1>3, <1>4, <1>6, <1>8 DEF Checked, Validating
  <1>18. frame' = frame BY <1>1
  <1>19. PredecessorOK(t)'
    BY <1>4, <1>6, <1>14, <1>18 DEF PredecessorOK, Searching, AtNode, Between
  <1>20. SuccessorOK(t)' BY <1>6 DEF SuccessorOK, AtNode
  <1>21. PlaceFound(t)' BY <1>4, <1>6, <1>14, <1>18 DEF PlaceFound, AtNode, Between
  <1>22. ThreadShape(t)' BY <1>16, <1>17, <1>19, <1>20, <1>21 DEF ThreadShape
  <1>23. txn'[t].readVersion <= gvc BY <1>3 DEF ListInv, ListMemory
  <1> QED BY <1>6, <1>22, <1>23, QuietShape

\* A node that nobody else refers to appears.
LEMMA ConstructShape ==
  ASSUME IInv, IInv', ListInv, NEW t \in Thread, NEW n \in Node \ alloc, NEW c,
         alloc' = alloc \cup {n}, node' = [node EXCEPT ![n] = c],
         lock' = [lock EXCEPT ![n] = NewWord], UNCHANGED <<gvc, index, commitVars>>,
         pc[t] \in Running, pc'[t] = "next", Alone(t), txn'[t].fresh = txn[t].fresh \cup {n},
         txn'[t].readVersion = txn[t].readVersion
  PROVE  /\ Live' = Live /\ \A m \in alloc : Same(m) /\ node'[m] = node[m]
         /\ n \notin Live \cup txn[t].fresh /\ node'[n] = c /\ DecidedNext(n)' = c.next
         /\ ThreadShape(t)' => ListInv'
  <1>1. /\ alloc \subseteq Node /\ Live \subseteq alloc /\ txn[t].fresh \subseteq alloc
        /\ \A u \in Thread : held[u] \subseteq Node
    BY LiveNodes DEF IInv, References, Types, CommitOK
  <1>2. /\ \A m \in alloc : node'[m] = node[m] /\ lock'[m] = lock[m]
        /\ node'[n] = c /\ lock'[n] = NewWord
    BY <1>1 DEF IInv, Types, MemoryOK
  <1>3. \A u \in Thread : held[u] \subseteq alloc
    BY <1>1, NodeAssumption DEF IInv, References, Refs
  <1>4. pc[t] \notin Committing /\ Hidden(t) = txn[t].fresh /\ Hidden(t)' = txn[t].fresh \cup {n}
    BY DEF Hidden, Running, Operating, Placed, Validating, Committing
  <1>5. \A m \in Node : \A u \in Thread :
          (Pending(u, m)' <=> Pending(u, m)) /\ (Pending(u, m) => txn'[u] = txn[u])
    BY <1>4 DEF Alone, Pending, commitVars, Committing
  <1>6. \A m \in alloc : Same(m)
    <2>1. SUFFICES ASSUME NEW m \in alloc PROVE Same(m) OBVIOUS
    <2>2. m \in Node /\ node'[m] = node[m] /\ lock'[m] = lock[m] BY <1>1, <1>2
    <2> QED BY <1>5, <2>2, SameDecision
  <1>7. \A u \in Thread \ {t} : Hidden(u)' = Hidden(u) BY DEF Alone, Hidden
  <1>8. alloc' \ Hidden(t)' = alloc \ Hidden(t) BY <1>4
  <1>9. Live' = Live BY <1>6, <1>7, <1>8, SameLive
  <1>10. Silent(t)
    <2>1. \A m \in Node : ~Pending(t, m)' BY DEF Pending, Committing
    <2> QED BY <1>2, <1>6, <1>8, <2>1 DEF Silent, Alone, commitVars
  <1>11. \A u \in Thread \ {t} : \A m \in held[u] :
            /\ node'[m].next = node[m].next /\ lock'[m].deleted = lock[m].deleted
            /\ lock'[m].version = lock[m].version
    BY <1>2, <1>3
  <1>12. Written(t)' BY DEF Written, Committing
  <1>13. \A m \in Hidden(t)' : ~lock'[m].deleted
    BY <1>1, <1>2, <1>4 DEF ListInv, ListMemory, NewWord
  <1>14. \A k \in Key : index'[k] # Null => node'[index'[k]].key = k
    BY <1>2 DEF ListInv, ListMemory, IInv, References
  <1>15. txn'[t].readVersion <= gvc BY DEF ListInv, ListMemory
  <1>16. ThreadShape(t)' => ListInv'
    BY <1>10, <1>11, <1>12, <1>13, <1>14, <1>15, SilentStep
  <1>17. n \notin Live \cup txn[t].fresh BY <1>1
  <1>18. DecidedNext(n)' = c.next
    <2>1. ~Decided(n)
      <3>1. \A u \in Thread : n \notin held[u] BY <1>3
      <3> QED BY <3>1 DEF Decided, Pending
    <2>2. ~Decided(n)' BY <1>5, <2>1 DEF Decided
    <2> QED BY <1>2, <2>2 DEF DecidedNext
  <1> QED BY <1>2, <1>6, <1>9, <1>16, <1>17, <1>18

\* Remove marks the node that it has unlinked.
LEMMA RemoveSuccessorShape ==
  ASSUME IInv, IInv', ListInv, NEW t \in Thread, RemoveSuccessor(t)
  PROVE  ListInv'
  <1>a. PICK n : n = FreshNode OBVIOUS
  <1>b. PICK c : c = NewNode OBVIOUS
  <1> DEFINE f == frame[t]
             s == f.succ
             value == GetUpdatedValue(t, s)
             w == Put(t, s, n, TRUE, value)
             y == [txn[t] EXCEPT !.writeSet = w,
                                 !.readSet = txn[t].readSet \cup {s},
                                 !.indexRemove = txn[t].indexRemove \cup {s},
                                 !.fresh = txn[t].fresh \cup {n}]
  <1>1. /\ pc[t] = "removeSuccessor" /\ alloc # Node
        /\ alloc' = alloc \cup {n} /\ node' = [node EXCEPT ![n] = c]
        /\ lock' = [lock EXCEPT ![n] = NewWord] /\ UNCHANGED <<gvc, index, commitVars>>
        /\ txn' = [txn EXCEPT ![t] = y] /\ Return(t, value)
    BY <1>a, <1>b DEF RemoveSuccessor, Construct
  <1>2. n \in Node \ alloc BY <1>1, <1>a, FreshNodeIsFree DEF IInv
  <1>3. /\ Goto(t, "next")
        /\ frame' = [frame EXCEPT ![t] = [EmptyFrame EXCEPT !.results = Append(f.results, value)]]
    BY <1>1 DEF Return
  <1>4. Alone(t) /\ pc'[t] = "next"
    BY <1>1, <1>3 DEF Goto, Alone, IInv, Types, TxnLabel
  <1>5. txn'[t] = y /\ ~frame'[t].removing
    BY <1>1, <1>3 DEF IInv, Types, EmptyFrame
  <1>6. /\ txn'[t].writeSet = w /\ txn'[t].fresh = txn[t].fresh \cup {n}
        /\ txn'[t].readVersion = txn[t].readVersion
        /\ txn'[t].readSet = txn[t].readSet \cup {s}
    BY <1>5 DEF IInv, Types, ThreadOK, TxnTyped, Txn
  <1>7. pc[t] \in Running BY <1>1 DEF Running, Operating, Placed
  <1> HIDE DEF y, value
  <1>8. /\ DOMAIN w = DOMAIN txn[t].writeSet \cup {s}
        /\ w[s].next = n /\ w[s].deleted = TRUE
        /\ \A m \in DOMAIN txn[t].writeSet : m # s => w[m] = txn[t].writeSet[m]
    BY DEF Put
  <1> HIDE DEF w
  <1>9. /\ Live' = Live /\ \A m \in alloc : Same(m) /\ node'[m] = node[m]
        /\ n \notin Live \cup txn[t].fresh /\ node'[n] = c /\ DecidedNext(n)' = c.next
        /\ ThreadShape(t)' => ListInv'
    BY <1>1, <1>2, <1>4, <1>6, <1>7, ConstructShape
  <1>10. /\ DOMAIN txn[t].writeSet \subseteq alloc /\ txn[t].fresh \subseteq alloc /\ s \in alloc
         /\ \A m \in DOMAIN txn[t].writeSet : txn[t].writeSet[m].next \in alloc \cup {Null}
         /\ Null \notin Node
    <2>1. Refs(t) \subseteq alloc \cup {Null} /\ txn[t].fresh \subseteq alloc BY DEF IInv, References
    <2>2. DOMAIN txn[t].writeSet \subseteq Node /\ s \in Node
      BY <1>1 DEF IInv, Types, ThreadOK, TxnTyped, FrameFits, AtFound
    <2> QED BY <2>1, <2>2, NodeAssumption DEF Refs
  <1>11. ThreadShape(t) BY <1>7 DEF ListInv
  <1>12. alloc \subseteq Node /\ Live \subseteq alloc BY LiveNodes
  <1>13. Gone(t) = {s} /\ Gone(t)' = {} BY <1>1, <1>4 DEF Gone
  <1>14. Touched(t)' = Touched(t) BY <1>6, <1>8, <1>13 DEF Touched
  <1>15. Own(t)' = Own(t)
    BY <1>6, <1>9, <1>10, <1>b DEF Own, NewNode
  <1>16. Removed(t)' = Removed(t) BY <1>6, <1>8, <1>13 DEF Removed
  <1>17. View(t)' = View(t) BY <1>9, <1>15, <1>16 DEF View
  <1>18. Touched(t) \subseteq alloc BY <1>10, <1>13 DEF Touched
  <1>19. \A m \in alloc : Old(t, m)' <=> Old(t, m)
    <2>1. SUFFICES ASSUME NEW m \in alloc PROVE Old(t, m)' <=> Old(t, m) OBVIOUS
    <2>2. m # n BY <1>2
    <2> QED BY <1>6, <1>9, <2>2 DEF Old, Same
  <1>20. ASSUME Consistent(t)'
         PROVE  /\ Touched(t)' \subseteq Live' \cup Own(t)'
                /\ Linked(View(t)', ViewNext(t)', KeyOf')
                /\ \A m \in DOMAIN txn'[t].writeSet : txn'[t].writeSet[m].deleted =>
                      /\ txn'[t].writeSet[m].next # Null
                      /\ node'[txn'[t].writeSet[m].next].key = DefaultKey
    <2>1. Consistent(t) BY <1>14, <1>18, <1>19, <1>20 DEF Consistent
    <2>2. ViewOK(t) BY <1>11 DEF ThreadShape
    <2>3. Touched(t)' \subseteq Live' \cup Own(t)' BY <1>9, <1>14, <1>15, <2>1, <2>2 DEF ViewOK
    <2>4. View(t) \subseteq alloc /\ s \notin View(t)
      BY <1>10, <1>12, <1>13 DEF View, Own, Removed
    <2>5. \A m \in View(t) : ViewNext(t)'[m] = ViewNext(t)[m] /\ KeyOf'[m] = KeyOf[m]
      <3>1. SUFFICES ASSUME NEW m \in View(t)
                     PROVE  ViewNext(t)'[m] = ViewNext(t)[m] /\ KeyOf'[m] = KeyOf[m]
        OBVIOUS
      <3>2. m \in Node /\ m \in alloc /\ m # s BY <1>12, <2>4
      <3>3. KeyOf'[m] = KeyOf[m] BY <1>9, <3>2 DEF KeyOf
      <3> QED BY <1>6, <1>8, <1>9, <3>2, <3>3 DEF ViewNext, InWriteSet, Same
    <2>6. Linked(View(t)', ViewNext(t)', KeyOf')
      BY <1>17, <2>1, <2>2, <2>5, SameLinks DEF ViewOK
    <2>7. \A m \in DOMAIN txn'[t].writeSet : txn'[t].writeSet[m].deleted =>
              /\ txn'[t].writeSet[m].next # Null
              /\ node'[txn'[t].writeSet[m].next].key = DefaultKey
      <3>1. SUFFICES ASSUME NEW m \in DOMAIN w, w[m].deleted
                     PROVE  w[m].next # Null /\ node'[w[m].next].key = DefaultKey
        BY <1>6
      <3>2. CASE m = s BY <1>2, <1>8, <1>9, <1>10, <3>2, <1>b DEF NewNode
      <3>3. CASE m # s
        <4>1. m \in DOMAIN txn[t].writeSet /\ w[m] = txn[t].writeSet[m] BY <1>8, <3>3
        <4>2. w[m].next # Null /\ node[w[m].next].key = DefaultKey
          BY <2>1, <2>2, <3>1, <4>1 DEF ViewOK
        <4>3. w[m].next \in alloc BY <1>10, <4>1, <4>2
        <4> QED BY <1>9, <4>2, <4>3
      <3> QED BY <3>2, <3>3
    <2> QED BY <2>3, <2>6, <2>7
  <1>21. ViewOK(t)' BY <1>20 DEF ViewOK
  <1>22. Checked(t)'
    <2>1. DOMAIN txn[t].writeSet \subseteq txn[t].readSet BY <1>7, <1>11 DEF ThreadShape, Checked
    <2> QED BY <1>4, <1>6, <1>8, <2>1 DEF Checked, Validating
  <1>23. ThreadShape(t)' BY <1>4, <1>5, <1>21, <1>22, NoPlace
  <1> QED BY <1>9, <1>23

\* Insert links a new node in behind the predecessor.
LEMMA InsertNewShape ==
  ASSUME IInv, IInv', ListInv, KeysPrecedeDefault, NEW t \in Thread, InsertNew(t)
  PROVE  ListInv'
  <1>a. PICK n : n = FreshNode OBVIOUS
  <1>b. PICK c : c = [key |-> frame[t].op.key, value |-> frame[t].op.value, next |-> frame[t].succ] OBVIOUS
  <1> DEFINE f == frame[t]
             p == f.pred
             s == f.succ
             k == f.op.key
             value == GetUpdatedValue(t, p)
             w == Put(t, p, n, FALSE, value)
             y == [txn[t] EXCEPT !.writeSet = w,
                                 !.indexAdd = Append(txn[t].indexAdd, n),
                                 !.fresh = txn[t].fresh \cup {n}]
  <1>1. /\ pc[t] = "apply" /\ alloc # Node /\ ~Found(t)
        /\ alloc' = alloc \cup {n} /\ node' = [node EXCEPT ![n] = c]
        /\ lock' = [lock EXCEPT ![n] = NewWord] /\ UNCHANGED <<gvc, index, commitVars>>
        /\ txn' = [txn EXCEPT ![t] = y] /\ Return(t, Null)
    BY <1>a, <1>b DEF InsertNew, Construct
  <1>2. n \in Node \ alloc BY <1>1, <1>a, FreshNodeIsFree DEF IInv
  <1>3. /\ Goto(t, "next")
        /\ frame' = [frame EXCEPT ![t] = [EmptyFrame EXCEPT !.results = Append(f.results, Null)]]
    BY <1>1 DEF Return
  <1>4. Alone(t) /\ pc'[t] = "next"
    BY <1>1, <1>3 DEF Goto, Alone, IInv, Types, TxnLabel
  <1>5. txn'[t] = y /\ ~frame'[t].removing
    BY <1>1, <1>3 DEF IInv, Types, EmptyFrame
  <1>6. /\ txn'[t].writeSet = w /\ txn'[t].fresh = txn[t].fresh \cup {n}
        /\ txn'[t].readVersion = txn[t].readVersion /\ txn'[t].readSet = txn[t].readSet
    BY <1>5 DEF IInv, Types, ThreadOK, TxnTyped, Txn
  <1>7. /\ pc[t] \in Running /\ ThreadShape(t) /\ p \in Node /\ s \in Node \cup {Null}
        /\ k \in Key /\ k \in Int
        /\ p = Sentinel \/ (node[p].key \in Key /\ node[p].key < k)
        /\ Consistent(t) /\ Old(t, p) => p \in View(t) /\ ViewNext(t)[p] = s
        /\ p \in txn[t].readSet /\ (s # Null => node[s].key >= k)
        /\ DOMAIN txn[t].writeSet \subseteq txn[t].readSet
    BY <1>1, FoundPlace
  <1> HIDE DEF y, value
  <1>8. /\ DOMAIN w = DOMAIN txn[t].writeSet \cup {p}
        /\ w[p].next = n /\ w[p].deleted = FALSE
        /\ \A m \in DOMAIN txn[t].writeSet : m # p => w[m] = txn[t].writeSet[m]
    BY DEF Put
  <1>9. c.key = k /\ c.next = s BY <1>b
  <1> HIDE DEF w
  <1>10. /\ Live' = Live /\ \A m \in alloc : Same(m) /\ node'[m] = node[m]
         /\ n \notin Live \cup txn[t].fresh /\ node'[n] = c /\ DecidedNext(n)' = c.next
         /\ ThreadShape(t)' => ListInv'
    BY <1>1, <1>2, <1>4, <1>6, <1>7, ConstructShape
  <1>11. /\ DOMAIN txn[t].writeSet \subseteq alloc /\ txn[t].fresh \subseteq alloc
         /\ p \in alloc /\ s \in alloc \cup {Null} /\ Null \notin Node
         /\ \A m \in DOMAIN txn[t].writeSet : txn[t].writeSet[m].next \in alloc \cup {Null}
    <2>1. Refs(t) \subseteq alloc \cup {Null} /\ txn[t].fresh \subseteq alloc BY DEF IInv, References
    <2>2. DOMAIN txn[t].writeSet \subseteq Node BY DEF IInv, Types, ThreadOK, TxnTyped
    <2> QED BY <1>7, <2>1, <2>2, NodeAssumption DEF Refs
  <1>12. alloc \subseteq Node /\ Live \subseteq alloc BY LiveNodes
  <1>13. Gone(t) = {} /\ Gone(t)' = {} BY <1>1, <1>4 DEF Gone
  <1>14. Touched(t)' = Touched(t) \cup {p} BY <1>6, <1>8, <1>13 DEF Touched
  <1>15. Own(t)' = Own(t) \cup {n}
    <2>1. k # DefaultKey BY <1>7, KeyAssumption DEF KeysPrecedeDefault
    <2> QED BY <1>6, <1>9, <1>10, <1>11, <2>1 DEF Own
  <1>16. Touched(t) \subseteq alloc BY <1>11, <1>13 DEF Touched
  <1>17. \A m \in alloc : Old(t, m)' <=> Old(t, m)
    <2>1. SUFFICES ASSUME NEW m \in alloc PROVE Old(t, m)' <=> Old(t, m) OBVIOUS
    <2>2. m # n BY <1>2
    <2> QED BY <1>6, <1>10, <2>2 DEF Old, Same
  <1>18. ASSUME Consistent(t)'
         PROVE  /\ Touched(t)' \subseteq Live' \cup Own(t)'
                /\ Linked(View(t)', ViewNext(t)', KeyOf')
                /\ \A m \in DOMAIN txn'[t].writeSet : txn'[t].writeSet[m].deleted =>
                      /\ txn'[t].writeSet[m].next # Null
                      /\ node'[txn'[t].writeSet[m].next].key = DefaultKey
    <2>1. Consistent(t) /\ Old(t, p)
      BY <1>11, <1>14, <1>16, <1>17, <1>18 DEF Consistent
    <2>2. ViewOK(t) /\ Linked(View(t), ViewNext(t), KeyOf)
      BY <1>7, <2>1 DEF ThreadShape, ViewOK
    <2>3. p \in View(t) /\ ViewNext(t)[p] = s BY <1>7, <2>1
    <2>4. Removed(t)' = Removed(t)
      <3>1. p \notin Removed(t) BY <2>3 DEF View
      <3> QED BY <1>6, <1>8, <1>13, <3>1 DEF Removed
    <2>5. View(t) \subseteq alloc /\ n \notin View(t) /\ n \notin Removed(t)
      BY <1>2, <1>11, <1>12, <1>13 DEF View, Own, Removed
    <2>6. View(t)' = View(t) \cup {n} BY <1>10, <1>15, <2>4, <2>5 DEF View
    <2>7. Touched(t)' \subseteq Live' \cup Own(t)'
      BY <1>10, <1>14, <1>15, <2>1, <2>2, <2>3 DEF ViewOK, View
    <2> DEFINE M == ViewNext(t)'
               H == KeyOf'
    <2>8. M[p] = n BY <1>6, <1>7, <1>8 DEF ViewNext, InWriteSet
    <2>9. M[n] = s
      <3>1. n \notin DOMAIN w BY <1>2, <1>8, <1>11
      <3> QED BY <1>2, <1>6, <1>9, <1>10, <3>1 DEF ViewNext, InWriteSet
    <2>10. \A m \in View(t) \ {p} : M[m] = ViewNext(t)[m]
      <3>1. SUFFICES ASSUME NEW m \in View(t) \ {p} PROVE M[m] = ViewNext(t)[m] OBVIOUS
      <3>2. m \in Node /\ m \in alloc BY <1>12, <2>5
      <3> QED BY <1>6, <1>8, <1>10, <3>1, <3>2 DEF ViewNext, InWriteSet, Same
    <2>11. \A m \in View(t) : H[m] = KeyOf[m] BY <1>10, <1>12, <2>5 DEF KeyOf
    <2>12. H[n] = k BY <1>2, <1>9, <1>10 DEF KeyOf
    <2>13. p # Sentinel => H[p] < H[n]
      BY <1>7, <2>3, <2>11, <2>12 DEF KeyOf
    <2>14. s # Null => H[n] < H[s]
      <3>1. SUFFICES ASSUME s # Null PROVE k < H[s] BY <2>12
      <3>2. s \in View(t) BY <2>2, <2>3, <3>1 DEF Linked
      <3>3. s \in Node /\ H[s] = node[s].key BY <1>12, <2>5, <2>11, <3>2 DEF KeyOf
      <3>4. node[s].key # k BY <1>1, <3>1 DEF Found
      <3>5. node[s].key \in Int BY <3>3, KeyAssumption DEF IInv, Types, MemoryOK
      <3> QED BY <1>7, <3>1, <3>3, <3>4, <3>5
    <2> HIDE DEF M, H
    <2>15. Null \notin View(t) /\ n # Null BY <1>2, <1>11, <1>12, <2>5
    <2>16. Linked(View(t) \cup {n}, M, H)
      BY <2>2, <2>3, <2>5, <2>8, <2>9, <2>10, <2>11, <2>13, <2>14, <2>15, LinkIn
    <2>17. Linked(View(t)', ViewNext(t)', KeyOf') BY <2>6, <2>16 DEF M, H
    <2>18. \A m \in DOMAIN txn'[t].writeSet : txn'[t].writeSet[m].deleted =>
              /\ txn'[t].writeSet[m].next # Null
              /\ node'[txn'[t].writeSet[m].next].key = DefaultKey
      <3>1. SUFFICES ASSUME NEW m \in DOMAIN w, w[m].deleted
                     PROVE  w[m].next # Null /\ node'[w[m].next].key = DefaultKey
        BY <1>6
      <3>2. m # p BY <1>8, <3>1
      <3>3. m \in DOMAIN txn[t].writeSet /\ w[m] = txn[t].writeSet[m] BY <1>8, <3>2
      <3>4. w[m].next # Null /\ node[w[m].next].key = DefaultKey
        BY <2>1, <2>2, <3>1, <3>3 DEF ViewOK
      <3>5. w[m].next \in alloc BY <1>11, <3>3, <3>4
      <3> QED BY <1>10, <3>4, <3>5
    <2> QED BY <2>7, <2>17, <2>18
  <1>19. ViewOK(t)' BY <1>18 DEF ViewOK
  <1>20. Checked(t)' BY <1>4, <1>6, <1>7, <1>8 DEF Checked, Validating
  <1>21. ThreadShape(t)' BY <1>4, <1>5, <1>19, <1>20, NoPlace
  <1> QED BY <1>10, <1>21

-----------------------------------------------------------------------------
(* The commit, until it is decided. *)

\* A step of a commit that decides nothing keeps the invariant, if what it has
\* checked is old.
LEMMA CommitQuiet ==
  ASSUME IInv, IInv', ListInv, NEW t \in Thread, Quiet(t), UNCHANGED <<txn, frame>>,
         pc[t] \in {"next", "lock"} \cup Validating, pc'[t] \in {"lock", "abort"} \cup Validating
  PROVE  /\ ThreadShape(t) /\ Checked(t) /\ pc[t] \in Running
         /\ DOMAIN txn[t].writeSet \subseteq Node
         /\ \A n \in Node : Old(t, n)' <=> Old(t, n)
         /\ pc'[t] = "abort" \/ Checked(t)' => ListInv'
  <1>1. pc[t] \in Running BY DEF Running
  <1>2. Hidden(t)' = Hidden(t) BY DEF Hidden, Committing, Validating
  <1>3. Gone(t) = {} /\ Gone(t)' = {} BY DEF Gone, Validating
  <1>4. ThreadShape(t) BY <1>1 DEF ListInv
  <1>5. /\ \A n \in Node : Old(t, n)' <=> Old(t, n)
        /\ ViewOK(t) => ViewOK(t)'
    BY <1>2, <1>3, QuietView
  <1>6. ViewOK(t)' BY <1>4, <1>5 DEF ThreadShape
  <1>7. pc'[t] # "abort" /\ Checked(t)' => ThreadShape(t)' BY <1>6, NoPlace DEF Validating
  <1>8. txn'[t].readVersion <= gvc BY DEF ListInv, ListMemory
  <1>9. "abort" \notin Running BY DEF Running, Operating, Placed, Validating
  <1>10. pc'[t] = "abort" \/ Checked(t)' => ListInv' BY <1>2, <1>7, <1>8, <1>9, QuietShape
  <1>11. DOMAIN txn[t].writeSet \subseteq Node BY DEF IInv, Types, ThreadOK, TxnTyped
  <1> QED BY <1>1, <1>4, <1>5, <1>10, <1>11 DEF ThreadShape

\* The commit begins.
LEMMA CommitShape ==
  ASSUME IInv, IInv', ListInv, NEW t \in Thread, Commit(t)
  PROVE  ListInv'
  <1>1. /\ pc[t] = "next" /\ pc'[t] = "lock" /\ Alone(t)
        /\ UNCHANGED <<sharedVars, txn, held, cur, saw, frame>>
        /\ todo' = [todo EXCEPT ![t] = DOMAIN txn[t].writeSet]
    BY AloneAt DEF Commit, LockWriteSet, Visit, TxnLabel, Holding
  <1>2. \A u \in Thread \ {t} : todo'[u] = todo[u] /\ cur'[u] = cur[u]
    BY <1>1 DEF IInv, Types, CommitOK
  <1>3. Quiet(t) BY <1>1, <1>2 DEF Quiet, sharedVars, Committing
  <1>4. Checked(t) /\ pc[t] \in Running /\ (Checked(t)' => ListInv')
    BY <1>1, <1>3, CommitQuiet
  <1>5. Checked(t)' BY <1>1, <1>4 DEF Checked, Validating
  <1> QED BY <1>4, <1>5

\* A node of the write set is locked.
LEMMA LockNodeShape ==
  ASSUME IInv, IInv', ListInv, NEW t \in Thread, LockNode(t), UNCHANGED frame
  PROVE  ListInv'
  <1>1. pc[t] = "lock" /\ UNCHANGED <<gvc, node, alloc, index, txn, cur, saw>> BY DEF LockNode
  <1>2. PICK n \in todo[t] :
           IF lock[n].locked
           THEN /\ Abort(t)
                /\ UNCHANGED <<lock, held, todo>>
           ELSE /\ lock' = [lock EXCEPT ![n] = Acquired(@)]
                /\ held' = [held EXCEPT ![t] = @ \cup {n}]
                /\ Visit(t, todo[t] \ {n})
                /\ UNCHANGED pc
    BY DEF LockNode
  <1>3. n \in Node BY DEF IInv, Types, CommitOK
  <1>4. CASE lock[n].locked
    <2>1. pc'[t] = "abort" /\ Alone(t) /\ UNCHANGED <<lock, held, todo>>
      BY <1>1, <1>2, <1>4, AloneAt DEF Abort, TxnLabel, Holding
    <2>2. Quiet(t) BY <1>1, <2>1 DEF Quiet, Committing
    <2> QED BY <1>1, <2>1, <2>2, CommitQuiet
  <1>5. CASE ~lock[n].locked
    <2>1. /\ lock' = [lock EXCEPT ![n] = Acquired(lock[n])] /\ held' = [held EXCEPT ![t] = held[t] \cup {n}]
          /\ todo' = [todo EXCEPT ![t] = todo[t] \ {n}] /\ pc' = pc
      BY <1>2, <1>5 DEF Visit
    <2>2. Alone(t) BY <1>1, <2>1 DEF Alone, IInv, Types
    <2>3. \A u \in Thread \ {t} : held'[u] = held[u] /\ todo'[u] = todo[u]
      BY <2>1 DEF IInv, Types, CommitOK
    <2>4. \A m \in Node : lock'[m].deleted = lock[m].deleted /\ lock'[m].version = lock[m].version
      BY <2>1 DEF IInv, Types, MemoryOK, Word, Acquired
    <2>5. Quiet(t) BY <1>1, <2>1, <2>2, <2>3, <2>4 DEF Quiet, Committing
    <2>6. Checked(t) /\ pc[t] \in Running /\ (Checked(t)' => ListInv')
      BY <1>1, <2>1, <2>5, CommitQuiet
    <2>7. Checked(t)' BY <1>1, <2>1, <2>6 DEF Checked, Validating
    <2> QED BY <2>6, <2>7
  <1> QED BY <1>4, <1>5

\* The validation begins with the nodes that have been read.
LEMMA ValidateReadSetShape ==
  ASSUME IInv, IInv', ListInv, NEW t \in Thread, ValidateReadSet(t), UNCHANGED frame
  PROVE  ListInv'
  <1>1. /\ pc[t] = "lock" /\ pc'[t] = "validate" /\ Alone(t)
        /\ UNCHANGED <<sharedVars, txn, held, cur, saw, frame>>
        /\ todo' = [todo EXCEPT ![t] = txn[t].readSet]
    BY AloneAt DEF ValidateReadSet, Visit, TxnLabel, Holding, Validating
  <1>2. todo'[t] = txn[t].readSet /\ \A u \in Thread \ {t} : todo'[u] = todo[u] /\ cur'[u] = cur[u]
    BY <1>1 DEF IInv, Types, CommitOK
  <1>3. Quiet(t) BY <1>1, <1>2 DEF Quiet, sharedVars, Committing
  <1>4. Checked(t) /\ pc[t] \in Running /\ (Checked(t)' => ListInv')
    BY <1>1, <1>3, CommitQuiet DEF Validating
  <1>5. Checked(t)' BY <1>1, <1>2, <1>4 DEF Checked
  <1> QED BY <1>4, <1>5

\* One of them is chosen.
LEMMA ValidateNodeShape ==
  ASSUME IInv, IInv', ListInv, NEW t \in Thread, ValidateNode(t), UNCHANGED frame
  PROVE  ListInv'
  <1>1. /\ pc[t] = "validate" /\ pc'[t] \in {"abort", "validateVersion"} /\ Alone(t)
        /\ UNCHANGED <<sharedVars, txn, held, todo, saw, frame>>
    BY AloneAt DEF ValidateNode, TxnLabel, Holding, Validating
  <1>2. PICK n \in todo[t] : cur' = [cur EXCEPT ![t] = n] BY DEF ValidateNode
  <1>3. \A u \in Thread \ {t} : cur'[u] = cur[u] BY <1>2 DEF IInv, Types, CommitOK
  <1>4. Quiet(t) BY <1>1, <1>3 DEF Quiet, sharedVars, Committing
  <1>5. /\ Checked(t) /\ pc[t] \in Running /\ DOMAIN txn[t].writeSet \subseteq Node
        /\ \A m \in Node : Old(t, m)' <=> Old(t, m)
        /\ pc'[t] = "abort" \/ Checked(t)' => ListInv'
    BY <1>1, <1>4, CommitQuiet DEF Validating
  <1>6. CASE pc'[t] = "validateVersion"
    <2>1. Checked(t)' BY <1>1, <1>5, <1>6 DEF Checked, Validating
    <2> QED BY <1>5, <2>1
  <1> QED BY <1>1, <1>5, <1>6

\* Nobody else has decided on a node that the thread holds.
LEMMA HeldUndecided ==
  ASSUME IInv, NEW t \in Thread, pc[t] \in Validating, NEW n \in DOMAIN txn[t].writeSet
  PROVE  ~Decided(n) /\ n \in held[t] /\ n \in Node
  <1>1. n \in held[t] /\ n \in Node
    BY DEF IInv, Ownership, HoldsOK, Types, CommitOK
  <1>2. pc[t] \notin Committing BY DEF Validating, Committing
  <1> QED BY <1>1, <1>2 DEF IInv, Ownership, Decided, Pending

\* A node is validated: if it is in the write set it is old.
LEMMA ValidateShape ==
  ASSUME IInv, IInv', ListInv, NEW t \in Thread, UNCHANGED frame,
         ValidateVersion(t) \/ ValidateEqual(t) \/ ValidateSingleton(t) \/ ValidateRelocked(t)
  PROVE  ListInv'
  <1>1. /\ pc[t] \in Validating \ {"validate"}
        /\ UNCHANGED <<sharedVars, txn, held, cur, saw, frame>>
        /\ UNCHANGED todo \/ Visited(t)
    BY DEF ValidateVersion, ValidateEqual, ValidateSingleton, ValidateRelocked, Validating, commitVars
  <1>2. ~lock[cur[t]].singleton /\ cur[t] \in Node BY DEF IInv, Types, MemoryOK, CommitOK
  <1>3. \E label \in {"abort"} \cup Validating : Goto(t, label)
    BY <1>2 DEF ValidateVersion, ValidateEqual, ValidateSingleton, ValidateRelocked, Abort, Validating
  <1>4. pc'[t] \in {"abort"} \cup Validating /\ Alone(t)
    BY <1>1, <1>3, AloneAt DEF TxnLabel, Holding
  <1>5. \A u \in Thread \ {t} : todo'[u] = todo[u]
    BY <1>1 DEF Visited, Visit, IInv, Types, CommitOK
  <1>6. Quiet(t) BY <1>1, <1>4, <1>5 DEF Quiet, sharedVars, Committing, Validating
  <1>7. /\ Checked(t) /\ pc[t] \in Running /\ DOMAIN txn[t].writeSet \subseteq Node
        /\ \A m \in Node : Old(t, m)' <=> Old(t, m)
        /\ pc'[t] = "abort" \/ Checked(t)' => ListInv'
    BY <1>1, <1>4, <1>6, CommitQuiet
  <1> DEFINE w == DOMAIN txn[t].writeSet
  <1>8. w \subseteq txn[t].readSet /\ \A n \in w : n \in todo[t] \/ Old(t, n)
    BY <1>1, <1>7 DEF Checked
  <1>9. CASE ValidateVersion(t)
    <2>1. pc[t] = "validateVersion" /\ UNCHANGED todo
          /\ Goto(t, IF lock[cur[t]].version > txn[t].readVersion THEN "abort" ELSE "validateEqual")
      BY <1>9 DEF ValidateVersion, commitVars
    <2>2. CASE lock[cur[t]].version > txn[t].readVersion
      <3>1. pc'[t] = "abort" BY <2>1, <2>2 DEF Goto, IInv, Types
      <3> QED BY <1>7, <3>1
    <2>3. CASE ~(lock[cur[t]].version > txn[t].readVersion)
      <3>1. pc'[t] = "validateEqual" BY <2>1, <2>3 DEF Goto, IInv, Types
      <3>2. cur[t] \in w => Old(t, cur[t])
        <4>1. SUFFICES ASSUME cur[t] \in w PROVE Old(t, cur[t]) OBVIOUS
        <4>2. ~Decided(cur[t]) BY <1>1, <4>1, HeldUndecided
        <4>3. lock[cur[t]].version \in Nat /\ txn[t].readVersion \in Nat
          BY <1>2 DEF IInv, Types, MemoryOK, Word, ThreadOK, TxnTyped, Txn
        <4> QED BY <2>3, <4>2, <4>3 DEF Old, DecidedVersion
      <3>3. Checked(t)' BY <1>1, <1>2, <1>7, <1>8, <2>1, <3>1, <3>2 DEF Checked
      <3> QED BY <1>7, <3>3
    <2> QED BY <2>2, <2>3
  <1>10. CASE ValidateEqual(t) \/ ValidateSingleton(t)
    <2>1. /\ pc[t] \in {"validateEqual", "validateSingleton"} /\ UNCHANGED todo
          /\ \E label \in {"validateSingleton", "validateRelocked"} : Goto(t, label)
      BY <1>2, <1>10 DEF ValidateEqual, ValidateSingleton, commitVars
    <2>2. pc'[t] \in {"validateSingleton", "validateRelocked"}
      BY <2>1 DEF Goto, IInv, Types
    <2>3. cur[t] \in w => Old(t, cur[t]) BY <1>7, <2>1 DEF Checked
    <2>4. Checked(t)' BY <1>1, <1>2, <1>7, <1>8, <2>1, <2>2, <2>3 DEF Checked
    <2> QED BY <1>7, <2>4
  <1>11. CASE ValidateRelocked(t)
    <2>1. pc[t] = "validateRelocked" BY <1>11 DEF ValidateRelocked
    <2>2. CASE pc'[t] = "abort" BY <1>7, <2>2
    <2>3. CASE pc'[t] # "abort"
      <3>1. Goto(t, "validate") /\ todo' = [todo EXCEPT ![t] = todo[t] \ {cur[t]}]
        BY <1>11, <2>3 DEF ValidateRelocked, Visited, Visit, Abort, Goto, IInv, Types
      <3>2. pc'[t] = "validate" /\ todo'[t] = todo[t] \ {cur[t]}
        BY <3>1 DEF Goto, IInv, Types, CommitOK
      <3>3. cur[t] \in w => Old(t, cur[t]) BY <1>7, <2>1 DEF Checked
      <3>4. Checked(t)' BY <1>1, <1>2, <1>7, <1>8, <2>1, <3>2, <3>3 DEF Checked
      <3> QED BY <1>7, <3>4
    <2> QED BY <2>2, <2>3
  <1> QED BY <1>9, <1>10, <1>11

\* The transaction is decided: the decided list becomes what it has made of it.
LEMMA PassValidationShape ==
  ASSUME IInv, IInv', ListInv, NEW t \in Thread, PassValidation(t)
  PROVE  ListInv'
  <1>1. /\ pc[t] = "validate" /\ pc'[t] = "write" /\ DOMAIN txn[t].writeSet = held[t]
        /\ held[t] \subseteq Node /\ todo'[t] = held[t]
        /\ UNCHANGED <<lock, node, alloc, index, held, cur, frame>> /\ gvc' = gvc + 1
        /\ \A u \in Thread \ {t} : /\ pc'[u] = pc[u] /\ txn'[u] = txn[u] /\ todo'[u] = todo[u]
                                   /\ Hidden(u)' = Hidden(u)
        /\ txn'[t].writeSet = txn[t].writeSet /\ txn'[t].readVersion = txn[t].readVersion
        /\ Hidden(t) = txn[t].fresh /\ Hidden(t)' = {}
    BY Decides
  <1>2. Linked(Live', DecidedNexts', KeyOf') BY DecideMemory
  <1>3. Written(t)'
    <2>1. \A n \in held[t] : ~lock[n].deleted
      <3>1. SUFFICES ASSUME NEW n \in held[t] PROVE ~lock[n].deleted OBVIOUS
      <3>2. n \in Live \cup Own(t) BY DeciderConsistent DEF ViewOK
      <3>3. ~Decided(n) BY <1>1, HeldUndecided DEF Validating
      <3>4. CASE n \in Live BY <3>3, <3>4 DEF Live, DecidedMark
      <3>5. CASE n \in Own(t) BY <1>1, <3>5 DEF Own, ListInv, ListMemory
      <3> QED BY <3>2, <3>4, <3>5
    <2> QED BY <1>1, <2>1 DEF Written
  <1>4. ASSUME NEW u \in Thread
        PROVE  /\ Written(u)' /\ txn'[u].readVersion <= gvc'
               /\ \A n \in Hidden(u)' : ~lock'[n].deleted
    <2>1. txn[u].readVersion <= gvc /\ Written(u) /\ \A n \in Hidden(u) : ~lock[n].deleted
      BY DEF ListInv, ListMemory
    <2>2. txn'[u].readVersion = txn[u].readVersion BY <1>1
    <2>3. gvc \in Nat /\ txn[u].readVersion \in Nat
      BY DEF IInv, Types, MemoryOK, ThreadOK, TxnTyped, Txn
    <2>4. txn'[u].readVersion <= gvc' BY <1>1, <2>1, <2>2, <2>3
    <2>5. CASE u = t BY <1>1, <1>3, <2>4, <2>5
    <2>6. CASE u # t
      <3>1. Written(u)' BY <1>1, <2>1, <2>6 DEF Written
      <3> QED BY <1>1, <2>1, <2>4, <2>6, <3>1
    <2> QED BY <2>5, <2>6
  <1>5. ListMemory' BY <1>1, <1>2, <1>4 DEF ListMemory, ListInv
  <1>6. ASSUME NEW u \in Thread, pc'[u] \in Running PROVE ThreadShape(u)'
    <2>1. u # t BY <1>1, <1>6 DEF Running, Operating, Placed, Validating
    <2> QED BY <1>1, <1>6, <2>1, DecideOther
  <1> QED BY <1>5, <1>6 DEF ListInv

-----------------------------------------------------------------------------
(* After the commit. *)

\* A lock is released.
LEMMA ReleaseShape ==
  ASSUME IInv, IInv', ListInv, NEW t \in Thread, Release(t), UNCHANGED frame
  PROVE  ListInv'
  <1>1. pc[t] \in {"finish", "abort"} /\ UNCHANGED <<gvc, node, alloc, index, txn, todo, cur, saw>>
    BY DEF Release
  <1>2. held[t] \subseteq Node BY DEF IInv, Types, CommitOK
  <1>3. PICK n \in held[t] :
          /\ lock' = [lock EXCEPT ![n] = Released(lock[n])]
          /\ held' = [held EXCEPT ![t] = held[t] \ {n}]
          /\ UNCHANGED pc
    BY <1>2 DEF Release, IInv, Ownership
  <1>4. Alone(t) BY <1>1, <1>3 DEF Alone, IInv, Types
  <1>5. \A u \in Thread \ {t} : held'[u] = held[u] BY <1>3 DEF IInv, Types, CommitOK
  <1>6. \A m \in Node : lock'[m].deleted = lock[m].deleted /\ lock'[m].version = lock[m].version
    BY <1>2, <1>3 DEF IInv, Types, MemoryOK, Word, Released
  <1>7. Quiet(t) BY <1>1, <1>3, <1>4, <1>5, <1>6 DEF Quiet, Committing
  <1>8. Hidden(t)' = Hidden(t) BY <1>1, <1>3 DEF Hidden
  <1>9. pc'[t] \notin Running BY <1>1, <1>3 DEF Running, Operating, Placed, Validating
  <1>10. txn'[t].readVersion <= gvc BY <1>1 DEF ListInv, ListMemory
  <1> QED BY <1>7, <1>8, <1>9, <1>10, QuietShape

\* An update of the index.
LEMMA IndexShape ==
  ASSUME IInv, IInv', ListInv, NEW t \in Thread, pc[t] = "finish",
         UNCHANGED <<gvc, lock, node, alloc, pc, commitVars, frame>>,
         \A u \in Thread \ {t} : txn'[u] = txn[u],
         txn'[t].readVersion = txn[t].readVersion,
         \A k \in Key : index'[k] # Null => node[index'[k]].key = k
  PROVE  ListInv' /\ Silent(t)
  <1>1. \A n \in Node : \A u \in Thread :
          (Pending(u, n)' <=> Pending(u, n)) /\ (Pending(u, n) => txn'[u] = txn[u])
    BY DEF Pending, Committing, commitVars
  <1>2. \A n \in Node : Same(n)
    <2>1. SUFFICES ASSUME NEW n \in Node PROVE Same(n) OBVIOUS
    <2> QED BY <1>1, SameDecision
  <1>3. Hidden(t) = {} /\ Hidden(t)' = {} BY DEF Hidden
  <1>4. Silent(t)
    <2>1. \A n \in Node : ~Pending(t, n)' BY DEF Pending, Committing
    <2>2. alloc \subseteq Node BY LiveNodes
    <2> QED BY <1>2, <1>3, <2>1, <2>2 DEF Silent, commitVars
  <1>5. Written(t)' BY DEF Written, Committing
  <1>6. txn'[t].readVersion <= gvc BY DEF ListInv, ListMemory
  <1>7. pc'[t] \notin Running BY DEF Running, Operating, Placed, Validating
  <1>8. \A u \in Thread \ {t} : \A n \in held[u] :
            /\ node'[n].next = node[n].next /\ lock'[n].deleted = lock[n].deleted
            /\ lock'[n].version = lock[n].version
    OBVIOUS
  <1>9. \A k \in Key : index'[k] # Null => node'[index'[k]].key = k OBVIOUS
  <1> QED BY <1>3, <1>4, <1>5, <1>6, <1>7, <1>8, <1>9, SilentStep

\* The nodes that the transaction has created get into the index.
LEMMA IndexAddShape ==
  ASSUME IInv, IInv', ListInv, NEW t \in Thread, LazyUpdateIndexAdd(t), UNCHANGED frame
  PROVE  ListInv' /\ Silent(t)
  <1>1. PICK n : n = Head(txn[t].indexAdd) OBVIOUS
  <1>2. /\ pc[t] = "finish" /\ UNCHANGED <<gvc, lock, node, alloc, pc, commitVars>>
        /\ index' = IndexInsert(index, n)
        /\ txn' = [txn EXCEPT ![t].indexAdd = Tail(txn[t].indexAdd)]
    BY <1>1 DEF LazyUpdateIndexAdd
  <1>3. TxnTyped(txn[t]) /\ DOMAIN txn = Thread BY DEF IInv, Types, ThreadOK
  <1>4. /\ txn'[t].readVersion = txn[t].readVersion
        /\ \A u \in Thread \ {t} : txn'[u] = txn[u]
    BY <1>2, <1>3 DEF TxnTyped, Txn
  <1>5. ASSUME NEW k \in Key, index'[k] # Null PROVE node[index'[k]].key = k
    <2>1. index'[k] = index[k] \/ (index'[k] = n /\ node[n].key = k)
      BY <1>2 DEF IndexInsert, IInv, Types, MemoryOK
    <2> QED BY <1>5, <2>1 DEF ListInv, ListMemory
  <1> QED BY <1>2, <1>4, <1>5, IndexShape

\* Those that it has removed leave it.
LEMMA IndexRemoveShape ==
  ASSUME IInv, IInv', ListInv, NEW t \in Thread, LazyUpdateIndexRemove(t), UNCHANGED frame
  PROVE  ListInv' /\ Silent(t)
  <1>1. /\ pc[t] = "finish" /\ UNCHANGED <<gvc, lock, node, alloc, pc, commitVars>>
    BY DEF LazyUpdateIndexRemove
  <1>2. PICK n \in txn[t].indexRemove :
          /\ index' = IndexErase(index, n)
          /\ txn' = [txn EXCEPT ![t].indexRemove = txn[t].indexRemove \ {n}]
    BY DEF LazyUpdateIndexRemove
  <1>3. TxnTyped(txn[t]) /\ DOMAIN txn = Thread BY DEF IInv, Types, ThreadOK
  <1>4. /\ txn'[t].readVersion = txn[t].readVersion
        /\ \A u \in Thread \ {t} : txn'[u] = txn[u]
    BY <1>2, <1>3 DEF TxnTyped, Txn
  <1>5. ASSUME NEW k \in Key, index'[k] # Null PROVE node[index'[k]].key = k
    <2>1. index'[k] = index[k]
      BY <1>2, <1>5 DEF IndexErase, IInv, Types, MemoryOK
    <2> QED BY <1>5, <2>1 DEF ListInv, ListMemory
  <1> QED BY <1>1, <1>4, <1>5, IndexShape

\* The transaction is over.
LEMMA SucceedShape ==
  ASSUME IInv, IInv', ListInv, NEW t \in Thread, Succeed(t)
  PROVE  ListInv'
  <1>1. /\ pc[t] = "finish" /\ held[t] = {} /\ Cleanup(t)
        /\ UNCHANGED <<sharedVars, held, saw>>
        /\ frame' = [frame EXCEPT ![t] = EmptyFrame]
    BY DEF Succeed, LocalTxnCleanup
  <1>2. /\ Alone(t) /\ pc'[t] = "idle" /\ txn'[t] = EmptyTxn /\ Hidden(t)' = {}
        /\ \A u \in Thread \ {t} : todo'[u] = todo[u] /\ cur'[u] = cur[u]
    BY <1>1, CleanupStep
  <1>3. Quiet(t) BY <1>1, <1>2 DEF Quiet, sharedVars, Committing
  <1>4. Hidden(t)' = Hidden(t) BY <1>1, <1>2 DEF Hidden
  <1>5. txn'[t].readVersion <= gvc BY <1>2 DEF EmptyTxn, IInv, Types, MemoryOK
  <1>6. pc'[t] \notin Running BY <1>2 DEF Running, Operating, Placed, Validating
  <1> QED BY <1>3, <1>4, <1>5, <1>6, QuietShape

\* The nodes that nobody else refers to are destroyed.
LEMMA FailShape ==
  ASSUME IInv, IInv', ListInv, NEW t \in Thread, Fail(t)
  PROVE  ListInv' /\ Silent(t)
  <1> DEFINE fresh == txn[t].fresh
  <1>1. /\ pc[t] \in {"abort", "fault"} /\ held[t] = {} /\ Cleanup(t)
        /\ UNCHANGED <<gvc, index, held, saw>>
        /\ frame' = [frame EXCEPT ![t] = EmptyFrame]
        /\ alloc' = alloc \ fresh
        /\ node' = [n \in Node |-> IF n \in fresh THEN NewNode ELSE node[n]]
        /\ lock' = [n \in Node |-> IF n \in fresh THEN NewWord ELSE lock[n]]
    BY DEF Fail, Rollback
  <1>2. /\ Alone(t) /\ pc'[t] = "idle" /\ txn'[t] = EmptyTxn /\ Hidden(t)' = {}
        /\ \A u \in Thread \ {t} : todo'[u] = todo[u] /\ cur'[u] = cur[u]
    BY <1>1, CleanupStep
  <1>3. Hidden(t) = fresh BY <1>1 DEF Hidden, Committing
  <1>4. \A n \in Node \ fresh : node'[n] = node[n] /\ lock'[n] = lock[n] BY <1>1
  <1>5. alloc \subseteq Node /\ Null \notin Node BY LiveNodes, NodeAssumption
  <1>6. \A n \in Node : \A u \in Thread :
          (Pending(u, n)' <=> Pending(u, n)) /\ (Pending(u, n) => txn'[u] = txn[u])
    BY <1>1, <1>2 DEF Alone, Pending, Committing
  <1>7. \A n \in Node \ fresh : Same(n)
    <2>1. SUFFICES ASSUME NEW n \in Node \ fresh PROVE Same(n) OBVIOUS
    <2>2. node'[n] = node[n] /\ lock'[n] = lock[n] BY <1>4
    <2> QED BY <1>6, <2>2, SameDecision
  <1>8. Silent(t)
    <2>1. \A n \in Node : ~Pending(t, n)' BY <1>2 DEF Pending, Committing
    <2>2. alloc' \ Hidden(t)' = alloc \ Hidden(t) BY <1>1, <1>2, <1>3
    <2> QED BY <1>1, <1>2, <1>3, <1>4, <1>5, <1>7, <2>1, <2>2 DEF Silent, Alone
  <1>9. \A u \in Thread \ {t} : \A n \in held[u] :
            /\ node'[n].next = node[n].next /\ lock'[n].deleted = lock[n].deleted
            /\ lock'[n].version = lock[n].version
    <2>1. \A u \in Thread \ {t} : held[u] \subseteq Node \ fresh
      BY <1>3 DEF IInv, References, Refs, Types, CommitOK
    <2> QED BY <1>4, <2>1
  <1>10. Written(t)' BY <1>2 DEF Written, Committing
  <1>11. txn'[t].readVersion <= gvc BY <1>2 DEF EmptyTxn, IInv, Types, MemoryOK
  <1>12. pc'[t] \notin Running BY <1>2 DEF Running, Operating, Placed, Validating
  <1>13. \A k \in Key : index'[k] # Null => node'[index'[k]].key = k
    <2>1. SUFFICES ASSUME NEW k \in Key, index[k] # Null PROVE node'[index[k]].key = k
      BY <1>1
    <2>2. index[k] \in Node \ fresh BY <1>3, <1>5, <2>1 DEF IInv, References
    <2> QED BY <1>4, <2>1, <2>2 DEF ListInv, ListMemory
  <1> QED BY <1>2, <1>8, <1>9, <1>10, <1>11, <1>12, <1>13, SilentStep

-----------------------------------------------------------------------------
(* UpdateWriteSet. *)

\* A write to a node that the thread holds and has decided on.
LEMMA WriteShape ==
  ASSUME IInv, IInv', ListInv, NEW t \in Thread, pc[t] \in Committing, pc'[t] \in Committing,
         UNCHANGED <<gvc, alloc, index, txn, held, frame>>, Alone(t),
         \A u \in Thread \ {t} : todo'[u] = todo[u] /\ cur'[u] = cur[u],
         \A n \in Node \ held[t] : node'[n] = node[n] /\ lock'[n] = lock[n],
         \A n \in held[t] : /\ node'[n].key = node[n].key
                            /\ node'[n].next \in {node[n].next, txn[t].writeSet[n].next},
         Written(t)'
  PROVE  ListInv' /\ Silent(t)
  <1>1. \A u \in Thread : held[u] \subseteq Node BY DEF IInv, Types, CommitOK
  <1>2. \A n \in Node : node'[n].key = node[n].key OBVIOUS
  <1>3. \A n \in Node : \A u \in Thread : Pending(u, n)' <=> Pending(u, n)
    BY DEF Pending, Alone
  <1>4. \A n \in Node : ~Decided(n) => node'[n] = node[n] /\ lock'[n] = lock[n]
    BY DEF Decided, Pending
  <1>5. \A n \in Node : Same(n)
    <2>1. SUFFICES ASSUME NEW n \in Node PROVE Same(n) OBVIOUS
    <2> QED BY <1>2, <1>3, <1>4, SameDecision
  <1>6. \A n \in Node : node'[n].next \in {node[n].next, DecidedNext(n)}
    <2>1. SUFFICES ASSUME NEW n \in held[t]
                   PROVE  node'[n].next \in {node[n].next, DecidedNext(n)}
      OBVIOUS
    <2>2. Pending(t, n) /\ n \in Node BY <1>1 DEF Pending
    <2>3. Decided(n) /\ Writer(n) = t BY <2>2, WriterOf DEF WriterUnique
    <2> QED BY <2>3 DEF DecidedNext, Decision
  <1>7. Hidden(t) = {} /\ Hidden(t)' = {} BY DEF Hidden
  <1>8. Silent(t)
    <2>1. alloc \subseteq Node BY LiveNodes
    <2> QED BY <1>3, <1>5, <1>6, <1>7, <2>1 DEF Silent, Alone
  <1>9. \A u \in Thread \ {t} : \A n \in held[u] :
            /\ node'[n].next = node[n].next /\ lock'[n].deleted = lock[n].deleted
            /\ lock'[n].version = lock[n].version
    <2>1. \A u \in Thread \ {t} : held[u] \subseteq Node \ held[t] BY <1>1 DEF IInv, Ownership
    <2> QED BY <2>1
  <1>10. txn'[t].readVersion <= gvc BY DEF ListInv, ListMemory
  <1>11. pc'[t] \notin Running BY DEF Running, Operating, Placed, Validating, Committing
  <1>12. \A k \in Key : index'[k] # Null => node'[index'[k]].key = k
    BY <1>2 DEF ListInv, ListMemory, IInv, Types, MemoryOK, Link
  <1> QED BY <1>7, <1>8, <1>9, <1>10, <1>11, <1>12, SilentStep

\* What the thread has still to write, of a node that it has decided on.
LEMMA Decider ==
  ASSUME IInv, ListInv, NEW t \in Thread, pc[t] \in Committing
  PROVE  /\ Written(t) /\ DOMAIN txn[t].writeSet = held[t] /\ held[t] \subseteq Node
         /\ todo[t] \subseteq held[t] /\ (pc[t] # "write" => cur[t] \in held[t])
         /\ \A n \in held[t] : lock[n].deleted \in BOOLEAN /\ txn[t].writeSet[n].deleted \in BOOLEAN
  <1>1. Written(t) BY DEF ListInv, ListMemory
  <1>2. DOMAIN txn[t].writeSet = held[t] /\ held[t] \subseteq Node
        /\ todo[t] \subseteq held[t] /\ (pc[t] # "write" => cur[t] \in held[t])
    BY DEF IInv, Ownership, HoldsOK, Types, CommitOK
  <1>3. \A n \in held[t] : txn[t].writeSet[n] \in WriteSetElement
    BY <1>2 DEF IInv, Types, ThreadOK, TxnTyped, Txn
  <1>4. \A n \in held[t] : lock[n].deleted \in BOOLEAN
    BY <1>2 DEF IInv, Types, MemoryOK, Word
  <1> QED BY <1>1, <1>2, <1>3, <1>4 DEF WriteSetElement

\* The link: it becomes what the decided list has had since the decision.
LEMMA WriteNextShape ==
  ASSUME IInv, IInv', ListInv, NEW t \in Thread, WriteNext(t), UNCHANGED frame
  PROVE  ListInv' /\ Silent(t)
  <1>1. /\ pc[t] = "write" /\ pc'[t] = "writeValue" /\ Alone(t)
        /\ UNCHANGED <<gvc, lock, alloc, index, txn, held, todo>>
    BY AloneAt DEF WriteNext, TxnLabel, Holding, Committing
  <1>2. PICK n \in todo[t] :
          /\ cur' = [cur EXCEPT ![t] = n]
          /\ node' = [node EXCEPT ![n].next = txn[t].writeSet[n].next]
    BY DEF WriteNext
  <1>3. Written(t) /\ held[t] \subseteq Node /\ n \in held[t] BY <1>1, Decider DEF Committing
  <1>4. cur'[t] = n /\ \A u \in Thread \ {t} : cur'[u] = cur[u]
    BY <1>2 DEF IInv, Types, CommitOK
  <1>5. /\ \A m \in Node \ {n} : node'[m] = node[m]
        /\ node'[n].key = node[n].key /\ node'[n].next = txn[t].writeSet[n].next
    BY <1>2, <1>3 DEF IInv, Types, MemoryOK
  <1>6. Written(t)' BY <1>1, <1>3, <1>4, <1>5 DEF Written, Committing
  <1>7. pc[t] \in Committing /\ pc'[t] \in Committing BY <1>1 DEF Committing
  <1>8. \A m \in held[t] : /\ node'[m].key = node[m].key
                           /\ node'[m].next \in {node[m].next, txn[t].writeSet[m].next}
    BY <1>3, <1>5
  <1> QED BY <1>1, <1>3, <1>4, <1>5, <1>6, <1>7, <1>8, WriteShape

\* The value, which the list does not depend on.
LEMMA WriteValueShape ==
  ASSUME IInv, IInv', ListInv, NEW t \in Thread, WriteValue(t), UNCHANGED frame
  PROVE  ListInv' /\ Silent(t)
  <1> DEFINE n == cur[t]
  <1>1. /\ pc[t] = "writeValue"
        /\ UNCHANGED <<gvc, lock, alloc, index, txn, held, todo, cur>>
        /\ node' = [node EXCEPT ![n].value = txn[t].writeSet[n].value]
        /\ Goto(t, IF txn[t].writeSet[n].deleted THEN "writeDeleted" ELSE "writeVersion")
    BY DEF WriteValue, commitVars
  <1>2. /\ pc'[t] = IF txn[t].writeSet[n].deleted THEN "writeDeleted" ELSE "writeVersion"
        /\ Alone(t)
    BY <1>1, AloneAt DEF TxnLabel, Holding, Committing
  <1>3. /\ Written(t) /\ held[t] \subseteq Node /\ n \in held[t]
        /\ \A m \in held[t] : lock[m].deleted \in BOOLEAN /\ txn[t].writeSet[m].deleted \in BOOLEAN
    BY <1>1, Decider DEF Committing
  <1>4. \A m \in Node : node'[m].key = node[m].key /\ node'[m].next = node[m].next
    BY <1>1, <1>3 DEF IInv, Types, MemoryOK
  <1>5. \A m \in Node \ held[t] : node'[m] = node[m]
    BY <1>1, <1>3 DEF IInv, Types, MemoryOK
  <1>6. Written(t)'
    <2>1. CASE txn[t].writeSet[n].deleted
      BY <1>1, <1>2, <1>3, <1>4, <2>1 DEF Written, Committing
    <2>2. CASE ~txn[t].writeSet[n].deleted
      BY <1>1, <1>2, <1>3, <1>4, <2>2 DEF Written, Committing
    <2> QED BY <2>1, <2>2
  <1>7. pc[t] \in Committing /\ pc'[t] \in Committing BY <1>1, <1>2 DEF Committing
  <1>8. \A m \in held[t] : /\ node'[m].key = node[m].key
                           /\ node'[m].next \in {node[m].next, txn[t].writeSet[m].next}
    BY <1>3, <1>4
  <1> QED BY <1>1, <1>2, <1>5, <1>6, <1>7, <1>8, WriteShape

\* A write to the lock word of the node.
LEMMA WordShape ==
  ASSUME IInv, IInv', ListInv, NEW t \in Thread, pc[t] \in Committing \ {"write"},
         NEW label \in Committing, Goto(t, label), NEW w, lock' = [lock EXCEPT ![cur[t]] = w],
         UNCHANGED <<gvc, node, alloc, index, txn, held, cur, frame>>,
         \A u \in Thread \ {t} : todo'[u] = todo[u], Written(t)'
  PROVE  ListInv' /\ Silent(t)
  <1>1. pc'[t] = label /\ Alone(t) BY AloneAt DEF TxnLabel, Holding
  <1>2. cur[t] \in held[t] BY Decider
  <1>3. \A n \in Node \ held[t] : node'[n] = node[n] /\ lock'[n] = lock[n]
    BY <1>2 DEF IInv, Types, MemoryOK
  <1>4. \A n \in held[t] : /\ node'[n].key = node[n].key
                           /\ node'[n].next \in {node[n].next, txn[t].writeSet[n].next}
    OBVIOUS
  <1>5. pc'[t] \in Committing /\ \A u \in Thread \ {t} : todo'[u] = todo[u] /\ cur'[u] = cur[u]
    BY <1>1
  <1> QED BY <1>1, <1>3, <1>4, <1>5, WriteShape

\* The mark.
LEMMA WriteDeletedShape ==
  ASSUME IInv, IInv', ListInv, NEW t \in Thread, WriteDeleted(t), UNCHANGED frame
  PROVE  ListInv' /\ Silent(t)
  <1>1. PICK w : w = WithDeleted(lock[cur[t]], TRUE) OBVIOUS
  <1>2. /\ pc[t] = "writeDeleted" /\ lock' = [lock EXCEPT ![cur[t]] = w]
        /\ UNCHANGED <<gvc, node, alloc, index, txn, held, todo, cur>> /\ Goto(t, "writeVersion")
    BY <1>1 DEF WriteDeleted, commitVars
  <1>3. pc'[t] = "writeVersion" BY <1>2 DEF Goto, IInv, Types
  <1>4. /\ Written(t) /\ held[t] \subseteq Node /\ cur[t] \in held[t]
        /\ \A m \in held[t] : lock[m].deleted \in BOOLEAN /\ txn[t].writeSet[m].deleted \in BOOLEAN
    BY <1>2, Decider DEF Committing
  <1>5. /\ \A m \in Node \ {cur[t]} : lock'[m] = lock[m]
        /\ lock'[cur[t]].deleted = TRUE /\ lock'[cur[t]].version = lock[cur[t]].version
    BY <1>1, <1>2, <1>4 DEF IInv, Types, MemoryOK, WithDeleted, Word
  <1>6. Written(t)'
    <2>1. txn[t].writeSet[cur[t]].deleted BY <1>2, <1>4 DEF Written, Committing
    <2>2. txn[t].writeSet[cur[t]].deleted = TRUE BY <1>4, <2>1
    <2> SUFFICES ASSUME NEW m \in held[t]
                 PROVE  /\ lock'[m].deleted => txn[t].writeSet[m].deleted
                        /\ m \notin todo[t] \/ m = cur[t] => node[m].next = txn[t].writeSet[m].next
                        /\ m \notin todo[t] \/ m = cur[t] =>
                              lock'[m].deleted = txn[t].writeSet[m].deleted
                        /\ m \notin todo[t] => lock'[m].version = txn[t].writeVersion
      BY <1>2, <1>3 DEF Written
    <2>3. CASE m = cur[t] BY <1>2, <1>4, <1>5, <2>1, <2>2, <2>3 DEF Written, Committing
    <2>4. CASE m # cur[t]
      <3>1. lock'[m] = lock[m] BY <1>4, <1>5, <2>4
      <3> QED BY <1>2, <1>4, <2>4, <3>1 DEF Written, Committing
    <2> QED BY <2>3, <2>4
  <1>7. pc[t] \in Committing \ {"write"} /\ "writeVersion" \in Committing
    BY <1>2 DEF Committing
  <1> QED BY <1>2, <1>6, <1>7, WordShape

\* The version.
LEMMA WriteVersionShape ==
  ASSUME IInv, IInv', ListInv, NEW t \in Thread, WriteVersion(t), UNCHANGED frame
  PROVE  ListInv' /\ Silent(t)
  <1>1. PICK w : w = WithVersion(lock[cur[t]], txn[t].writeVersion) OBVIOUS
  <1>2. /\ pc[t] = "writeVersion" /\ lock' = [lock EXCEPT ![cur[t]] = w]
        /\ UNCHANGED <<gvc, node, alloc, index, txn, held, todo, cur>> /\ Goto(t, "writeSingleton")
    BY <1>1 DEF WriteVersion, commitVars
  <1>3. pc'[t] = "writeSingleton" BY <1>2 DEF Goto, IInv, Types
  <1>4. Written(t) /\ held[t] \subseteq Node /\ cur[t] \in held[t]
    BY <1>2, Decider DEF Committing
  <1>5. /\ \A m \in Node \ {cur[t]} : lock'[m] = lock[m]
        /\ lock'[cur[t]].deleted = lock[cur[t]].deleted
        /\ lock'[cur[t]].version = txn[t].writeVersion
    BY <1>1, <1>2, <1>4 DEF IInv, Types, MemoryOK, WithVersion, Word
  <1>6. Written(t)' BY <1>2, <1>3, <1>4, <1>5 DEF Written, Committing
  <1>7. pc[t] \in Committing \ {"write"} /\ "writeSingleton" \in Committing
    BY <1>2 DEF Committing
  <1> QED BY <1>2, <1>6, <1>7, WordShape

\* The flag of single operations, which no node has.
LEMMA WriteSingletonShape ==
  ASSUME IInv, IInv', ListInv, NEW t \in Thread, WriteSingleton(t), UNCHANGED frame
  PROVE  ListInv' /\ Silent(t)
  <1>1. PICK w : w = WithSingleton(lock[cur[t]], FALSE) OBVIOUS
  <1>2. /\ pc[t] = "writeSingleton" /\ lock' = [lock EXCEPT ![cur[t]] = w]
        /\ UNCHANGED <<gvc, node, alloc, index, txn, held, cur>> /\ Goto(t, "write")
        /\ todo' = [todo EXCEPT ![t] = todo[t] \ {cur[t]}]
    BY <1>1 DEF WriteSingleton, Visited, Visit
  <1>3. pc'[t] = "write" /\ todo'[t] = todo[t] \ {cur[t]}
        /\ \A u \in Thread \ {t} : todo'[u] = todo[u]
    BY <1>2 DEF Goto, IInv, Types, CommitOK
  <1>4. Written(t) /\ held[t] \subseteq Node /\ cur[t] \in held[t]
    BY <1>2, Decider DEF Committing
  <1>5. \A m \in Node : lock'[m].deleted = lock[m].deleted /\ lock'[m].version = lock[m].version
    BY <1>1, <1>2, <1>4 DEF IInv, Types, MemoryOK, WithSingleton, Word
  <1>6. Written(t)' BY <1>2, <1>3, <1>4, <1>5 DEF Written, Committing
  <1>7. pc[t] \in Committing \ {"write"} /\ "write" \in Committing
    BY <1>2 DEF Committing
  <1> QED BY <1>2, <1>3, <1>6, <1>7, WordShape

\* Everything has been written: the memory has what has been decided.
LEMMA WriteDoneShape ==
  ASSUME IInv, IInv', ListInv, NEW t \in Thread, UpdateWriteSetDone(t), UNCHANGED frame
  PROVE  ListInv' /\ Silent(t)
  <1>1. /\ pc[t] = "write" /\ todo[t] = {} /\ pc'[t] = "finish" /\ Alone(t)
        /\ UNCHANGED <<sharedVars, commitVars>>
        /\ txn' = [txn EXCEPT ![t] = [txn[t] EXCEPT !.writeSet = <<>>]]
    BY DEF UpdateWriteSetDone, Goto, Alone, IInv, Types, TxnLabel, Holding
  <1>2. Written(t) /\ held[t] \subseteq Node BY <1>1, Decider DEF Committing
  <1>3. txn'[t].readVersion = txn[t].readVersion
    BY <1>1 DEF IInv, Types, ThreadOK, TxnTyped, Txn
  <1>4. Hidden(t) = {} /\ Hidden(t)' = {} BY <1>1 DEF Hidden, Committing
  <1>5. \A n \in Node : ~Pending(t, n)' BY <1>1 DEF Pending, Committing
  <1>6. \A n \in Node : \A u \in Thread \ {t} :
          (Pending(u, n)' <=> Pending(u, n)) /\ txn'[u] = txn[u]
    BY <1>1 DEF Pending, Alone, commitVars
  <1>7. \A n \in Node : Same(n)
    <2>1. SUFFICES ASSUME NEW n \in Node PROVE Same(n) OBVIOUS
    <2>2. CASE n \in held[t]
      <3>1. Pending(t, n) BY <1>1, <2>2 DEF Pending, Committing
      <3>2. Decided(n) /\ Writer(n) = t BY <3>1, WriterOf DEF WriterUnique
      <3>3. /\ node[n].next = txn[t].writeSet[n].next
            /\ lock[n].deleted = txn[t].writeSet[n].deleted
            /\ lock[n].version = txn[t].writeVersion
        BY <1>1, <1>2, <2>2 DEF Written, Committing
      <3>4. \A u \in Thread \ {t} : ~Pending(u, n) BY <2>2 DEF IInv, Ownership, Pending
      <3>5. ~Decided(n)' BY <1>5, <1>6, <3>4 DEF Decided
      <3> QED BY <1>1, <3>2, <3>3, <3>5
              DEF Same, DecidedNext, DecidedMark, DecidedVersion, Decision, sharedVars
    <2>3. CASE n \notin held[t]
      <3>1. ~Pending(t, n) BY <2>3 DEF Pending
      <3>2. \A u \in Thread : (Pending(u, n)' <=> Pending(u, n)) /\ (Pending(u, n) => txn'[u] = txn[u])
        BY <1>5, <1>6, <3>1
      <3> QED BY <1>1, <3>2, SameDecision DEF sharedVars
    <2> QED BY <2>2, <2>3
  <1>8. Silent(t)
    <2>1. alloc \subseteq Node BY LiveNodes
    <2> QED BY <1>1, <1>4, <1>5, <1>7, <2>1 DEF Silent, Alone, sharedVars, commitVars
  <1>9. Written(t)' BY <1>1 DEF Written, Committing
  <1>10. txn'[t].readVersion <= gvc BY <1>3 DEF ListInv, ListMemory
  <1>11. pc'[t] \notin Running BY <1>1 DEF Running, Operating, Placed, Validating
  <1>12. /\ \A u \in Thread \ {t} : \A n \in held[u] :
              /\ node'[n].next = node[n].next /\ lock'[n].deleted = lock[n].deleted
              /\ lock'[n].version = lock[n].version
         /\ \A k \in Key : index'[k] # Null => node'[index'[k]].key = k
    BY <1>1 DEF sharedVars, ListInv, ListMemory
  <1> QED BY <1>4, <1>8, <1>9, <1>10, <1>11, <1>12, SilentStep

-----------------------------------------------------------------------------
(* The initial list. *)

\* The key that comes next.
LEMMA NextKey ==
  ASSUME NEW keys \in SUBSET Key, NEW k \in keys, NEW a \in keys, a > k,
         \A i \in keys : i > k => a <= i
  PROVE  NodeAbove(keys, k) = Place(keys)[a]
  <1>1. keys \subseteq Int BY KeyAssumption
  <1>2. FirstAbove(keys, k) = a
    <2> DEFINE P(j) == j > k /\ \A i \in keys : i > k => j <= i
    <2>1. P(a) OBVIOUS
    <2>2. ASSUME NEW j \in keys, P(j) PROVE j = a
      <3>1. j <= a /\ a <= j BY <2>2
      <3> QED BY <1>1, <3>1
    <2> HIDE DEF P
    <2>3. (CHOOSE j \in keys : P(j)) = a BY <2>1, <2>2
    <2> QED BY <2>3 DEF P, FirstAbove
  <1>3. ~(\A j \in keys : j <= k) BY <1>1
  <1> QED BY <1>2, <1>3 DEF NodeAbove

\* A node of the initial list links to the one with the next key.
LEMMA NodeAboveIs ==
  ASSUME NEW keys \in SUBSET Key, NEW k \in keys
  PROVE  \/ NodeAbove(keys, k) = Null /\ \A j \in keys : j <= k
         \/ \E a \in keys : /\ a > k /\ \A i \in keys : i > k => a <= i
                            /\ NodeAbove(keys, k) = Place(keys)[a]
  <1> DEFINE above == {j \in keys : j > k}
  <1>1. CASE above = {}
    <2>1. keys \subseteq Int BY KeyAssumption
    <2>2. \A j \in keys : j <= k BY <1>1, <2>1
    <2> QED BY <2>2 DEF NodeAbove
  <1>2. CASE above # {}
    <2>1. above \in SUBSET Key OBVIOUS
    <2>2. PICK a \in above : \A i \in above : a <= i BY <1>2, <2>1, KeyOrderAssumption
    <2>3. a \in keys /\ a > k /\ \A i \in keys : i > k => a <= i BY <2>2
    <2> QED BY <2>3, NextKey
  <1> QED BY <1>1, <1>2

\* The sentinel links to the one with the first key.
LEMMA FirstNode ==
  ASSUME NEW keys \in SUBSET Key, NEW a \in keys, \A i \in keys : a <= i
  PROVE  NodeAtOrAbove(keys) = Place(keys)[a]
  <1>1. keys \subseteq Int BY KeyAssumption
  <1> DEFINE P(j) == \A i \in keys : j <= i
  <1>2. P(a) OBVIOUS
  <1>3. ASSUME NEW j \in keys, P(j) PROVE j = a
    <2>1. j <= a /\ a <= j BY <1>3
    <2> QED BY <1>1, <2>1
  <1> HIDE DEF P
  <1>4. (CHOOSE j \in keys : P(j)) = a BY <1>2, <1>3
  <1> QED BY <1>4 DEF P, NodeAtOrAbove

\* The initial list is sorted.
LEMMA PlacesLinked ==
  ASSUME NEW keys \in SUBSET Key, NEW place \in [keys -> Node \ {Sentinel}],
         place = Place(keys), \A j, k \in keys : place[j] = place[k] => j = k,
         NEW next, NEW key, next[Sentinel] = NodeAtOrAbove(keys),
         \A k \in keys : next[place[k]] = NodeAbove(keys, k) /\ key[place[k]] = k
  PROVE  Linked({Sentinel} \cup {place[k] : k \in keys}, next, key)
  <1> DEFINE used == {place[k] : k \in keys}
  <1>1. keys \subseteq Int BY KeyAssumption
  <1>2. used \subseteq Node \ {Sentinel} OBVIOUS
  <1>3. \/ keys = {} /\ next[Sentinel] = Null
        \/ \E a \in keys : next[Sentinel] = place[a] /\ \A i \in keys : a <= i
    <2>1. CASE keys = {} BY <2>1 DEF NodeAtOrAbove
    <2>2. CASE keys # {}
      <3>1. PICK a \in keys : \A i \in keys : a <= i BY <2>2, KeyOrderAssumption
      <3> QED BY <3>1, FirstNode
    <2> QED BY <2>1, <2>2
  <1>4. ASSUME NEW k \in keys
        PROVE  \/ next[place[k]] = Null
               \/ \E a \in keys : /\ a > k /\ \A i \in keys : i > k => a <= i
                                  /\ next[place[k]] = place[a]
    BY NodeAboveIs
  <1>5. Null \notin used BY <1>2, NodeAssumption
  <1>6. \A n \in {Sentinel} \cup used : next[n] # Null =>
          next[n] \in used /\ (n # Sentinel => key[n] < key[next[n]])
    <2>1. next[Sentinel] # Null => next[Sentinel] \in used BY <1>3
    <2>2. ASSUME NEW k \in keys, next[place[k]] # Null
          PROVE  next[place[k]] \in used /\ key[place[k]] < key[next[place[k]]]
      <3>1. PICK a \in keys : a > k /\ next[place[k]] = place[a] BY <1>4, <2>2
      <3>2. key[place[k]] = k /\ key[place[a]] = a BY <3>1
      <3>3. a \in Int /\ k \in Int BY <1>1
      <3> QED BY <3>1, <3>2, <3>3
    <2> QED BY <2>1, <2>2
  <1>7. ASSUME NEW k \in keys, next[Sentinel] = next[place[k]], next[Sentinel] # Null PROVE FALSE
    <2>1. PICK a \in keys : next[Sentinel] = place[a] /\ \A i \in keys : a <= i BY <1>3, <1>7
    <2>2. PICK b \in keys : b > k /\ next[place[k]] = place[b] BY <1>4, <1>7
    <2> HIDE DEF used
    <2>6. place[a] = place[b] BY <1>7, <2>1, <2>2
    <2>3. a = b BY <2>1, <2>2, <2>6
    <2>4. a <= k BY <2>1
    <2>5. a \in Int /\ k \in Int BY <1>1
    <2> QED BY <2>2, <2>3, <2>4, <2>5
  <1>8. ASSUME NEW j \in keys, NEW k \in keys, next[place[j]] = next[place[k]],
               next[place[j]] # Null
        PROVE  j = k
    <2>1. PICK a \in keys : /\ a > j /\ \A i \in keys : i > j => a <= i
                            /\ next[place[j]] = place[a]
      BY <1>4, <1>8
    <2>2. PICK b \in keys : /\ b > k /\ \A i \in keys : i > k => b <= i
                            /\ next[place[k]] = place[b]
      BY <1>4, <1>8
    <2>6. place[a] = place[b] BY <1>8, <2>1, <2>2
    <2>3. a = b BY <2>1, <2>2, <2>6
    <2>4. (k > j => a <= k) /\ (j > k => a <= j) BY <2>1, <2>2, <2>3
    <2>5. a \in Int /\ j \in Int /\ k \in Int BY <1>1
    <2> QED BY <2>1, <2>2, <2>3, <2>4, <2>5
  <1>9. \A m, n \in {Sentinel} \cup used : next[m] = next[n] /\ next[m] # Null => m = n
    BY <1>7, <1>8
  <1>10. ASSUME NEW k \in keys PROVE \E n \in {Sentinel} \cup used : next[n] = place[k]
    <2> DEFINE below == {j \in keys : j < k}
    <2>1. CASE below = {}
      <3>1. \A i \in keys : k <= i BY <1>1, <2>1
      <3>2. next[Sentinel] = place[k] BY <3>1, FirstNode
      <3> QED BY <3>2
    <2>2. CASE below # {}
      <3>1. below \in SUBSET Key OBVIOUS
      <3>2. PICK p \in below : \A i \in below : i <= p BY <2>2, <3>1, KeyOrderAssumption
      <3>3. p \in keys /\ p < k /\ p \in Int /\ k \in Int BY <1>1, <3>2
      <3>4. \A i \in keys : i > p => k <= i
        <4>1. SUFFICES ASSUME NEW i \in keys, i > p, ~(k <= i) PROVE FALSE OBVIOUS
        <4>2. i \in Int BY <1>1
        <4>3. i < k BY <3>3, <4>1, <4>2
        <4>4. i <= p BY <3>2, <4>3
        <4> QED BY <3>3, <4>1, <4>2, <4>4
      <3>5. NodeAbove(keys, p) = Place(keys)[k] BY <3>3, <3>4, NextKey
      <3>6. next[place[p]] = place[k] BY <3>3, <3>5
      <3> QED BY <3>3, <3>6
    <2> QED BY <2>1, <2>2
  <1>11. \A m \in used : \E n \in {Sentinel} \cup used : next[n] = m BY <1>10
  <1> QED BY <1>2, <1>6, <1>9, <1>11 DEF Linked

\* The initial states have the invariant.
LEMMA InitListInv ==
  ASSUME OnlyTransactions, KeysPrecedeDefault, Init
  PROVE  /\ ListInv /\ \A n \in Node : ~Decided(n)
         /\ initial \in [Key -> Value \cup {Null}]
         /\ \A k \in Key : initial[k] # Null => \E n \in Live : node[n].key = k
         /\ \A n \in Live : node[n].key \in Key => initial[node[n].key] = node[n].value
  <1>1. PICK s \in Scenario : InitialList(s.keys, s.by) /\ jobs = s.jobs BY DEF Init
  <1> DEFINE place == Place(s.keys)
             used == {place[k] : k \in s.keys}
             linked(n) == s.by = "transaction" /\ node[n].next # Null
             keyOf(n) == CHOOSE k \in s.keys : place[k] = n
  <1>2. s.keys \subseteq Key /\ HasMemory(s.keys) BY <1>1 DEF OnlyTransactions
  <1>3. place \in [s.keys -> Node \ {Sentinel}]
        /\ \A j, k \in s.keys : place[j] = place[k] => j = k
    BY <1>2, PlaceOK
  <1>4. used \subseteq Node \ {Sentinel} BY <1>3
  <1>5. /\ alloc = {Sentinel} \cup used
        /\ node = [n \in Node |->
                    CASE n = Sentinel -> [NewNode EXCEPT !.next = NodeAtOrAbove(s.keys)]
                      [] n \in used -> [NewNode EXCEPT !.key = keyOf(n),
                                                       !.next = NodeAbove(s.keys, keyOf(n))]
                      [] OTHER -> NewNode]
        /\ lock = [n \in Node |->
                    [NewWord EXCEPT !.version = IF linked(n) THEN 1 ELSE 0,
                                    !.singleton = (s.by = "singles" /\ n \in used)]]
        /\ index = [k \in Key |-> IF k \in s.keys THEN place[k] ELSE Null]
    BY <1>1 DEF InitialList
  <1>6. \A k \in s.keys : place[k] \in used /\ keyOf(place[k]) = k BY <1>3
  <1> HIDE DEF used, place, keyOf
  <1>7. node[Sentinel].next = NodeAtOrAbove(s.keys) /\ node[Sentinel].key = DefaultKey
    <2> DEFINE first == [NewNode EXCEPT !.next = NodeAtOrAbove(s.keys)]
    <2>1. node = [m \in Node |->
              CASE m = Sentinel -> first
                [] m \in used -> [NewNode EXCEPT !.key = keyOf(m),
                                                 !.next = NodeAbove(s.keys, keyOf(m))]
                [] OTHER -> NewNode]
      BY <1>5
    <2>2. first.next = NodeAtOrAbove(s.keys) /\ first.key = DefaultKey BY DEF NewNode
    <2>3. Sentinel \notin used BY <1>4
    <2> HIDE DEF first
    <2>4. node[Sentinel] = first BY <2>1, <2>3, NodeAssumption
    <2> QED BY <2>2, <2>4
  <1>8. ASSUME NEW k \in s.keys
        PROVE  /\ node[place[k]].next = NodeAbove(s.keys, k) /\ node[place[k]].key = k
               /\ place[k] \in Node
    <2>1. PICK n : n = place[k] OBVIOUS
    <2>2. n \in used /\ keyOf(n) = k /\ n \in Node /\ n # Sentinel BY <1>4, <1>6, <2>1
    <2>3. node[n] = [NewNode EXCEPT !.key = keyOf(n), !.next = NodeAbove(s.keys, keyOf(n))]
      BY <1>5, <2>2
    <2>4. node[n] = [NewNode EXCEPT !.key = k, !.next = NodeAbove(s.keys, k)] BY <2>2, <2>3
    <2> QED BY <2>1, <2>2, <2>4 DEF NewNode
  <1>9. \A n \in Node : ~lock[n].deleted BY <1>5 DEF NewWord
  <1>10. \A t \in Thread : pc[t] = "idle" /\ txn[t] = EmptyTxn
    BY DEF Init, StorageInit
  <1>11. \A n \in Node : ~Decided(n) BY <1>10 DEF Decided, Pending, Committing
  <1>12. \A t \in Thread : Hidden(t) = {} BY <1>10 DEF Hidden, EmptyTxn
  <1>13. \A n \in used : node[n].key # DefaultKey
    <2>1. SUFFICES ASSUME NEW k \in s.keys PROVE node[place[k]].key # DefaultKey
      BY DEF used
    <2>2. k < DefaultKey /\ k \in Int /\ DefaultKey \in Int
      BY <1>2, KeyAssumption DEF KeysPrecedeDefault
    <2> QED BY <1>8, <2>2
  <1>14. Live = {Sentinel} \cup used
    <2>1. \A n \in alloc : n \in Node BY <1>4, <1>5, NodeAssumption
    <2> QED BY <1>5, <1>9, <1>11, <1>12, <1>13, <2>1 DEF Live, DecidedMark, Visible
  <1>15. \A n \in Node : DecidedNexts[n] = node[n].next /\ KeyOf[n] = node[n].key
    BY <1>11 DEF DecidedNexts, DecidedNext, KeyOf
  <1>16. Linked(Live, DecidedNexts, KeyOf)
    <2>1. s.keys \in SUBSET Key /\ place = Place(s.keys) BY <1>2 DEF place
    <2>2. DecidedNexts[Sentinel] = NodeAtOrAbove(s.keys) BY <1>7, <1>15, NodeAssumption
    <2>3. \A k \in s.keys : DecidedNexts[place[k]] = NodeAbove(s.keys, k) /\ KeyOf[place[k]] = k
      BY <1>8, <1>15
    <2>4. Linked({Sentinel} \cup {place[k] : k \in s.keys}, DecidedNexts, KeyOf)
      BY <1>3, <2>1, <2>2, <2>3, PlacesLinked
    <2> QED BY <1>14, <2>4 DEF used
  <1>17. \A k \in Key : index[k] # Null => node[index[k]].key = k
    BY <1>5, <1>8
  <1>18. ASSUME NEW t \in Thread
         PROVE  /\ Written(t) /\ txn[t].readVersion <= gvc
                /\ \A n \in Hidden(t) : ~lock[n].deleted
    <2>1. gvc \in Nat BY InitIInv DEF IInv, Types, MemoryOK
    <2>2. txn[t].readVersion = 0 BY <1>10 DEF EmptyTxn
    <2> QED BY <1>10, <1>12, <2>1, <2>2 DEF Written, Committing
  <1>19. \A t \in Thread : pc[t] \notin Running
    BY <1>10 DEF Running, Operating, Placed, Validating
  <1>20. initial = [k \in Key |-> IF k \in s.keys THEN DefaultValue ELSE Null]
    BY <1>1 DEF InitialList
  <1>21. \A k \in s.keys : place[k] \in Live /\ node[place[k]].value = DefaultValue
    <2>1. SUFFICES ASSUME NEW k \in s.keys PROVE node[place[k]].value = DefaultValue
      BY <1>6, <1>14
    <2>2. PICK n : n = place[k] OBVIOUS
    <2>3. n \in used /\ n \in Node /\ n # Sentinel BY <1>4, <1>6, <2>2
    <2>4. node[n] = [NewNode EXCEPT !.key = keyOf(n), !.next = NodeAbove(s.keys, keyOf(n))]
      BY <1>5, <2>3
    <2> QED BY <2>2, <2>4 DEF NewNode
  <1>22. \A n \in Live \ {Sentinel} : \E k \in s.keys : n = place[k] BY <1>14 DEF used
  <1>23. DefaultKey \notin Key BY KeyAssumption DEF KeysPrecedeDefault
  <1>24. \A k \in Key : initial[k] # Null => \E n \in Live : node[n].key = k
    BY <1>8, <1>20, <1>21
  <1>25. \A n \in Live : node[n].key \in Key => initial[node[n].key] = node[n].value
    BY <1>7, <1>8, <1>20, <1>21, <1>22, <1>23
  <1>26. initial \in [Key -> Value \cup {Null}] BY <1>20, ValueAssumption
  <1> QED BY <1>7, <1>11, <1>16, <1>17, <1>18, <1>19, <1>24, <1>25, <1>26 DEF ListInv, ListMemory

-----------------------------------------------------------------------------
(* Every step. *)

\* Every step keeps the invariant.
LEMMA StepListInv ==
  ASSUME IInv, IInv', ListInv, KeysPrecedeDefault, NEW t \in Thread, TransactionStep(t),
         InsertExisting(t) =>
            LET s == frame[t].succ IN InWriteSet(t, s) \/ node[s].next = DecidedNext(s)
  PROVE  ListInv'
  <1>1. CASE Begin(t) BY <1>1, BeginShape
  <1>2. CASE Execute(t) BY <1>2, ExecuteShape
  <1>3. CASE Commit(t) BY <1>3, CommitShape
  <1>4. CASE PassValidation(t) BY <1>4, PassValidationShape
  <1>5. CASE Succeed(t) BY <1>5, SucceedShape
  <1>6. CASE Fail(t) BY <1>6, FailShape
  <1>7. CASE FindPrevious(t) \/ PredecessorVersion(t) \/ PredecessorDeleted(t)
    BY <1>7, FindPreviousShape, PredecessorVersionShape, PredecessorDeletedShape
  <1>8. CASE SuccessorLocked(t) \/ SuccessorVersion(t) \/ SuccessorNext(t)
    BY <1>8, SuccessorLockedShape, SuccessorVersionShape, SuccessorNextShape
  <1>9. CASE Contains(t) \/ Get(t) \/ RemoveNothing(t)
    BY <1>9, AnswerShape
  <1>10. CASE RemoveFound(t) \/ RemovePredecessor(t) \/ RemoveSuccessor(t)
    BY <1>10, RemoveFoundShape, RemovePredecessorShape, RemoveSuccessorShape
  <1>11. CASE InsertExisting(t) BY <1>11, InsertExistingShape
  <1>12. CASE InsertExistingDeleted(t) \/ InsertNew(t)
    BY <1>12, InsertExistingDeletedShape, InsertNewShape
  <1>13. CASE UNCHANGED frame
              /\ (LockNode(t) \/ ValidateReadSet(t) \/ ValidateNode(t) \/ ValidateVersion(t)
                  \/ ValidateEqual(t) \/ ValidateSingleton(t) \/ ValidateRelocked(t))
    BY <1>13, LockNodeShape, ValidateReadSetShape, ValidateNodeShape, ValidateShape
  <1>14. CASE UNCHANGED frame
              /\ (WriteNext(t) \/ WriteValue(t) \/ WriteDeleted(t) \/ WriteVersion(t)
                  \/ WriteSingleton(t) \/ UpdateWriteSetDone(t))
    BY <1>14, WriteNextShape, WriteValueShape, WriteDeletedShape, WriteVersionShape,
       WriteSingletonShape, WriteDoneShape
  <1>15. CASE UNCHANGED frame
              /\ (Release(t) \/ LazyUpdateIndexAdd(t) \/ LazyUpdateIndexRemove(t))
    BY <1>15, ReleaseShape, IndexAddShape, IndexRemoveShape
  <1> QED BY <1>1, <1>2, <1>3, <1>4, <1>5, <1>6, <1>7, <1>8, <1>9, <1>10, <1>11, <1>12,
             <1>13, <1>14, <1>15 DEF TransactionStep

\* A step that changes nothing keeps it.
LEMMA IdleListInv ==
  ASSUME IInv, IInv', ListInv, UNCHANGED vars
  PROVE  ListInv'
  <1>1. UNCHANGED <<gvc, lock, node, alloc, index, txn, held, pc, todo, cur, frame>>
    BY DEF vars, sharedVars, commitVars
  <1>2. ASSUME NEW n \in Node PROVE Same(n)
    <2>1. \A u \in Thread : Pending(u, n)' <=> Pending(u, n) BY <1>1 DEF Pending
    <2>2. \A u \in Thread : Pending(u, n) => txn'[u] = txn[u] BY <1>1
    <2>3. node'[n].next = node[n].next /\ node'[n].key = node[n].key
          /\ lock'[n].deleted = lock[n].deleted /\ lock'[n].version = lock[n].version
      BY <1>1
    <2> QED BY <2>1, <2>2, <2>3, SameDecision
  <1>3. \A u \in Thread : Hidden(u)' = Hidden(u) BY <1>1 DEF Hidden
  <1>4. \A n \in Node : Visible(n) => Visible(n)' BY <1>3 DEF Visible
  <1>5. Live' = Live
    <2>1. \A n \in alloc : n \in Node BY LiveNodes
    <2>2. \A n \in alloc : /\ DecidedMark(n)' = DecidedMark(n)
                           /\ (Visible(n)' <=> Visible(n)) /\ node'[n].key = node[n].key
      BY <1>2, <1>3, <2>1 DEF Same, Visible
    <2> QED BY <1>1, <2>2 DEF Live
  <1>6. Linked(Live', DecidedNexts', KeyOf')
    <2>1. Live \subseteq Node BY LiveNodes
    <2>2. \A n \in Live : DecidedNexts'[n] = DecidedNexts[n] /\ KeyOf'[n] = KeyOf[n]
      BY <1>2, <2>1 DEF Same, DecidedNexts, KeyOf
    <2>3. Linked(Live, DecidedNexts', KeyOf') BY <2>2, SameLinks DEF ListInv, ListMemory
    <2> QED BY <1>5, <2>3
  <1>7. \A u \in Thread : Written(u)' BY <1>1 DEF ListInv, ListMemory, Written
  <1>8. ListMemory'
    <2>1. (\A u \in Thread : \A n \in Hidden(u) : ~lock[n].deleted)'
      BY <1>1, <1>3 DEF ListInv, ListMemory
    <2> QED BY <1>1, <1>6, <1>7, <2>1 DEF ListInv, ListMemory
  <1>9. ASSUME NEW u \in Thread, pc[u] \in Running PROVE ThreadShape(u)'
    <2>1. ThreadShape(u) BY <1>9 DEF ListInv
    <2> DEFINE S == Node
    <2>2. S \in SUBSET Node /\ Live \subseteq S BY LiveNodes
    <2>3. /\ DOMAIN txn[u].writeSet \subseteq Node /\ txn[u].fresh \subseteq Node
          /\ \A n \in DOMAIN txn[u].writeSet : txn[u].writeSet[n].next \in Node \cup {Null}
      BY DEF IInv, Types, ThreadOK, TxnTyped, Txn, WriteSetElement
    <2>4. Touched(u) \subseteq S
      BY <2>3 DEF IInv, Types, ThreadOK, FrameFits, Gone, AtFound, Touched
    <2>5. Gone(u)' = Gone(u) BY <1>1 DEF Gone
    <2>6. /\ View(u)' = View(u)
          /\ \A n \in S : (Old(u, n)' <=> Old(u, n)) /\ ViewNext(u)'[n] = ViewNext(u)[n]
          /\ Consistent(u)' <=> Consistent(u)
          /\ ViewOK(u) => ViewOK(u)'
          /\ \A n \in S \cup {Null} : Fine(u, n) => Fine(u, n)'
      BY <1>1, <1>2, <1>5, <2>2, <2>3, <2>4, <2>5, SameView
    <2>7. \A n \in S : Settled(u, n) => Settled(u, n)' BY <1>1 DEF Settled, Pending
    <2>8. alloc \subseteq Node /\ Refs(u) \subseteq S \cup {Null}
      BY LiveNodes DEF IInv, References
    <2>9. \A n \in Refs(u) \cap Node : {DecidedNext(n), node[n].next} \subseteq S \cup {Null}
      BY <2>8, DecidedNextSeen DEF IInv, References
    <2>10. \A n \in S : /\ Same(n) /\ node'[n].next \in {node[n].next, DecidedNext(n)}
                        /\ Old(u, n)' <=> Old(u, n)
                        /\ ViewNext(u)'[n] = ViewNext(u)[n]
                        /\ Visible(n) => Visible(n)'
                        /\ Settled(u, n) => Settled(u, n)'
      BY <1>1, <1>2, <1>4, <2>6, <2>7
    <2>11. PredecessorOK(u)' /\ SuccessorOK(u)' /\ PlaceFound(u)'
      BY <1>1, <1>9, <2>1, <2>2, <2>6, <2>8, <2>9, <2>10, SilentPlace
    <2>12. Checked(u)' BY <1>1, <2>1, <2>6, <2>3 DEF ThreadShape, Checked
    <2> QED BY <2>1, <2>6, <2>11, <2>12 DEF ThreadShape
  <1> QED BY <1>1, <1>8, <1>9 DEF ListInv

\* In every reachable state the decided list is sorted, what each transaction that
\* can still commit makes of it is a sorted list too, and a commit has written what
\* it is past.
THEOREM ListInvariance ==
  ASSUME OnlyTransactions, KeysPrecedeDefault
  PROVE  Spec /\ CopiesCurrent => [](IInv /\ ListInv)
  <1>1. Init => IInv /\ ListInv BY InitIInv, InitListInv
  <1>2. ASSUME IInv, ListInv, [Next]_vars,
               [\A t \in Thread : InsertExisting(t) =>
                   LET s == frame[t].succ
                   IN  InWriteSet(t, s) \/ node[s].next = DecidedNext(s)]_vars
        PROVE  IInv' /\ ListInv'
    <2>1. IInv' BY <1>2, NextIInv
    <2>2. CASE UNCHANGED vars BY <1>2, <2>1, <2>2, IdleListInv
    <2>3. CASE ~UNCHANGED vars
      <3>1. PICK t \in Thread : Step(t) BY <1>2, <2>3 DEF Next, Finished
      <3>2. TransactionStep(t) BY <1>2, <3>1, OnlyTransactionSteps
      <3>3. InsertExisting(t) =>
              LET s == frame[t].succ IN InWriteSet(t, s) \/ node[s].next = DecidedNext(s)
        BY <1>2, <2>3
      <3> QED BY <1>2, <2>1, <3>2, <3>3, StepListInv
    <2> QED BY <2>2, <2>3
  <1> QED BY <1>1, <1>2, PTL DEF Spec, CopiesCurrent

-----------------------------------------------------------------------------
(* The chain of nodes. *)

\* The nodes of the chain are the sentinel and what follows each.
LEMMA ChainIs ==
  ASSUME \A n \in Node : node[n].next \in Node \cup {Null}
  PROVE  /\ Chain[0] = Sentinel
         /\ \A i \in Nat : Chain[i + 1] = IF Chain[i] = Null THEN Null ELSE node[Chain[i]].next
  <1> DEFINE D == Node \cup {Null}
             G == [x \in D |-> IF x = Null THEN Null ELSE node[x].next]
             Is(g) == g = [i \in Nat |->
                        IF i = 0 THEN Sentinel
                        ELSE LET n == g[i - 1] IN IF n = Null THEN Null ELSE node[n].next]
  <1>1. PICK f \in [Nat -> D] : f[0] = Sentinel /\ \A i \in Nat : f[i + 1] = G[f[i]]
    <2>1. \A x \in D : G[x] \in D OBVIOUS
    <2>2. Sentinel \in D BY NodeAssumption
    <2> HIDE DEF D, G
    <2>3. PICK d : d = D OBVIOUS
    <2>4. PICK first : first = Sentinel OBVIOUS
    <2>5. PICK next : next = G OBVIOUS
    <2>6. first \in d /\ \A x \in d : next[x] \in d BY <2>1, <2>2, <2>3, <2>4, <2>5
    <2>7. PICK f : Iteration(f, first, next, d) BY <2>6, Iterates
    <2> QED BY <2>3, <2>4, <2>5, <2>7 DEF Iteration
  <1>2. ASSUME NEW i \in Nat
        PROVE  f[i] = IF i = 0 THEN Sentinel
                      ELSE LET n == f[i - 1] IN IF n = Null THEN Null ELSE node[n].next
    <2>1. CASE i = 0 BY <1>1, <2>1
    <2>2. CASE i # 0
      <3>1. PICK j \in Nat : j = i - 1 /\ j + 1 = i BY <2>2
      <3>2. f[j] \in D /\ f[j + 1] = G[f[j]] BY <1>1
      <3>3. f[i] = G[f[j]] BY <3>1, <3>2
      <3> QED BY <2>2, <3>1, <3>2, <3>3
    <2> QED BY <2>1, <2>2
  <1>3. Is(f)
    <2>1. f = [i \in Nat |-> f[i]] OBVIOUS
    <2> QED BY <1>2, <2>1
  <1>4. Chain = CHOOSE g : Is(g) BY DEF Chain
  <1>5. Is(Chain)
    <2> HIDE DEF Is
    <2> QED BY <1>3, <1>4
  <1>6. \A i \in Nat :
          Chain[i] = IF i = 0 THEN Sentinel
                     ELSE LET n == Chain[i - 1] IN IF n = Null THEN Null ELSE node[n].next
    BY <1>5
  <1>7. ASSUME NEW i \in Nat
        PROVE  Chain[i + 1] = IF Chain[i] = Null THEN Null ELSE node[Chain[i]].next
    <2>1. i + 1 \in Nat /\ i + 1 # 0 /\ (i + 1) - 1 = i OBVIOUS
    <2> QED BY <1>6, <2>1
  <1> QED BY <1>6, <1>7

\* Whatever the chain reaches is in the decided list, when nobody holds a lock.
LEMMA ChainLive ==
  ASSUME IInv, ListInv, NothingLocked
  PROVE  /\ \A i \in Nat : Chain[i] # Null => Chain[i] \in Live /\ (i # 0 => Chain[i] # Sentinel)
         /\ \A i \in Nat : Chain[i + 1] # Null =>
              Chain[i] # Null /\ Chain[i + 1] = DecidedNexts[Chain[i]]
         /\ \A n \in Live : ~lock[n].deleted
  <1>1. \A n \in Node : ~Decided(n)
    BY DEF NothingLocked, Decided, Pending, IInv, Ownership
  <1>2. \A n \in Live : n \in Node /\ ~lock[n].deleted /\ DecidedNexts[n] = node[n].next
    BY <1>1, LiveNodes DEF Live, DecidedMark, DecidedNexts, DecidedNext
  <1>3. Linked(Live, DecidedNexts, KeyOf) BY DEF ListInv, ListMemory
  <1>4. /\ Chain[0] = Sentinel
        /\ \A i \in Nat : Chain[i + 1] = IF Chain[i] = Null THEN Null ELSE node[Chain[i]].next
    <2>1. \A n \in Node : node[n].next \in Node \cup {Null} BY DEF IInv, Types, MemoryOK, Link
    <2> QED BY <2>1, ChainIs
  <1> DEFINE S == {i \in Nat : Chain[i] # Null => Chain[i] \in Live /\ (i # 0 => Chain[i] # Sentinel)}
  <1>5. 0 \in S BY <1>3, <1>4 DEF Linked
  <1>6. ASSUME NEW i \in Nat, i \in S PROVE i + 1 \in S
    <2>1. SUFFICES ASSUME Chain[i + 1] # Null
                   PROVE  Chain[i + 1] \in Live /\ Chain[i + 1] # Sentinel
      OBVIOUS
    <2>2. Chain[i] # Null /\ Chain[i + 1] = node[Chain[i]].next BY <1>4, <2>1
    <2>3. Chain[i] \in Live BY <1>6, <2>2
    <2> QED BY <1>2, <1>3, <2>1, <2>2, <2>3 DEF Linked
  <1>7. Nat \subseteq S
    <2> HIDE DEF S
    <2> QED BY <1>5, <1>6, NatSets
  <1>8. \A i \in Nat : Chain[i] # Null => Chain[i] \in Live /\ (i # 0 => Chain[i] # Sentinel)
    BY <1>7
  <1> QED BY <1>2, <1>4, <1>8

\* The invariant implies that the list is well formed.
LEMMA ListInvWellFormed ==
  ASSUME IInv, ListInv
  PROVE  ListWellFormed
  <1>1. SUFFICES ASSUME NothingLocked, NEW i \in Places
                 PROVE  /\ ~lock[Chain[i]].deleted
                        /\ i > 1 => node[Chain[i - 1]].key < node[Chain[i]].key
    BY DEF ListWellFormed
  <1>2. i \in Nat /\ i # 0 /\ Chain[i] # Null
    BY MemoryAssumption, FS_CardinalityType DEF Places
  <1>3. Chain[i] \in Live BY <1>1, <1>2, ChainLive
  <1>4. ~lock[Chain[i]].deleted BY <1>1, <1>3, ChainLive
  <1>5. ASSUME i > 1 PROVE node[Chain[i - 1]].key < node[Chain[i]].key
    <2>1. PICK j \in Nat : j = i - 1 /\ j # 0 /\ j + 1 = i BY <1>2, <1>5
    <2>2. Chain[j] # Null /\ Chain[i] = DecidedNexts[Chain[j]] BY <1>1, <1>2, <2>1, ChainLive
    <2>3. Chain[j] \in Live /\ Chain[j] # Sentinel BY <1>1, <2>1, <2>2, ChainLive
    <2>4. KeyOf[Chain[j]] < KeyOf[Chain[i]]
      BY <1>2, <2>2, <2>3 DEF ListInv, ListMemory, Linked
    <2>5. Chain[j] \in Node /\ Chain[i] \in Node BY <1>3, <2>3, LiveNodes
    <2> QED BY <2>1, <2>4, <2>5 DEF KeyOf
  <1> QED BY <1>4, <1>5

\* Whenever no node is locked the chain is strictly sorted and has no node that is
\* marked deleted, whatever transactions have inserted, overwritten and removed.
THEOREM StaysSorted ==
  ASSUME OnlyTransactions, KeysPrecedeDefault
  PROVE  Spec /\ CopiesCurrent => []ListWellFormed
  <1>1. IInv /\ ListInv => ListWellFormed BY ListInvWellFormed
  <1> QED BY <1>1, ListInvariance, PTL
==============================================================================
