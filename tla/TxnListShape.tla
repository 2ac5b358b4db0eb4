----------------------------- MODULE TxnListShape -----------------------------
(***************************************************************************)
(* Why the chain of nodes stays a sorted list: the list as the commits     *)
(* that have been decided leave it, what each transaction makes of it, and *)
(* the inductive invariant that relates the two.                           *)
(***************************************************************************)
EXTENDS TxnListInvariant

\* A removed node links to a node with the key TKey{}: a traversal that comes by
\* ends there only if no key of the list is above it.
KeysPrecedeDefault == \A k \in Key : k < DefaultKey

-----------------------------------------------------------------------------
(* The decided list.  A transaction takes effect in IncrementWriteVersion:   *)
(* from then on its write set counts, although it is still to be written to  *)
(* the nodes.                                                                *)

\* Thread u has decided on node n and not finished UpdateWriteSet.
Pending(u, n) == pc[u] \in Committing /\ n \in held[u]
Decided(n) == \E u \in Thread : Pending(u, n)
Writer(n) == CHOOSE u \in Thread : Pending(u, n)
Decision(n) == txn[Writer(n)].writeSet[n]

\* The next node, the mark and the version of n in the decided list.
DecidedNext(n) == IF Decided(n) THEN Decision(n).next ELSE node[n].next
DecidedMark(n) == IF Decided(n) THEN Decision(n).deleted ELSE lock[n].deleted
DecidedVersion(n) == IF Decided(n) THEN txn[Writer(n)].writeVersion ELSE lock[n].version

KeyOf == [n \in Node |-> node[n].key]
DecidedNexts == [n \in Node |-> DecidedNext(n)]

Visible(n) == \A t \in Thread : n \notin Hidden(t)

\* The nodes of the decided list; the nodes that removed ones link to are the
\* others with the key TKey{}.
Live == {n \in alloc : /\ n = Sentinel \/ node[n].key # DefaultKey
                       /\ ~DecidedMark(n) /\ Visible(n)}

\* From the sentinel, "next" leads through all the nodes in the order of their
\* keys: no link leaves them, and each but the sentinel has one predecessor.
Linked(nodes, next, key) ==
    /\ Sentinel \in nodes
    /\ \A n \in nodes : next[n] # Null =>
          next[n] \in nodes \ {Sentinel} /\ (n # Sentinel => key[n] < key[next[n]])
    /\ \A m, n \in nodes : next[m] = next[n] /\ next[m] # Null => m = n
    /\ \A m \in nodes \ {Sentinel} : \E n \in nodes : next[n] = m

-----------------------------------------------------------------------------
(* What transaction t makes of the decided list.                             *)

\* The node that a Remove has unlinked and is about to mark.
Gone(t) == IF pc[t] = "removeSuccessor" THEN {frame[t].succ} ELSE {}

\* The nodes that it changes, creates and removes.
Touched(t) == DOMAIN txn[t].writeSet \cup Gone(t)
Own(t) == {n \in txn[t].fresh : node[n].key # DefaultKey}
Removed(t) == Gone(t) \cup {n \in DOMAIN txn[t].writeSet : txn[t].writeSet[n].deleted}

\* Its list.
View(t) == (Live \cup Own(t)) \ Removed(t)
ViewNext(t) ==
    [n \in Node |-> IF InWriteSet(t, n) THEN txn[t].writeSet[n].next ELSE DecidedNext(n)]

\* Nobody has decided on node n since t began.
Old(t, n) == n \in txn[t].fresh \/ DecidedVersion(n) <= txn[t].readVersion

\* If not, the validation fails; until then the transaction may see anything.
Consistent(t) == \A n \in Touched(t) : Old(t, n)

\* A node that t may go on to, if it is old.
Fine(t, n) ==
    Consistent(t) /\ n # Null /\ Old(t, n) => n \in View(t) \/ node[n].key = DefaultKey

\* Whoever is still writing to n decided after t began.
Settled(t, n) == \A u \in Thread : Pending(u, n) => txn[u].writeVersion > txn[t].readVersion

-----------------------------------------------------------------------------
(* The invariant.                                                            *)

Running == {"next", "lock"} \cup Operating \cup Validating
Searching == {"findPrevious", "predecessorVersion", "predecessorDeleted"}

\* Between its place in the list and the next node: where the key belongs.
Between(t) ==
    \/ pc[t] \in {"apply", "removePredecessor", "insertDeleted"}
    \/ pc[t] \in AtNode /\ frame[t].removing

\* A consistent transaction has a sorted list of its own, and links the nodes that
\* it removes to a node with the key TKey{}.
ViewOK(t) ==
    Consistent(t) =>
        /\ Touched(t) \subseteq Live \cup Own(t)
        /\ Linked(View(t), ViewNext(t), KeyOf)
        /\ \A n \in DOMAIN txn[t].writeSet : txn[t].writeSet[n].deleted =>
              txn[t].writeSet[n].next # Null /\ node[txn[t].writeSet[n].next].key = DefaultKey

\* GetValidatedPredecessor has checked its node.
PredecessorOK(t) ==
    LET p == frame[t].pred IN
    /\ pc[t] \in {"next"} \cup Searching => ~frame[t].removing
    /\ pc[t] \in Searching => frame[t].cand \in Key /\ frame[t].cand <= frame[t].op.key
    /\ pc[t] \in Placed => p = Sentinel \/ (node[p].key \in Key /\ node[p].key < frame[t].op.key)
    /\ pc[t] \in {"predecessorVersion", "predecessorDeleted"} => Visible(p)
    /\ pc[t] = "predecessorDeleted" => Settled(t, p)
    /\ pc[t] \in AtNode \/ Between(t) => (Consistent(t) /\ Old(t, p) => p \in View(t))

\* GetValidatedSuccessor has checked the node whose successor it reads.
SuccessorOK(t) ==
    LET n == frame[t].at IN
    /\ pc[t] \in AtNode => n = IF frame[t].removing THEN frame[t].succ ELSE frame[t].pred
    /\ pc[t] \in {"successorVersion", "successorNext"} => ~InWriteSet(t, n)
    /\ pc[t] = "successorNext" => Settled(t, n)
    /\ pc[t] = "successorNext" /\ ~frame[t].removing =>
          Fine(t, DecidedNext(n)) /\ Fine(t, node[n].next)

\* TraverseTo has found the place of the key.
PlaceFound(t) ==
    LET p == frame[t].pred
        s == frame[t].succ
    IN  /\ Between(t) =>
            /\ p \in txn[t].readSet
            /\ s # Null => node[s].key >= frame[t].op.key
            /\ Consistent(t) /\ Old(t, p) => ViewNext(t)[p] = s
            /\ Fine(t, s)
        /\ pc[t] \in AtFound \/ (pc[t] \in AtNode /\ frame[t].removing) =>
              node[s].key = frame[t].op.key
        /\ pc[t] \in {"removePredecessor", "insertDeleted"} =>
              (Consistent(t) /\ Old(t, s) => ViewNext(t)[s] = frame[t].link)

\* The validation covers every node of the write set.
Checked(t) ==
    /\ pc[t] \in Running => DOMAIN txn[t].writeSet \subseteq txn[t].readSet
    /\ pc[t] \in Validating => \A n \in DOMAIN txn[t].writeSet : n \in todo[t] \/ Old(t, n)
    /\ pc[t] \in {"validateEqual", "validateSingleton", "validateRelocked"} =>
          (cur[t] \in DOMAIN txn[t].writeSet => Old(t, cur[t]))

\* UpdateWriteSet has written what it is past.
Written(u) ==
    pc[u] \in Committing => \A n \in held[u] :
        LET w == txn[u].writeSet[n]
        IN  /\ lock[n].deleted \/ (n = cur[u] /\ pc[u] = "writeDeleted") => w.deleted
            /\ n \notin todo[u] \/ (n = cur[u] /\ pc[u] # "write") => node[n].next = w.next
            /\ n \notin todo[u] \/ (n = cur[u] /\ pc[u] \in {"writeVersion", "writeSingleton"})
                => lock[n].deleted = w.deleted
            /\ n \notin todo[u] \/ (n = cur[u] /\ pc[u] = "writeSingleton")
                => lock[n].version = txn[u].writeVersion

ListMemory ==
    /\ Linked(Live, DecidedNexts, KeyOf)
    /\ node[Sentinel].key = DefaultKey
    /\ \A k \in Key : index[k] # Null => node[index[k]].key = k
    /\ \A t \in Thread : /\ Written(t)
                         /\ txn[t].readVersion <= gvc
                         /\ \A n \in Hidden(t) : ~lock[n].deleted

ThreadShape(t) == ViewOK(t) /\ PredecessorOK(t) /\ SuccessorOK(t) /\ PlaceFound(t) /\ Checked(t)

ListInv == ListMemory /\ \A t \in Thread : pc[t] \in Running => ThreadShape(t)

-----------------------------------------------------------------------------

\* What an Insert of a key that is there copies from the node is what the decided
\* list has there.
CopiesCurrent ==
    [][\A t \in Thread : InsertExisting(t) =>
         LET s == frame[t].succ IN InWriteSet(t, s) \/ node[s].next = DecidedNext(s)]_vars
===============================================================================
