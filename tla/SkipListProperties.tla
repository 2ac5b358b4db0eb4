--------------------------- MODULE SkipListProperties ---------------------------
(***************************************************************************)
(* What the skip list behind the index guarantees, and to whom.            *)
(***************************************************************************)
EXTENDS SkipListMap

LabelNames ==
    {"idle", "next", "grab", "check", "skip", "clear", "flag", "neighbours", "again", "scan",
     "storeTop", "new", "insert", "insertMove", "link", "linked", "insertCount",
     "inserted", "duplicate", "held", "insertFound", "find", "findMove", "successor",
     "eraseFound", "eraseNode", "eraseFlagNode", "eraseMark", "erase", "eraseMove",
     "unlink", "bypass", "eraseCount", "eraseUnflag", "erased", "wait", "waitRefs",
     "previousFound", "begin", "first", "advance", "size", "undefined"}

\* The variables have their types, and no count falls below zero.
TypeOK ==
    /\ alloc \subseteq Node
    /\ \A n \in AllNode : /\ DOMAIN snode[n].next = Layer
                          /\ \A l \in Layer : snode[n].next[l] \in AllNode \cup {Null}
                          /\ snode[n].refs \in Nat /\ snode[n].top \in Layer
    /\ slist.entries \in Nat /\ slist.layers \in [Layer -> Nat] /\ slist.top \in Layer
    /\ pc \in [Thread -> LabelNames]

-----------------------------------------------------------------------------

\* The nodes that a thread is about to read or write.
Used(t) ==
    LET f == F(t)
    IN  CASE pc[t] = "next" -> {f.cur}
          [] pc[t] = "grab" -> {f.at, f.next}
          [] pc[t] \in {"check", "skip"} -> f.passed \cup {f.next}
          [] pc[t] \in {"flag", "neighbours"} -> {f.cur}
          [] pc[t] = "clear" -> {f.prevs[l] : l \in f.clearing}
          [] pc[t] \in {"link", "bypass"} -> {f.node, f.prevs[f.layer]}
          [] pc[t] \in {"insertMove", "eraseMove"} -> {f.node, f.cur, f.next}
          [] pc[t] \in {"again", "findMove", "first"} -> {f.next}
          [] pc[t] \in {"linked", "insertCount", "inserted", "held", "eraseNode",
                        "eraseFlagNode", "eraseMark", "erase", "unlink", "eraseCount",
                        "eraseUnflag", "erased", "wait", "waitRefs", "duplicate"} -> {f.node}
          [] pc[t] \in {"insertFound", "previousFound", "eraseFound"} -> {f.cursor}
          [] pc[t] = "advance" -> {f.cursor, f.node}
          [] OTHER -> {}

\* Nobody touches a node that has been deleted, however long ago it read the
\* pointer: the references, the flags and the lock protect every path to a node.
\* (The look at the node after the place of a change does not count: SkipList's
\* Valid says what it may read.)  And nothing undefined is done.
NodesOutliveTheirUse ==
    \A t \in Thread :
        /\ pc[t] # "undefined"
        /\ \A n \in Used(t) \ {Null} : Exists(n)

\* The nodes that layer l leads to from the head.
Reached(l) ==
    LET nodes[i \in Nat] ==
            IF i = 0 THEN {head}
            ELSE nodes[i - 1] \cup {snode[n].next[l] : n \in nodes[i - 1] \ {tail}}
    IN  nodes[Cardinality(alloc) + 1]

\* Two changes next to each other do not undo each other: at any time each layer
\* leads to the tail, through all linked nodes that reach up to it, in the order
\* of their keys; no node is lost from a layer and no key is there twice.
EachLayerIsWhole ==
    \A l \in Layer :
        LET nodes == Reached(l)
        IN  /\ tail \in nodes /\ Null \notin nodes
            /\ {n \in alloc : snode[n].linked /\ snode[n].top >= l} \subseteq nodes
            /\ \A n \in nodes \ {tail} :
                LET next == snode[n].next[l]
                IN  /\ Exists(next) /\ snode[next].top >= l
                    /\ next # tail => n = head \/ Below(snode[n].key, snode[next].key)

\* A thread that has linked or unlinked its node and not counted it yet.
Uncounted(label, n) == \E t \in Thread : pc[t] \in label /\ F(t).node = n

\* What num_entries and layer_entries hold: the linked nodes, but for those that
\* an insert or an erase is about to count.  Between the two the size is wrong.
CountersFollow ==
    LET counted(n) == \/ snode[n].linked /\ ~Uncounted({"insertCount"}, n)
                      \/ Uncounted({"bypass", "eraseCount"}, n)
        nodes == {n \in alloc : counted(n)}
    IN  /\ slist.entries = Cardinality(nodes)
        /\ \A l \in Layer : slist.layers[l] = Cardinality({n \in nodes : snode[n].top = l})

\* Once all calls have returned nothing is left of them: each node that exists is
\* linked, and no reference, flag or lock stays behind that a later erase would
\* wait for without end.
NothingLeftBehind ==
    (\A t \in Thread : pc[t] = "idle") =>
        /\ \A n \in alloc : snode[n].linked /\ snode[n].refs = 0
        /\ \A n \in alloc \cup {head} :
            ~snode[n].modified /\ ~snode[n].removed /\ ~snode[n].writing

\* skiplist_next and the search for a greater node ("GT 2: greater") return one that
\* comes after the node they start from.
SuccessorIsGreater ==
    \A t \in Thread : pc[t] \in {"eraseNode", "advance"} /\ F(t).cursor # Null =>
        Below(F(t).key, snode[F(t).cursor].key)

\* The map does what the index promises: inserts and erases happen at one instant,
\* no search or iteration misses a key that was there all the time.
KeepsPromise == Index!Spec

\* A call ends once the others have returned: no flag, lock or reference that one
\* left behind holds another up.
NobodyIsStranded ==
    \A t \in Thread : (\A u \in Thread \ {t} : Done(u)) ~> Done(t)
=================================================================================
