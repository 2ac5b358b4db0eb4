------------------------------- MODULE SkipList -------------------------------
(***************************************************************************)
(* The concurrent skip list behind the index (DataTypes/SkipList.cpp): the *)
(* search for the next node, find, insert and erase, one access to shared  *)
(* memory that can race per action.                                        *)
(*                                                                         *)
(* The lock accessing_next lets each thread in and out at one instant      *)
(* (AccessLockProofs).  A section under the write lock stores one field    *)
(* and is one action; a section under the read lock is two, the load of    *)
(* the next pointer and the reference taken on what it points to.          *)
(*                                                                         *)
(* A reference is dropped in the step before it could be: nobody but a     *)
(* thread that waits for the node's references to go can tell.  The        *)
(* references on head and tail are left out, as nobody waits for them.     *)
(***************************************************************************)
EXTENDS Integers, Sequences, FiniteSets

Sets == INSTANCE FiniteSetsExt

CONSTANTS Thread,
          Node,           \* the nodes there is memory for
          head, tail,     \* the ends of the list, no ordinary nodes
          Null,
          Key,            \* the keys of the index
          SentinelKey,    \* the key without a value, IndexKey()
          MaxLayer        \* max_layer - 1, the top layer of head and tail

ASSUME NodesAssumption ==
    head # tail /\ Null \notin {head, tail} /\ {head, tail, Null} \cap Node = {}
ASSUME KeysAssumption == Key \subseteq Int /\ SentinelKey \notin Int
ASSUME LayerAssumption == MaxLayer \in Nat

VARIABLES snode,    \* the fields of each node
          alloc,    \* the nodes that exist
          slist,    \* num_entries, layer_entries and top_layer
          frame,    \* the local variables of each thread
          pc        \* where each thread is

memory == <<snode, alloc, slist>>

Layer == 0 .. MaxLayer
AllNode == Node \cup {head, tail}
Exists(n) == n \in alloc \cup {head, tail}

\* skiplist_init_node, _sl_node_init: "writing" is the writer's part of
\* accessing_next; its readers are the threads that are at "grab" with it.
NewSnode(key, top) ==
    [key |-> key, top |-> top, next |-> [l \in Layer |-> Null], linked |-> FALSE,
     modified |-> FALSE, removed |-> FALSE, refs |-> 0, writing |-> FALSE]

\* "node" is the one to insert, to erase or to search from; "passed" and "found"
\* belong to _sl_next, "ret" and "then" say where it and a search return to.
EmptyFrame ==
    [key |-> Null, node |-> Null, cur |-> Null, layer |-> 0, next |-> Null, at |-> Null,
     passed |-> {}, find |-> Null, found |-> FALSE, mode |-> "EQ", cursor |-> Null,
     prevs |-> [l \in Layer |-> Null], nexts |-> [l \in Layer |-> Null],
     clearing |-> {}, resume |-> "idle", ret |-> "idle", then |-> "idle", visited |-> <<>>]

-----------------------------------------------------------------------------
(* Helpers. *)

F(t) == frame[t]
Top(t) == snode[F(t).node].top
Go(t, label, f) == pc' = [pc EXCEPT ![t] = label] /\ frame' = [frame EXCEPT ![t] = f]

Reading(n) == \E t \in Thread : pc[t] = "grab" /\ F(t).at = n
Writable(n) == ~snode[n].writing /\ ~Reading(n)

Grabbed(nodes) ==
    [n \in AllNode |-> IF n \in nodes \cap Node THEN [snode[n] EXCEPT !.refs = @ + 1]
                       ELSE snode[n]]
Dropped(nodes) ==
    [n \in AllNode |-> IF n \in nodes \cap Node THEN [snode[n] EXCEPT !.refs = @ - 1]
                       ELSE snode[n]]

\* IndexKey's operators < and >: the key without a value is before every key.
KeyLess(j, k) == j = SentinelKey \/ (k # SentinelKey /\ j < k)
KeyGreater(j, k) == j # SentinelKey /\ (k = SentinelKey \/ j > k)

\* _sl_cmp of the node (or query) of thread t and n, with map_node::cmp.
Cmp(t, n) ==
    CASE F(t).node = n -> 0
      [] n = tail -> -1
      [] OTHER -> IF KeyLess(F(t).key, snode[n].key) THEN -1
                  ELSE IF KeyGreater(F(t).key, snode[n].key) THEN 1 ELSE 0

\* _sl_valid_node: a node that has been freed may read either way.
Valid(n) == IF Exists(n) THEN {snode[n].linked} ELSE BOOLEAN

\* An outcome that the source does not define: nothing is said of what follows.
Undefined(t) == Go(t, "undefined", F(t)) /\ UNCHANGED memory

-----------------------------------------------------------------------------
(* _sl_next(cur, layer, find, found): returns in frame.next, with a          *)
(* reference, the next valid node other than "find", or Null to start over.  *)

CallNext(t, f, ret) ==
    Go(t, "next", [f EXCEPT !.passed = {}, !.found = FALSE, !.ret = ret, !.next = Null])

\* Mutant: the next pointer is read without the read lock.
NextUnlocked(t) ==
    /\ pc[t] = "next" /\ ~snode[F(t).cur].writing
    /\ IF snode[F(t).cur].linked
       THEN Go(t, "grab", [F(t) EXCEPT !.next = snode[F(t).cur].next[F(t).layer]])
       ELSE Go(t, F(t).ret, F(t))
    /\ UNCHANGED memory

NextLoad(t) ==
    /\ pc[t] = "next" /\ ~snode[F(t).cur].writing
    /\ IF snode[F(t).cur].linked
       THEN Go(t, "grab", [F(t) EXCEPT !.next = snode[F(t).cur].next[F(t).layer],
                                       !.at = F(t).cur])
       ELSE Go(t, F(t).ret, F(t))
    /\ UNCHANGED memory

NextGrab(t) ==
    /\ pc[t] = "grab"
    /\ IF F(t).next = Null
       THEN Undefined(t)
       ELSE /\ snode' = Grabbed({F(t).next})
            /\ Go(t, "check", [F(t) EXCEPT !.at = Null])
            /\ UNCHANGED <<alloc, slist>>

\* Mutant: a node is returned whether or not it is fully linked.
NextUnchecked(t) ==
    /\ pc[t] = "check"
    /\ IF F(t).next = F(t).find
       THEN /\ Go(t, "skip", [F(t) EXCEPT !.found = TRUE])
            /\ UNCHANGED snode
       ELSE /\ snode' = Dropped(F(t).passed)
            /\ Go(t, F(t).ret, [F(t) EXCEPT !.passed = {}])
    /\ UNCHANGED <<alloc, slist>>

NextCheck(t) ==
    /\ pc[t] = "check"
    /\ IF ~snode[F(t).next].linked \/ F(t).next = F(t).find
       THEN /\ Go(t, "skip", [F(t) EXCEPT !.found = @ \/ F(t).next = F(t).find])
            /\ UNCHANGED snode
       ELSE /\ snode' = Dropped(F(t).passed)
            /\ Go(t, F(t).ret, [F(t) EXCEPT !.passed = {}])
    /\ UNCHANGED <<alloc, slist>>

\* A node that is being inserted is waited for, and passed over; one that is
\* being erased sends the caller back.
NextSkip(t) ==
    /\ pc[t] = "skip" /\ ~snode[F(t).next].writing
    /\ IF snode[F(t).next].linked
       THEN /\ Go(t, "grab", [F(t) EXCEPT !.next = snode[F(t).next].next[F(t).layer],
                                          !.at = F(t).next,
                                          !.passed = @ \cup {F(t).next}])
            /\ UNCHANGED snode
       ELSE /\ snode' = Dropped(F(t).passed \cup {F(t).next})
            /\ Go(t, F(t).ret, [F(t) EXCEPT !.next = Null, !.passed = {}])
    /\ UNCHANGED <<alloc, slist>>

-----------------------------------------------------------------------------
(* Moves of a search, and the flags being_modified of the nodes before the   *)
(* place it looks for.                                                       *)

At(t, label) == pc[t] = label /\ F(t).next # Null

\* The search starts over at the head, in layer l; what prevs and nexts hold from
\* an earlier round is not read again.
FromHead(t, l, find, ret) ==
    CallNext(t, [F(t) EXCEPT !.cur = head, !.layer = l, !.find = find,
                             !.prevs = EmptyFrame.prevs, !.nexts = EmptyFrame.nexts], ret)

\* Mutant: the reference on the next node is dropped, not the one on cur.
RightDropsNext(t) ==
    /\ snode' = Dropped({F(t).next})
    /\ CallNext(t, [F(t) EXCEPT !.cur = F(t).next], F(t).ret)
    /\ UNCHANGED <<alloc, slist>>

Right(t) ==
    /\ snode' = Dropped({F(t).cur})
    /\ CallNext(t, [F(t) EXCEPT !.cur = F(t).next], F(t).ret)
    /\ UNCHANGED <<alloc, slist>>

Down(t) ==
    /\ snode' = Dropped({F(t).next})
    /\ CallNext(t, [F(t) EXCEPT !.layer = @ - 1], F(t).ret)
    /\ UNCHANGED <<alloc, slist>>

\* The layers whose prevs _sl_clr_flags visits, from "start" on: each once.
FlaggedFrom(t, start) ==
    {l \in start .. Top(t) : l = Top(t) \/ F(t).prevs[l] # F(t).prevs[l + 1]}

\* _sl_clr_flags from "start" on, drop the reference on cur and those on "nodes",
\* and go on at "label".
ClearFlags(t, start, nodes, label) ==
    /\ IF FlaggedFrom(t, start) = {}
       THEN /\ snode' = Dropped(nodes \cup {F(t).cur})
            /\ Go(t, label, F(t))
       ELSE /\ snode' = Dropped(nodes)
            /\ Go(t, "clear", [F(t) EXCEPT !.clearing = FlaggedFrom(t, start),
                                           !.resume = label])
    /\ UNCHANGED <<alloc, slist>>

ClearFlag(t) ==
    /\ pc[t] = "clear"
    /\ LET l == Sets!Min(F(t).clearing)
           rest == F(t).clearing \ {l}
           dropped == IF rest = {} THEN Dropped({F(t).cur}) ELSE snode
       IN  /\ snode' = [dropped EXCEPT ![F(t).prevs[l]].modified = FALSE]
           /\ Go(t, IF rest = {} THEN F(t).resume ELSE "clear",
                 [F(t) EXCEPT !.clearing = rest])
    /\ UNCHANGED <<alloc, slist>>

\* Insert and erase start over.
Retry(t) == IF F(t).find = Null THEN "insert" ELSE "erase"

SameAsAbove(t) ==
    F(t).layer < Top(t) /\ F(t).cur = F(t).prevs[F(t).layer + 1]

\* cur is the node before the place in this layer, next the one after it.
Place(t) ==
    LET l == F(t).layer
    IN  /\ snode' = Dropped({F(t).next})
        /\ Go(t, "flag", [F(t) EXCEPT !.prevs[l] = F(t).cur, !.nexts[l] = F(t).next])
        /\ UNCHANGED <<alloc, slist>>

\* Flag it, unless the layer above has done so; another thread's flag sends the
\* search back.
Flag(t) ==
    /\ pc[t] = "flag"
    /\ IF SameAsAbove(t) \/ ~snode[F(t).cur].modified
       THEN /\ snode' = [snode EXCEPT ![F(t).cur].modified = TRUE]
            /\ Go(t, "neighbours", F(t))
            /\ UNCHANGED <<alloc, slist>>
       ELSE ClearFlags(t, F(t).layer + 1, {}, Retry(t))

\* _sl_valid_prev_next; then insert sets the pointer of its own node.
Neighbours(t) ==
    /\ pc[t] = "neighbours"
    /\ LET l == F(t).layer IN
        \E valid \in Valid(F(t).nexts[l]) :
            IF snode[F(t).cur].linked /\ valid
            THEN /\ snode' = IF F(t).find = Null
                             THEN [snode EXCEPT ![F(t).node].next[l] = F(t).nexts[l]]
                             ELSE snode
                 /\ CallNext(t, F(t), "again")
                 /\ UNCHANGED <<alloc, slist>>
            ELSE ClearFlags(t, IF SameAsAbove(t) THEN l + 1 ELSE l, {}, Retry(t))

\* Mutant: the next pointer is not compared with the one found before.
AgainUnchecked(t) ==
    /\ pc[t] = "again" /\ F(t).next # Null
    /\ LET l == F(t).layer IN
        /\ snode' = Dropped({F(t).next})
        /\ IF l > 0
           THEN CallNext(t, [F(t) EXCEPT !.layer = l - 1],
                         IF F(t).find = Null THEN "insertMove" ELSE "eraseMove")
           ELSE Go(t, IF F(t).find = Null THEN "link" ELSE "unlink", F(t))
    /\ UNCHANGED <<alloc, slist>>

\* The next pointer of cur may have changed before the flag was set.
Again(t) ==
    /\ pc[t] = "again"
    /\ LET l == F(t).layer IN
        IF F(t).next = Null THEN Undefined(t)
        ELSE IF F(t).next # F(t).nexts[l]
        THEN ClearFlags(t, l, {F(t).next}, Retry(t))
        ELSE /\ snode' = Dropped({F(t).next})
             /\ IF l > 0
                THEN CallNext(t, [F(t) EXCEPT !.layer = l - 1],
                              IF F(t).find = Null THEN "insertMove" ELSE "eraseMove")
                ELSE Go(t, IF F(t).find = Null THEN "link" ELSE "unlink", F(t))
             /\ UNCHANGED <<alloc, slist>>

-----------------------------------------------------------------------------
(* The counters, and slist->top_layer computed from them.                    *)

\* Mutant: every node is counted in the bottom layer.
CountAtBottom(t, change) ==
    slist' = [slist EXCEPT !.entries = @ + change, !.layers[0] = @ + change]

Count(t, change) ==
    slist' = [slist EXCEPT !.entries = @ + change, !.layers[Top(t)] = @ + change]

AfterUpdate(t) == IF F(t).find = Null THEN "inserted" ELSE "eraseUnflag"

\* The highest layer that has entries; between two loads, and before the store,
\* other threads count.
ScanLayers(t) ==
    /\ pc[t] = "scan"
    /\ IF slist.layers[F(t).layer] > 0
       THEN Go(t, "storeTop", F(t)) /\ UNCHANGED memory
       ELSE IF F(t).layer > 0
       THEN Go(t, "scan", [F(t) EXCEPT !.layer = @ - 1]) /\ UNCHANGED memory
       ELSE ClearFlags(t, 0, {}, AfterUpdate(t))

StoreTop(t) ==
    /\ pc[t] = "storeTop"
    /\ slist' = [slist EXCEPT !.top = F(t).layer]
    /\ Go(t, "clear", [F(t) EXCEPT !.clearing = FlaggedFrom(t, 0), !.resume = AfterUpdate(t)])
    /\ UNCHANGED <<snode, alloc>>

-----------------------------------------------------------------------------
(* _skiplist_insert, without duplicates *)

InsertStart(t) ==
    /\ pc[t] = "insert"
    /\ FromHead(t, IF Top(t) > slist.top THEN Top(t) ELSE slist.top, Null, "insertMove")
    /\ UNCHANGED memory

InsertRetry(t) ==
    /\ pc[t] = "insertMove" /\ F(t).next = Null
    /\ ClearFlags(t, F(t).layer + 1, {}, "insert")

InsertRight(t) ==
    /\ At(t, "insertMove") /\ Cmp(t, F(t).next) > 0
    /\ Right(t)

\* Mutant: the flags set in the layers above stay.
DuplicateKeepsFlags(t) ==
    /\ At(t, "insertMove") /\ Cmp(t, F(t).next) = 0
    /\ snode' = Dropped({F(t).cur, F(t).next})
    /\ Go(t, "duplicate", F(t))
    /\ UNCHANGED <<alloc, slist>>

InsertDuplicate(t) ==
    /\ At(t, "insertMove") /\ Cmp(t, F(t).next) = 0
    /\ ClearFlags(t, F(t).layer + 1, {F(t).next}, "duplicate")

InsertDown(t) ==
    /\ At(t, "insertMove") /\ Cmp(t, F(t).next) < 0 /\ F(t).layer > Top(t)
    /\ Down(t)

InsertPlace(t) ==
    /\ At(t, "insertMove") /\ Cmp(t, F(t).next) < 0 /\ F(t).layer <= Top(t)
    /\ Place(t)

\* prevs[layer]->next[layer], from the expected node to "to", under its lock; an
\* exchange that fails is ignored.
Swing(t, from, to) ==
    LET l == F(t).layer
        prev == F(t).prevs[l]
    IN  /\ Writable(prev)
        /\ snode' = IF snode[prev].next[l] = from
                    THEN [snode EXCEPT ![prev].next[l] = to] ELSE snode

NextLayerOr(t, label) ==
    IF F(t).layer < Top(t)
    THEN Go(t, pc[t], [F(t) EXCEPT !.layer = @ + 1])
    ELSE Go(t, label, [F(t) EXCEPT !.layer = MaxLayer])

InsertLink(t) ==
    /\ pc[t] = "link"
    /\ Swing(t, F(t).nexts[F(t).layer], F(t).node)
    /\ NextLayerOr(t, "linked")
    /\ UNCHANGED <<alloc, slist>>

\* Mutant: the lock of the new node is not left.
InsertKeepsLock(t) ==
    /\ pc[t] = "linked"
    /\ snode' = [snode EXCEPT ![F(t).node].linked = TRUE]
    /\ Go(t, "insertCount", F(t))
    /\ UNCHANGED <<alloc, slist>>

\* The node is fully linked; its own lock is left after that.
InsertLinked(t) ==
    /\ pc[t] = "linked"
    /\ snode' = [snode EXCEPT ![F(t).node].linked = TRUE, ![F(t).node].writing = FALSE]
    /\ Go(t, "insertCount", F(t))
    /\ UNCHANGED <<alloc, slist>>

InsertCount(t) ==
    /\ pc[t] = "insertCount"
    /\ Count(t, 1)
    /\ Go(t, "scan", F(t))
    /\ UNCHANGED <<snode, alloc>>

-----------------------------------------------------------------------------
(* _sl_find; the query is a node of its own ("node" is Null) or, to search   *)
(* for a greater node, a node of the list.                                   *)

FindStart(t) ==
    /\ pc[t] = "find"
    /\ FromHead(t, slist.top, Null, "findMove")
    /\ UNCHANGED memory

FindRetry(t) ==
    /\ pc[t] = "findMove" /\ F(t).next = Null
    /\ snode' = Dropped({F(t).cur})
    /\ Go(t, "find", F(t))
    /\ UNCHANGED <<alloc, slist>>

FindRight(t) ==
    /\ At(t, "findMove") /\ Cmp(t, F(t).next) > 0
    /\ Right(t)

\* The search returns n, keeping the reference on it, and drops the others.
Return(t, n) ==
    /\ snode' = Dropped({F(t).cur, F(t).next} \ {n})
    /\ Go(t, F(t).then, [F(t) EXCEPT !.cursor = n, !.cur = Null, !.next = Null])
    /\ UNCHANGED <<alloc, slist>>

FindEqual(t) ==
    /\ At(t, "findMove") /\ Cmp(t, F(t).next) = 0 /\ F(t).mode = "EQ"
    /\ Return(t, F(t).next)

FindGoesOn(t) ==
    /\ At(t, "findMove")
    /\ Cmp(t, F(t).next) <= IF F(t).mode = "EQ" THEN -1 ELSE 0

FindDown(t) ==
    /\ FindGoesOn(t) /\ F(t).layer > 0
    /\ Down(t)

FindBottom(t) ==
    /\ FindGoesOn(t) /\ F(t).layer = 0
    /\ Return(t, CASE F(t).mode = "SM" /\ F(t).cur # head -> F(t).cur
                   [] F(t).mode = "GT" /\ F(t).next # tail -> F(t).next
                   [] OTHER -> Null)

\* Mutant: the next node is looked for from the head.
SuccessorFromHead(t, f, then) ==
    CallNext(t, [f EXCEPT !.node = f.cursor, !.key = snode[f.cursor].key, !.cur = head,
                          !.layer = 0, !.find = Null, !.then = then],
             "successor")

\* skiplist_next(cursor): the next node in layer 0 or, if the list has changed
\* there, a search; "node" becomes the node it starts from.
CallSuccessor(t, f, then) ==
    CallNext(t, [f EXCEPT !.node = f.cursor, !.key = snode[f.cursor].key, !.cur = f.cursor,
                          !.layer = 0, !.find = Null, !.then = then],
             "successor")

Successor(t) ==
    /\ pc[t] = "successor"
    /\ IF F(t).next = Null
       THEN Go(t, "find", [F(t) EXCEPT !.mode = "GT"])
       ELSE Go(t, F(t).then, [F(t) EXCEPT !.cursor = IF F(t).next = tail THEN Null ELSE F(t).next,
                                          !.next = Null, !.cur = Null])
    /\ UNCHANGED memory

-----------------------------------------------------------------------------
(* skiplist_erase_node *)

\* skiplist_erase_node_passive: -1 if the node is already marked as removed.
EraseNode(t) ==
    /\ pc[t] = "eraseNode"
    /\ Go(t, IF snode[F(t).node].removed THEN "erased" ELSE "eraseFlagNode", F(t))
    /\ UNCHANGED memory

\* -2, and erase_node tries again, if another thread has flagged it.
EraseFlagNode(t) ==
    /\ pc[t] = "eraseFlagNode"
    /\ IF snode[F(t).node].modified
       THEN Go(t, "eraseNode", F(t)) /\ UNCHANGED snode
       ELSE /\ snode' = [snode EXCEPT ![F(t).node].modified = TRUE]
            /\ Go(t, "eraseMark", F(t))
    /\ UNCHANGED <<alloc, slist>>

EraseMark(t) ==
    /\ pc[t] = "eraseMark"
    /\ snode' = [snode EXCEPT ![F(t).node].removed = TRUE]
    /\ Go(t, "erase", F(t))
    /\ UNCHANGED <<alloc, slist>>

\* -3 if another thread has unlinked it.  With slist->top_layer below the node's
\* own top layer, prevs stays uninitialised in the layers between, and is used.
EraseStart(t) ==
    /\ pc[t] = "erase"
    /\ IF ~snode[F(t).node].linked
       THEN /\ snode' = [snode EXCEPT ![F(t).node].removed = FALSE]
            /\ Go(t, "eraseUnflag", F(t))
       ELSE /\ IF slist.top < Top(t) THEN Go(t, "undefined", F(t))
               ELSE FromHead(t, slist.top, F(t).node, "eraseMove")
            /\ UNCHANGED snode
    /\ UNCHANGED <<alloc, slist>>

EraseRetry(t) ==
    /\ pc[t] = "eraseMove" /\ F(t).next = Null
    /\ ClearFlags(t, F(t).layer + 1, {}, "erase")

\* In the layers the node is in, on until it has been passed.
BeforeNode(t) ==
    Cmp(t, F(t).next) > 0 \/ (F(t).layer <= Top(t) /\ ~F(t).found)

EraseRight(t) ==
    /\ At(t, "eraseMove") /\ BeforeNode(t)
    /\ Right(t)

EraseDown(t) ==
    /\ At(t, "eraseMove") /\ ~BeforeNode(t) /\ F(t).layer > Top(t)
    /\ Down(t)

ErasePlace(t) ==
    /\ At(t, "eraseMove") /\ ~BeforeNode(t) /\ F(t).layer <= Top(t)
    /\ Place(t)

EraseUnlink(t) ==
    /\ pc[t] = "unlink" /\ Writable(F(t).node)
    /\ snode' = [snode EXCEPT ![F(t).node].linked = FALSE]
    /\ Go(t, "bypass", F(t))
    /\ UNCHANGED <<alloc, slist>>

EraseBypass(t) ==
    /\ pc[t] = "bypass"
    /\ Swing(t, F(t).node, F(t).nexts[F(t).layer])
    /\ NextLayerOr(t, "eraseCount")
    /\ UNCHANGED <<alloc, slist>>

EraseCount(t) ==
    /\ pc[t] = "eraseCount"
    /\ Count(t, -1)
    /\ Go(t, "scan", F(t))
    /\ UNCHANGED <<snode, alloc>>

EraseUnflag(t) ==
    /\ pc[t] = "eraseUnflag"
    /\ snode' = [snode EXCEPT ![F(t).node].modified = FALSE]
    /\ Go(t, "erased", F(t))
    /\ UNCHANGED <<alloc, slist>>

-----------------------------------------------------------------------------

SkipListStep(t) ==
    \/ NextLoad(t) \/ NextGrab(t) \/ NextCheck(t) \/ NextSkip(t)
    \/ ClearFlag(t) \/ Flag(t) \/ Neighbours(t) \/ Again(t) \/ ScanLayers(t) \/ StoreTop(t)
    \/ InsertStart(t) \/ InsertRetry(t) \/ InsertRight(t) \/ InsertDuplicate(t)
    \/ InsertDown(t) \/ InsertPlace(t) \/ InsertLink(t) \/ InsertLinked(t) \/ InsertCount(t)
    \/ FindStart(t) \/ FindRetry(t) \/ FindRight(t) \/ FindEqual(t) \/ FindDown(t)
    \/ FindBottom(t) \/ Successor(t)
    \/ EraseNode(t) \/ EraseFlagNode(t) \/ EraseMark(t) \/ EraseStart(t)
    \/ EraseRetry(t) \/ EraseRight(t) \/ EraseDown(t) \/ ErasePlace(t) \/ EraseUnlink(t)
    \/ EraseBypass(t) \/ EraseCount(t) \/ EraseUnflag(t)
=============================================================================
