--------------------------- MODULE SkipListInvariant ---------------------------
(***************************************************************************)
(* The inductive invariant of the skip list behind the index: whose node   *)
(* is whose, who refers to which node, whose flag is on which node, and    *)
(* where in each layer every change has come to.                           *)
(***************************************************************************)
EXTENDS SkipListProperties

ASSUME NodeMemory == IsFiniteSet(Node)
ASSUME ThreadsFinite == IsFiniteSet(Thread)

AnyJob == [op : {"insert", "erase", "previous"}, key : Key]
              \cup [op : {"sum", "empty"}, key : {SentinelKey}]

\* Each scenario starts with nodes there is memory for, among them one of full height
\* for the key without a value, which is nobody's to insert or erase.
SentinelStays ==
    \A s \in Scenario :
        /\ DOMAIN s.tops \subseteq Key \cup {SentinelKey}
        /\ \A k \in DOMAIN s.tops : s.tops[k] \in Layer
        /\ SentinelKey \in DOMAIN s.tops /\ s.tops[SentinelKey] = MaxLayer
        /\ \E p \in [DOMAIN s.tops -> Node] :
                \A j, k \in DOMAIN s.tops : j # k => p[j] # p[k]
        /\ s.jobs \in [Thread -> Seq(AnyJob)]

-----------------------------------------------------------------------------
(* Types. *)

Link == AllNode \cup {Null}
Keys == Key \cup {SentinelKey, Null}

Returns == {"insertMove", "eraseMove", "findMove", "again", "successor", "first"}
Resumes == {"insert", "duplicate", "erase", "inserted", "eraseUnflag"}
Thens == {"insertFound", "eraseFound", "previousFound", "eraseNode", "advance", "idle"}

NodeType ==
    [key : Keys, top : Layer, next : [Layer -> Link], linked : BOOLEAN, modified : BOOLEAN,
     removed : BOOLEAN, refs : Int, writing : BOOLEAN]

FrameType ==
    [key : Keys, node : Node \cup {Null}, cur : Link, layer : Layer, next : Link, at : Link,
     passed : SUBSET Node, find : Node \cup {Null}, found : BOOLEAN,
     mode : {"EQ", "SM", "GT"}, cursor : Node \cup {Null}, prevs : [Layer -> Link],
     nexts : [Layer -> Link], clearing : SUBSET Layer, resume : Resumes \cup {"idle"},
     ret : Returns \cup {"idle"}, then : Thens, visited : Seq(Keys)]

Types ==
    /\ snode \in [AllNode -> NodeType]
    /\ alloc \subseteq Node
    /\ slist \in [entries : Int, layers : [Layer -> Int], top : {MaxLayer}]
    /\ frame \in [Thread -> FrameType]
    /\ pc \in [Thread -> LabelNames \ {"undefined"}]
    /\ jobs \in [Thread -> Seq(AnyJob)]

-----------------------------------------------------------------------------
(* Where a thread is.                                                        *)

Calling == {"next", "grab", "check", "skip"}

\* The label that t is at, or that the _sl_next it is in returns to.
Where(t) == IF pc[t] \in Calling THEN F(t).ret ELSE pc[t]

Placing == {"flag", "neighbours", "again"}
Updating == {"scan", "storeTop"}
Searching == {"successor", "find", "findMove"}
Inserts(t) == F(t).find = Null

\* t inserts a node that is not linked yet; one that is.
Creating(t) ==
    \/ Where(t) \in {"insert", "insertMove", "link", "linked", "duplicate"}
    \/ Where(t) \in Placing /\ Inserts(t)
    \/ Where(t) = "clear" /\ F(t).resume \in {"insert", "duplicate"}

Created(t) ==
    \/ Where(t) \in {"insertCount", "inserted", "held"}
    \/ Where(t) \in Updating /\ Inserts(t)
    \/ Where(t) = "clear" /\ F(t).resume = "inserted"

\* t erases a node that is still linked, with and without the mark; one that is not.
Unmarked(t) ==
    \/ Where(t) \in {"eraseNode", "eraseFlagNode", "eraseMark"}
    \/ Where(t) \in Searching /\ F(t).then = "eraseNode"

Marked(t) ==
    \/ Where(t) \in {"erase", "eraseMove", "unlink"}
    \/ Where(t) \in Placing /\ ~Inserts(t)
    \/ Where(t) = "clear" /\ F(t).resume = "erase"

Erased(t) ==
    \/ Where(t) \in {"bypass", "eraseCount", "eraseUnflag", "erased", "wait", "waitRefs"}
    \/ Where(t) \in Updating /\ ~Inserts(t)
    \/ Where(t) = "clear" /\ F(t).resume = "eraseUnflag"

Erases(t) == Unmarked(t) \/ Marked(t) \/ Erased(t)
Owns(t) == Creating(t) \/ Created(t) \/ Erases(t)

\* t goes through the entries, and has read the one in "node".
Visiting(t) ==
    \/ Where(t) = "advance"
    \/ Where(t) \in Searching /\ F(t).then = "advance"

-----------------------------------------------------------------------------
(* The nodes, and whose they are.                                            *)

\* The node that t works on is its own alone.
Owners ==
    /\ \A t \in Thread : Owns(t) => /\ F(t).node \in alloc /\ F(t).key \in Key
                                    /\ snode[F(t).node].key = F(t).key
    /\ \A t, u \in Thread : Owns(t) /\ Owns(u) /\ F(t).node = F(u).node => t = u

Linked(n) == snode[n].linked

NodesFollow ==
    \A n \in alloc :
        /\ snode[n].key \in Key \cup {SentinelKey}
        /\ snode[n].writing <=> \E t \in Thread : Creating(t) /\ F(t).node = n
        /\ ~Linked(n) <=> \E t \in Thread : (Creating(t) \/ Erased(t)) /\ F(t).node = n
        /\ snode[n].removed <=> \E t \in Thread : (Marked(t) \/ Erased(t)) /\ F(t).node = n

Ends ==
    \A n \in {head, tail} :
        Linked(n) /\ snode[n].top = MaxLayer /\ ~snode[n].writing /\ ~snode[n].removed
           /\ snode[n].refs = 0

\* A node nobody but its thread can know of.
Hidden(n) ==
    \E t \in Thread : Creating(t) /\ Where(t) \notin {"link", "linked"} /\ F(t).node = n

\* A node that others may refer to.
Visible(n) == n \in {head, tail} \/ (n \in alloc /\ ~Hidden(n))

-----------------------------------------------------------------------------
(* References.                                                               *)

Stepping == {"insertMove", "eraseMove", "findMove"} \cup Placing
Held == Stepping \cup {"link", "linked", "insertCount", "unlink", "bypass", "eraseCount",
                       "clear"} \cup Updating

HoldsCur(t, n) == Where(t) \in Held /\ F(t).cur = n
HoldsNext(t, n) == pc[t] \in Returns \cup {"check", "skip"} /\ F(t).next = n
HoldsPassed(t, n) == n \in F(t).passed
HoldsNode(t, n) ==
    /\ \/ Where(t) = "held" \/ Unmarked(t) \/ Marked(t) \/ Visiting(t)
       \/ Erased(t) /\ Where(t) \notin {"wait", "waitRefs"}
    /\ F(t).node = n
HoldsCursor(t, n) ==
    /\ \/ Where(t) \in {"insertFound", "previousFound", "eraseFound", "advance"}
       \/ Erases(t) /\ Where(t) \notin Searching
    /\ F(t).cursor = n

Holds(t, n) ==
    HoldsCur(t, n) \/ HoldsNext(t, n) \/ HoldsPassed(t, n) \/ HoldsNode(t, n) \/ HoldsCursor(t, n)

\* ref_count is the number of references that threads have, and what they refer to
\* is there.
RefsFollow ==
    \A n \in Node :
        snode[n].refs = Cardinality({t \in Thread : HoldsCur(t, n)})
                      + Cardinality({t \in Thread : HoldsNext(t, n)})
                      + Cardinality({t \in Thread : HoldsPassed(t, n)})
                      + Cardinality({t \in Thread : HoldsNode(t, n)})
                      + Cardinality({t \in Thread : HoldsCursor(t, n)})

HeldStay == \A t \in Thread, n \in Node : Holds(t, n) => Visible(n)

-----------------------------------------------------------------------------
(* Flags.                                                                    *)

\* The layers in which prevs of t has a node with t's flag.
FlagLayers(t) ==
    CASE Where(t) \in {"insertMove", "eraseMove", "flag"} -> F(t).layer + 1 .. Top(t)
      [] Where(t) \in {"neighbours", "again"} -> F(t).layer .. Top(t)
      [] Where(t) \in {"link", "linked", "insertCount", "unlink", "bypass", "eraseCount"}
                          \cup Updating -> 0 .. Top(t)
      [] Where(t) = "clear" -> F(t).clearing
      [] OTHER -> {}

FlagsOwn(t) ==
    \/ Where(t) = "eraseMark" \/ Marked(t)
    \/ Erased(t) /\ Where(t) \notin {"erased", "wait", "waitRefs"}

Flags(t, n) ==
    (\E l \in FlagLayers(t) : F(t).prevs[l] = n) \/ (FlagsOwn(t) /\ F(t).node = n)

\* is_being_modified of each node is some thread's, and one thread's only.
FlagsFollow ==
    /\ \A n \in alloc \cup {head, tail} : snode[n].modified <=> \E t \in Thread : Flags(t, n)
    /\ \A t, u \in Thread, n \in AllNode : Flags(t, n) /\ Flags(u, n) => t = u

-----------------------------------------------------------------------------
(* The layers.                                                               *)

\* The order of the nodes.
Less(m, n) ==
    \/ m = head /\ n # head
    \/ n = tail /\ m # tail
    \/ /\ m \notin {head, tail} /\ n \notin {head, tail}
       /\ Below(snode[m].key, snode[n].key)

\* The node of t is in layer l although it is not fully linked.
Half(t, l) ==
    \/ pc[t] = "linked"
    \/ pc[t] = "link" /\ l < F(t).layer
    \/ pc[t] = "bypass" /\ l >= F(t).layer

\* The nodes of layer l.
In(l) ==
    {head, tail} \cup
    {n \in alloc : snode[n].top >= l /\ (Linked(n) \/ \E t \in Thread : Half(t, l) /\ F(t).node = n)}

NextIn(n, l) == snode[n].next[l]

\* From each node of a layer the pointer leads to the next greater one.
Sorted ==
    \A l \in Layer :
        /\ \A n \in In(l) \ {tail} : NextIn(n, l) \in In(l) /\ Less(n, NextIn(n, l))
        /\ \A m, n \in In(l) : m # n => Less(m, n) \/ Less(n, m)
        /\ \A m \in In(l) \ {tail}, n \in In(l) :
                Less(m, n) => NextIn(m, l) = n \/ Less(NextIn(m, l), n)

-----------------------------------------------------------------------------
(* Where the search or the change of a thread has come to.                   *)

Walking == Stepping \cup {"successor", "first"}

\* What "find", "layer" and "then" are used for at each label.
LocalsFit(t) ==
    /\ pc[t] \in Calling => F(t).ret \in Returns
    /\ pc[t] = "next" => F(t).next = Null /\ ~F(t).found
    /\ pc[t] \in Returns => F(t).ret = pc[t]
    /\ pc[t] = "clear" => F(t).resume \in Resumes
    /\ Where(t) \in {"insertMove", "link", "linked", "insertCount", "findMove", "successor",
                     "begin", "first"} => Inserts(t)
    /\ Where(t) \in {"eraseMove", "unlink", "bypass", "eraseCount"} => F(t).find = F(t).node
    /\ Where(t) \in Placing \cup Updating => F(t).find \in {Null, F(t).node}
    /\ Where(t) = "clear" => F(t).find = IF F(t).resume \in {"erase", "eraseUnflag"}
                                         THEN F(t).node ELSE Null
    /\ Where(t) \in {"linked", "insertCount", "eraseCount"} \cup Updating => F(t).layer = MaxLayer
    /\ Where(t) \in {"successor", "first", "unlink"} => F(t).layer = 0
    /\ Where(t) \in Placing \cup {"link", "bypass"} => F(t).layer <= Top(t)
    /\ Where(t) \in Searching => F(t).then # "idle"
    /\ Where(t) = "successor" => F(t).then \in {"eraseNode", "advance"}
    /\ Where(t) \in {"new", "insertFound"} \/ Creating(t) => F(t).then = "insertFound"
    /\ Where(t) \in {"new", "eraseFound"} \/ F(t).then \in {"insertFound", "eraseFound"}
            => F(t).key \in Key
    /\ F(t).passed # {} => pc[t] \in {"grab", "check", "skip"}

\* cur is a node of the layer or was one; in an insert or erase it is before the place.
CurFits(t) ==
    Where(t) \in Walking =>
        /\ F(t).cur \in Node \cup {head} /\ snode[F(t).cur].top >= F(t).layer
        /\ Where(t) = "successor" => F(t).cur = F(t).node
        /\ Where(t) = "first" => F(t).cur = head
        /\ Where(t) \in Stepping \ {"findMove"} => Less(F(t).cur, F(t).node)
        /\ Where(t) \in Placing => F(t).prevs[F(t).layer] = F(t).cur

\* next comes after cur and all that has been passed over.
NextFits(t) ==
    /\ pc[t] \in {"check", "skip"} \/ (pc[t] \in Returns /\ F(t).next # Null) =>
        /\ F(t).next \in Node \cup {tail} /\ snode[F(t).next].top >= F(t).layer
        /\ Less(F(t).cur, F(t).next)
    /\ pc[t] = "skip" => F(t).next # tail
    /\ pc[t] \in {"grab", "check", "skip"} =>
        \A p \in F(t).passed : /\ snode[p].top >= F(t).layer
                               /\ Less(F(t).cur, p) /\ Less(p, F(t).next)
    /\ pc[t] = "grab" => /\ F(t).at \in {F(t).cur} \cup F(t).passed
                         /\ Linked(F(t).at) /\ NextIn(F(t).at, F(t).layer) = F(t).next

\* An erase passes over its node, which is in the layer.
FoundFits(t) ==
    LET f == F(t) IN
    f.ret = "eraseMove" /\ f.layer <= Top(t) =>
        /\ pc[t] \in {"grab", "check", "skip"} \/ (pc[t] = "eraseMove" /\ f.next # Null) =>
                \/ f.next = f.node
                \/ IF f.found THEN Less(f.node, f.next) ELSE Less(f.next, f.node)
        /\ pc[t] = "eraseMove" => f.next # f.node
        /\ pc[t] = "skip" /\ f.next = f.node => f.found

\* The node before a place has the flag of t, so what comes after it stays.
AgainFits(t) ==
    LET f == F(t)
        after == NextIn(f.cur, f.layer)
    IN  Where(t) = "again" /\ pc[t] # "next" =>
            /\ \/ f.next = after
               \/ f.find = f.node /\ after = f.node /\ f.next = NextIn(f.node, f.layer)
            /\ pc[t] = "skip" => f.next = f.node /\ f.find = f.node
            /\ pc[t] = "again" => f.next # Null /\ f.next # f.find

\* The node that has been found to come next, unless it has been deleted.
PlaceFits(t) ==
    LET next == F(t).nexts[F(t).layer] IN
    Where(t) \in Placing =>
        /\ next \in Node \cup {tail}
        /\ next \in alloc \cup {tail} => Less(F(t).node, next)
        /\ Where(t) = "again" /\ Inserts(t) => NextIn(F(t).node, F(t).layer) = next

\* The layers in which the place is settled.
Settled(t) ==
    CASE Where(t) \in {"insertMove", "eraseMove"} \cup Placing -> F(t).layer + 1 .. Top(t)
      [] Where(t) \in {"link", "linked", "unlink", "bypass"} -> 0 .. Top(t)
      [] OTHER -> {}

\* There prevs leads to the node, or past it.
SettledFits(t) ==
    LET f == F(t) IN
    \A l \in Settled(t) :
        /\ f.nexts[l] \in Node \cup {tail} /\ Less(f.node, f.nexts[l])
        /\ NextIn(f.node, l) = f.nexts[l]
        /\ NextIn(f.prevs[l], l) =
              IF Half(t, l) \/ (~Inserts(t) /\ pc[t] # "bypass") THEN f.node ELSE f.nexts[l]

\* The nodes that have t's flag: they stay linked, except for one that was found not
\* to be, and from layer to layer they come closer to the place.
FlagsFit(t) ==
    LET f == F(t) IN
    /\ \A l \in FlagLayers(t) :
        /\ f.prevs[l] \in alloc \cup {head} /\ snode[f.prevs[l]].top >= l
        /\ Less(f.prevs[l], f.node)
        /\ \/ Linked(f.prevs[l])
           \/ pc[t] = "neighbours" /\ l = f.layer
           \/ pc[t] = "clear" /\ f.prevs[l] = f.cur
    /\ \A l, m \in FlagLayers(t) :
        l < m => \/ Less(f.prevs[m], f.prevs[l])
                 \/ f.prevs[m] = f.prevs[l] /\ pc[t] # "clear"
    /\ Where(t) \in {"insertMove", "eraseMove", "flag"} /\ f.layer < Top(t) =>
        LET above == f.prevs[f.layer + 1] IN above = f.cur \/ Less(above, f.cur)
    /\ pc[t] = "clear" => f.clearing # {} /\ f.clearing \subseteq 0 .. Top(t)

Fits(t) ==
    /\ LocalsFit(t) /\ CurFits(t) /\ NextFits(t) /\ FoundFits(t) /\ AgainFits(t)
    /\ PlaceFits(t) /\ SettledFits(t) /\ FlagsFit(t)

-----------------------------------------------------------------------------

\* The node of the key without a value is there, and reaches up to the top layer.
Sentinel ==
    \E n \in alloc : snode[n].key = SentinelKey /\ Linked(n) /\ snode[n].top = MaxLayer

\* The inductive invariant: the parts above, of all nodes and threads, which say why
\* the flags, references and locks of the code keep its nodes and layers in order.
IInv ==
    /\ Types /\ Owners /\ NodesFollow /\ Ends /\ RefsFollow /\ HeldStay /\ FlagsFollow
    /\ Sorted /\ CountersFollow /\ Sentinel
    /\ \A t \in Thread : Fits(t)

-----------------------------------------------------------------------------
(* What the program has to keep for this to hold.                            *)

\* No erase starts on the node that another call owns, and no node is made of memory
\* that a thread has found to come next.
StaysApart ==
    /\ \A t \in Thread :
            EraseNext(t) => \A u \in Thread \ {t} : Owns(u) => F(u).node # F(t).cursor
    /\ \A t \in Thread, l \in Layer : F(t).nexts[l] \notin alloc' \ alloc

\* A node is erased by one call at a time, and by none while the insert that has made
\* it has not taken its reference; and the memory of a node that somebody has found
\* to come next is not used for another.
CallsApart == [][StaysApart]_vars
=============================================================================
