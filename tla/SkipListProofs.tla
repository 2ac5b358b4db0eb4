---------------------------- MODULE SkipListProofs ----------------------------
(***************************************************************************)
(* The skip list behind the index keeps its nodes, layers, references and  *)
(* flags in order, for any threads, keys, jobs, heights and memory, as     *)
(* long as its calls stay apart (CallsApart): the invariant of             *)
(* SkipListInvariant holds initially and every step keeps it, and it       *)
(* implies the properties that TLC checks on small instances.              *)
(*                                                                         *)
(* SkipListSearchProofs has the parts of the invariant and the searches.   *)
(* Here are the steps that write to the nodes: the flags, the links of     *)
(* insert and erase, the counters, and the memory; then the list that a    *)
(* scenario starts with, and the theorems.                                 *)
(***************************************************************************)
EXTENDS SkipListSearchProofs

-----------------------------------------------------------------------------
(* Steps that write to the nodes. *)

\* A step of t that writes no key and no top layer, drops the references on "less",
\* and leaves head and tail what they are.
Writes(t, less) ==
    /\ alloc' = alloc /\ Alone(t) /\ Types'
    /\ \A n \in AllNode : snode'[n].key = snode[n].key /\ snode'[n].top = snode[n].top
    /\ \A n \in Node : snode'[n].refs = snode[n].refs - One(n \in less)
    /\ \A n \in {head, tail} :
            /\ snode'[n].refs = snode[n].refs /\ snode'[n].linked = snode[n].linked
            /\ snode'[n].writing = snode[n].writing /\ snode'[n].removed = snode[n].removed

\* What other threads count on.
Leaves(t) ==
    \A u \in Thread \ {t}, n \in Listed :
        \/ Flags(u, n)
        \/ Creating(u) /\ F(u).node = n
        \/ pc[u] = "grab" /\ F(u).at = n
        => snode'[n].next = snode[n].next /\ (snode[n].linked => snode'[n].linked)

\* A flag that t sets or takes back is no other thread's.
FlagsMove(t) ==
    /\ \A n \in Listed :
          \/ /\ snode'[n].modified = snode[n].modified
             /\ Flags(t, n)' <=> Flags(t, n)
          \/ /\ \A u \in Thread \ {t} : ~Flags(u, n)
             /\ snode'[n].modified <=> Flags(t, n)'
    /\ \A n \in AllNode : Flags(t, n)' => \A u \in Thread \ {t} : ~Flags(u, n)

\* The fields of its node say what t does with it, those of other nodes what they did.
SaysOn(t) ==
    /\ Owns(t)' => Says(t, F(t).node)'
    /\ \A n \in alloc : ~(Owns(t)' /\ F(t)'.node = n) =>
          /\ snode'[n].writing = snode[n].writing
          /\ snode'[n].linked = snode[n].linked /\ snode'[n].removed = snode[n].removed
          /\ F(t).node = n => ~Creating(t) /\ ~Marked(t) /\ ~Erased(t)

\* t gets no reference, and its new node stays as hidden as it was.
HoldsOn(t, less) ==
    /\ \A n \in Node : 0 - One(n \in less) = Mine(t, n)' - Mine(t, n)
    /\ \A n \in Node : Holds(t, n)' => Holds(t, n)
    /\ Creating(t)' /\ Where(t)' \notin {"link", "linked"} =>
          Creating(t) /\ Where(t) \notin {"link", "linked"} /\ F(t)'.node = F(t).node

LEMMA WritesSpare ==
  ASSUME IInv, NEW t \in Thread, NEW less, Writes(t, less), Leaves(t)
  PROVE  /\ Spares(t, {}) /\ Listed' = Listed
         /\ \A n \in Listed : n \in AllNode /\ Keeps(n)
         /\ \A a, b \in Listed : Less(a, b)' <=> Less(a, b)
  <1>0. Types /\ Types' /\ Alone(t) /\ alloc' = alloc BY DEF IInv, Writes
  <1>1. Listed' = Listed BY <1>0 DEF Listed
  <1>2. \A n \in Listed : n \in AllNode /\ Keeps(n)
    <2>1. \A n \in Listed : n \in AllNode BY <1>0, Typed
    <2> QED BY <1>1, <2>1 DEF Writes, Keeps
  <1>3. Spares(t, {}) BY <1>0, <1>2 DEF Spares, Leaves
  <1>4. \A a, b \in Listed : Less(a, b)' <=> Less(a, b)
    <2> TAKE a, b \in Listed
    <2> QED BY <1>2, LessKept
  <1> QED BY <1>1, <1>2, <1>3, <1>4

LEMMA WriteStep ==
  ASSUME IInv, NEW t \in Thread, NEW less, Writes(t, less), Leaves(t), OwnsRightly(t),
         SaysOn(t), HoldsOn(t, less), FlagsMove(t), Sorted', CountersFollow',
         \A n \in Listed : Linked(n) /\ snode[n].key = SentinelKey => snode'[n].linked,
         Fits(t)'
  PROVE  IInv'
  <1>0. Types /\ Types' /\ Alone(t) /\ alloc' = alloc BY DEF IInv, Writes
  <1>1. /\ Spares(t, {}) /\ Listed' = Listed
        /\ \A n \in Listed : n \in AllNode /\ Keeps(n)
    BY WritesSpare
  <1>2. Owns(t)' => /\ F(t)'.node \in alloc /\ F(t)'.key \in Key
                    /\ snode'[F(t)'.node].key = F(t)'.key
                    /\ \A u \in Thread \ {t} : Owns(u) => F(u).node # F(t)'.node
    <2>1. Owns(t)' => /\ F(t)'.node \in alloc /\ F(t)'.key \in Key
                      /\ snode[F(t)'.node].key = F(t)'.key
                      /\ \A u \in Thread \ {t} : Owns(u) => F(u).node # F(t)'.node
      BY Owned DEF OwnsRightly, IInv, Owners
    <2> QED BY <2>1, <1>1 DEF Keeps, Listed
  <1>3. Owners' BY <1>0, <1>1, <1>2, OwnersStep
  <1>4. NodesFollow'
    <2>1. Owns(t)' => Says(t, F(t).node)' /\ snode'[F(t)'.node].key \in Key
      BY <1>2 DEF SaysOn
    <2>2. \A n \in alloc' : ~(Owns(t)' /\ F(t)'.node = n) =>
            /\ n \in alloc /\ snode'[n].writing = snode[n].writing
            /\ snode'[n].linked = snode[n].linked /\ snode'[n].removed = snode[n].removed
            /\ F(t).node = n => ~Creating(t) /\ ~Marked(t) /\ ~Erased(t)
      BY <1>0 DEF SaysOn
    <2> QED BY <1>1, <1>2, <2>1, <2>2, NodesStep
  <1>5. Ends' BY <1>0 DEF IInv, Ends, Writes, Linked, AllNode
  <1>6. RefsFollow'
    <2>1. \A n \in Node : snode[n].refs \in Int /\ snode'[n].refs = snode[n].refs - One(n \in less)
      BY <1>0, Typed DEF Writes, AllNode, NodeType
    <2>2. \A n \in Node : One(n \in less) \in Int /\ Mine(t, n)' \in Int /\ Mine(t, n) \in Int
      BY DEF One, Mine
    <2>3. \A n \in Node : 0 - One(n \in less) = Mine(t, n)' - Mine(t, n) BY DEF HoldsOn
    <2>4. \A n \in Node : snode'[n].refs = snode[n].refs + Mine(t, n)' - Mine(t, n)
      <3> TAKE n \in Node
      <3>1. PICK a : a = One(n \in less) OBVIOUS
      <3>2. PICK b : b = Mine(t, n) OBVIOUS
      <3>3. PICK c : c = Mine(t, n)' OBVIOUS
      <3>4. PICK r : r = snode[n].refs OBVIOUS
      <3>5. a \in Int /\ b \in Int /\ c \in Int /\ r \in Int /\ 0 - a = c - b
        BY <2>1, <2>2, <2>3, <3>1, <3>2, <3>3, <3>4
      <3>6. r - a = r + c - b BY ONLY <3>5
      <3> QED BY <2>1, <3>1, <3>2, <3>3, <3>4, <3>6
    <2> QED BY <1>0, <2>4, RefsStep
  <1>7. HeldStay'
    <2>1. \A n \in Node : Holds(t, n)' => n \in alloc' /\ Visible(n)
      BY <1>0, HeldListed DEF HoldsOn
    <2>2. Creating(t)' /\ Where(t)' \notin {"link", "linked"} =>
            \/ F(t)'.node \notin alloc
            \/ Creating(t) /\ Where(t) \notin {"link", "linked"} /\ F(t)'.node = F(t).node
      BY DEF HoldsOn
    <2> QED BY <1>1, <2>1, <2>2, HeldStep
  <1>8. FlagsFollow'
    <2>1. \A n \in Listed' :
            \/ /\ n \in Listed /\ snode'[n].modified = snode[n].modified
               /\ Flags(t, n)' <=> Flags(t, n)
            \/ /\ \A u \in Thread \ {t} : ~Flags(u, n)
               /\ snode'[n].modified <=> Flags(t, n)'
      BY <1>1 DEF FlagsMove
    <2>2. \A n \in AllNode : Flags(t, n)' => \A u \in Thread \ {t} : ~Flags(u, n)
      BY DEF FlagsMove
    <2> QED BY <1>1, <2>1, <2>2, FlagsStep
  <1>9. Sentinel' BY <1>1, SentinelStep
  <1>10. \A u \in Thread : Fits(u)' BY <1>1, OtherFits
  <1> QED BY <1>0, <1>3, <1>4, <1>5, <1>6, <1>7, <1>8, <1>9, <1>10 DEF IInv

\* Nobody else knows of a node that is not linked anywhere yet.
LEMMA HiddenAlone ==
  ASSUME IInv, NEW t \in Thread, Creating(t), Where(t) \notin {"link", "linked"},
         NEW u \in Thread \ {t}
  PROVE  /\ ~Holds(u, F(t).node) /\ ~Flags(u, F(t).node)
         /\ ~(Owns(u) /\ F(u).node = F(t).node)
         /\ ~(pc[u] = "grab" /\ F(u).at = F(t).node)
         /\ \A l \in Layer : F(t).node \notin In(l)
  <1>1. Owns(t) BY DEF Owns
  <1>2. PICK m : m = F(t).node OBVIOUS
  <1>3. m \in alloc /\ m \in Node /\ m \notin {head, tail, Null} /\ m \in Listed
    BY <1>1, <1>2, Owned
  <1>4. ~(Owns(u) /\ F(u).node = m) BY <1>1, <1>2, Owned
  <1>5. Hidden(m) BY <1>2 DEF Hidden
  <1>6. ~Visible(m) BY <1>3, <1>5 DEF Visible
  <1>7. ~Holds(u, m) BY <1>3, <1>6 DEF IInv, HeldStay
  <1>8. \A l \in Layer : m \notin In(l) BY <1>6, InListed
  <1>9. ~Linked(m) BY <1>2, <1>3 DEF IInv, NodesFollow
  <1>10. ~(pc[u] = "grab" /\ F(u).at = m) BY <1>8, GrabIn
  <1>11. ~Flags(u, m)
    <2>1. FlagsOwn(u) => Owns(u) BY DEF FlagsOwn, Owns, Erases, Unmarked
    <2>2. ASSUME NEW l \in FlagLayers(u), F(u).prevs[l] = m PROVE FALSE
      <3>1. FlagsFit(u) /\ CurFits(u) BY DEF IInv, Fits
      <3>2. \/ pc[u] = "neighbours" /\ l = F(u).layer
            \/ pc[u] = "clear" /\ m = F(u).cur
        BY <1>9, <2>2, <3>1 DEF FlagsFit
      <3>3. Where(u) = pc[u] BY <3>2 DEF Where, Calling
      <3>4. F(u).cur = m
        BY <2>2, <3>1, <3>2, <3>3 DEF CurFits, Walking, Stepping, Placing
      <3>5. Where(u) \in Held BY <3>2, <3>3 DEF Held, Stepping, Placing
      <3> QED BY <1>7, <3>4, <3>5 DEF Holds, HoldsCur
    <2> QED BY <1>4, <2>1, <2>2 DEF Flags
  <1> QED BY <1>2, <1>4, <1>7, <1>8, <1>10, <1>11

\* No node is linked or unlinked, and no pointer of a layer changes.
LEMMA FieldStep ==
  ASSUME IInv, NEW t \in Thread, NEW less, Writes(t, less), OwnsRightly(t), SaysOn(t),
         HoldsOn(t, less), FlagsMove(t), Fits(t)', SameCounts(t),
         \A l \in Layer : Half(t, l)' <=> Half(t, l),
         (\E l \in Layer : Half(t, l)) => F(t)'.node = F(t).node,
         \A n \in AllNode : snode'[n].linked = snode[n].linked,
         \A n \in AllNode : \/ snode'[n].next = snode[n].next
                            \/ /\ n = F(t).node /\ Creating(t)
                               /\ Where(t) \notin {"link", "linked"}
  PROVE  IInv'
  <1>1. Leaves(t)
    <2>1. SUFFICES ASSUME NEW u \in Thread \ {t}, NEW n \in Listed,
                          \/ Flags(u, n)
                          \/ Creating(u) /\ F(u).node = n
                          \/ pc[u] = "grab" /\ F(u).at = n
                   PROVE  snode'[n].next = snode[n].next /\ (snode[n].linked => snode'[n].linked)
      BY DEF Leaves
    <2>2. n \in AllNode BY Typed DEF IInv
    <2>3. ~(n = F(t).node /\ Creating(t) /\ Where(t) \notin {"link", "linked"})
      BY <2>1, HiddenAlone DEF Owns
    <2> QED BY <2>2, <2>3
  <1>2. /\ Spares(t, {}) /\ Listed' = Listed
        /\ \A n \in Listed : n \in AllNode /\ Keeps(n)
    BY <1>1, WritesSpare
  <1>3. SameLinks(t)
    <2>1. \A n \in alloc' : snode'[n].linked = (n \in alloc /\ snode[n].linked)
      <3>1. alloc' = alloc /\ alloc \subseteq AllNode /\ \A n \in AllNode : snode[n].linked \in BOOLEAN
        BY Typed DEF Writes, IInv, NodeType, AllNode
      <3> QED BY <3>1
    <2> QED BY <2>1 DEF SameLinks
  <1>4. \A l \in Layer : In(l)' = In(l) BY <1>2, <1>3, InStep
  <1>5. Sorted'
    <2>1. \A l \in Layer : \A n \in In(l) : Keeps(n) /\ snode'[n].next = snode[n].next
      <3> TAKE l \in Layer
      <3> TAKE n \in In(l)
      <3>1. n \in Listed BY InListed
      <3>2. ~(n = F(t).node /\ Creating(t) /\ Where(t) \notin {"link", "linked"})
        <4>1. SUFFICES ASSUME n = F(t).node, Creating(t), Where(t) \notin {"link", "linked"}
                       PROVE  FALSE
          OBVIOUS
        <4>2. Owns(t) /\ n \in alloc /\ n \notin {head, tail} BY <4>1, Owned DEF Owns
        <4>3. Hidden(n) BY <4>1 DEF Hidden
        <4>4. Visible(n) BY InListed
        <4> QED BY <4>2, <4>3, <4>4 DEF Visible
      <3> QED BY <1>2, <3>1, <3>2
    <2> QED BY <1>4, <2>1, SortedStep
  <1>6. CountersFollow' BY <1>2, <1>3, CountedStep
  <1>7. \A n \in Listed : Linked(n) /\ snode[n].key = SentinelKey => snode'[n].linked
    BY <1>2 DEF Linked
  <1>8. IInv /\ t \in Thread /\ Writes(t, less) /\ OwnsRightly(t) /\ SaysOn(t)
        /\ HoldsOn(t, less) /\ FlagsMove(t) /\ Fits(t)'
    OBVIOUS
  <1> QED BY ONLY <1>1, <1>5, <1>6, <1>7, <1>8, WriteStep

\* The places that are settled and the flags stay what they are when t at most writes the
\* pointer of its own node in the layer it is in.
LEMMA NeighboursFits ==
  ASSUME IInv, NEW t \in Thread, pc[t] = "neighbours", NEW less, Writes(t, less), Leaves(t),
         Linked(F(t).cur), CallNext(t, F(t), "again"),
         \A n \in AllNode : snode'[n].linked = snode[n].linked,
         \A n \in AllNode \ {F(t).node} : snode'[n].next = snode[n].next,
         \A k \in Layer \ {F(t).layer} : snode'[F(t).node].next[k] = snode[F(t).node].next[k],
         Inserts(t) => snode'[F(t).node].next[F(t).layer] = F(t).nexts[F(t).layer],
         Creating(t)' <=> Creating(t)
  PROVE  Fits(t)'
  <1>1. pc[t] \in Placing BY DEF Placing
  <1>2. /\ Owns(t) /\ Where(t) = pc[t] /\ F(t).layer \in Layer /\ F(t).passed = {}
        /\ Inserts(t) => Creating(t)
        /\ ~Inserts(t) => Marked(t) /\ F(t).find = F(t).node
        /\ F(t).cur \in Listed /\ F(t).cur \in Node \cup {head} /\ Less(F(t).cur, F(t).node)
        /\ snode[F(t).cur].top >= F(t).layer /\ F(t).prevs[F(t).layer] = F(t).cur
        /\ F(t).layer <= Top(t)
    BY <1>1, AtPlace
  <1>3. PICK f : f = F(t) OBVIOUS
  <1>4. f \in FrameType /\ Types BY <1>3, FrameIs
  <1>5. /\ pc'[t] = "next" /\ F(t)'.passed = {} /\ ~F(t)'.found /\ F(t)'.ret = "again"
        /\ F(t)'.next = Null /\ F(t)'.key = f.key /\ F(t)'.node = f.node /\ F(t)'.cur = f.cur
        /\ F(t)'.layer = f.layer /\ F(t)'.find = f.find /\ F(t)'.prevs = f.prevs
        /\ F(t)'.nexts = f.nexts /\ F(t)'.then = f.then
    <2>1. F(t)' = [f EXCEPT !.passed = {}, !.found = FALSE, !.ret = "again", !.next = Null]
          /\ pc'[t] = "next"
      BY <1>3, <1>4, GoFrame DEF CallNext
    <2> QED BY <1>4, <2>1 DEF FrameType
  <1>6. Where(t)' = "again" BY <1>5 DEF Where, Calling
  <1>7. /\ Spares(t, {}) /\ Listed' = Listed
        /\ \A n \in Listed : n \in AllNode /\ Keeps(n)
        /\ \A a, b \in Listed : Less(a, b)' <=> Less(a, b)
    BY WritesSpare
  <1>8. PICK m : m = f.node OBVIOUS
  <1>9. PICK c : c = f.cur OBVIOUS
  <1>10. PICK l : l = f.layer OBVIOUS
  <1>11. /\ m \in Listed /\ m \in AllNode /\ m # Null /\ c \in Listed /\ l \in Layer /\ Less(c, m)
         /\ l \in Int /\ Top(t) \in Int /\ l <= Top(t) /\ Top(t) = snode[m].top
         /\ c \in Node \cup {head} /\ snode[c].top >= l /\ f.prevs[l] = c
    BY <1>2, <1>3, <1>8, <1>9, <1>10, Owned, LayerAssumption DEF Layer, Top
  <1>12. Top(t)' = Top(t)
    <2>1. snode'[m].top = snode[m].top BY <1>7, <1>11 DEF Keeps
    <2> QED BY <1>5, <1>8, <1>11, <2>1 DEF Top
  <1>13. Inserts(t)' <=> Inserts(t) BY <1>3, <1>5 DEF Inserts
  <1>14. LocalsFit(t) /\ PlaceFits(t) /\ SettledFits(t) /\ FlagsFit(t) BY DEF IInv, Fits
  <1>15. LocalsFit(t)'
    <2>2. Creating(t)' => F(t)'.then = "insertFound" BY <1>3, <1>5, <1>14 DEF LocalsFit
    <2>3. F(t)'.find \in {Null, F(t)'.node} BY <1>2, <1>3, <1>5 DEF Inserts
    <2>4. F(t).then \in {"insertFound", "eraseFound"} => F(t).key \in Key BY <1>14 DEF LocalsFit
    <2>5. /\ F(t)'.then \in {"insertFound", "eraseFound"} => F(t)'.key \in Key
          /\ F(t)'.layer <= Top(t)' /\ pc'[t] = "next" /\ F(t)'.ret = "again"
          /\ F(t)'.next = Null /\ ~F(t)'.found /\ F(t)'.passed = {}
      BY <1>3, <1>5, <1>10, <1>11, <1>12, <2>4
    <2> QED BY ONLY <1>6, <2>2, <2>3, <2>5
        DEF LocalsFit, Placing, Updating, Searching, Calling, Returns
  <1>16. CurFits(t)'
    <2>1. Less(c, m)' BY <1>7, <1>11
    <2>2. snode'[c].top = snode[c].top BY <1>7, <1>11 DEF Keeps
    <2>3. Less(F(t).cur, F(t).node)' BY <1>5, <1>8, <1>9, <2>1 DEF Less
    <2>4. snode'[F(t)'.cur].top >= F(t)'.layer BY <1>5, <1>9, <1>10, <1>11, <2>2
    <2>5. F(t)'.cur \in Node \cup {head} /\ F(t)'.prevs[F(t)'.layer] = F(t)'.cur
      BY <1>5, <1>9, <1>10, <1>11
    <2> QED BY ONLY <1>6, <2>3, <2>4, <2>5 DEF CurFits, Placing
  <1>17. NextFits(t)' /\ FoundFits(t)' /\ AgainFits(t)'
    BY <1>5, <1>6 DEF NextFits, FoundFits, AgainFits, Returns
  <1>18. PlaceFits(t)'
    <2>1. PICK n : n = f.nexts[l] OBVIOUS
    <2>2. n \in Node \cup {tail} /\ (n \in alloc \cup {tail} => Less(m, n))
      BY <1>1, <1>2, <1>3, <1>8, <1>10, <1>14, <2>1 DEF PlaceFits
    <2>3. n \in alloc' \cup {tail} => Less(m, n)' BY <1>7, <1>11, <2>2 DEF Writes, Listed
    <2>4. F(t)'.nexts[F(t)'.layer] = n BY <1>5, <1>10, <2>1
    <2>5. n \in alloc' \cup {tail} => Less(F(t).node, F(t).nexts[F(t).layer])'
      BY <1>5, <1>8, <2>3, <2>4 DEF Less
    <2>6. Inserts(t)' => NextIn(F(t).node, F(t).layer)' = n
      BY <1>3, <1>5, <1>8, <1>10, <1>13, <2>1 DEF NextIn
    <2> QED BY <2>2, <2>4, <2>5, <2>6 DEF PlaceFits
  <1>19. /\ FlagLayers(t) = l .. Top(t) /\ Settled(t) = l + 1 .. Top(t)
         /\ FlagLayers(t)' = l .. Top(t) /\ Settled(t)' = l + 1 .. Top(t)
    BY <1>2, <1>3, <1>5, <1>6, <1>10, <1>12, LayersAt
  <1>20. SettledFits(t)'
    <2>1. \A k \in Layer : ~Half(t, k)' /\ ~Half(t, k) BY <1>5 DEF Half
    <2>2. SUFFICES ASSUME NEW k \in Settled(t)
                   PROVE /\ F(t)'.nexts[k] \in Node \cup {tail}
                         /\ Less(F(t).node, F(t).nexts[k])'
                         /\ NextIn(F(t).node, k)' = F(t)'.nexts[k]
                         /\ NextIn(F(t).prevs[k], k)' =
                              IF ~Inserts(t)' THEN F(t)'.node ELSE F(t)'.nexts[k]
      <3>1. \A k \in Settled(t)' : k \in Layer
        <4>1. Top(t) \in Layer BY <1>2, Owned
        <4> QED BY <1>11, <1>19, <4>1, LayerAssumption DEF Layer
      <3> QED BY <1>5, <1>19, <2>1, <3>1 DEF SettledFits
    <2>3. k \in Layer /\ k # l /\ k \in Int
      <3>1. k \in Layer BY SettledFlags
      <3> QED BY <1>11, <1>19, <3>1
    <2>4. PICK n : n = f.nexts[k] OBVIOUS
    <2>5. PICK p : p = f.prevs[k] OBVIOUS
    <2>6. /\ p \in In(k) /\ p # tail /\ n \in In(k) /\ n \in Listed /\ Less(m, n)
          /\ NextIn(m, k) = n /\ Less(p, m)
      BY <1>3, <1>8, <2>4, <2>5, SettledIn
    <2>7. /\ n \in Node \cup {tail}
          /\ NextIn(p, k) = IF ~Inserts(t) THEN m ELSE n
      BY <1>2, <1>3, <1>8, <1>14, <2>1, <2>3, <2>4, <2>5 DEF SettledFits
    <2>8. p \in Listed /\ p # m
      <3>1. p \in Listed BY <2>3, <2>6, InListed
      <3> QED BY <1>11, <2>6, <3>1, LessOrder
    <2>9. p \in AllNode BY <1>7, <2>8
    <2>10. snode'[p].next = snode[p].next BY <1>3, <1>8, <2>8, <2>9
    <2>11. snode'[m].next[k] = snode[m].next[k] BY <1>3, <1>8, <1>10, <2>3
    <2>12. Less(m, n)' BY <1>7, <1>11, <2>6
    <2>13. /\ F(t)'.nexts[k] = n /\ F(t)'.prevs[k] = p /\ F(t)'.node = m
      BY <1>5, <1>8, <2>4, <2>5
    <2>14. Less(F(t).node, F(t).nexts[k])' BY <2>12, <2>13 DEF Less
    <2> QED BY <1>13, <2>6, <2>7, <2>10, <2>11, <2>13, <2>14 DEF NextIn
  <1>21. FlagsFit(t)'
    <2>1. \A k \in l .. Top(t) :
             /\ f.prevs[k] \in alloc \cup {head} /\ f.prevs[k] \in Listed
             /\ snode[f.prevs[k]].top >= k /\ Less(f.prevs[k], m) /\ Linked(f.prevs[k])
      <3> TAKE k \in l .. Top(t)
      <3>1. k \in FlagLayers(t) BY <1>19
      <3>2. /\ f.prevs[k] \in alloc \cup {head} /\ snode[f.prevs[k]].top >= k
            /\ Less(f.prevs[k], m)
        BY <1>3, <1>8, <1>14, <3>1 DEF FlagsFit
      <3>3. Linked(f.prevs[k])
        <4>1. CASE k = l BY <1>3, <1>9, <1>11, <4>1
        <4>2. CASE k # l
          <5>1. k # F(t).layer /\ pc[t] # "clear" BY <1>3, <1>10, <4>2
          <5> QED BY <1>3, <3>1, <5>1, FlaggedIn
        <4> QED BY <4>1, <4>2
      <3> QED BY <3>2, <3>3 DEF Listed
    <2>2. \A k \in l .. Top(t) :
             /\ F(t)'.prevs[k] \in alloc' \cup {head} /\ snode'[F(t)'.prevs[k]].top >= k
             /\ Less(F(t).prevs[k], F(t).node)' /\ Linked(F(t).prevs[k])'
      <3> TAKE k \in l .. Top(t)
      <3>1. PICK p : p = f.prevs[k] OBVIOUS
      <3>2. /\ p \in alloc \cup {head} /\ p \in Listed /\ p \in AllNode
            /\ snode[p].top >= k /\ Less(p, m) /\ Linked(p)
        BY <1>7, <2>1, <3>1
      <3>3. /\ snode'[p].top = snode[p].top /\ snode'[p].linked = snode[p].linked
            /\ Less(p, m)' /\ alloc' = alloc
        BY <1>7, <1>11, <3>2 DEF Keeps, Writes
      <3>4. F(t)'.prevs[k] = p /\ F(t)'.node = m BY <1>5, <1>8, <3>1
      <3> QED BY <3>2, <3>3, <3>4 DEF Less, Linked
    <2>3. \A j, k \in l .. Top(t) : j < k => \/ Less(F(t).prevs[k], F(t).prevs[j])'
                                              \/ F(t)'.prevs[k] = F(t)'.prevs[j]
      <3> TAKE j, k \in l .. Top(t)
      <3>1. PICK p : p = f.prevs[j] OBVIOUS
      <3>2. PICK q : q = f.prevs[k] OBVIOUS
      <3>3. p \in Listed /\ q \in Listed BY <2>1, <3>1, <3>2
      <3>4. j < k => Less(q, p) \/ q = p
        BY <1>3, <1>14, <1>19, <3>1, <3>2 DEF FlagsFit
      <3>5. Less(q, p)' <=> Less(q, p) BY <1>7, <3>3
      <3>6. F(t)'.prevs[j] = p /\ F(t)'.prevs[k] = q BY <1>5, <3>1, <3>2
      <3> QED BY <3>4, <3>5, <3>6 DEF Less
    <2>4. pc'[t] # "clear" BY <1>5
    <2> QED BY <1>6, <1>19, <2>2, <2>3, <2>4 DEF FlagsFit
  <1> QED BY <1>15, <1>16, <1>17, <1>18, <1>20, <1>21 DEF Fits

\* The node before the place is linked: insert sets the pointer of its own node, and
\* t looks once more at what comes next.
LEMMA NeighboursGoStep ==
  ASSUME IInv, NEW t \in Thread, pc[t] = "neighbours", Linked(F(t).cur),
         snode' = IF F(t).find = Null
                  THEN [snode EXCEPT ![F(t).node].next[F(t).layer] = F(t).nexts[F(t).layer]]
                  ELSE snode,
         CallNext(t, F(t), "again"), UNCHANGED <<alloc, slist>>, UNCHANGED jobs
  PROVE  IInv'
  <1>1. pc[t] \in Placing BY DEF Placing
  <1>2. /\ Owns(t) /\ Where(t) = pc[t] /\ F(t).layer \in Layer /\ F(t).passed = {}
        /\ Inserts(t) => Creating(t)
        /\ ~Inserts(t) => Marked(t) /\ F(t).find = F(t).node
        /\ F(t).cur \in Listed
        /\ \A n : /\ HoldsCur(t, n) <=> n = F(t).cur
                  /\ HoldsNext(t, n) <=> pc[t] = "again" /\ n = F(t).next
                  /\ ~HoldsPassed(t, n)
    BY <1>1, AtPlace
  <1>3. PICK m : m = F(t).node OBVIOUS
  <1>4. PICK l : l = F(t).layer OBVIOUS
  <1>5. PICK x : x = F(t).nexts[l] OBVIOUS
  <1>6. /\ m \in Node /\ m \in AllNode /\ m # Null /\ m \in alloc /\ m \notin {head, tail}
        /\ Top(t) \in Layer /\ l \in Layer
        /\ F(t) \in FrameType /\ Types /\ x \in Link
    BY <1>2, <1>3, <1>4, <1>5, Owned, FrameIs
  <1>7. /\ \A n \in AllNode : /\ snode'[n].key = snode[n].key /\ snode'[n].top = snode[n].top
                              /\ snode'[n].linked = snode[n].linked
                              /\ snode'[n].modified = snode[n].modified
                              /\ snode'[n].removed = snode[n].removed
                              /\ snode'[n].refs = snode[n].refs
                              /\ snode'[n].writing = snode[n].writing
                              /\ snode'[n] \in NodeType
        /\ \A n \in AllNode \ {m} : snode'[n].next = snode[n].next
        /\ \A k \in Layer \ {l} : snode'[m].next[k] = snode[m].next[k]
        /\ Inserts(t) => snode'[m].next[l] = x
        /\ ~Inserts(t) => snode' = snode
        /\ snode' \in [AllNode -> NodeType]
    <2>1. snode \in [AllNode -> NodeType] BY <1>6 DEF Types
    <2>2. CASE F(t).find = Null
      <3>1. snode' = [snode EXCEPT ![m].next[l] = x] BY <1>3, <1>4, <1>5, <2>2
      <3>2. snode' = [snode EXCEPT ![m] = [snode[m] EXCEPT !.next = [snode[m].next EXCEPT ![l] = x]]]
        BY <3>1
      <3>3. snode[m] \in NodeType BY <1>6, <2>1
      <3>4. [snode[m].next EXCEPT ![l] = x] \in [Layer -> Link] BY <1>6, <3>3 DEF NodeType
      <3>5. [snode[m] EXCEPT !.next = [snode[m].next EXCEPT ![l] = x]] \in NodeType
        BY ONLY <3>3, <3>4 DEF NodeType
      <3>6. snode' \in [AllNode -> NodeType] BY ONLY <1>6, <2>1, <3>2, <3>5
      <3>7. \A n \in AllNode \ {m} : snode'[n] = snode[n] BY ONLY <2>1, <3>2
      <3>8. snode'[m] = [snode[m] EXCEPT !.next = [snode[m].next EXCEPT ![l] = x]]
        BY ONLY <1>6, <2>1, <3>2
      <3>9. /\ snode'[m].key = snode[m].key /\ snode'[m].top = snode[m].top
            /\ snode'[m].linked = snode[m].linked /\ snode'[m].modified = snode[m].modified
            /\ snode'[m].removed = snode[m].removed /\ snode'[m].refs = snode[m].refs
            /\ snode'[m].writing = snode[m].writing
            /\ snode'[m].next = [snode[m].next EXCEPT ![l] = x]
        BY ONLY <3>3, <3>8 DEF NodeType
      <3>10. snode[m].next \in [Layer -> Link] BY <3>3 DEF NodeType
      <3>11. /\ \A k \in Layer \ {l} : snode'[m].next[k] = snode[m].next[k]
             /\ snode'[m].next[l] = x
        BY ONLY <1>6, <3>9, <3>10
      <3>12. Inserts(t) BY <2>2 DEF Inserts
      <3>13. \A n \in AllNode : snode'[n] \in NodeType BY ONLY <3>6
      <3> QED BY ONLY <3>6, <3>7, <3>9, <3>11, <3>12, <3>13
    <2>3. CASE F(t).find # Null
      <3>1. snode' = snode BY <2>3
      <3>2. ~Inserts(t) BY <2>3 DEF Inserts
      <3> QED BY <2>1, <3>1, <3>2
    <2> QED BY <2>2, <2>3
  <1>8. PICK f : f = [F(t) EXCEPT !.passed = {}, !.found = FALSE, !.ret = "again", !.next = Null]
    OBVIOUS
  <1>9. /\ f \in FrameType /\ f.passed = {} /\ f.ret = "again" /\ f.next = Null
        /\ f.key = F(t).key /\ f.node = F(t).node /\ f.cur = F(t).cur /\ f.find = F(t).find
        /\ f.cursor = F(t).cursor /\ f.layer = F(t).layer /\ f.prevs = F(t).prevs
    <2>1. Null \in Link /\ "again" \in Returns BY DEF Link, Returns
    <2> QED BY ONLY <1>6, <1>8, <2>1 DEF FrameType
  <1>10. Go(t, "next", f) BY <1>8 DEF CallNext
  <1>11. /\ Alone(t) /\ F(t)' = f /\ pc'[t] = "next" /\ Types'
    <2>1. "next" \in LabelNames \ {"undefined"} BY DEF LabelNames
    <2>2. frame' \in [Thread -> FrameType] /\ pc' \in [Thread -> LabelNames \ {"undefined"}]
      BY <1>6, <1>9, <1>10, <2>1, GoTypes
    <2>3. Types' BY <1>6, <1>7, <2>2 DEF Types
    <2> QED BY <1>6, <1>10, <2>3, GoFrame
  <1> HIDE <1>8
  <1>12. Where(t)' = "again" /\ Where(t) = "neighbours" BY <1>2, <1>9, <1>11 DEF Where, Calling
  <1>13. PICK S : S = {} OBVIOUS
  <1>14. Writes(t, S)
    <2>1. \A n \in {head, tail} : n \in AllNode BY DEF AllNode
    <2>2. \A n \in Node : n \in AllNode /\ snode'[n].refs = snode[n].refs - One(n \in S)
      <3> TAKE n \in Node
      <3>1. n \in AllNode BY DEF AllNode
      <3>2. snode[n].refs \in Int BY <1>6, <3>1, Typed DEF NodeType
      <3> QED BY <1>7, <1>13, <3>1, <3>2 DEF One
    <2> QED BY <1>7, <1>11, <2>1, <2>2 DEF Writes
  <1>15. SamePart(t)
    <2>1. Where(t) \in WorkLabels /\ Where(t)' \in WorkLabels
      BY <1>12 DEF WorkLabels, Placing
    <2>2. Inserts(t)' <=> Inserts(t) BY <1>9, <1>11 DEF Inserts
    <2>3. /\ Inserts(t) => Creating(t)'
          /\ ~Inserts(t) => Marked(t)'
      BY <1>12, <2>2 DEF Creating, Marked, Placing
    <2> QED BY <1>2, <1>9, <1>11, <2>1, <2>3, PartsApart DEF SamePart
  <1>16. /\ Owns(t) <=> Creating(t) \/ Created(t) \/ Marked(t) \/ Erased(t)
         /\ Owns(t)' <=> Creating(t)' \/ Created(t)' \/ Marked(t)' \/ Erased(t)'
         /\ \A n : HoldsNode(t, n)' <=> HoldsNode(t, n)
         /\ \A n : HoldsCursor(t, n)' <=> HoldsCursor(t, n)
         /\ FlagsOwn(t)' <=> FlagsOwn(t)
    BY <1>15, WorkHolds DEF SamePart
  <1>17. OwnsRightly(t) BY <1>15, <1>16 DEF OwnsRightly, SamePart
  <1>18. SaysOn(t)
    <2>1. Says(t, m) BY <1>2, <1>3, OwnSays
    <2>2. Says(t, F(t).node)'
      BY <1>3, <1>6, <1>7, <1>15, <2>1 DEF Says, SamePart, Linked
    <2>3. alloc \subseteq AllNode BY <1>6, Typed DEF AllNode
    <2>4. Owns(t)' /\ F(t)'.node = F(t).node BY <1>2, <1>15, <1>16 DEF SamePart
    <2> QED BY <1>7, <2>2, <2>3, <2>4 DEF SaysOn
  <1>19. \A n : /\ HoldsCur(t, n)' <=> n = F(t).cur
                /\ ~HoldsNext(t, n)' /\ ~HoldsPassed(t, n)'
    BY <1>9, <1>11, <1>12 DEF HoldsCur, HoldsNext, HoldsPassed, Held, Stepping, Returns, Placing
  <1>20. \A n : /\ HoldsCur(t, n)' <=> HoldsCur(t, n)
                /\ HoldsNext(t, n)' <=> HoldsNext(t, n)
                /\ HoldsPassed(t, n)' <=> HoldsPassed(t, n)
    <2>1. pc[t] # "again" OBVIOUS
    <2> QED BY <1>2, <1>19, <2>1
  <1>21. HoldsOn(t, S)
    <2>1. \A n : Mine(t, n)' = Mine(t, n) BY <1>16, <1>20 DEF Mine, One
    <2>2. \A n : Mine(t, n) \in Int BY DEF Mine, One
    <2>3. \A n \in Node : 0 - One(n \in S) = Mine(t, n)' - Mine(t, n)
      BY <1>13, <2>1, <2>2 DEF One
    <2>4. \A n \in Node : Holds(t, n)' => Holds(t, n) BY <1>16, <1>20 DEF Holds
    <2> QED BY <1>12, <1>15, <2>3, <2>4 DEF HoldsOn, SamePart
  <1>22. FlagsMove(t)
    <2>1. Top(t)' = Top(t) BY <1>3, <1>6, <1>7, <1>9, <1>11 DEF Top
    <2>2. FlagLayers(t)' = FlagLayers(t)
      BY <1>9, <1>11, <1>12, <2>1, LayersAt
    <2>3. \A n : Flags(t, n)' <=> Flags(t, n)
      BY <1>9, <1>11, <1>15, <1>16, <2>2 DEF Flags, SamePart
    <2>4. \A n \in Listed : snode'[n].modified = snode[n].modified
      BY <1>6, <1>7, Typed
    <2>5. \A n \in AllNode : Flags(t, n)' => \A u \in Thread \ {t} : ~Flags(u, n)
      BY <2>3 DEF IInv, FlagsFollow
    <2> QED BY <2>3, <2>4, <2>5 DEF FlagsMove
  <1>23. \A k \in Layer : ~Half(t, k)' /\ ~Half(t, k) BY <1>11 DEF Half
  <1>24. SameCounts(t) BY <1>11 DEF SameCounts
  <1>25. \A n \in AllNode : \/ snode'[n].next = snode[n].next
                            \/ /\ n = F(t).node /\ Creating(t)
                               /\ Where(t) \notin {"link", "linked"}
    <2> TAKE n \in AllNode
    <2>1. CASE n # m BY <1>7, <2>1
    <2>2. CASE ~Inserts(t) BY <1>7, <2>2
    <2>3. CASE n = m /\ Inserts(t) BY <1>2, <1>3, <1>12, <2>3
    <2> QED BY <2>1, <2>2, <2>3
  <1>26. Leaves(t)
    <2>1. SUFFICES ASSUME NEW u \in Thread \ {t}, NEW n \in Listed,
                          \/ Flags(u, n)
                          \/ Creating(u) /\ F(u).node = n
                          \/ pc[u] = "grab" /\ F(u).at = n
                   PROVE  snode'[n].next = snode[n].next /\ (snode[n].linked => snode'[n].linked)
      BY DEF Leaves
    <2>2. n \in AllNode BY <1>6, Typed
    <2>3. ~(n = F(t).node /\ Creating(t) /\ Where(t) \notin {"link", "linked"})
      BY <2>1, HiddenAlone DEF Owns
    <2> QED BY <1>7, <1>25, <2>2, <2>3
  <1>27. Fits(t)'
    <2>1. /\ IInv /\ t \in Thread /\ pc[t] = "neighbours" /\ Linked(F(t).cur)
          /\ CallNext(t, F(t), "again") /\ (Creating(t)' <=> Creating(t))
      BY <1>15 DEF SamePart
    <2>2. /\ \A n \in AllNode \ {F(t).node} : snode'[n].next = snode[n].next
          /\ \A k \in Layer \ {F(t).layer} : snode'[F(t).node].next[k] = snode[F(t).node].next[k]
          /\ Inserts(t) => snode'[F(t).node].next[F(t).layer] = F(t).nexts[F(t).layer]
          /\ \A n \in AllNode : snode'[n].linked = snode[n].linked
      BY <1>3, <1>4, <1>5, <1>7
    <2> QED BY ONLY <1>14, <1>26, <2>1, <2>2, NeighboursFits
  <1>28. IInv /\ t \in Thread /\ \A n \in AllNode : snode'[n].linked = snode[n].linked
    BY <1>7
  <1>29. /\ \A k \in Layer : Half(t, k)' <=> Half(t, k)
         /\ (\E k \in Layer : Half(t, k)) => F(t)'.node = F(t).node
    BY <1>23
  <1> QED BY ONLY <1>14, <1>17, <1>18, <1>21, <1>22, <1>24, <1>25, <1>27, <1>28, <1>29, FieldStep

LEMMA NeighboursStep ==
  ASSUME IInv, NEW t \in Thread, Neighbours(t), UNCHANGED jobs
  PROVE  IInv'
  <1>1. pc[t] = "neighbours" BY DEF Neighbours
  <1>2. \/ /\ Linked(F(t).cur)
           /\ snode' = IF F(t).find = Null
                       THEN [snode EXCEPT ![F(t).node].next[F(t).layer] = F(t).nexts[F(t).layer]]
                       ELSE snode
           /\ CallNext(t, F(t), "again") /\ UNCHANGED <<alloc, slist>>
        \/ ClearFlags(t, IF SameAsAbove(t) THEN F(t).layer + 1 ELSE F(t).layer, {}, Retry(t))
    BY DEF Neighbours, Linked
  <1> QED BY <1>1, <1>2, NeighboursGoStep, NeighboursFailStep

\* A step that goes to "label" with the variables f and writes to nodes.
LEMMA WriteGo ==
  ASSUME IInv, NEW t \in Thread, NEW label \in LabelNames \ {"undefined"}, NEW f \in FrameType,
         Go(t, label, f), snode' \in [AllNode -> NodeType],
         \A n \in AllNode : /\ snode'[n].key = snode[n].key /\ snode'[n].top = snode[n].top
                            /\ snode'[n].refs = snode[n].refs,
         \A n \in {head, tail} : /\ snode'[n].linked = snode[n].linked
                                 /\ snode'[n].writing = snode[n].writing
                                 /\ snode'[n].removed = snode[n].removed,
         alloc' = alloc, slist' \in [entries : Int, layers : [Layer -> Int], top : {MaxLayer}],
         UNCHANGED jobs, NEW S, S = {}
  PROVE  Writes(t, S) /\ Alone(t) /\ F(t)' = f /\ pc'[t] = label
  <1>1. Types /\ jobs' \in [Thread -> Seq(AnyJob)] BY FrameIs
  <1>2. /\ Alone(t) /\ F(t)' = f /\ pc'[t] = label
        /\ frame' \in [Thread -> FrameType] /\ pc' \in [Thread -> LabelNames \ {"undefined"}]
    BY <1>1, GoFrame, GoTypes
  <1>3. Types' BY <1>1, <1>2 DEF Types
  <1>4. \A n \in Node : snode'[n].refs = snode[n].refs - One(n \in S)
    <2> TAKE n \in Node
    <2>1. n \in AllNode BY DEF AllNode
    <2>2. snode[n].refs \in Int BY <1>1, <2>1, Typed DEF NodeType
    <2> QED BY <2>1, <2>2 DEF One
  <1>5. \A n \in {head, tail} : n \in AllNode BY DEF AllNode
  <1> QED BY <1>2, <1>3, <1>4, <1>5 DEF Writes

LEMMA ModifiedIs ==
  ASSUME Types, NEW m \in AllNode, NEW b \in BOOLEAN, snode' = [snode EXCEPT ![m].modified = b]
  PROVE  /\ snode' \in [AllNode -> NodeType]
         /\ \A n \in AllNode : /\ snode'[n].key = snode[n].key /\ snode'[n].top = snode[n].top
                               /\ snode'[n].refs = snode[n].refs
                               /\ snode'[n].linked = snode[n].linked
                               /\ snode'[n].removed = snode[n].removed
                               /\ snode'[n].writing = snode[n].writing
                               /\ snode'[n].next = snode[n].next
                               /\ n # m => snode'[n].modified = snode[n].modified
         /\ snode'[m].modified = b
  <1>1. snode \in [AllNode -> NodeType] BY DEF Types
  <1>2. snode[m] \in NodeType BY <1>1
  <1>3. snode' = [snode EXCEPT ![m] = [snode[m] EXCEPT !.modified = b]] OBVIOUS
  <1>4. [snode[m] EXCEPT !.modified = b] \in NodeType BY ONLY <1>2 DEF NodeType
  <1>5. snode' \in [AllNode -> NodeType] /\ \A n \in AllNode \ {m} : snode'[n] = snode[n]
    BY ONLY <1>1, <1>3, <1>4
  <1>6. snode'[m] = [snode[m] EXCEPT !.modified = b] BY ONLY <1>1, <1>3
  <1>7. /\ snode'[m].key = snode[m].key /\ snode'[m].top = snode[m].top
        /\ snode'[m].refs = snode[m].refs
        /\ snode'[m].linked = snode[m].linked
        /\ snode'[m].removed = snode[m].removed
        /\ snode'[m].writing = snode[m].writing
        /\ snode'[m].next = snode[m].next /\ snode'[m].modified = b
    BY ONLY <1>2, <1>6 DEF NodeType
  <1> QED BY ONLY <1>5, <1>7

\* t sets its flag on the node before the place.
LEMMA FlagSetStep ==
  ASSUME IInv, NEW t \in Thread, pc[t] = "flag", SameAsAbove(t) \/ ~snode[F(t).cur].modified,
         snode' = [snode EXCEPT ![F(t).cur].modified = TRUE], Go(t, "neighbours", F(t)),
         UNCHANGED <<alloc, slist>>, UNCHANGED jobs
  PROVE  IInv'
  <1>1. pc[t] \in Placing BY DEF Placing
  <1>2. /\ Owns(t) /\ Where(t) = pc[t] /\ F(t).layer \in Layer /\ F(t).passed = {}
        /\ Inserts(t) => Creating(t)
        /\ ~Inserts(t) => Marked(t) /\ F(t).find = F(t).node
        /\ F(t).cur \in Listed /\ F(t).cur \in Node \cup {head} /\ Less(F(t).cur, F(t).node)
        /\ snode[F(t).cur].top >= F(t).layer /\ F(t).prevs[F(t).layer] = F(t).cur
        /\ F(t).layer <= Top(t)
        /\ \A n : /\ HoldsCur(t, n) <=> n = F(t).cur
                  /\ HoldsNext(t, n) <=> pc[t] = "again" /\ n = F(t).next
                  /\ ~HoldsPassed(t, n)
    BY <1>1, AtPlace
  <1>3. PICK c : c = F(t).cur OBVIOUS
  <1>4. PICK f : f = F(t) OBVIOUS
  <1>5. PICK l : l = F(t).layer OBVIOUS
  <1>6. PICK m : m = F(t).node OBVIOUS
  <1>7. PICK S : S = {} OBVIOUS
  <1>8. /\ f \in FrameType /\ Types /\ c \in AllNode /\ c \in Listed
        /\ m \in alloc /\ m \in Listed /\ m \in AllNode /\ Top(t) \in Layer /\ l \in Layer
        /\ l \in Int /\ Top(t) \in Int /\ l <= Top(t)
    BY <1>2, <1>3, <1>4, <1>5, <1>6, Owned, FrameIs, LayerAssumption DEF AllNode, Layer
  <1>9. /\ snode' \in [AllNode -> NodeType]
        /\ \A n \in AllNode : /\ snode'[n].key = snode[n].key /\ snode'[n].top = snode[n].top
                              /\ snode'[n].refs = snode[n].refs
                              /\ snode'[n].linked = snode[n].linked
                              /\ snode'[n].removed = snode[n].removed
                              /\ snode'[n].writing = snode[n].writing
                              /\ snode'[n].next = snode[n].next
                              /\ n # c => snode'[n].modified = snode[n].modified
        /\ snode'[c].modified = TRUE
    <2>1. snode' = [snode EXCEPT ![c].modified = TRUE] BY <1>3
    <2> QED BY <1>8, <2>1, ModifiedIs
  <1>10. Writes(t, S) /\ Alone(t) /\ F(t)' = f /\ pc'[t] = "neighbours"
    <2>1. "neighbours" \in LabelNames \ {"undefined"} /\ head \in AllNode /\ tail \in AllNode
      BY DEF LabelNames, AllNode
    <2>2. Go(t, "neighbours", f) BY <1>4
    <2>3. slist' \in [entries : Int, layers : [Layer -> Int], top : {MaxLayer}]
      BY <1>8 DEF Types
    <2>4. IInv /\ t \in Thread /\ alloc' = alloc /\ UNCHANGED jobs OBVIOUS
    <2>5. \A n \in {head, tail} : /\ snode'[n].linked = snode[n].linked
                                  /\ snode'[n].writing = snode[n].writing
                                  /\ snode'[n].removed = snode[n].removed
      BY <1>9, <2>1
    <2> QED BY ONLY <1>7, <1>8, <1>9, <2>1, <2>2, <2>3, <2>4, <2>5, WriteGo
  <1>11. Where(t) = "flag" /\ Where(t)' = "neighbours" BY <1>2, <1>10 DEF Where, Calling
  <1>12. Inserts(t)' <=> Inserts(t) BY <1>4, <1>10 DEF Inserts
  <1>13. SamePart(t)
    <2>1. Where(t) \in WorkLabels /\ Where(t)' \in WorkLabels
      BY <1>11 DEF WorkLabels, Placing
    <2>3. /\ Inserts(t) => Creating(t)'
          /\ ~Inserts(t) => Marked(t)'
      BY <1>11, <1>12 DEF Creating, Marked, Placing
    <2> QED BY <1>2, <1>4, <1>10, <2>1, <2>3, PartsApart DEF SamePart
  <1>14. /\ Owns(t) <=> Creating(t) \/ Created(t) \/ Marked(t) \/ Erased(t)
         /\ Owns(t)' <=> Creating(t)' \/ Created(t)' \/ Marked(t)' \/ Erased(t)'
         /\ \A n : HoldsNode(t, n)' <=> HoldsNode(t, n)
         /\ \A n : HoldsCursor(t, n)' <=> HoldsCursor(t, n)
         /\ FlagsOwn(t)' <=> FlagsOwn(t)
    BY <1>13, WorkHolds DEF SamePart
  <1>15. OwnsRightly(t) BY <1>13, <1>14 DEF OwnsRightly, SamePart
  <1>16. SaysOn(t)
    <2>1. Says(t, m) BY <1>2, <1>6, OwnSays
    <2>2. Says(t, F(t).node)'
      BY <1>6, <1>8, <1>9, <1>13, <2>1 DEF Says, SamePart, Linked
    <2>3. alloc \subseteq AllNode BY <1>8, Typed DEF AllNode
    <2>4. Owns(t)' /\ F(t)'.node = F(t).node BY <1>2, <1>13, <1>14 DEF SamePart
    <2> QED BY <1>9, <2>2, <2>3, <2>4 DEF SaysOn
  <1>17. \A n : /\ HoldsCur(t, n)' <=> HoldsCur(t, n)
                /\ HoldsNext(t, n)' <=> HoldsNext(t, n)
                /\ HoldsPassed(t, n)' <=> HoldsPassed(t, n)
    BY <1>2, <1>4, <1>10, <1>11 DEF HoldsCur, HoldsNext, HoldsPassed, Held, Stepping, Returns, Placing
  <1>18. HoldsOn(t, S)
    <2>1. \A n : Mine(t, n)' = Mine(t, n) BY <1>14, <1>17 DEF Mine, One
    <2>2. \A n : Mine(t, n) \in Int BY DEF Mine, One
    <2>3. \A n \in Node : 0 - One(n \in S) = Mine(t, n)' - Mine(t, n)
      BY <1>7, <2>1, <2>2 DEF One
    <2>4. \A n \in Node : Holds(t, n)' => Holds(t, n) BY <1>14, <1>17 DEF Holds
    <2> QED BY <1>11, <1>13, <2>3, <2>4 DEF HoldsOn, SamePart
  <1>19. Top(t)' = Top(t) BY <1>4, <1>6, <1>8, <1>9, <1>10 DEF Top
  <1>20. /\ FlagLayers(t) = l + 1 .. Top(t) /\ Settled(t) = l + 1 .. Top(t)
         /\ FlagLayers(t)' = l .. Top(t) /\ Settled(t)' = l + 1 .. Top(t)
    BY <1>4, <1>5, <1>10, <1>11, <1>19, LayersAt
  <1>21. \A k : k \in l .. Top(t) <=> k = l \/ k \in l + 1 .. Top(t) BY <1>8
  <1>22. f.prevs[l] = c BY <1>2, <1>3, <1>4, <1>5
  <1>23. \A n : Flags(t, n)' <=> Flags(t, n) \/ n = c
    BY <1>4, <1>10, <1>13, <1>14, <1>20, <1>21, <1>22 DEF Flags, SamePart
  <1>24. \A u \in Thread \ {t} : ~Flags(u, c)
    <2>1. CASE ~snode[c].modified
      <3>1. c \in alloc \cup {head, tail} BY <1>8 DEF Listed
      <3> QED BY <2>1, <3>1 DEF IInv, FlagsFollow
    <2>2. CASE SameAsAbove(t)
      <3>1. l < Top(t) /\ c = f.prevs[l + 1] BY <1>3, <1>4, <1>5, <2>2 DEF SameAsAbove
      <3>2. l + 1 \in FlagLayers(t) BY <1>8, <1>20, <3>1
      <3>3. Flags(t, c) BY <1>4, <3>1, <3>2 DEF Flags
      <3> QED BY <1>8, <3>3 DEF IInv, FlagsFollow
    <2> QED BY <1>3, <2>1, <2>2
  <1>25. FlagsMove(t)
    <2>1. \A n \in Listed :
            \/ /\ snode'[n].modified = snode[n].modified
               /\ Flags(t, n)' <=> Flags(t, n)
            \/ /\ \A u \in Thread \ {t} : ~Flags(u, n)
               /\ snode'[n].modified <=> Flags(t, n)'
      <3> TAKE n \in Listed
      <3>1. CASE n = c BY <1>9, <1>23, <1>24, <3>1
      <3>2. CASE n # c
        <4>1. n \in AllNode BY <1>8, Typed
        <4> QED BY <1>9, <1>23, <3>2, <4>1
      <3> QED BY <3>1, <3>2
    <2>2. \A n \in AllNode : Flags(t, n)' => \A u \in Thread \ {t} : ~Flags(u, n)
      BY <1>23, <1>24 DEF IInv, FlagsFollow
    <2> QED BY <2>1, <2>2 DEF FlagsMove
  <1>26. \A k \in Layer : ~Half(t, k)' /\ ~Half(t, k) BY <1>10 DEF Half
  <1>27. SameCounts(t) BY <1>10 DEF SameCounts
  <1>28. Leaves(t)
    <2>1. \A n \in Listed : n \in AllNode BY <1>8, Typed
    <2> QED BY <1>9, <2>1 DEF Leaves
  <1>29. /\ Spares(t, {}) /\ Listed' = Listed
         /\ \A n \in Listed : n \in AllNode /\ Keeps(n)
         /\ \A a, b \in Listed : Less(a, b)' <=> Less(a, b)
    BY <1>10, <1>28, WritesSpare
  <1>30. /\ LocalsFit(t) /\ CurFits(t) /\ NextFits(t) /\ FoundFits(t) /\ AgainFits(t)
         /\ PlaceFits(t) /\ SettledFits(t) /\ FlagsFit(t)
    BY DEF IInv, Fits
  <1>31. LocalsFit(t)'
    <2>1. Creating(t)' => F(t).then = "insertFound"
      BY <1>13, <1>30 DEF LocalsFit, SamePart
    <2>2. F(t).find \in {Null, F(t).node} BY <1>2 DEF Inserts
    <2>3. F(t).then \in {"insertFound", "eraseFound"} => F(t).key \in Key BY <1>30 DEF LocalsFit
    <2> QED BY <1>2, <1>4, <1>10, <1>11, <1>19, <2>1, <2>2, <2>3
        DEF LocalsFit, Placing, Updating, Searching, Calling, Returns
  <1>32. CurFits(t)'
    <2>1. Less(c, m)' /\ snode'[c].top = snode[c].top
      BY <1>2, <1>3, <1>6, <1>8, <1>9, <1>29
    <2>2. Less(F(t).cur, F(t).node)' BY <1>3, <1>4, <1>6, <1>10, <2>1 DEF Less
    <2>3. snode'[F(t)'.cur].top >= F(t)'.layer BY <1>2, <1>3, <1>4, <1>10, <2>1
    <2> QED BY <1>2, <1>4, <1>10, <1>11, <2>2, <2>3 DEF CurFits, Placing
  <1>33. PlaceFits(t)'
    <2>1. PICK x : x = F(t).nexts[l] OBVIOUS
    <2>2. x \in Node \cup {tail} /\ (x \in alloc \cup {tail} => Less(m, x))
      BY <1>1, <1>2, <1>5, <1>6, <1>30, <2>1 DEF PlaceFits
    <2>3. x \in alloc' \cup {tail} => Less(m, x)' BY <1>8, <1>10, <1>29, <2>2 DEF Writes, Listed
    <2>4. F(t)'.nexts[F(t)'.layer] = x /\ F(t)'.node = m BY <1>4, <1>5, <1>6, <1>10, <2>1
    <2>5. x \in alloc' \cup {tail} => Less(F(t).node, F(t).nexts[F(t).layer])'
      BY <2>3, <2>4 DEF Less
    <2> QED BY <1>11, <2>2, <2>4, <2>5 DEF PlaceFits
  <1>34. NextFits(t)' /\ FoundFits(t)' /\ AgainFits(t)'
    <2>1. F(t)'.ret = F(t).ret BY <1>4, <1>10
    <2> QED BY <1>10, <1>11 DEF NextFits, FoundFits, AgainFits, Returns
  <1>35. SettledFits(t)'
    <2>1. SUFFICES ASSUME NEW k \in Settled(t)
                   PROVE /\ f.nexts[k] \in Node \cup {tail}
                         /\ Less(F(t).node, F(t).nexts[k])'
                         /\ NextIn(F(t).node, k)' = f.nexts[k]
                         /\ NextIn(F(t).prevs[k], k)' =
                              IF ~Inserts(t) THEN f.node ELSE f.nexts[k]
      <3>1. \A k \in Settled(t)' : k \in Layer
        BY <1>8, <1>20, LayerAssumption DEF Layer
      <3> QED BY <1>10, <1>12, <1>20, <1>26, <3>1 DEF SettledFits
    <2>2. k \in Layer BY SettledFlags
    <2>3. PICK x : x = f.nexts[k] OBVIOUS
    <2>4. PICK p : p = f.prevs[k] OBVIOUS
    <2>5. /\ p \in In(k) /\ x \in Listed /\ Less(m, x) /\ NextIn(m, k) = x
      BY <1>4, <1>6, <2>3, <2>4, SettledIn
    <2>6. /\ x \in Node \cup {tail}
          /\ NextIn(p, k) = IF ~Inserts(t) THEN m ELSE x
      BY <1>4, <1>6, <1>26, <1>30, <2>2, <2>3, <2>4 DEF SettledFits
    <2>7. p \in Listed BY <2>2, <2>5, InListed
    <2>8. snode'[p].next = snode[p].next /\ snode'[m].next = snode[m].next
      BY <1>8, <1>9, <1>29, <2>7
    <2>9. Less(m, x)' BY <1>8, <1>29, <2>5
    <2>10. F(t)'.nexts[k] = x /\ F(t)'.prevs[k] = p /\ F(t)'.node = m
      BY <1>4, <1>6, <1>10, <2>3, <2>4
    <2>11. Less(F(t).node, F(t).nexts[k])' BY <2>9, <2>10 DEF Less
    <2> QED BY <1>4, <1>6, <2>3, <2>5, <2>6, <2>8, <2>10, <2>11 DEF NextIn
  <1>36. FlagsFit(t)'
    <2>1. \A k \in l + 1 .. Top(t) :
             /\ f.prevs[k] \in alloc \cup {head} /\ f.prevs[k] \in Listed
             /\ snode[f.prevs[k]].top >= k /\ Less(f.prevs[k], m) /\ Linked(f.prevs[k])
      <3> TAKE k \in l + 1 .. Top(t)
      <3>1. k \in FlagLayers(t) BY <1>20
      <3>2. /\ f.prevs[k] \in alloc \cup {head} /\ snode[f.prevs[k]].top >= k
            /\ Less(f.prevs[k], m)
        BY <1>4, <1>6, <1>30, <3>1 DEF FlagsFit
      <3>3. Linked(f.prevs[k]) BY <1>4, <3>1, FlaggedIn
      <3> QED BY <3>2, <3>3 DEF Listed
    <2>2. \A k \in l .. Top(t) :
             /\ f.prevs[k] \in alloc \cup {head} /\ f.prevs[k] \in Listed
             /\ snode[f.prevs[k]].top >= k /\ Less(f.prevs[k], m)
             /\ Linked(f.prevs[k]) \/ k = l
      <3> TAKE k \in l .. Top(t)
      <3>1. CASE k = l
        <4>1. c \in alloc \cup {head} /\ Less(c, m) /\ snode[c].top >= l
          BY <1>2, <1>3, <1>5, <1>6, <1>8, NodesAssumption DEF Listed
        <4> QED BY <1>8, <1>22, <3>1, <4>1
      <3>2. CASE k # l BY <1>21, <2>1, <3>2
      <3> QED BY <3>1, <3>2
    <2>3. \A k \in l .. Top(t) :
             /\ F(t)'.prevs[k] \in alloc' \cup {head} /\ snode'[F(t)'.prevs[k]].top >= k
             /\ Less(F(t).prevs[k], F(t).node)'
             /\ Linked(F(t).prevs[k])' \/ k = l
      <3> TAKE k \in l .. Top(t)
      <3>1. PICK p : p = f.prevs[k] OBVIOUS
      <3>2. /\ p \in alloc \cup {head} /\ p \in Listed /\ p \in AllNode
            /\ snode[p].top >= k /\ Less(p, m) /\ (Linked(p) \/ k = l)
        BY <1>29, <2>2, <3>1
      <3>3. /\ snode'[p].top = snode[p].top /\ snode'[p].linked = snode[p].linked
            /\ Less(p, m)' /\ alloc' = alloc
        BY <1>8, <1>9, <1>29, <3>2
      <3>4. F(t)'.prevs[k] = p /\ F(t)'.node = m BY <1>4, <1>6, <1>10, <3>1
      <3> QED BY <3>2, <3>3, <3>4 DEF Less, Linked
    <2>4. \A j, k \in l .. Top(t) : j < k => \/ Less(f.prevs[k], f.prevs[j])
                                              \/ f.prevs[k] = f.prevs[j]
      <3> TAKE j, k \in l .. Top(t)
      <3>1. SUFFICES ASSUME j < k
                     PROVE  Less(f.prevs[k], f.prevs[j]) \/ f.prevs[k] = f.prevs[j]
        OBVIOUS
      <3>2. k \in l + 1 .. Top(t) /\ l + 1 \in Int /\ k \in Int
        BY <1>8, <3>1
      <3>3. CASE j # l BY <1>4, <1>20, <1>21, <1>30, <3>1, <3>2, <3>3 DEF FlagsFit
      <3>4. CASE j = l
        <4>1. l < Top(t) BY <1>8, <3>2
        <4>2. PICK a : a = f.prevs[l + 1] OBVIOUS
        <4>3. a = c \/ Less(a, c)
          BY <1>3, <1>4, <1>5, <1>11, <1>30, <4>1, <4>2 DEF FlagsFit
        <4>4. l + 1 \in l + 1 .. Top(t) BY <1>8, <4>1
        <4>5. PICK q : q = f.prevs[k] OBVIOUS
        <4>6. q = a \/ Less(q, a)
          <5>1. CASE k = l + 1 BY <4>2, <4>5, <5>1
          <5>2. CASE k # l + 1
            <6>1. l + 1 < k BY <1>8, <3>2, <5>2
            <6> QED BY <1>4, <1>20, <1>30, <3>2, <4>2, <4>4, <4>5, <6>1 DEF FlagsFit
          <5> QED BY <5>1, <5>2
        <4>7. q \in Listed /\ a \in Listed BY <2>1, <3>2, <4>2, <4>4, <4>5
        <4>8. q = c \/ Less(q, c) BY <1>8, <4>3, <4>6, <4>7, LessOrder
        <4> QED BY <1>22, <3>4, <4>5, <4>8
      <3> QED BY <3>3, <3>4
    <2>5. \A j, k \in l .. Top(t) : j < k => \/ Less(F(t).prevs[k], F(t).prevs[j])'
                                              \/ F(t)'.prevs[k] = F(t)'.prevs[j]
      <3> TAKE j, k \in l .. Top(t)
      <3>1. PICK p : p = f.prevs[j] OBVIOUS
      <3>2. PICK q : q = f.prevs[k] OBVIOUS
      <3>3. p \in Listed /\ q \in Listed BY <2>2, <3>1, <3>2
      <3>4. j < k => Less(q, p) \/ q = p BY <2>4, <3>1, <3>2
      <3>5. Less(q, p)' <=> Less(q, p) BY <1>29, <3>3
      <3>6. F(t)'.prevs[j] = p /\ F(t)'.prevs[k] = q BY <1>4, <1>10, <3>1, <3>2
      <3> QED BY <3>4, <3>5, <3>6 DEF Less
    <2>6. F(t)'.layer = l BY <1>4, <1>5, <1>10
    <2> QED BY <1>10, <1>11, <1>20, <2>3, <2>5, <2>6 DEF FlagsFit
  <1>37. Fits(t)' BY <1>31, <1>32, <1>33, <1>34, <1>35, <1>36 DEF Fits
  <1>38. /\ IInv /\ t \in Thread
         /\ \A n \in AllNode : snode'[n].linked = snode[n].linked
         /\ \A n \in AllNode : \/ snode'[n].next = snode[n].next
                               \/ /\ n = F(t).node /\ Creating(t)
                                  /\ Where(t) \notin {"link", "linked"}
    BY <1>9
  <1>39. /\ \A k \in Layer : Half(t, k)' <=> Half(t, k)
         /\ (\E k \in Layer : Half(t, k)) => F(t)'.node = F(t).node
    BY <1>26
  <1> QED BY ONLY <1>10, <1>15, <1>16, <1>18, <1>25, <1>27, <1>37, <1>38, <1>39, FieldStep

LEMMA FlagStep ==
  ASSUME IInv, NEW t \in Thread, Flag(t), UNCHANGED jobs
  PROVE  IInv'
  <1>1. pc[t] = "flag" BY DEF Flag
  <1>2. \/ /\ SameAsAbove(t) \/ ~snode[F(t).cur].modified
           /\ snode' = [snode EXCEPT ![F(t).cur].modified = TRUE] /\ Go(t, "neighbours", F(t))
           /\ UNCHANGED <<alloc, slist>>
        \/ ClearFlags(t, F(t).layer + 1, {}, Retry(t))
    BY DEF Flag
  <1> QED BY <1>1, <1>2, FlagSetStep, FlagFailStep

LEMMA DroppedIs ==
  ASSUME Types, NEW S, NEW d, d = Dropped(S)
  PROVE  /\ d \in [AllNode -> NodeType]
         /\ \A n \in AllNode : /\ d[n].key = snode[n].key /\ d[n].top = snode[n].top
                               /\ d[n].linked = snode[n].linked
                               /\ d[n].modified = snode[n].modified
                               /\ d[n].removed = snode[n].removed
                               /\ d[n].writing = snode[n].writing
                               /\ d[n].next = snode[n].next
         /\ \A n \in Node : d[n].refs = snode[n].refs - One(n \in S)
         /\ \A n \in {head, tail} : d[n].refs = snode[n].refs
  <1>1. ASSUME NEW n \in AllNode
        PROVE  /\ d[n] \in NodeType
               /\ d[n].key = snode[n].key /\ d[n].top = snode[n].top
               /\ d[n].linked = snode[n].linked /\ d[n].modified = snode[n].modified
               /\ d[n].removed = snode[n].removed /\ d[n].writing = snode[n].writing
               /\ d[n].next = snode[n].next
               /\ d[n].refs = snode[n].refs - One(n \in S \cap Node)
    <2>1. snode[n] \in NodeType BY Typed
    <2>2. d[n] = IF n \in S \cap Node THEN [snode[n] EXCEPT !.refs = @ - 1] ELSE snode[n]
      BY DEF Dropped
    <2>3. CASE n \in S \cap Node
      <3>1. d[n] = [snode[n] EXCEPT !.refs = @ - 1] BY <2>2, <2>3
      <3> QED BY <2>1, <2>3, <3>1 DEF One, NodeType
    <2>4. CASE n \notin S \cap Node BY <2>1, <2>2, <2>4 DEF One, NodeType
    <2> QED BY <2>3, <2>4
  <1>2. d \in [AllNode -> NodeType] BY <1>1 DEF Dropped
  <1>3. \A n \in Node : d[n].refs = snode[n].refs - One(n \in S)
    BY <1>1 DEF One, AllNode
  <1>4. \A n \in {head, tail} : d[n].refs = snode[n].refs
    BY <1>1, Typed, NodesAssumption DEF One, AllNode, NodeType
  <1> QED BY <1>1, <1>2, <1>3, <1>4

Unflagged(d, m) == [d EXCEPT ![m].modified = FALSE]

OnlyUnflags(d, m, e) ==
    /\ e \in [AllNode -> NodeType]
    /\ \A n \in AllNode : /\ e[n].key = d[n].key /\ e[n].top = d[n].top
                          /\ e[n].refs = d[n].refs /\ e[n].linked = d[n].linked
                          /\ e[n].removed = d[n].removed /\ e[n].writing = d[n].writing
                          /\ e[n].next = d[n].next
                          /\ n # m => e[n].modified = d[n].modified
    /\ e[m].modified = FALSE

LEMMA UnflaggedIs ==
  ASSUME NEW d \in [AllNode -> NodeType], NEW m \in AllNode
  PROVE  OnlyUnflags(d, m, Unflagged(d, m))
  <1>1. d[m] \in NodeType OBVIOUS
  <1> DEFINE e == Unflagged(d, m)
  <1>2. e = [d EXCEPT ![m] = [d[m] EXCEPT !.modified = FALSE]] BY DEF Unflagged
  <1> HIDE DEF e
  <1>3. [d[m] EXCEPT !.modified = FALSE] \in NodeType BY ONLY <1>1 DEF NodeType
  <1>4. e \in [AllNode -> NodeType] /\ \A n \in AllNode \ {m} : e[n] = d[n]
    BY <1>2, <1>3
  <1>5. e[m] = [d[m] EXCEPT !.modified = FALSE] BY <1>2
  <1>6. /\ e[m].key = d[m].key /\ e[m].top = d[m].top /\ e[m].refs = d[m].refs
        /\ e[m].linked = d[m].linked /\ e[m].removed = d[m].removed
        /\ e[m].writing = d[m].writing /\ e[m].next = d[m].next /\ e[m].modified = FALSE
    BY ONLY <1>1, <1>5 DEF NodeType
  <1>7. OnlyUnflags(d, m, e) BY ONLY <1>4, <1>6 DEF OnlyUnflags
  <1> QED BY <1>7 DEF e

\* One flag is taken back, and with the last one the reference on cur is dropped.
LEMMA ClearFlagStep ==
  ASSUME IInv, NEW t \in Thread, ClearFlag(t), UNCHANGED jobs
  PROVE  IInv'
  <1>1. pc[t] = "clear" /\ UNCHANGED <<alloc, slist>> BY DEF ClearFlag
  <1>2. Where(t) = "clear" BY <1>1 DEF Where, Calling
  <1>3. LocalsFit(t) /\ FlagsFit(t) BY DEF IInv, Fits
  <1>4. PICK C : C = F(t).clearing OBVIOUS
  <1>5. FlagLayers(t) = C BY <1>2, <1>4, LayersAt
  <1>6. C # {} /\ C \subseteq 0 .. Top(t) BY <1>1, <1>3, <1>4 DEF FlagsFit
  <1>7. C \subseteq Layer /\ C \subseteq Nat
    BY <1>4, FrameIs, LayerAssumption DEF Layer
  <1>8. PICK k : k = Sets!Min(C) OBVIOUS
  <1>9. k \in C
    <2>1. \E x \in C : \A y \in C : x <= y BY <1>6, <1>7, LeastNumber
    <2> QED BY <1>8, <2>1 DEF Sets!Min
  <1>10. PICK R : R = C \ {k} OBVIOUS
  <1>11. PICK c : c = F(t).cur OBVIOUS
  <1>12. PICK p : p = F(t).prevs[k] OBVIOUS
  <1>13. PICK m : m = F(t).node OBVIOUS
  <1>14. PICK less : less = IF R = {} THEN {c} ELSE {} OBVIOUS
  <1>15. PICK d : d = IF R = {} THEN Dropped({c}) ELSE snode OBVIOUS
  <1>16. PICK label : label = IF R = {} THEN F(t).resume ELSE "clear" OBVIOUS
  <1>17. PICK f : f = [F(t) EXCEPT !.clearing = R] OBVIOUS
  <1>18. snode' = [d EXCEPT ![p].modified = FALSE] /\ Go(t, label, f)
    BY <1>4, <1>8, <1>10, <1>11, <1>12, <1>15, <1>16, <1>17 DEF ClearFlag
  <1>19. Types /\ F(t) \in FrameType BY FrameIs
  <1>20. /\ d \in [AllNode -> NodeType]
         /\ \A n \in AllNode : /\ d[n].key = snode[n].key /\ d[n].top = snode[n].top
                               /\ d[n].linked = snode[n].linked
                               /\ d[n].modified = snode[n].modified
                               /\ d[n].removed = snode[n].removed
                               /\ d[n].writing = snode[n].writing
                               /\ d[n].next = snode[n].next
         /\ \A n \in Node : d[n].refs = snode[n].refs - One(n \in less)
         /\ \A n \in {head, tail} : d[n].refs = snode[n].refs
    <2>1. CASE R = {}
      <3>1. d = Dropped(less) BY <1>14, <1>15, <2>1
      <3> QED BY <1>19, <3>1, DroppedIs
    <2>2. CASE R # {}
      <3>1. d = snode /\ less = {} BY <1>14, <1>15, <2>2
      <3>2. \A n \in Node : snode[n].refs \in Int BY <1>19, Typed DEF AllNode, NodeType
      <3> QED BY <1>19, <3>1, <3>2 DEF One, Types
    <2> QED BY <2>1, <2>2
  <1>21. /\ p \in alloc \cup {head} /\ p \in Listed /\ p \in AllNode /\ Less(p, m) /\ p # m
         /\ Flags(t, p) /\ Owns(t) /\ m \in Listed /\ m \in alloc /\ m # Null
    <2>1. k \in FlagLayers(t) BY <1>5, <1>9
    <2>2. p \in alloc \cup {head} /\ Less(p, m) BY <1>3, <1>12, <1>13, <2>1 DEF FlagsFit
    <2>3. Flags(t, p) BY <1>12, <2>1 DEF Flags
    <2>4. Owns(t) BY <2>1, FlagLayer
    <2>5. m \in Listed /\ m \in alloc /\ m # Null BY <1>13, <2>4, Owned
    <2>6. p \in Listed /\ p \in AllNode BY <1>19, <2>2, Typed DEF Listed, AllNode
    <2> QED BY <2>2, <2>3, <2>4, <2>5, <2>6, LessOrder
  <1>22. /\ snode' \in [AllNode -> NodeType]
         /\ \A n \in AllNode : /\ snode'[n].key = snode[n].key /\ snode'[n].top = snode[n].top
                               /\ snode'[n].linked = snode[n].linked
                               /\ snode'[n].removed = snode[n].removed
                               /\ snode'[n].writing = snode[n].writing
                               /\ snode'[n].next = snode[n].next
                               /\ n # p => snode'[n].modified = snode[n].modified
         /\ snode'[p].modified = FALSE
         /\ \A n \in Node : snode'[n].refs = snode[n].refs - One(n \in less)
         /\ \A n \in {head, tail} : snode'[n].refs = snode[n].refs
    <2>1. PICK e : e = snode' OBVIOUS
    <2>2. e = Unflagged(d, p) BY <1>18, <2>1 DEF Unflagged
    <2>3. d \in [AllNode -> NodeType] /\ p \in AllNode BY <1>20, <1>21
    <2>4. /\ e \in [AllNode -> NodeType]
          /\ \A n \in AllNode : /\ e[n].key = d[n].key /\ e[n].top = d[n].top
                                /\ e[n].refs = d[n].refs /\ e[n].linked = d[n].linked
                                /\ e[n].removed = d[n].removed /\ e[n].writing = d[n].writing
                                /\ e[n].next = d[n].next
                                /\ n # p => e[n].modified = d[n].modified
          /\ e[p].modified = FALSE
      <3>1. OnlyUnflags(d, p, Unflagged(d, p)) BY ONLY <2>3, UnflaggedIs
      <3> QED BY ONLY <2>2, <3>1 DEF OnlyUnflags
    <2>5. (\A n \in Node : n \in AllNode) /\ head \in AllNode /\ tail \in AllNode
      BY DEF AllNode
    <2> QED BY <1>20, <2>1, <2>4, <2>5
  <1>23. F(t).resume \in Resumes BY <1>1, <1>3 DEF LocalsFit
  <1>24. label \in LabelNames \ {"undefined"} /\ label \in Resumes \cup {"clear"}
    BY <1>16, <1>23 DEF Resumes, LabelNames
  <1>25. /\ f \in FrameType /\ f.node = m /\ f.cur = c /\ f.layer = F(t).layer
         /\ f.find = F(t).find /\ f.key = F(t).key /\ f.cursor = F(t).cursor /\ f.then = F(t).then
         /\ f.passed = F(t).passed /\ f.prevs = F(t).prevs /\ f.clearing = R
         /\ f.resume = F(t).resume
    <2>1. R \in SUBSET Layer BY <1>7, <1>10
    <2>2. f \in FrameType BY ONLY <1>17, <1>19, <2>1 DEF FrameType
    <2> QED BY ONLY <1>11, <1>13, <1>17, <1>19, <2>1, <2>2 DEF FrameType
  <1>26. Writes(t, less) /\ Alone(t) /\ F(t)' = f /\ pc'[t] = label
    <2>1. /\ Alone(t) /\ F(t)' = f /\ pc'[t] = label
          /\ frame' \in [Thread -> FrameType] /\ pc' \in [Thread -> LabelNames \ {"undefined"}]
      BY <1>18, <1>19, <1>24, <1>25, GoFrame, GoTypes
    <2>2. jobs' \in [Thread -> Seq(AnyJob)] BY FrameIs
    <2>3. Types' BY <1>1, <1>19, <1>22, <2>1, <2>2 DEF Types
    <2>4. head \in AllNode /\ tail \in AllNode BY DEF AllNode
    <2> QED BY <1>1, <1>22, <2>1, <2>3, <2>4 DEF Writes
  <1> HIDE <1>17
  <1>27. Where(t)' = label BY <1>24, <1>26 DEF Where, Calling, Resumes
  <1>28. F(t).passed = {} BY <1>1, <1>3 DEF LocalsFit
  <1>29. SamePart(t)
    <2>1. Where(t) \in WorkLabels /\ Where(t)' \in WorkLabels
      BY <1>2, <1>24, <1>27 DEF WorkLabels, Resumes
    <2>2. /\ F(t).resume \in {"insert", "duplicate"} => Creating(t) /\ Creating(t)'
          /\ F(t).resume = "inserted" => Created(t) /\ Created(t)'
          /\ F(t).resume = "erase" => Marked(t) /\ Marked(t)'
          /\ F(t).resume = "eraseUnflag" => Erased(t) /\ Erased(t)'
      <3>1. label \in {F(t).resume, "clear"} BY <1>16
      <3> QED BY <1>2, <1>25, <1>26, <1>27, <3>1 DEF Creating, Created, Marked, Erased
    <2>3. \/ Creating(t) /\ Creating(t)'
          \/ Created(t) /\ Created(t)'
          \/ Marked(t) /\ Marked(t)'
          \/ Erased(t) /\ Erased(t)'
      BY <1>23, <2>2 DEF Resumes
    <2>4. /\ Creating(t)' <=> Creating(t)
          /\ Created(t)' <=> Created(t)
          /\ Marked(t)' <=> Marked(t)
          /\ Erased(t)' <=> Erased(t)
      BY <2>3, PartsApart
    <2> QED BY <1>13, <1>25, <1>26, <2>1, <2>4 DEF SamePart
  <1>30. /\ Owns(t) <=> Creating(t) \/ Created(t) \/ Marked(t) \/ Erased(t)
         /\ Owns(t)' <=> Creating(t)' \/ Created(t)' \/ Marked(t)' \/ Erased(t)'
         /\ \A n : HoldsNode(t, n)' <=> HoldsNode(t, n)
         /\ \A n : HoldsCursor(t, n)' <=> HoldsCursor(t, n)
         /\ FlagsOwn(t)' <=> FlagsOwn(t)
    BY <1>29, WorkHolds DEF SamePart
  <1>31. OwnsRightly(t) BY <1>29, <1>30 DEF OwnsRightly, SamePart
  <1>32. SaysOn(t)
    <2>1. Says(t, m) BY <1>13, <1>21, OwnSays
    <2>2. m \in AllNode BY <1>19, <1>21, Typed
    <2>3. Says(t, F(t).node)'
      BY <1>22, <1>25, <1>26, <1>29, <2>1, <2>2 DEF Says, SamePart, Linked
    <2>4. alloc \subseteq AllNode BY <1>19, Typed DEF AllNode
    <2>5. Owns(t)' /\ F(t)'.node = F(t).node BY <1>21, <1>29, <1>30 DEF SamePart
    <2> QED BY <1>22, <2>3, <2>4, <2>5 DEF SaysOn
  <1>33. \A n : /\ HoldsCur(t, n) <=> n = c
                /\ HoldsCur(t, n)' <=> label = "clear" /\ n = c
                /\ ~HoldsNext(t, n) /\ ~HoldsNext(t, n)' /\ ~HoldsPassed(t, n) /\ ~HoldsPassed(t, n)'
    BY <1>1, <1>2, <1>11, <1>24, <1>25, <1>26, <1>27, <1>28
       DEF HoldsCur, HoldsNext, HoldsPassed, Held, Stepping, Placing, Updating, Returns, Resumes
  <1>34. label = "clear" <=> R # {} BY <1>16, <1>23 DEF Resumes
  <1>35. HoldsOn(t, less)
    <2>1. ASSUME NEW n \in Node PROVE 0 - One(n \in less) = Mine(t, n)' - Mine(t, n)
      <3>1. PICK x \in {0, 1} : x = 1 <=> n \in less OBVIOUS
      <3>2. PICK h : h = One(HoldsNode(t, n)) + One(HoldsCursor(t, n)) OBVIOUS
      <3>3. h \in Int BY <3>2 DEF One
      <3>4. PICK a \in {0, 1} : a = 1 <=> n = c OBVIOUS
      <3>5. PICK b \in {0, 1} : b = 1 <=> label = "clear" /\ n = c OBVIOUS
      <3>6. Mine(t, n) = a + h BY <1>33, <3>2, <3>4 DEF Mine, One
      <3>7. Mine(t, n)' = b + h BY <1>30, <1>33, <3>2, <3>5 DEF Mine, One
      <3>8. x = a - b BY <1>14, <1>34, <3>1, <3>4, <3>5
      <3>9. One(n \in less) = x BY <3>1 DEF One
      <3>10. x \in Int /\ a \in Int /\ b \in Int BY <3>1, <3>4, <3>5
      <3> QED BY ONLY <3>3, <3>6, <3>7, <3>8, <3>9, <3>10
    <2>2. \A n \in Node : Holds(t, n)' => Holds(t, n) BY <1>30, <1>33 DEF Holds
    <2>3. Creating(t)' => Creating(t) /\ Where(t) \notin {"link", "linked"}
                            /\ F(t)'.node = F(t).node
      BY <1>2, <1>29 DEF SamePart
    <2> QED BY <2>1, <2>2, <2>3 DEF HoldsOn
  <1>36. FlagLayers(t)' = R /\ Settled(t)' = {}
    <2>1. CASE R # {} BY <1>25, <1>26, <1>27, <1>34, <2>1, LayersAt
    <2>2. CASE R = {}
      <3>1. label \in Resumes BY <1>24, <1>34, <2>2
      <3> QED BY <1>27, <2>2, <3>1 DEF FlagLayers, Settled, Resumes, Updating, Placing
    <2> QED BY <2>1, <2>2
  <1>37. \A l \in R : /\ l \in C /\ F(t).prevs[l] # p
                      /\ \A j \in R : j < l => Less(F(t).prevs[l], F(t).prevs[j])
    <2>1. \A j, l \in C : j < l => Less(F(t).prevs[l], F(t).prevs[j])
      BY <1>1, <1>3, <1>5 DEF FlagsFit
    <2>2. \A l \in C : F(t).prevs[l] \in Listed BY <1>3, <1>5 DEF FlagsFit, Listed
    <2>3. ASSUME NEW l \in R PROVE F(t).prevs[l] # p
      <3>1. l \in C /\ l # k /\ l \in Nat /\ k \in Nat BY <1>7, <1>9, <1>10
      <3>2. l < k \/ k < l BY <3>1
      <3>3. PICK q : q = F(t).prevs[l] OBVIOUS
      <3>4. Less(p, q) \/ Less(q, p) BY <1>9, <1>12, <2>1, <3>1, <3>2, <3>3
      <3>5. q \in Listed BY <2>2, <3>1, <3>3
      <3> QED BY <1>21, <3>3, <3>4, <3>5, LessOrder
    <2> QED BY <1>10, <2>1, <2>3
  <1>38. ~Flags(t, p)'
    <2>1. \A l \in FlagLayers(t)' : F(t)'.prevs[l] # p BY <1>25, <1>26, <1>36, <1>37
    <2>2. F(t)'.node # p BY <1>21, <1>25, <1>26
    <2> QED BY <2>1, <2>2 DEF Flags
  <1>39. \A n : n # p => (Flags(t, n)' <=> Flags(t, n))
    <2>1. \A n : n # p => ((\E l \in R : F(t).prevs[l] = n) <=> (\E l \in C : F(t).prevs[l] = n))
      BY <1>10, <1>12
    <2> QED BY <1>5, <1>13, <1>25, <1>26, <1>30, <1>36, <2>1 DEF Flags
  <1>40. FlagsMove(t)
    <2>1. \A u \in Thread \ {t} : ~Flags(u, p) BY <1>21 DEF IInv, FlagsFollow
    <2>2. \A n \in Listed :
            \/ /\ snode'[n].modified = snode[n].modified
               /\ Flags(t, n)' <=> Flags(t, n)
            \/ /\ \A u \in Thread \ {t} : ~Flags(u, n)
               /\ snode'[n].modified <=> Flags(t, n)'
      <3> TAKE n \in Listed
      <3>1. CASE n = p BY <1>22, <1>38, <2>1, <3>1
      <3>2. CASE n # p
        <4>1. n \in AllNode BY <1>19, Typed
        <4> QED BY <1>22, <1>39, <3>2, <4>1
      <3> QED BY <3>1, <3>2
    <2>3. \A n \in AllNode : Flags(t, n)' => \A u \in Thread \ {t} : ~Flags(u, n)
      BY <1>38, <1>39 DEF IInv, FlagsFollow
    <2> QED BY <2>2, <2>3 DEF FlagsMove
  <1>41. \A l \in Layer : ~Half(t, l)' /\ ~Half(t, l)
    BY <1>1, <1>24, <1>26 DEF Half, Resumes
  <1>42. SameCounts(t) BY <1>1, <1>24, <1>26 DEF SameCounts, Resumes
  <1>43. Leaves(t)
    <2>1. \A n \in Listed : n \in AllNode BY <1>19, Typed
    <2> QED BY <1>22, <2>1 DEF Leaves
  <1>44. /\ Spares(t, {}) /\ Listed' = Listed
         /\ \A n \in Listed : n \in AllNode /\ Keeps(n)
         /\ \A a, b \in Listed : Less(a, b)' <=> Less(a, b)
    BY <1>26, <1>43, WritesSpare
  <1>45. /\ Creating(t)' => F(t)'.then = "insertFound"
         /\ F(t)'.then \in {"insertFound", "eraseFound"} => F(t)'.key \in Key
         /\ label \in {"insert", "duplicate"} => F(t)'.then = "insertFound"
    <2>1. /\ Creating(t) => F(t).then = "insertFound"
          /\ F(t).then \in {"insertFound", "eraseFound"} => F(t).key \in Key
      BY <1>3 DEF LocalsFit
    <2>2. label \in {"insert", "duplicate"} => Creating(t)' BY <1>27 DEF Creating
    <2> QED BY <1>25, <1>26, <1>29, <2>1, <2>2 DEF SamePart
  <1>46. CASE R = {}
    <2>1. label \in Resumes BY <1>24, <1>34, <1>46
    <2>2. RestFits(t)' BY <1>25, <1>26, <1>28, <1>45, <2>1 DEF RestFits, Rest, Resumes
    <2>3. Fits(t)' BY <2>2, Resting
    <2> QED BY <1>22, <1>26, <1>31, <1>32, <1>35, <1>40, <1>41, <1>42, <2>3, FieldStep
  <1>47. CASE R # {}
    <2>1. label = "clear" BY <1>34, <1>47
    <2>2. Top(t)' = Top(t)
      <3>1. snode'[m].top = snode[m].top BY <1>21, <1>22, <1>44
      <3> QED BY <1>13, <1>25, <1>26, <3>1 DEF Top
    <2>3. LocalsFit(t)'
      <3>1. F(t).find = IF F(t).resume \in {"erase", "eraseUnflag"} THEN F(t).node ELSE Null
        BY <1>2, <1>3 DEF LocalsFit
      <3> QED BY <1>13, <1>23, <1>25, <1>26, <1>27, <1>28, <1>45, <2>1, <3>1
          DEF LocalsFit, Placing, Updating, Searching, Calling, Returns
    <2>4. CurFits(t)' /\ NextFits(t)' /\ FoundFits(t)' /\ AgainFits(t)' /\ PlaceFits(t)'
      <3>1. F(t).ret \in Returns \cup {"idle"} BY <1>19 DEF FrameType
      <3> QED BY <1>26, <1>27, <2>1
          DEF CurFits, NextFits, FoundFits, AgainFits, PlaceFits, Walking, Stepping, Placing, Returns
    <2>5. SettledFits(t)' BY <1>36 DEF SettledFits
    <2>6. ASSUME NEW l \in R
          PROVE  /\ F(t)'.prevs[l] \in alloc' \cup {head} /\ snode'[F(t)'.prevs[l]].top >= l
                 /\ Less(F(t).prevs[l], F(t).node)'
                 /\ Linked(F(t).prevs[l])' \/ F(t)'.prevs[l] = c
      <3>1. PICK q : q = F(t).prevs[l] OBVIOUS
      <3>2. l \in FlagLayers(t) BY <1>5, <1>37
      <3>3. /\ q \in alloc \cup {head} /\ snode[q].top >= l /\ Less(q, m)
            /\ Linked(q) \/ q = c
        BY <1>1, <1>3, <1>11, <1>13, <3>1, <3>2 DEF FlagsFit
      <3>4. q \in Listed /\ q \in AllNode BY <1>44, <3>3 DEF Listed
      <3>5. /\ snode'[q].top = snode[q].top /\ snode'[q].linked = snode[q].linked
            /\ Less(q, m)' /\ alloc' = alloc
        BY <1>1, <1>21, <1>22, <1>44, <3>3, <3>4
      <3>6. F(t)'.prevs[l] = q /\ F(t)'.node = m BY <1>25, <1>26, <3>1
      <3> QED BY <3>3, <3>5, <3>6 DEF Less, Linked
    <2>7. ASSUME NEW j \in R, NEW l \in R, j < l
          PROVE  Less(F(t).prevs[l], F(t).prevs[j])'
      <3>1. PICK q : q = F(t).prevs[l] OBVIOUS
      <3>2. PICK r : r = F(t).prevs[j] OBVIOUS
      <3>3. Less(q, r) BY <1>37, <2>7, <3>1, <3>2
      <3>4. q \in Listed /\ r \in Listed
        BY <1>3, <1>5, <1>37, <3>1, <3>2 DEF FlagsFit, Listed
      <3>5. Less(q, r)' BY <1>44, <3>3, <3>4
      <3>6. F(t)'.prevs[l] = q /\ F(t)'.prevs[j] = r BY <1>25, <1>26, <3>1, <3>2
      <3> QED BY <3>5, <3>6 DEF Less
    <2>8. F(t)'.clearing # {} /\ F(t)'.clearing \subseteq 0 .. Top(t)' /\ F(t)'.cur = c
      BY <1>6, <1>10, <1>25, <1>26, <1>47, <2>2
    <2>9. FlagsFit(t)' BY <1>26, <1>27, <1>36, <2>1, <2>6, <2>7, <2>8 DEF FlagsFit
    <2>10. Fits(t)' BY <2>3, <2>4, <2>5, <2>9 DEF Fits
    <2> QED BY <1>22, <1>26, <1>31, <1>32, <1>35, <1>40, <1>41, <1>42, <2>10, FieldStep
  <1> QED BY <1>46, <1>47

LEMMA RemovedIs ==
  ASSUME Types, NEW m \in AllNode, NEW b \in BOOLEAN, snode' = [snode EXCEPT ![m].removed = b]
  PROVE  /\ snode' \in [AllNode -> NodeType]
         /\ \A n \in AllNode : /\ snode'[n].key = snode[n].key /\ snode'[n].top = snode[n].top
                               /\ snode'[n].refs = snode[n].refs
                               /\ snode'[n].linked = snode[n].linked
                               /\ snode'[n].modified = snode[n].modified
                               /\ snode'[n].writing = snode[n].writing
                               /\ snode'[n].next = snode[n].next
                               /\ n # m => snode'[n].removed = snode[n].removed
         /\ snode'[m].removed = b
  <1>1. snode \in [AllNode -> NodeType] BY DEF Types
  <1>2. snode[m] \in NodeType BY <1>1
  <1>3. snode' = [snode EXCEPT ![m] = [snode[m] EXCEPT !.removed = b]] OBVIOUS
  <1>4. [snode[m] EXCEPT !.removed = b] \in NodeType BY ONLY <1>2 DEF NodeType
  <1>5. snode' \in [AllNode -> NodeType] /\ \A n \in AllNode \ {m} : snode'[n] = snode[n]
    BY ONLY <1>1, <1>3, <1>4
  <1>6. snode'[m] = [snode[m] EXCEPT !.removed = b] BY ONLY <1>1, <1>3
  <1>7. /\ snode'[m].key = snode[m].key /\ snode'[m].top = snode[m].top
        /\ snode'[m].refs = snode[m].refs
        /\ snode'[m].linked = snode[m].linked
        /\ snode'[m].modified = snode[m].modified
        /\ snode'[m].writing = snode[m].writing
        /\ snode'[m].next = snode[m].next /\ snode'[m].removed = b
    BY ONLY <1>2, <1>6 DEF NodeType
  <1> QED BY ONLY <1>5, <1>7

\* An erase sets or takes back the flag on its own node, or marks the node as removed.
Turns(t, label) ==
    /\ \/ pc[t] = "eraseFlagNode" /\ label = "eraseMark"
       \/ pc[t] = "eraseMark" /\ label = "erase"
       \/ pc[t] = "eraseUnflag" /\ label = "erased"
    /\ pc[t] = "eraseFlagNode" => ~snode[F(t).node].modified
    /\ snode' \in [AllNode -> NodeType]
    /\ \A n \in AllNode : /\ snode'[n].key = snode[n].key /\ snode'[n].top = snode[n].top
                          /\ snode'[n].refs = snode[n].refs
                          /\ snode'[n].linked = snode[n].linked
                          /\ snode'[n].writing = snode[n].writing
                          /\ snode'[n].next = snode[n].next
                          /\ n # F(t).node => /\ snode'[n].removed = snode[n].removed
                                              /\ snode'[n].modified = snode[n].modified
    /\ snode'[F(t).node].removed <=> label \in {"erase", "erased"}
    /\ snode'[F(t).node].modified <=> label \in {"eraseMark", "erase"}

LEMMA TurnsStep ==
  ASSUME IInv, NEW t \in Thread, NEW label, Turns(t, label), Go(t, label, F(t)),
         UNCHANGED <<alloc, slist>>, UNCHANGED jobs
  PROVE  IInv'
  <1>1. /\ pc[t] \in {"eraseFlagNode", "eraseMark", "eraseUnflag"}
        /\ label \in {"eraseMark", "erase", "erased"}
        /\ pc[t] = "eraseFlagNode" <=> label = "eraseMark"
        /\ pc[t] = "eraseMark" <=> label = "erase"
        /\ pc[t] = "eraseUnflag" <=> label = "erased"
    BY DEF Turns
  <1>2. pc[t] \in Rest /\ label \in Rest /\ label \in LabelNames \ {"undefined"}
    BY <1>1 DEF Rest, LabelNames
  <1>3. F(t).passed = {} /\ LocalsFit(t) /\ FlagLayers(t) = {} /\ Where(t) = pc[t]
    BY <1>2, NoFlagLayers DEF IInv, Fits
  <1>4. PICK m : m = F(t).node OBVIOUS
  <1>5. PICK f : f = F(t) OBVIOUS
  <1>6. PICK S : S = {} OBVIOUS
  <1>7. RestRoles(t) BY <1>2, <1>3, RestRole
  <1>8. /\ Owns(t) /\ ~Creating(t) /\ ~Created(t)
        /\ Marked(t) <=> pc[t] = "erase"
        /\ Erased(t) <=> pc[t] = "eraseUnflag"
        /\ FlagsOwn(t) <=> pc[t] # "eraseFlagNode"
    BY <1>1, <1>7 DEF RestRoles, Owns, Erases
  <1>9. /\ f \in FrameType /\ Types /\ m \in alloc /\ m \in Node /\ m \in Listed /\ m \in AllNode
        /\ m \notin {head, tail, Null} /\ head \in AllNode /\ tail \in AllNode
    BY <1>4, <1>5, <1>8, Owned, FrameIs DEF AllNode
  <1>10. /\ snode' \in [AllNode -> NodeType]
         /\ \A n \in AllNode : /\ snode'[n].key = snode[n].key /\ snode'[n].top = snode[n].top
                               /\ snode'[n].refs = snode[n].refs
                               /\ snode'[n].linked = snode[n].linked
                               /\ snode'[n].writing = snode[n].writing
                               /\ snode'[n].next = snode[n].next
                               /\ n # m => /\ snode'[n].removed = snode[n].removed
                                           /\ snode'[n].modified = snode[n].modified
         /\ snode'[m].removed <=> label \in {"erase", "erased"}
         /\ snode'[m].modified <=> label \in {"eraseMark", "erase"}
         /\ pc[t] = "eraseFlagNode" => ~snode[m].modified
    BY <1>4 DEF Turns
  <1>11. Writes(t, S) /\ Alone(t) /\ F(t)' = f /\ pc'[t] = label
    <2>1. Go(t, label, f) BY <1>5
    <2>2. slist' \in [entries : Int, layers : [Layer -> Int], top : {MaxLayer}]
      BY <1>9 DEF Types
    <2>3. IInv /\ t \in Thread /\ alloc' = alloc /\ UNCHANGED jobs OBVIOUS
    <2>4. \A n \in {head, tail} : /\ snode'[n].linked = snode[n].linked
                                  /\ snode'[n].writing = snode[n].writing
                                  /\ snode'[n].removed = snode[n].removed
      BY <1>9, <1>10
    <2> QED BY ONLY <1>2, <1>6, <1>9, <1>10, <2>1, <2>2, <2>3, <2>4, WriteGo
  <1>12. RestFits(t)'
    BY <1>1, <1>2, <1>3, <1>5, <1>11 DEF RestFits, LocalsFit
  <1>13. Fits(t)' /\ FlagLayers(t)' = {} /\ Where(t)' = pc'[t] BY <1>12, Resting
  <1>14. RestRoles(t)' BY <1>12, RestRole DEF RestFits
  <1>15. /\ Owns(t)' /\ ~Creating(t)'
         /\ Marked(t)' <=> label = "erase"
         /\ Erased(t)' <=> label = "erased"
         /\ FlagsOwn(t)' <=> label # "erased"
    BY <1>1, <1>11, <1>14 DEF RestRoles, Owns, Erases
  <1>16. \A n : Flags(t, n)' <=> label # "erased" /\ n = m
    BY <1>4, <1>5, <1>11, <1>13, <1>15 DEF Flags
  <1>17. \A n : Flags(t, n) <=> pc[t] # "eraseFlagNode" /\ n = m
    BY <1>3, <1>4, <1>8 DEF Flags
  <1>18. \A u \in Thread \ {t} : ~Flags(u, m)
    BY <1>9, <1>10, <1>17 DEF IInv, FlagsFollow
  <1>19. FlagsMove(t)
    <2>1. \A n \in Listed :
            \/ /\ snode'[n].modified = snode[n].modified
               /\ Flags(t, n)' <=> Flags(t, n)
            \/ /\ \A u \in Thread \ {t} : ~Flags(u, n)
               /\ snode'[n].modified <=> Flags(t, n)'
      <3> TAKE n \in Listed
      <3>1. n \in AllNode BY <1>9, Typed
      <3>2. CASE n = m BY <1>1, <1>10, <1>16, <1>18, <3>2
      <3>3. CASE n # m BY <1>10, <1>16, <1>17, <3>1, <3>3
      <3> QED BY <3>2, <3>3
    <2>2. \A n \in AllNode : Flags(t, n)' => \A u \in Thread \ {t} : ~Flags(u, n)
      BY <1>16, <1>18
    <2> QED BY <2>1, <2>2 DEF FlagsMove
  <1>20. OwnsRightly(t) BY <1>5, <1>8, <1>11 DEF OwnsRightly
  <1>21. SaysOn(t)
    <2>1. Says(t, m) BY <1>4, <1>8, OwnSays
    <2>2. Says(t, F(t).node)'
      BY <1>1, <1>4, <1>5, <1>8, <1>9, <1>10, <1>11, <1>15, <2>1 DEF Says, Linked
    <2>3. alloc \subseteq AllNode BY <1>9, Typed DEF AllNode
    <2>4. F(t)'.node = m BY <1>4, <1>5, <1>11
    <2> QED BY <1>4, <1>10, <1>15, <2>2, <2>3, <2>4 DEF SaysOn
  <1>22. \A n : /\ HoldsCur(t, n)' <=> HoldsCur(t, n)
                /\ HoldsNext(t, n)' <=> HoldsNext(t, n)
                /\ HoldsPassed(t, n)' <=> HoldsPassed(t, n)
                /\ HoldsNode(t, n)' <=> HoldsNode(t, n)
                /\ HoldsCursor(t, n)' <=> HoldsCursor(t, n)
    BY <1>1, <1>5, <1>7, <1>11, <1>14 DEF RestRoles
  <1>23. HoldsOn(t, S)
    <2>1. \A n : Mine(t, n)' = Mine(t, n) BY <1>22 DEF Mine, One
    <2>2. \A n : Mine(t, n) \in Int BY DEF Mine, One
    <2>3. \A n \in Node : 0 - One(n \in S) = Mine(t, n)' - Mine(t, n)
      BY <1>6, <2>1, <2>2 DEF One
    <2>4. \A n \in Node : Holds(t, n)' => Holds(t, n) BY <1>22 DEF Holds
    <2> QED BY <1>15, <2>3, <2>4 DEF HoldsOn
  <1>24. /\ \A l \in Layer : Half(t, l)' <=> Half(t, l)
         /\ (\E l \in Layer : Half(t, l)) => F(t)'.node = F(t).node
    BY <1>1, <1>11 DEF Half
  <1>25. SameCounts(t) BY <1>1, <1>11 DEF SameCounts
  <1>26. /\ IInv /\ t \in Thread
         /\ \A n \in AllNode : snode'[n].linked = snode[n].linked
         /\ \A n \in AllNode : \/ snode'[n].next = snode[n].next
                               \/ /\ n = F(t).node /\ Creating(t)
                                  /\ Where(t) \notin {"link", "linked"}
    BY <1>10
  <1> QED BY ONLY <1>11, <1>13, <1>19, <1>20, <1>21, <1>23, <1>24, <1>25, <1>26, FieldStep

\* The node that an erase works on, and that it has not unlinked.
LEMMA OwnErase ==
  ASSUME IInv, NEW t \in Thread, pc[t] \in {"eraseFlagNode", "eraseMark", "eraseUnflag"}
  PROVE  /\ Owns(t) /\ F(t).node \in AllNode /\ F(t).node \in alloc /\ Types
         /\ snode[F(t).node].removed <=> pc[t] = "eraseUnflag"
         /\ snode[F(t).node].modified \in BOOLEAN
         /\ pc[t] = "eraseMark" => snode[F(t).node].modified
  <1>1. pc[t] \in Rest BY DEF Rest
  <1>2. F(t).passed = {} BY <1>1, NoFlagLayers
  <1>3. RestRoles(t) BY <1>1, <1>2, RestRole
  <1>4. Owns(t) /\ (Marked(t) \/ Erased(t) <=> pc[t] = "eraseUnflag")
        /\ (pc[t] = "eraseMark" => FlagsOwn(t))
    BY <1>3 DEF RestRoles, Owns, Erases
  <1>5. F(t).node \in AllNode /\ F(t).node \in alloc /\ Types BY <1>4, Owned DEF IInv
  <1>6. Says(t, F(t).node) BY <1>4, OwnSays
  <1>7. snode[F(t).node].removed <=> pc[t] = "eraseUnflag" BY <1>4, <1>6 DEF Says
  <1>8. snode[F(t).node] \in NodeType BY <1>5, Typed
  <1>9. pc[t] = "eraseMark" => snode[F(t).node].modified
    BY <1>4, <1>5 DEF Flags, IInv, FlagsFollow
  <1> QED BY <1>4, <1>5, <1>7, <1>8, <1>9 DEF NodeType

LEMMA EraseFlagNodeStep ==
  ASSUME IInv, NEW t \in Thread, EraseFlagNode(t), UNCHANGED jobs
  PROVE  IInv'
  <1>1. pc[t] = "eraseFlagNode" /\ UNCHANGED <<alloc, slist>> BY DEF EraseFlagNode
  <1>2. PICK m : m = F(t).node OBVIOUS
  <1>3. /\ m \in AllNode /\ Types /\ ~snode[m].removed BY <1>1, <1>2, OwnErase
  <1>4. CASE snode[m].modified
    <2>1. Go(t, "eraseNode", F(t)) /\ UNCHANGED memory
      BY <1>1, <1>2, <1>4 DEF EraseFlagNode, memory
    <2>2. pc[t] \in Rest /\ "eraseNode" \in Rest BY <1>1 DEF Rest
    <2>3. F(t).passed = {} /\ LocalsFit(t) BY <2>2, NoFlagLayers DEF IInv, Fits
    <2>4. F(t)' = F(t) /\ pc'[t] = "eraseNode" BY <2>1, FrameIs, GoFrame
    <2>5. RestFits(t)' BY <2>2, <2>3, <2>4 DEF RestFits, LocalsFit
    <2>6. RestRoles(t) /\ RestRoles(t)' =>
            /\ Creating(t)' <=> Creating(t)
            /\ Marked(t)' <=> Marked(t)
            /\ Erased(t)' <=> Erased(t)
            /\ FlagsOwn(t)' <=> FlagsOwn(t)
            /\ Owns(t)' <=> Owns(t)
            /\ \A n \in Node : /\ HoldsNode(t, n)' <=> HoldsNode(t, n)
                               /\ HoldsCursor(t, n)' <=> HoldsCursor(t, n)
      BY <1>1, <2>4 DEF RestRoles, Owns, Erases
    <2> QED BY <2>1, <2>2, <2>5, <2>6, RestOn
  <1>5. CASE ~snode[m].modified
    <2>1. snode' = [snode EXCEPT ![m].modified = TRUE] /\ Go(t, "eraseMark", F(t))
      BY <1>2, <1>5 DEF EraseFlagNode
    <2>2. /\ snode' \in [AllNode -> NodeType]
          /\ \A n \in AllNode : /\ snode'[n].key = snode[n].key /\ snode'[n].top = snode[n].top
                                /\ snode'[n].refs = snode[n].refs
                                /\ snode'[n].linked = snode[n].linked
                                /\ snode'[n].removed = snode[n].removed
                                /\ snode'[n].writing = snode[n].writing
                                /\ snode'[n].next = snode[n].next
                                /\ n # m => snode'[n].modified = snode[n].modified
          /\ snode'[m].modified = TRUE
      BY <1>3, <2>1, ModifiedIs
    <2>3. Turns(t, "eraseMark") BY <1>1, <1>2, <1>3, <1>5, <2>2 DEF Turns
    <2> QED BY <1>1, <2>1, <2>3, TurnsStep
  <1> QED BY <1>4, <1>5

LEMMA EraseMarkStep ==
  ASSUME IInv, NEW t \in Thread, EraseMark(t), UNCHANGED jobs
  PROVE  IInv'
  <1>1. pc[t] = "eraseMark" /\ UNCHANGED <<alloc, slist>> BY DEF EraseMark
  <1>2. PICK m : m = F(t).node OBVIOUS
  <1>3. m \in AllNode /\ Types /\ snode[m].modified BY <1>1, <1>2, OwnErase
  <1>4. snode' = [snode EXCEPT ![m].removed = TRUE] /\ Go(t, "erase", F(t))
    BY <1>2 DEF EraseMark
  <1>5. /\ snode' \in [AllNode -> NodeType]
        /\ \A n \in AllNode : /\ snode'[n].key = snode[n].key /\ snode'[n].top = snode[n].top
                              /\ snode'[n].refs = snode[n].refs
                              /\ snode'[n].linked = snode[n].linked
                              /\ snode'[n].modified = snode[n].modified
                              /\ snode'[n].writing = snode[n].writing
                              /\ snode'[n].next = snode[n].next
                              /\ n # m => snode'[n].removed = snode[n].removed
        /\ snode'[m].removed = TRUE
    BY <1>3, <1>4, RemovedIs
  <1>6. Turns(t, "erase") BY <1>1, <1>2, <1>3, <1>5 DEF Turns
  <1> QED BY <1>1, <1>4, <1>6, TurnsStep

LEMMA EraseUnflagStep ==
  ASSUME IInv, NEW t \in Thread, EraseUnflag(t), UNCHANGED jobs
  PROVE  IInv'
  <1>1. pc[t] = "eraseUnflag" /\ UNCHANGED <<alloc, slist>> BY DEF EraseUnflag
  <1>2. PICK m : m = F(t).node OBVIOUS
  <1>3. m \in AllNode /\ Types /\ snode[m].removed BY <1>1, <1>2, OwnErase
  <1>4. snode' = [snode EXCEPT ![m].modified = FALSE] /\ Go(t, "erased", F(t))
    BY <1>2 DEF EraseUnflag
  <1>5. /\ snode' \in [AllNode -> NodeType]
        /\ \A n \in AllNode : /\ snode'[n].key = snode[n].key /\ snode'[n].top = snode[n].top
                              /\ snode'[n].refs = snode[n].refs
                              /\ snode'[n].linked = snode[n].linked
                              /\ snode'[n].removed = snode[n].removed
                              /\ snode'[n].writing = snode[n].writing
                              /\ snode'[n].next = snode[n].next
                              /\ n # m => snode'[n].modified = snode[n].modified
        /\ snode'[m].modified = FALSE
    BY <1>3, <1>4, ModifiedIs
  <1>6. Turns(t, "erased") BY <1>1, <1>2, <1>3, <1>5 DEF Turns
  <1> QED BY <1>1, <1>4, <1>6, TurnsStep

-----------------------------------------------------------------------------
(* While a node is linked, unlinked and counted. *)

\* From one label of the change to the next; of t's variables only the layer changes, of
\* the nodes only t's own changes in what is said about it, and no flag.
Changes(t) ==
    /\ \/ pc[t] \in {"link", "linked"} /\ pc'[t] \in {"link", "linked", "insertCount"}
       \/ pc[t] = "insertCount" /\ pc'[t] = "scan"
       \/ pc[t] \in {"unlink", "bypass"} /\ pc'[t] \in {"bypass", "eraseCount"}
       \/ pc[t] = "eraseCount" /\ pc'[t] = "scan"
    /\ \E l \in Layer : F(t)' = [F(t) EXCEPT !.layer = l]
    /\ pc'[t] \in {"link", "bypass"} => F(t)'.layer <= Top(t)
    /\ pc'[t] \in {"linked", "insertCount", "eraseCount", "scan"} => F(t)'.layer = MaxLayer
    /\ \A n \in AllNode : snode'[n].modified = snode[n].modified
    /\ \A n \in AllNode \ {F(t).node} : /\ snode'[n].linked = snode[n].linked
                                        /\ snode'[n].writing = snode[n].writing
                                        /\ snode'[n].removed = snode[n].removed

LEMMA ChangesFrame ==
  ASSUME IInv, NEW t \in Thread, Changes(t)
  PROVE  /\ F(t)'.node = F(t).node /\ F(t)'.key = F(t).key /\ F(t)'.cursor = F(t).cursor
         /\ F(t)'.then = F(t).then /\ F(t)'.find = F(t).find /\ F(t)'.prevs = F(t).prevs
         /\ F(t)'.nexts = F(t).nexts /\ F(t)'.passed = F(t).passed /\ F(t)'.cur = F(t).cur
         /\ F(t)'.next = F(t).next /\ F(t)'.ret = F(t).ret /\ F(t)'.layer \in Layer
         /\ F(t).passed = {} /\ Owns(t) /\ Where(t) = pc[t] /\ Where(t)' = pc'[t]
         /\ Where(t) \in WorkLabels /\ Where(t)' \in WorkLabels
         /\ FlagLayers(t) = 0 .. Top(t) /\ LocalsFit(t)
         /\ pc[t] \in {"link", "linked", "insertCount"} => Inserts(t)
         /\ pc[t] \in {"unlink", "bypass", "eraseCount"} => ~Inserts(t) /\ F(t).find = F(t).node
         /\ Creating(t) <=> pc[t] \in {"link", "linked"}
         /\ Created(t) <=> pc[t] = "insertCount"
         /\ Marked(t) <=> pc[t] = "unlink"
         /\ Erased(t) <=> pc[t] \in {"bypass", "eraseCount"}
         /\ Creating(t)' <=> pc'[t] \in {"link", "linked"}
         /\ Created(t)' <=> pc'[t] = "insertCount" \/ (pc'[t] = "scan" /\ Inserts(t))
         /\ ~Marked(t)'
         /\ Erased(t)' <=> pc'[t] \in {"bypass", "eraseCount"}
                             \/ (pc'[t] = "scan" /\ ~Inserts(t))
  <1>1. PICK l \in Layer : F(t)' = [F(t) EXCEPT !.layer = l] BY DEF Changes
  <1>2. F(t) \in FrameType BY FrameIs
  <1>3. /\ F(t)'.node = F(t).node /\ F(t)'.key = F(t).key /\ F(t)'.cursor = F(t).cursor
        /\ F(t)'.then = F(t).then /\ F(t)'.find = F(t).find /\ F(t)'.prevs = F(t).prevs
        /\ F(t)'.nexts = F(t).nexts /\ F(t)'.passed = F(t).passed /\ F(t)'.cur = F(t).cur
        /\ F(t)'.next = F(t).next /\ F(t)'.ret = F(t).ret /\ F(t)'.layer \in Layer
    BY ONLY <1>1, <1>2 DEF FrameType
  <1>4. /\ pc[t] \in {"link", "linked", "insertCount", "unlink", "bypass", "eraseCount"}
        /\ pc'[t] \in {"link", "linked", "insertCount", "bypass", "eraseCount", "scan"}
    BY DEF Changes
  <1>5. Where(t) = pc[t] /\ Where(t)' = pc'[t] BY <1>4 DEF Where, Calling
  <1>6. LocalsFit(t) BY DEF IInv, Fits
  <1>7. F(t).passed = {} BY <1>4, <1>6 DEF LocalsFit
  <1>8. Where(t) \in WorkLabels /\ Where(t)' \in WorkLabels
    BY <1>4, <1>5 DEF WorkLabels, Updating
  <1>9. /\ Creating(t) <=> pc[t] \in {"link", "linked"}
        /\ Created(t) <=> pc[t] = "insertCount"
        /\ Marked(t) <=> pc[t] = "unlink"
        /\ Erased(t) <=> pc[t] \in {"bypass", "eraseCount"}
    BY <1>4, <1>5 DEF Creating, Created, Marked, Erased, Placing, Updating
  <1>10. Owns(t) BY <1>4, <1>9 DEF Owns, Erases
  <1>11. FlagLayers(t) = 0 .. Top(t) BY <1>4, <1>5, LayersAt
  <1>12. /\ pc[t] \in {"link", "linked", "insertCount"} => Inserts(t)
         /\ pc[t] \in {"unlink", "bypass", "eraseCount"} => ~Inserts(t) /\ F(t).find = F(t).node
    BY <1>5, <1>6, <1>10, Owned DEF LocalsFit, Inserts
  <1>13. Inserts(t)' <=> Inserts(t) BY <1>3 DEF Inserts
  <1>14. /\ Creating(t)' <=> pc'[t] \in {"link", "linked"}
         /\ Created(t)' <=> pc'[t] = "insertCount" \/ (pc'[t] = "scan" /\ Inserts(t))
         /\ ~Marked(t)'
         /\ Erased(t)' <=> pc'[t] \in {"bypass", "eraseCount"}
                             \/ (pc'[t] = "scan" /\ ~Inserts(t))
    BY <1>4, <1>5, <1>13 DEF Creating, Created, Marked, Erased, Placing, Updating
  <1> QED BY <1>3, <1>5, <1>6, <1>7, <1>8, <1>9, <1>10, <1>11, <1>12, <1>14

\* What such a step leaves as it was.
LEMMA ChangesOn ==
  ASSUME IInv, NEW t \in Thread, NEW S, S = {}, Writes(t, S), Leaves(t), Changes(t)
  PROVE  /\ OwnsRightly(t) /\ HoldsOn(t, S) /\ FlagsMove(t)
         /\ LocalsFit(t)' /\ CurFits(t)' /\ NextFits(t)' /\ FoundFits(t)' /\ AgainFits(t)'
         /\ PlaceFits(t)' /\ FlagsFit(t)'
         /\ Top(t)' = Top(t) /\ Spares(t, {}) /\ Listed' = Listed
         /\ \A n \in Listed : n \in AllNode /\ Keeps(n)
         /\ \A a, b \in Listed : Less(a, b)' <=> Less(a, b)
  <1>1. /\ F(t)'.node = F(t).node /\ F(t)'.key = F(t).key /\ F(t)'.cursor = F(t).cursor
        /\ F(t)'.then = F(t).then /\ F(t)'.find = F(t).find /\ F(t)'.prevs = F(t).prevs
        /\ F(t)'.nexts = F(t).nexts /\ F(t)'.passed = F(t).passed /\ F(t)'.cur = F(t).cur
        /\ F(t)'.next = F(t).next /\ F(t)'.ret = F(t).ret /\ F(t)'.layer \in Layer
        /\ F(t).passed = {} /\ Owns(t) /\ Where(t) = pc[t] /\ Where(t)' = pc'[t]
        /\ Where(t) \in WorkLabels /\ Where(t)' \in WorkLabels
        /\ FlagLayers(t) = 0 .. Top(t) /\ LocalsFit(t)
        /\ pc[t] \in {"link", "linked", "insertCount"} => Inserts(t)
        /\ pc[t] \in {"unlink", "bypass", "eraseCount"} => ~Inserts(t) /\ F(t).find = F(t).node
        /\ Creating(t) <=> pc[t] \in {"link", "linked"}
        /\ Created(t) <=> pc[t] = "insertCount"
        /\ Marked(t) <=> pc[t] = "unlink"
        /\ Erased(t) <=> pc[t] \in {"bypass", "eraseCount"}
        /\ Creating(t)' <=> pc'[t] \in {"link", "linked"}
        /\ Created(t)' <=> pc'[t] = "insertCount" \/ (pc'[t] = "scan" /\ Inserts(t))
        /\ ~Marked(t)'
        /\ Erased(t)' <=> pc'[t] \in {"bypass", "eraseCount"}
                            \/ (pc'[t] = "scan" /\ ~Inserts(t))
    BY ChangesFrame
  <1>2. /\ Spares(t, {}) /\ Listed' = Listed
        /\ \A n \in Listed : n \in AllNode /\ Keeps(n)
        /\ \A a, b \in Listed : Less(a, b)' <=> Less(a, b)
    BY WritesSpare
  <1>3. /\ pc[t] \in {"link", "linked", "insertCount", "unlink", "bypass", "eraseCount"}
        /\ pc'[t] \in {"link", "linked", "insertCount", "bypass", "eraseCount", "scan"}
        /\ pc[t] \in {"link", "linked"} => pc'[t] \in {"link", "linked", "insertCount"}
        /\ pc[t] = "insertCount" => pc'[t] = "scan"
        /\ pc[t] \in {"unlink", "bypass"} => pc'[t] \in {"bypass", "eraseCount"}
        /\ pc[t] = "eraseCount" => pc'[t] = "scan"
    BY DEF Changes
  <1>4. PICK m : m = F(t).node OBVIOUS
  <1>5. m \in Listed /\ m \in AllNode /\ m \in Node /\ m \in alloc BY <1>1, <1>4, Owned
  <1>6. Top(t)' = Top(t)
    <2>1. snode'[m].top = snode[m].top BY <1>5 DEF Writes
    <2> QED BY <1>1, <1>4, <2>1 DEF Top
  <1>7. /\ Owns(t)'
        /\ Inserts(t)' <=> Inserts(t)
        /\ Creating(t) \/ Created(t) <=> Inserts(t)
        /\ Marked(t) \/ Erased(t) <=> ~Inserts(t)
        /\ Creating(t)' \/ Created(t)' <=> Inserts(t)
        /\ Marked(t)' \/ Erased(t)' <=> ~Inserts(t)
    <2>1. Inserts(t)' <=> Inserts(t) BY <1>1 DEF Inserts
    <2>2. Creating(t) \/ Created(t) <=> Inserts(t) BY <1>1, <1>3
    <2>3. Marked(t) \/ Erased(t) <=> ~Inserts(t) BY <1>1, <1>3
    <2>4. Creating(t)' \/ Created(t)' <=> Inserts(t) BY <1>1, <1>3
    <2>5. Marked(t)' \/ Erased(t)' <=> ~Inserts(t) BY <1>1, <1>3
    <2>6. Owns(t)' BY <2>4, <2>5 DEF Owns, Erases
    <2> QED BY <2>1, <2>2, <2>3, <2>4, <2>5, <2>6
  <1>8. /\ \A n : HoldsNode(t, n)' <=> HoldsNode(t, n)
        /\ \A n : HoldsCursor(t, n)' <=> HoldsCursor(t, n)
        /\ FlagsOwn(t)' <=> FlagsOwn(t)
    BY <1>1, <1>7, WorkHolds
  <1>9. \A n : /\ HoldsCur(t, n)' <=> HoldsCur(t, n)
               /\ HoldsNext(t, n)' <=> HoldsNext(t, n)
               /\ HoldsPassed(t, n)' <=> HoldsPassed(t, n)
    BY <1>1, <1>3 DEF HoldsCur, HoldsNext, HoldsPassed, Held, Updating, Returns
  <1>10. OwnsRightly(t) BY <1>1 DEF OwnsRightly
  <1>11. HoldsOn(t, S)
    <2>1. \A n : Mine(t, n)' = Mine(t, n) BY <1>8, <1>9 DEF Mine, One
    <2>2. \A n : Mine(t, n) \in Int BY DEF Mine, One
    <2>3. \A n \in Node : 0 - One(n \in S) = Mine(t, n)' - Mine(t, n)
      BY <2>1, <2>2 DEF One
    <2>4. \A n \in Node : Holds(t, n)' => Holds(t, n) BY <1>8, <1>9 DEF Holds
    <2> QED BY <1>1, <2>3, <2>4 DEF HoldsOn
  <1>12. FlagLayers(t)' = FlagLayers(t) BY <1>1, <1>3, <1>6, LayersAt DEF Updating
  <1>13. \A n : Flags(t, n)' <=> Flags(t, n) BY <1>1, <1>8, <1>12 DEF Flags
  <1>14. FlagsMove(t)
    BY <1>2, <1>13 DEF FlagsMove, Changes, IInv, FlagsFollow
  <1>15. LocalsFit(t)'
    <2>1. /\ pc'[t] \in {"link", "bypass"} => F(t)'.layer <= Top(t)'
          /\ pc'[t] \in {"linked", "insertCount", "eraseCount", "scan"} => F(t)'.layer = MaxLayer
      BY <1>6 DEF Changes
    <2>2. Inserts(t) \/ F(t).find = F(t).node BY <1>1, <1>3
    <2>3. pc'[t] \in {"link", "linked", "insertCount"} => Inserts(t) BY <1>1, <1>3
    <2>4. pc'[t] \in {"bypass", "eraseCount"} => F(t).find = F(t).node BY <1>1, <1>3
    <2>5. Creating(t)' => F(t).then = "insertFound" BY <1>1, <1>3 DEF LocalsFit
    <2>6. F(t).then \in {"insertFound", "eraseFound"} => F(t).key \in Key BY <1>1 DEF LocalsFit
    <2> QED BY <1>1, <1>3, <1>7, <2>1, <2>2, <2>3, <2>4, <2>5, <2>6
        DEF LocalsFit, Placing, Updating, Searching, Calling, Returns, Inserts
  <1>16. CurFits(t)' /\ NextFits(t)' /\ FoundFits(t)' /\ AgainFits(t)' /\ PlaceFits(t)'
    BY <1>1, <1>3
       DEF CurFits, NextFits, FoundFits, AgainFits, PlaceFits, Walking, Stepping, Placing, Returns
  <1>17. FlagsFit(t)'
    <2>1. FlagsFit(t) BY DEF IInv, Fits
    <2>2. ASSUME NEW l \in 0 .. Top(t)
          PROVE  /\ F(t)'.prevs[l] \in alloc' \cup {head} /\ snode'[F(t)'.prevs[l]].top >= l
                 /\ Less(F(t).prevs[l], F(t).node)' /\ Linked(F(t).prevs[l])'
                 /\ F(t).prevs[l] \in Listed
      <3>1. PICK p : p = F(t).prevs[l] OBVIOUS
      <3>2. l \in FlagLayers(t) BY <1>1
      <3>3. /\ p \in alloc \cup {head} /\ snode[p].top >= l /\ Less(p, m) /\ Linked(p)
        BY <1>3, <1>4, <2>1, <3>1, <3>2 DEF FlagsFit
      <3>4. p \in Listed /\ p \in AllNode /\ Flags(t, p)
        BY <1>2, <3>1, <3>2, <3>3 DEF Listed, Flags
      <3>5. p # m BY <1>5, <3>3, <3>4, LessOrder
      <3>6. /\ snode'[p].top = snode[p].top /\ snode'[p].linked = snode[p].linked
            /\ Less(p, m)' /\ alloc' = alloc
        BY <1>2, <1>4, <1>5, <3>3, <3>4, <3>5 DEF Writes, Changes
      <3>7. F(t)'.prevs[l] = p /\ F(t)'.node = m BY <1>1, <1>4, <3>1
      <3> QED BY <3>1, <3>3, <3>4, <3>6, <3>7 DEF Less, Linked
    <2>3. ASSUME NEW j \in 0 .. Top(t), NEW l \in 0 .. Top(t), j < l
          PROVE  \/ Less(F(t).prevs[l], F(t).prevs[j])'
                 \/ F(t)'.prevs[l] = F(t)'.prevs[j]
      <3>1. PICK q : q = F(t).prevs[l] OBVIOUS
      <3>2. PICK r : r = F(t).prevs[j] OBVIOUS
      <3>3. Less(q, r) \/ q = r BY <1>1, <2>1, <2>3, <3>1, <3>2 DEF FlagsFit
      <3>4. q \in Listed /\ r \in Listed BY <2>2, <3>1, <3>2
      <3>5. Less(q, r)' <=> Less(q, r) BY <1>2, <3>4
      <3>6. F(t)'.prevs[l] = q /\ F(t)'.prevs[j] = r BY <1>1, <3>1, <3>2
      <3> QED BY <3>3, <3>5, <3>6 DEF Less
    <2> QED BY <1>1, <1>3, <1>12, <2>2, <2>3 DEF FlagsFit
  <1> QED BY <1>2, <1>6, <1>10, <1>11, <1>14, <1>15, <1>16, <1>17

\* The node is fully linked, or is not any more; each layer keeps the node.
Turned(t, label) ==
    /\ \/ pc[t] = "linked" /\ label = "insertCount"
       \/ pc[t] = "unlink" /\ label = "bypass" /\ ~Reading(F(t).node)
    /\ Go(t, label, F(t))
    /\ snode' \in [AllNode -> NodeType]
    /\ \A n \in AllNode : /\ snode'[n].key = snode[n].key /\ snode'[n].top = snode[n].top
                          /\ snode'[n].refs = snode[n].refs
                          /\ snode'[n].removed = snode[n].removed
                          /\ snode'[n].modified = snode[n].modified
                          /\ snode'[n].next = snode[n].next
                          /\ n # F(t).node => /\ snode'[n].linked = snode[n].linked
                                              /\ snode'[n].writing = snode[n].writing
    /\ snode'[F(t).node].linked <=> label = "insertCount"
    /\ ~snode'[F(t).node].writing

\* Nobody else has the flag of a node that t unlinks, or is about to read from it.
LEMMA TurnedLeaves ==
  ASSUME IInv, NEW t \in Thread, NEW label, Turned(t, label)
  PROVE  Leaves(t)
  <1>1. SUFFICES ASSUME NEW u \in Thread \ {t}, NEW n \in Listed,
                        \/ Flags(u, n)
                        \/ Creating(u) /\ F(u).node = n
                        \/ pc[u] = "grab" /\ F(u).at = n
                 PROVE  snode'[n].next = snode[n].next /\ (snode[n].linked => snode'[n].linked)
    BY DEF Leaves
  <1>2. n \in AllNode BY Typed DEF IInv
  <1>3. snode'[n].next = snode[n].next BY <1>2 DEF Turned
  <1>4. CASE n # F(t).node BY <1>2, <1>3, <1>4 DEF Turned
  <1>5. CASE n = F(t).node /\ label = "insertCount" BY <1>3, <1>5 DEF Turned
  <1>6. CASE n = F(t).node /\ pc[t] = "unlink" /\ ~Reading(n)
    <2>1. Where(t) = "unlink" BY <1>6 DEF Where, Calling
    <2>2. Marked(t) BY <2>1 DEF Marked
    <2>3. Owns(t) /\ FlagsOwn(t) BY <2>2 DEF Owns, Erases, FlagsOwn
    <2>4. Flags(t, n) BY <1>6, <2>3 DEF Flags
    <2>5. ~Flags(u, n) BY <1>2, <2>4 DEF IInv, FlagsFollow
    <2>6. ~(Creating(u) /\ F(u).node = n) BY <1>6, <2>3, Owned DEF Owns
    <2>7. ~(pc[u] = "grab" /\ F(u).at = n) BY <1>6 DEF Reading
    <2> QED BY <1>1, <2>5, <2>6, <2>7
  <1> QED BY <1>4, <1>5, <1>6 DEF Turned

LEMMA TurnedStep ==
  ASSUME IInv, NEW t \in Thread, NEW label, Turned(t, label), UNCHANGED <<alloc, slist>>,
         UNCHANGED jobs
  PROVE  IInv'
  <1>1. /\ pc[t] \in {"linked", "unlink"} /\ label \in {"insertCount", "bypass"}
        /\ pc[t] = "linked" <=> label = "insertCount"
        /\ pc[t] = "unlink" <=> label = "bypass"
        /\ Go(t, label, F(t))
    BY DEF Turned
  <1>2. Where(t) = pc[t] BY <1>1 DEF Where, Calling
  <1>3. LocalsFit(t) BY DEF IInv, Fits
  <1>4. PICK m : m = F(t).node OBVIOUS
  <1>5. PICK f : f = F(t) OBVIOUS
  <1>6. PICK S : S = {} OBVIOUS
  <1>7. /\ Owns(t) /\ ~Created(t) /\ ~Erased(t)
        /\ Creating(t) <=> pc[t] = "linked"
        /\ Marked(t) <=> pc[t] = "unlink"
    BY <1>1, <1>2 DEF Owns, Erases, Creating, Created, Marked, Erased, Placing, Updating
  <1>8. /\ f \in FrameType /\ Types /\ m \in alloc /\ m \in Node /\ m \in Listed /\ m \in AllNode
        /\ m \notin {head, tail, Null} /\ head \in AllNode /\ tail \in AllNode
        /\ Top(t) \in Layer /\ f.layer \in Layer
    BY <1>4, <1>5, <1>7, Owned, FrameIs DEF AllNode
  <1>9. /\ snode' \in [AllNode -> NodeType]
        /\ \A n \in AllNode : /\ snode'[n].key = snode[n].key /\ snode'[n].top = snode[n].top
                              /\ snode'[n].refs = snode[n].refs
                              /\ snode'[n].removed = snode[n].removed
                              /\ snode'[n].modified = snode[n].modified
                              /\ snode'[n].next = snode[n].next
                              /\ n # m => /\ snode'[n].linked = snode[n].linked
                                          /\ snode'[n].writing = snode[n].writing
        /\ snode'[m].linked <=> label = "insertCount"
        /\ ~snode'[m].writing
    BY <1>4 DEF Turned
  <1>10. Writes(t, S) /\ Alone(t) /\ F(t)' = f /\ pc'[t] = label
    <2>1. Go(t, label, f) /\ label \in LabelNames \ {"undefined"}
      BY <1>1, <1>5 DEF LabelNames
    <2>2. slist' \in [entries : Int, layers : [Layer -> Int], top : {MaxLayer}]
      BY <1>8 DEF Types
    <2>3. IInv /\ t \in Thread /\ alloc' = alloc /\ UNCHANGED jobs OBVIOUS
    <2>4. \A n \in {head, tail} : /\ snode'[n].linked = snode[n].linked
                                  /\ snode'[n].writing = snode[n].writing
                                  /\ snode'[n].removed = snode[n].removed
      BY <1>8, <1>9
    <2> QED BY ONLY <1>6, <1>8, <1>9, <2>1, <2>2, <2>3, <2>4, WriteGo
  <1>11. Leaves(t) BY TurnedLeaves
  <1>12. Changes(t)
    <2>1. F(t)' = [F(t) EXCEPT !.layer = f.layer]
      <3>1. f = [f EXCEPT !.layer = f.layer] BY ONLY <1>8 DEF FrameType
      <3> QED BY <1>5, <1>10, <3>1
    <2>2. pc'[t] = "bypass" => F(t)'.layer <= Top(t)
      <3>1. pc'[t] = "bypass" => F(t).layer = 0 BY <1>1, <1>2, <1>3, <1>10 DEF LocalsFit
      <3> QED BY <1>5, <1>8, <1>10, <3>1, LayerAssumption DEF Layer
    <2>3. pc'[t] = "insertCount" => F(t)'.layer = MaxLayer
      BY <1>1, <1>2, <1>3, <1>5, <1>10 DEF LocalsFit
    <2> QED BY <1>1, <1>4, <1>8, <1>9, <1>10, <2>1, <2>2, <2>3 DEF Changes
  <1>13. /\ OwnsRightly(t) /\ HoldsOn(t, S) /\ FlagsMove(t)
         /\ LocalsFit(t)' /\ CurFits(t)' /\ NextFits(t)' /\ FoundFits(t)' /\ AgainFits(t)'
         /\ PlaceFits(t)' /\ FlagsFit(t)'
         /\ Top(t)' = Top(t) /\ Spares(t, {}) /\ Listed' = Listed
         /\ \A n \in Listed : n \in AllNode /\ Keeps(n)
         /\ \A a, b \in Listed : Less(a, b)' <=> Less(a, b)
    BY <1>6, <1>10, <1>11, <1>12, ChangesOn
  <1>14. /\ Owns(t)' /\ ~Creating(t)' /\ ~Marked(t)' /\ Where(t)' = label
         /\ Erased(t)' <=> label = "bypass"
    <2>1. Where(t)' = label BY <1>1, <1>10 DEF Where, Calling
    <2> QED BY <1>1, <2>1 DEF Owns, Erases, Creating, Created, Marked, Erased, Placing, Updating
  <1>15. SaysOn(t)
    <2>1. Says(t, m) BY <1>4, <1>7, OwnSays
    <2>2. Says(t, F(t).node)'
      BY <1>1, <1>4, <1>5, <1>7, <1>8, <1>9, <1>10, <1>14, <2>1 DEF Says, Linked
    <2>3. alloc \subseteq AllNode BY <1>8, Typed DEF AllNode
    <2>4. F(t)'.node = m BY <1>4, <1>5, <1>10
    <2> QED BY <1>4, <1>9, <1>14, <2>2, <2>3, <2>4 DEF SaysOn
  <1>16. /\ \A l \in Layer : Half(t, l) <=> label = "insertCount"
         /\ \A l \in Layer : Half(t, l)' <=> label = "bypass"
    <2>1. label = "bypass" => f.layer = 0 BY <1>1, <1>2, <1>3, <1>5 DEF LocalsFit
    <2> QED BY <1>1, <1>10, <2>1, LayerAssumption DEF Half, Layer
  <1>17. Linked(m) <=> label = "bypass"
    <2>1. Says(t, m) BY <1>4, <1>7, OwnSays
    <2> QED BY <1>1, <1>7, <2>1 DEF Says
  <1>18. ASSUME NEW l \in Layer PROVE In(l)' = In(l)
    <2>1. alloc' = alloc /\ alloc \subseteq AllNode BY <1>8, Typed DEF AllNode
    <2>2. ASSUME NEW n \in alloc
          PROVE  (Linked(n) \/ \E u \in Thread : Half(u, l) /\ F(u).node = n)' <=>
                 (Linked(n) \/ \E u \in Thread : Half(u, l) /\ F(u).node = n)
      <3>1. \A u \in Thread \ {t} : (Half(u, l) /\ F(u).node = n)' <=> Half(u, l) /\ F(u).node = n
        BY <1>10, OtherThread DEF Alone
      <3>2. F(t)'.node = m /\ F(t).node = m BY <1>4, <1>5, <1>10
      <3>3. CASE n = m
        <4>1. (Half(t, l) /\ F(t).node = n) <=> label = "insertCount" BY <1>16, <3>2, <3>3
        <4>2. (Half(t, l) /\ F(t).node = n)' <=> label = "bypass" BY <1>16, <3>2, <3>3
        <4>3. Linked(n)' <=> label = "insertCount" BY <1>9, <3>3 DEF Linked
        <4> QED BY <1>1, <1>17, <3>3, <4>1, <4>2, <4>3
      <3>4. CASE n # m
        <4>1. Linked(n)' <=> Linked(n) BY <1>9, <2>1, <3>4 DEF Linked
        <4> QED BY <3>1, <3>2, <3>4, <4>1
      <3> QED BY <3>3, <3>4
    <2>3. \A n \in alloc : snode'[n].top = snode[n].top BY <1>9, <2>1
    <2> QED BY <2>1, <2>2, <2>3 DEF In
  <1>19. Sorted'
    <2>1. \A l \in Layer : \A n \in In(l) : Keeps(n) /\ snode'[n].next = snode[n].next
      BY <1>9, <1>13, InListed
    <2> QED BY <1>18, <2>1, SortedStep
  <1>20. CountersFollow'
    <2>1. alloc' = alloc /\ alloc \subseteq AllNode BY <1>8, Typed DEF AllNode
    <2>2. ASSUME NEW labels
          PROVE  \A n : n # m => (Uncounted(labels, n)' <=> Uncounted(labels, n))
      BY <1>4, <1>5, <1>10 DEF Uncounted, Alone
    <2>3. /\ \A u \in Thread : F(u).node = m /\ pc[u] \in {"insertCount", "bypass", "eraseCount"}
                => u = t
          /\ \A u \in Thread : F(u)'.node = m /\ pc'[u] \in {"insertCount", "bypass", "eraseCount"}
                => u = t
      <3>1. \A u \in Thread : pc[u] \in {"insertCount", "bypass", "eraseCount"} => Owns(u)
        BY DEF Owns, Erases, Created, Erased, Where, Calling
      <3>2. \A u \in Thread : F(u).node = m /\ pc[u] \in {"insertCount", "bypass", "eraseCount"}
                => u = t
        BY <1>4, <1>7, <3>1, Owned
      <3> QED BY <1>10, <3>2 DEF Alone
    <2>4. ~Uncounted({"insertCount"}, m) /\ ~Uncounted({"bypass", "eraseCount"}, m)
      BY <1>1, <2>3 DEF Uncounted
    <2>5. /\ Uncounted({"insertCount"}, m)' <=> label = "insertCount"
          /\ Uncounted({"bypass", "eraseCount"}, m)' <=> label = "bypass"
      <3>1. F(t)'.node = m /\ pc'[t] = label BY <1>4, <1>5, <1>10
      <3> QED BY <1>1, <2>3, <3>1 DEF Uncounted
    <2>6. \A n \in alloc : n # m => snode'[n].linked = snode[n].linked BY <1>9, <2>1
    <2>7. Counted' = Counted
      <3>1. \A n \in alloc : n # m => (n \in Counted' <=> n \in Counted)
        BY <2>1, <2>2, <2>6 DEF Counted
      <3>2. m \in Counted <=> label = "bypass" BY <1>8, <1>17, <2>4 DEF Counted, Linked
      <3>3. m \in Counted' <=> label = "bypass" BY <1>1, <1>8, <1>9, <2>1, <2>5 DEF Counted
      <3>4. Counted \subseteq alloc /\ Counted' \subseteq alloc BY <2>1 DEF Counted
      <3> QED BY <3>1, <3>2, <3>3, <3>4
    <2>8. \A n \in Counted : snode'[n].top = snode[n].top BY <1>9, <2>1 DEF Counted
    <2> QED BY <2>7, <2>8, CountersStep
  <1>21. \A n \in Listed : Linked(n) /\ snode[n].key = SentinelKey => snode'[n].linked
    <2>1. snode[m].key \in Key BY <1>4, <1>7 DEF IInv, Owners
    <2>2. SentinelKey \notin Key BY KeysAssumption
    <2> QED BY <1>9, <1>13, <2>1, <2>2 DEF Linked
  <1>22. SettledFits(t)'
    <2>1. CASE label = "insertCount" BY <1>14, <2>1, LayersAt DEF SettledFits
    <2>2. CASE label = "bypass"
      <3>1. Settled(t) = 0 .. Top(t) /\ Settled(t)' = 0 .. Top(t)
        BY <1>1, <1>2, <1>13, <1>14, <2>2, LayersAt
      <3>2. SettledFits(t) /\ ~Inserts(t)
        BY <1>1, <1>2, <1>3, <1>8, <1>4, <2>2 DEF IInv, Fits, LocalsFit, Inserts
      <3>3. SUFFICES ASSUME NEW l \in Settled(t)
                     PROVE  /\ f.nexts[l] \in Node \cup {tail}
                            /\ Less(F(t).node, F(t).nexts[l])'
                            /\ NextIn(m, l)' = f.nexts[l]
                            /\ NextIn(f.prevs[l], l)' = m
        <4>1. \A l \in Settled(t) : l \in Layer BY SettledFlags
        <4> QED BY <1>4, <1>5, <1>10, <1>16, <2>2, <3>1, <4>1 DEF SettledFits, NextIn
      <3>4. l \in Layer BY SettledFlags
      <3>5. PICK x : x = f.nexts[l] OBVIOUS
      <3>6. PICK p : p = f.prevs[l] OBVIOUS
      <3>7. /\ p \in In(l) /\ x \in Listed /\ Less(m, x) /\ NextIn(m, l) = x
        BY <1>4, <1>5, <3>5, <3>6, SettledIn
      <3>8. x \in Node \cup {tail} /\ NextIn(p, l) = m
        BY <1>1, <1>4, <1>5, <2>2, <3>2, <3>5, <3>6 DEF SettledFits
      <3>9. p \in Listed BY <3>4, <3>7, InListed
      <3>10. snode'[p].next = snode[p].next /\ snode'[m].next = snode[m].next
        BY <1>8, <1>9, <1>13, <3>9
      <3>11. Less(m, x)' BY <1>8, <1>13, <3>7
      <3>12. F(t)'.nexts[l] = x /\ F(t)'.node = m BY <1>4, <1>5, <1>10, <3>5
      <3>13. Less(F(t).node, F(t).nexts[l])' BY <3>11, <3>12 DEF Less
      <3> QED BY <3>5, <3>6, <3>7, <3>8, <3>10, <3>13 DEF NextIn
    <2> QED BY <1>1, <2>1, <2>2
  <1>23. Fits(t)' BY <1>13, <1>22 DEF Fits
  <1>24. IInv /\ t \in Thread OBVIOUS
  <1> QED BY ONLY <1>10, <1>11, <1>13, <1>15, <1>19, <1>20, <1>21, <1>23, <1>24, WriteStep

LEMMA InsertLinkedStep ==
  ASSUME IInv, NEW t \in Thread, InsertLinked(t), UNCHANGED jobs
  PROVE  IInv'
  <1>1. /\ pc[t] = "linked" /\ Go(t, "insertCount", F(t)) /\ UNCHANGED <<alloc, slist>>
        /\ snode' = [snode EXCEPT ![F(t).node].linked = TRUE, ![F(t).node].writing = FALSE]
    BY DEF InsertLinked
  <1>2. PICK m : m = F(t).node OBVIOUS
  <1>3. m \in AllNode /\ Types /\ snode \in [AllNode -> NodeType]
    <2>1. Owns(t) BY <1>1 DEF Owns, Creating, Where, Calling
    <2> QED BY <1>2, <2>1, Owned DEF IInv, Types
  <1>4. snode[m] \in NodeType BY <1>3
  <1>5. snode' = [snode EXCEPT ![m] = [[snode[m] EXCEPT !.linked = TRUE] EXCEPT !.writing = FALSE]]
    BY <1>1, <1>2, <1>3
  <1>6. PICK r : r = [[snode[m] EXCEPT !.linked = TRUE] EXCEPT !.writing = FALSE] OBVIOUS
  <1>7. /\ r \in NodeType /\ r.key = snode[m].key /\ r.top = snode[m].top
        /\ r.refs = snode[m].refs /\ r.removed = snode[m].removed
        /\ r.modified = snode[m].modified /\ r.next = snode[m].next
        /\ r.linked = TRUE /\ r.writing = FALSE
    BY ONLY <1>4, <1>6 DEF NodeType
  <1>8. /\ snode' \in [AllNode -> NodeType] /\ snode'[m] = r
        /\ \A n \in AllNode \ {m} : snode'[n] = snode[n]
    BY ONLY <1>3, <1>5, <1>6, <1>7
  <1>9. Turned(t, "insertCount") BY <1>1, <1>2, <1>7, <1>8 DEF Turned
  <1> QED BY <1>1, <1>9, TurnedStep

LEMMA EraseUnlinkStep ==
  ASSUME IInv, NEW t \in Thread, EraseUnlink(t), UNCHANGED jobs
  PROVE  IInv'
  <1>1. /\ pc[t] = "unlink" /\ Go(t, "bypass", F(t)) /\ UNCHANGED <<alloc, slist>>
        /\ snode' = [snode EXCEPT ![F(t).node].linked = FALSE]
        /\ Writable(F(t).node)
    BY DEF EraseUnlink
  <1>2. PICK m : m = F(t).node OBVIOUS
  <1>3. m \in AllNode /\ Types /\ snode \in [AllNode -> NodeType]
    <2>1. Owns(t) BY <1>1 DEF Owns, Erases, Marked, Where, Calling
    <2> QED BY <1>2, <2>1, Owned DEF IInv, Types
  <1>4. snode[m] \in NodeType /\ ~snode[m].writing /\ ~Reading(m)
    BY <1>1, <1>2, <1>3 DEF Writable
  <1>5. snode' = [snode EXCEPT ![m] = [snode[m] EXCEPT !.linked = FALSE]]
    BY <1>1, <1>2
  <1>6. PICK r : r = [snode[m] EXCEPT !.linked = FALSE] OBVIOUS
  <1>7. /\ r \in NodeType /\ r.key = snode[m].key /\ r.top = snode[m].top
        /\ r.refs = snode[m].refs /\ r.removed = snode[m].removed
        /\ r.modified = snode[m].modified /\ r.next = snode[m].next
        /\ r.linked = FALSE /\ ~r.writing
    BY ONLY <1>4, <1>6 DEF NodeType
  <1>8. /\ snode' \in [AllNode -> NodeType] /\ snode'[m] = r
        /\ \A n \in AllNode \ {m} : snode'[n] = snode[n]
    BY ONLY <1>3, <1>5, <1>6, <1>7
  <1>9. Turned(t, "bypass") BY <1>1, <1>2, <1>4, <1>7, <1>8 DEF Turned
  <1> QED BY <1>1, <1>9, TurnedStep

\* One layer is sorted.
SortedAt(l) ==
    /\ \A n \in In(l) \ {tail} : NextIn(n, l) \in In(l) /\ Less(n, NextIn(n, l))
    /\ \A m, n \in In(l) : m # n => Less(m, n) \/ Less(n, m)
    /\ \A m \in In(l) \ {tail}, n \in In(l) :
            Less(m, n) => NextIn(m, l) = n \/ Less(NextIn(m, l), n)

\* It stays so when it stays what it is.
LEMMA SortedSame ==
  ASSUME IInv, NEW l \in Layer, In(l)' = In(l), \A a, b \in Listed : Less(a, b)' <=> Less(a, b),
         \A n \in In(l) : NextIn(n, l)' = NextIn(n, l)
  PROVE  SortedAt(l)'
  <1>1. SortedAt(l) BY DEF IInv, Sorted, SortedAt
  <1>2. \A n \in In(l) : n \in Listed BY InListed
  <1>3. \A a, b \in In(l) : Less(a, b)' <=> Less(a, b) BY <1>2
  <1>4. ASSUME NEW n \in In(l) \ {tail}
        PROVE  NextIn(n, l)' \in In(l)' /\ Less(n, NextIn(n, l))'
    <2>1. PICK x : x = NextIn(n, l) OBVIOUS
    <2>2. x \in In(l) /\ Less(n, x) BY <1>1, <2>1 DEF SortedAt
    <2>3. NextIn(n, l)' = x BY <2>1
    <2>4. Less(n, x)' BY <1>3, <2>2
    <2> QED BY <2>2, <2>3, <2>4 DEF Less
  <1>5. ASSUME NEW m \in In(l) \ {tail}, NEW n \in In(l), Less(m, n)'
        PROVE  NextIn(m, l)' = n \/ Less(NextIn(m, l), n)'
    <2>1. PICK x : x = NextIn(m, l) OBVIOUS
    <2>2. x \in In(l) BY <1>1, <2>1 DEF SortedAt
    <2>3. x = n \/ Less(x, n) BY <1>1, <1>3, <1>5, <2>1 DEF SortedAt
    <2>4. NextIn(m, l)' = x BY <2>1
    <2>5. x = n \/ Less(x, n)' BY <1>3, <2>2, <2>3
    <2> QED BY <2>4, <2>5 DEF Less
  <1>6. \A m, n \in In(l) : m # n => Less(m, n)' \/ Less(n, m)' BY <1>1, <1>3 DEF SortedAt
  <1> QED BY <1>4, <1>5, <1>6 DEF SortedAt

\* A node comes in between p and the next one.
LEMMA SortedMore ==
  ASSUME IInv, NEW l \in Layer, \A a, b \in Listed : Less(a, b)' <=> Less(a, b),
         NEW p \in In(l), p # tail, NEW m \in Listed, NEW q, q = NextIn(p, l),
         Less(p, m), Less(m, q), In(l)' = In(l) \cup {m}, NextIn(p, l)' = m,
         NextIn(m, l)' = q, m \notin In(l),
         \A n \in In(l) \ {p} : NextIn(n, l)' = NextIn(n, l)
  PROVE  SortedAt(l)'
  <1>1. SortedAt(l) BY DEF IInv, Sorted, SortedAt
  <1>2. /\ \A n \in In(l) : n \in Listed
        /\ p \in Listed /\ q \in In(l) /\ Less(p, q) /\ q \in Listed
    BY <1>1, InListed DEF SortedAt
  <1>3. \A a, b \in In(l) \cup {m} : Less(a, b)' <=> Less(a, b) BY <1>2
  <1>4. ASSUME NEW n \in In(l)
        PROVE  /\ Less(n, m) \/ Less(m, n)
               /\ Less(m, n) => q = n \/ Less(q, n)
               /\ Less(n, m) => n = p \/ Less(n, p)
    <2>1. n \in Listed BY <1>2
    <2>2. CASE n = p
      <3>1. Less(n, m) BY <2>2
      <3>2. ~Less(m, n) BY <2>1, <3>1, LessOrder
      <3> QED BY <2>2, <3>1, <3>2
    <2>3. CASE n # p
      <3>1. Less(n, p) \/ Less(p, n) BY <1>1, <2>3 DEF SortedAt
      <3>2. CASE Less(n, p)
        <4>1. Less(n, m) BY <1>2, <2>1, <3>2, LessOrder
        <4>2. ~Less(m, n) BY <2>1, <4>1, LessOrder
        <4> QED BY <3>2, <4>1, <4>2
      <3>3. CASE Less(p, n)
        <4>1. q = n \/ Less(q, n) BY <1>1, <3>3 DEF SortedAt
        <4>2. Less(m, n) BY <1>2, <2>1, <4>1, LessOrder
        <4>3. ~Less(n, m) BY <2>1, <4>2, LessOrder
        <4> QED BY <4>1, <4>2, <4>3
      <3> QED BY <3>1, <3>2, <3>3
    <2> QED BY <2>2, <2>3
  <1>5. ~Less(m, m) /\ m # tail BY <1>2, LessOrder
  <1>6. ASSUME NEW n \in (In(l) \cup {m}) \ {tail}
        PROVE  NextIn(n, l)' \in In(l) \cup {m} /\ Less(n, NextIn(n, l))'
    <2>1. PICK x : x = NextIn(n, l)' OBVIOUS
    <2>2. x \in In(l) \cup {m} /\ Less(n, x)
      <3>1. CASE n = p BY <2>1, <3>1
      <3>2. CASE n = m BY <1>2, <2>1, <3>2
      <3>3. CASE n \in In(l) \ {p} BY <1>1, <1>6, <2>1, <3>3 DEF SortedAt
      <3> QED BY <3>1, <3>2, <3>3
    <2>3. Less(n, x)' BY <1>3, <2>2
    <2> QED BY <2>1, <2>2, <2>3 DEF Less
  <1>7. ASSUME NEW a \in (In(l) \cup {m}) \ {tail}, NEW n \in In(l) \cup {m}, Less(a, n)
        PROVE  NextIn(a, l)' = n \/ Less(NextIn(a, l), n)'
    <2>1. PICK x : x = NextIn(a, l)' OBVIOUS
    <2>2. x \in In(l) \cup {m} BY <1>6, <2>1
    <2>3. x = n \/ Less(x, n)
      <3>1. CASE a = p
        <4>1. x = m BY <2>1, <3>1
        <4>2. CASE n = m BY <4>1, <4>2
        <4>3. CASE n \in In(l)
          <5>1. ~Less(n, p) /\ n # p BY <1>2, <1>7, <3>1, <4>3, LessOrder
          <5> QED BY <1>4, <4>1, <4>3, <5>1
        <4> QED BY <4>2, <4>3
      <3>2. CASE a = m
        <4>1. x = q /\ n \in In(l) BY <1>5, <1>7, <2>1, <3>2
        <4> QED BY <1>4, <1>7, <3>2, <4>1
      <3>3. CASE a \in In(l) \ {p}
        <4>1. x = NextIn(a, l) BY <2>1, <3>3
        <4>2. CASE n \in In(l) BY <1>1, <1>7, <3>3, <4>1, <4>2 DEF SortedAt
        <4>3. CASE n = m
          <5>1. Less(a, p) BY <1>4, <1>7, <3>3, <4>3
          <5>2. x = p \/ Less(x, p) BY <1>1, <1>7, <3>3, <4>1, <5>1 DEF SortedAt
          <5>3. x \in In(l) BY <1>1, <1>7, <3>3, <4>1 DEF SortedAt
          <5> QED BY <1>2, <4>3, <5>2, <5>3, LessOrder
        <4> QED BY <4>2, <4>3
      <3> QED BY <3>1, <3>2, <3>3
    <2>4. x = n \/ Less(x, n)' BY <1>3, <2>2, <2>3
    <2> QED BY <2>1, <2>4 DEF Less
  <1>8. \A a, n \in In(l) \cup {m} : a # n => Less(a, n)' \/ Less(n, a)'
    BY <1>1, <1>3, <1>4 DEF SortedAt
  <1>9. \A a \in (In(l) \cup {m}) \ {tail}, n \in In(l) \cup {m} :
            Less(a, n)' => NextIn(a, l)' = n \/ Less(NextIn(a, l), n)'
    BY <1>3, <1>7
  <1> QED BY <1>6, <1>8, <1>9 DEF SortedAt

\* The node after p is taken out.
LEMMA SortedFewer ==
  ASSUME IInv, NEW l \in Layer, \A a, b \in Listed : Less(a, b)' <=> Less(a, b),
         NEW p \in In(l), p # tail, NEW m \in In(l), m # tail, NEW q, q = NextIn(m, l),
         NextIn(p, l) = m, In(l)' = In(l) \ {m}, NextIn(p, l)' = q,
         \A n \in In(l) \ {p} : NextIn(n, l)' = NextIn(n, l)
  PROVE  SortedAt(l)'
  <1>1. SortedAt(l) BY DEF IInv, Sorted, SortedAt
  <1>2. /\ \A n \in In(l) : n \in Listed
        /\ p \in Listed /\ m \in Listed /\ q \in In(l) /\ q \in Listed /\ Less(p, m) /\ Less(m, q)
    BY <1>1, InListed DEF SortedAt
  <1>3. \A a, b \in In(l) \ {m} : Less(a, b)' <=> Less(a, b) BY <1>2
  <1>4. q # m /\ p # m /\ Less(p, q) BY <1>2, LessOrder
  <1>5. \A n \in In(l) \ {p, tail} : NextIn(n, l) # m BY OnePrevious
  <1>6. ASSUME NEW n \in (In(l) \ {m}) \ {tail}
        PROVE  NextIn(n, l)' \in In(l) \ {m} /\ Less(n, NextIn(n, l))'
    <2>1. PICK x : x = NextIn(n, l)' OBVIOUS
    <2>2. x \in In(l) \ {m} /\ Less(n, x)
      <3>1. CASE n = p BY <1>2, <1>4, <2>1, <3>1
      <3>2. CASE n # p
        <4>1. x = NextIn(n, l) BY <2>1, <3>2
        <4> QED BY <1>1, <1>5, <3>2, <4>1 DEF SortedAt
      <3> QED BY <3>1, <3>2
    <2>3. Less(n, x)' BY <1>3, <2>2
    <2> QED BY <2>1, <2>2, <2>3 DEF Less
  <1>7. ASSUME NEW a \in (In(l) \ {m}) \ {tail}, NEW n \in In(l) \ {m}, Less(a, n)
        PROVE  NextIn(a, l)' = n \/ Less(NextIn(a, l), n)'
    <2>1. PICK x : x = NextIn(a, l)' OBVIOUS
    <2>2. x \in In(l) \ {m} BY <1>6, <2>1
    <2>3. x = n \/ Less(x, n)
      <3>1. CASE a = p
        <4>1. m = n \/ Less(m, n) BY <1>1, <1>7, <3>1 DEF SortedAt
        <4>2. Less(m, n) BY <4>1
        <4> QED BY <1>1, <2>1, <3>1, <4>2 DEF SortedAt
      <3>2. CASE a # p
        <4>1. x = NextIn(a, l) BY <2>1, <3>2
        <4> QED BY <1>1, <1>7, <4>1 DEF SortedAt
      <3> QED BY <3>1, <3>2
    <2>4. x = n \/ Less(x, n)' BY <1>3, <2>2, <2>3
    <2> QED BY <2>1, <2>4 DEF Less
  <1>8. \A a, n \in In(l) \ {m} : a # n => Less(a, n)' \/ Less(n, a)'
    BY <1>1, <1>3 DEF SortedAt
  <1>9. \A a \in (In(l) \ {m}) \ {tail}, n \in In(l) \ {m} :
            Less(a, n)' => NextIn(a, l)' = n \/ Less(NextIn(a, l), n)'
    BY <1>3, <1>7
  <1> QED BY <1>6, <1>8, <1>9 DEF SortedAt

\* The pointer that a thread is about to change.
LEMMA SwingPlace ==
  ASSUME IInv, NEW t \in Thread, pc[t] \in {"link", "bypass"},
         NEW l, l = F(t).layer, NEW m, m = F(t).node, NEW p, p = F(t).prevs[l],
         NEW q, q = F(t).nexts[l]
  PROVE  /\ Owns(t) /\ l \in Layer /\ l \in 0 .. Top(t) /\ Top(t) \in Layer
         /\ m \in alloc /\ m \in Node /\ m \in Listed /\ m \in AllNode /\ m # tail
         /\ p \in In(l) /\ p # tail /\ p \in Listed /\ p \in AllNode /\ Linked(p) /\ Flags(t, p)
         /\ q \in In(l) /\ q \in Listed /\ q \in Link /\ q # head
         /\ Less(p, m) /\ Less(m, q) /\ NextIn(m, l) = q /\ p # m
         /\ pc[t] = "link" => Creating(t) /\ NextIn(p, l) = q /\ ~Linked(m)
         /\ pc[t] = "bypass" => Erased(t) /\ ~Inserts(t) /\ NextIn(p, l) = m /\ ~Linked(m)
         /\ \A k \in Layer : Half(t, k) <=> IF pc[t] = "link" THEN k < l ELSE k >= l
         /\ \A u \in Thread : Owns(u) /\ F(u).node = m => u = t
  <1>1. Where(t) = pc[t] BY DEF Where, Calling
  <1>2. /\ pc[t] = "link" => Creating(t)
        /\ pc[t] = "bypass" => Erased(t)
    BY <1>1 DEF Creating, Erased
  <1>3. Owns(t) BY <1>2 DEF Owns, Erases
  <1>4. /\ m \in alloc /\ m \in Node /\ m \in Listed /\ m \in AllNode /\ m \notin {head, tail, Null}
        /\ Top(t) \in Layer /\ \A u \in Thread : Owns(u) /\ F(u).node = m => u = t
    BY <1>3, Owned
  <1>5. LocalsFit(t) /\ SettledFits(t) BY DEF IInv, Fits
  <1>6. l \in Layer /\ l <= Top(t) BY <1>1, <1>5, FrameIs DEF LocalsFit
  <1>7. l \in 0 .. Top(t) BY <1>4, <1>6, LayerAssumption DEF Layer
  <1>8. l \in Settled(t) BY <1>1, <1>7, LayersAt
  <1>9. /\ p \in In(l) /\ p # tail /\ Flags(t, p)
        /\ q \in In(l) /\ q \in Listed /\ q # head /\ Less(m, q) /\ NextIn(m, l) = q
        /\ Less(p, m)
    BY <1>8, SettledIn
  <1>10. p \in Listed BY <1>6, <1>9, InListed
  <1>11. p \in AllNode /\ q \in Link BY <1>9, <1>10, Typed DEF IInv, Link
  <1>12. p # m BY <1>4, <1>9, <1>10, LessOrder
  <1>13. \A k \in Layer : Half(t, k) <=> IF pc[t] = "link" THEN k < l ELSE k >= l
    BY DEF Half
  <1>14. ~Linked(m) BY <1>2, <1>4 DEF IInv, NodesFollow
  <1>15. /\ pc[t] = "link" => Inserts(t)
         /\ pc[t] = "bypass" => ~Inserts(t)
    BY <1>1, <1>4, <1>5 DEF LocalsFit, Inserts
  <1>16. NextIn(p, l) = IF pc[t] = "link" THEN q ELSE m
    <2>1. Half(t, l) <=> pc[t] # "link" BY <1>6, <1>13, LayerAssumption DEF Layer
    <2> QED BY <1>5, <1>8, <1>15, <2>1 DEF SettledFits
  <1>17. Linked(p)
    <2>1. l \in FlagLayers(t) BY <1>8, SettledFlags
    <2> QED BY <2>1, FlaggedIn
  <1> QED BY <1>2, <1>3, <1>4, <1>6, <1>7, <1>9, <1>10, <1>11, <1>12, <1>13, <1>14, <1>15,
             <1>16, <1>17

\* The pointer of the node before t's own leads to that node, or past it, in one layer more.
Swings(t, label) ==
    /\ \/ pc[t] = "link" /\ label = (IF F(t).layer < Top(t) THEN "link" ELSE "linked")
       \/ pc[t] = "bypass" /\ label = (IF F(t).layer < Top(t) THEN "bypass" ELSE "eraseCount")
    /\ Go(t, label, [F(t) EXCEPT !.layer = IF F(t).layer < Top(t) THEN F(t).layer + 1
                                           ELSE MaxLayer])
    /\ ~Reading(F(t).prevs[F(t).layer])
    /\ snode' \in [AllNode -> NodeType]
    /\ \A n \in AllNode : /\ snode'[n].key = snode[n].key /\ snode'[n].top = snode[n].top
                          /\ snode'[n].refs = snode[n].refs
                          /\ snode'[n].linked = snode[n].linked
                          /\ snode'[n].removed = snode[n].removed
                          /\ snode'[n].modified = snode[n].modified
                          /\ snode'[n].writing = snode[n].writing
                          /\ n # F(t).prevs[F(t).layer] => snode'[n].next = snode[n].next
                          /\ \A k \in Layer \ {F(t).layer} : snode'[n].next[k] = snode[n].next[k]
    /\ snode'[F(t).prevs[F(t).layer]].next[F(t).layer] =
          IF pc[t] = "link" THEN F(t).node ELSE F(t).nexts[F(t).layer]

LEMMA SwingLeaves ==
  ASSUME IInv, NEW t \in Thread, NEW label, Swings(t, label)
  PROVE  Leaves(t)
  <1>1. SUFFICES ASSUME NEW u \in Thread \ {t}, NEW n \in Listed,
                        \/ Flags(u, n)
                        \/ Creating(u) /\ F(u).node = n
                        \/ pc[u] = "grab" /\ F(u).at = n
                 PROVE  snode'[n].next = snode[n].next /\ (snode[n].linked => snode'[n].linked)
    BY DEF Leaves
  <1>2. n \in AllNode BY Typed DEF IInv
  <1>3. snode[n].linked => snode'[n].linked BY <1>2 DEF Swings
  <1>4. PICK p : p = F(t).prevs[F(t).layer] OBVIOUS
  <1>5. pc[t] \in {"link", "bypass"} BY DEF Swings
  <1>6. p \in Listed /\ p \in AllNode /\ Linked(p) /\ Flags(t, p) BY <1>4, <1>5, SwingPlace
  <1>7. n # p
    <2>1. ~Flags(u, p) BY <1>6 DEF IInv, FlagsFollow
    <2>2. ~(Creating(u) /\ F(u).node = p)
      <3>1. Creating(u) /\ F(u).node = p => p \in alloc BY Owned DEF Owns
      <3> QED BY <1>6, <3>1 DEF IInv, NodesFollow
    <2>3. ~(pc[u] = "grab" /\ F(u).at = p) BY <1>4 DEF Swings, Reading
    <2> QED BY <1>1, <2>1, <2>2, <2>3
  <1> QED BY <1>2, <1>3, <1>4, <1>7 DEF Swings

\* Of the layers only that one gets the node, or loses it.
LEMMA SwingIn ==
  ASSUME IInv, NEW t \in Thread, NEW label, Swings(t, label), Alone(t), alloc' = alloc,
         NEW l, l = F(t).layer, NEW m, m = F(t).node, NEW k \in Layer
  PROVE  /\ k # l => In(k)' = In(k)
         /\ k = l => In(k)' = IF pc[t] = "link" THEN In(k) \cup {m} ELSE In(k) \ {m}
         /\ k = l => (m \in In(k) <=> pc[t] = "bypass")
  <1>1. PICK p : p = F(t).prevs[l] OBVIOUS
  <1>2. PICK q : q = F(t).nexts[l] OBVIOUS
  <1>3. pc[t] \in {"link", "bypass"} BY DEF Swings
  <1>4. /\ Owns(t) /\ l \in Layer /\ l \in 0 .. Top(t) /\ Top(t) \in Layer
        /\ m \in alloc /\ m \in Node /\ m \in Listed /\ m \in AllNode /\ ~Linked(m)
        /\ \A j \in Layer : Half(t, j) <=> IF pc[t] = "link" THEN j < l ELSE j >= l
        /\ \A u \in Thread : Owns(u) /\ F(u).node = m => u = t
    BY <1>1, <1>2, <1>3, SwingPlace
  <1>5. Types /\ F(t) \in FrameType BY FrameIs
  <1>6. PICK f : f = [F(t) EXCEPT !.layer = IF F(t).layer < Top(t) THEN F(t).layer + 1
                                            ELSE MaxLayer]
    OBVIOUS
  <1>7. F(t)' = f /\ pc'[t] = label BY <1>5, <1>6, GoFrame DEF Swings
  <1>8. /\ F(t)'.node = m
        /\ F(t)'.layer = IF l < Top(t) THEN l + 1 ELSE MaxLayer
    BY <1>5, <1>6, <1>7 DEF FrameType
  <1>9. \A j \in Layer : j <= Top(t) =>
            (Half(t, j)' <=> IF pc[t] = "link" THEN j < l + 1 ELSE j >= l + 1)
    <2>1. CASE l < Top(t)
      <3>1. label = pc[t] BY <2>1 DEF Swings
      <3>2. pc'[t] = pc[t] /\ F(t)'.layer = l + 1 BY <1>7, <1>8, <2>1, <3>1
      <3> QED BY <1>3, <3>2 DEF Half
    <2>2. CASE ~(l < Top(t))
      <3>1. label = IF pc[t] = "link" THEN "linked" ELSE "eraseCount" BY <2>2 DEF Swings
      <3>2. l = Top(t) BY <1>4, <2>2, LayerAssumption DEF Layer
      <3>3. \A j \in Layer : Half(t, j)' <=> pc[t] = "link" BY <1>3, <1>7, <3>1 DEF Half
      <3>4. \A j \in Layer : j <= Top(t) => j < l + 1 /\ ~(j >= l + 1)
        BY <1>4, <3>2, LayerAssumption DEF Layer
      <3> QED BY <1>3, <3>3, <3>4
    <2> QED BY <2>1, <2>2
  <1>10. alloc \subseteq AllNode BY <1>5, Typed DEF AllNode
  <1>11. \A n \in alloc : snode'[n].top = snode[n].top /\ snode'[n].linked = snode[n].linked
    BY <1>10 DEF Swings
  <1>12. ASSUME NEW n \in alloc, n # m
         PROVE  (\E u \in Thread : Half(u, k) /\ F(u).node = n)' <=>
                (\E u \in Thread : Half(u, k) /\ F(u).node = n)
    <2>1. \A u \in Thread \ {t} : (Half(u, k) /\ F(u).node = n)' <=> Half(u, k) /\ F(u).node = n
      BY OtherThread DEF Alone
    <2>2. ~(Half(t, k) /\ F(t).node = n) /\ ~(Half(t, k) /\ F(t).node = n)' BY <1>8, <1>12
    <2> QED BY <2>1, <2>2
  <1>13. \A n \in alloc \ {m} : n \in In(k)' <=> n \in In(k)
    BY <1>11, <1>12 DEF In, Linked
  <1>14. \A u \in Thread \ {t} : /\ ~(Half(u, k) /\ F(u).node = m)
                                 /\ ~(Half(u, k) /\ F(u).node = m)'
    <2>1. \A u \in Thread \ {t} : ~(Half(u, k) /\ F(u).node = m) BY <1>4, HalfOwns
    <2> QED BY <2>1, OtherThread DEF Alone
  <1>15. m \in In(k) <=> Top(t) >= k /\ Half(t, k)
    <2>1. m \notin {head, tail} BY <1>3, <1>4, Owned
    <2>2. (\E u \in Thread : Half(u, k) /\ F(u).node = m) <=> Half(t, k) BY <1>14
    <2> QED BY <1>4, <2>1, <2>2 DEF In, Top
  <1>16. m \in In(k)' <=> Top(t) >= k /\ Half(t, k)'
    <2>1. m \notin {head, tail} BY <1>3, <1>4, Owned
    <2>2. (\E u \in Thread : Half(u, k) /\ F(u).node = m)' <=> Half(t, k)'
      BY <1>8, <1>14
    <2>3. ~Linked(m)' BY <1>4, <1>11 DEF Linked
    <2>4. snode'[m].top = Top(t) BY <1>4, <1>11 DEF Top
    <2> QED BY <1>4, <2>1, <2>2, <2>3, <2>4 DEF In
  <1>17. In(k) \subseteq alloc \cup {head, tail} /\ In(k)' \subseteq alloc \cup {head, tail}
         /\ {head, tail} \subseteq In(k) /\ {head, tail} \subseteq In(k)'
    BY DEF In
  <1>18. k # l => (m \in In(k)' <=> m \in In(k))
    <2>1. k # l /\ Top(t) >= k => (Half(t, k)' <=> Half(t, k))
      BY <1>4, <1>9, LayerAssumption DEF Layer
    <2> QED BY <1>15, <1>16, <2>1
  <1>19. k = l => /\ m \in In(k)' <=> pc[t] = "link"
                  /\ m \in In(k) <=> pc[t] = "bypass"
    <2>1. l <= Top(t) /\ Top(t) >= l /\ ~(l < l) /\ l < l + 1 /\ ~(l >= l + 1) /\ l >= l
      BY <1>4, LayerAssumption DEF Layer
    <2> QED BY <1>3, <1>4, <1>9, <1>15, <1>16, <2>1
  <1> QED BY <1>3, <1>13, <1>17, <1>18, <1>19

LEMMA SwingFrame ==
  ASSUME IInv, NEW t \in Thread, NEW label, Swings(t, label), NEW l, l = F(t).layer
  PROVE  /\ pc'[t] = label /\ F(t)'.node = F(t).node
         /\ F(t)'.prevs = F(t).prevs /\ F(t)'.nexts = F(t).nexts /\ F(t)'.find = F(t).find
         /\ F(t)'.layer = (IF l < Top(t) THEN l + 1 ELSE MaxLayer)
         /\ \A k \in Layer : k <= Top(t) =>
               (Half(t, k)' <=> IF pc[t] = "link" THEN k < l + 1 ELSE k >= l + 1)
  <1>1. /\ pc[t] \in {"link", "bypass"}
        /\ Go(t, label, [F(t) EXCEPT !.layer = IF F(t).layer < Top(t) THEN F(t).layer + 1
                                               ELSE MaxLayer])
    BY DEF Swings
  <1>2. PICK m : m = F(t).node OBVIOUS
  <1>3. PICK p : p = F(t).prevs[l] OBVIOUS
  <1>4. PICK q : q = F(t).nexts[l] OBVIOUS
  <1>5. l \in Layer /\ l \in 0 .. Top(t) /\ Top(t) \in Layer BY <1>1, <1>2, <1>3, <1>4, SwingPlace
  <1>6. Types /\ F(t) \in FrameType BY FrameIs
  <1>7. PICK f : f = [F(t) EXCEPT !.layer = IF F(t).layer < Top(t) THEN F(t).layer + 1
                                            ELSE MaxLayer]
    OBVIOUS
  <1>8. F(t)' = f /\ pc'[t] = label BY <1>1, <1>6, <1>7, GoFrame
  <1>9. /\ f.node = F(t).node /\ f.prevs = F(t).prevs /\ f.nexts = F(t).nexts
        /\ f.find = F(t).find
        /\ f.layer = (IF l < Top(t) THEN l + 1 ELSE MaxLayer)
    BY ONLY <1>6, <1>7, l = F(t).layer DEF FrameType
  <1>10. \A j \in Layer : j <= Top(t) =>
            (Half(t, j)' <=> IF pc[t] = "link" THEN j < l + 1 ELSE j >= l + 1)
    <2>1. CASE l < Top(t)
      <3>1. label = pc[t] BY <2>1 DEF Swings
      <3>2. pc'[t] = pc[t] /\ F(t)'.layer = l + 1 BY <1>8, <1>9, <2>1, <3>1
      <3> QED BY <1>1, <3>2 DEF Half
    <2>2. CASE ~(l < Top(t))
      <3>1. label = IF pc[t] = "link" THEN "linked" ELSE "eraseCount" BY <2>2 DEF Swings
      <3>2. l = Top(t) BY <1>5, <2>2, LayerAssumption DEF Layer
      <3>3. \A j \in Layer : Half(t, j)' <=> pc[t] = "link" BY <1>1, <1>8, <3>1 DEF Half
      <3>4. \A j \in Layer : j <= Top(t) => j < l + 1 /\ ~(j >= l + 1)
        BY <1>5, <3>2, LayerAssumption DEF Layer
      <3> QED BY <1>1, <3>3, <3>4
    <2> QED BY <2>1, <2>2
  <1> QED BY <1>8, <1>9, <1>10

LEMMA SwingSettled ==
  ASSUME IInv, NEW t \in Thread, NEW label, Swings(t, label), NEW S, Writes(t, S), Leaves(t),
         Top(t)' = Top(t)
  PROVE  SettledFits(t)'
  <1>1. PICK l : l = F(t).layer OBVIOUS
  <1>2. PICK m : m = F(t).node OBVIOUS
  <1>3. PICK p : p = F(t).prevs[l] OBVIOUS
  <1>4. PICK q : q = F(t).nexts[l] OBVIOUS
  <1>5. pc[t] \in {"link", "bypass"} BY DEF Swings
  <1>6. /\ Owns(t) /\ l \in Layer /\ l \in 0 .. Top(t) /\ Top(t) \in Layer
        /\ m \in Listed /\ m \in AllNode /\ p # m /\ p \in AllNode
        /\ pc[t] = "link" => Creating(t)
        /\ pc[t] = "bypass" => ~Inserts(t)
        /\ \A k \in Layer : Half(t, k) <=> IF pc[t] = "link" THEN k < l ELSE k >= l
    BY <1>1, <1>2, <1>3, <1>4, <1>5, SwingPlace
  <1>7. /\ pc'[t] = label /\ F(t)'.node = F(t).node
        /\ F(t)'.prevs = F(t).prevs /\ F(t)'.nexts = F(t).nexts /\ F(t)'.find = F(t).find
        /\ F(t)'.layer = (IF l < Top(t) THEN l + 1 ELSE MaxLayer)
        /\ \A k \in Layer : k <= Top(t) =>
              (Half(t, k)' <=> IF pc[t] = "link" THEN k < l + 1 ELSE k >= l + 1)
    BY <1>1, SwingFrame
  <1>8. /\ \A n \in Listed : n \in AllNode
        /\ \A a, b \in Listed : Less(a, b)' <=> Less(a, b)
    BY WritesSpare
  <1>9. /\ \A n \in AllNode : n # p => snode'[n].next = snode[n].next
        /\ \A n \in AllNode, k \in Layer \ {l} : snode'[n].next[k] = snode[n].next[k]
        /\ snode'[p].next[l] = IF pc[t] = "link" THEN m ELSE q
    BY <1>1, <1>2, <1>3, <1>4 DEF Swings
  <1>10. Where(t) = pc[t] /\ Where(t)' = label /\ label \in {"link", "linked", "bypass", "eraseCount"}
         /\ (pc[t] = "link" => label \in {"link", "linked"})
         /\ (pc[t] = "bypass" => label \in {"bypass", "eraseCount"})
    <2>1. (pc[t] = "link" => label \in {"link", "linked"})
          /\ (pc[t] = "bypass" => label \in {"bypass", "eraseCount"})
      BY DEF Swings
    <2> QED BY <1>5, <1>7, <2>1 DEF Where, Calling
  <1>11. Settled(t) = 0 .. Top(t) BY <1>5, <1>10, LayersAt
  <1>12. CASE label = "eraseCount" BY <1>10, <1>12, LayersAt DEF SettledFits
  <1>13. CASE label # "eraseCount"
    <2>1. Settled(t)' = 0 .. Top(t) BY <1>10, <1>13, LayersAt
    <2>2. SUFFICES ASSUME NEW k \in 0 .. Top(t)
                   PROVE  /\ F(t).nexts[k] \in Node \cup {tail}
                          /\ Less(F(t).node, F(t).nexts[k])'
                          /\ NextIn(m, k)' = F(t).nexts[k]
                          /\ NextIn(F(t).prevs[k], k)' =
                                IF Half(t, k)' \/ (~Inserts(t)' /\ pc'[t] # "bypass")
                                THEN m ELSE F(t).nexts[k]
      BY <1>2, <1>7, <2>1 DEF SettledFits, NextIn
    <2>3. k \in Layer /\ k <= Top(t) BY <1>6, LayerAssumption DEF Layer
    <2>4. PICK x : x = F(t).nexts[k] OBVIOUS
    <2>5. PICK r : r = F(t).prevs[k] OBVIOUS
    <2>6. SettledFits(t) BY DEF IInv, Fits
    <2>7. /\ x \in Node \cup {tail} /\ NextIn(m, k) = x
          /\ NextIn(r, k) = IF Half(t, k) \/ (~Inserts(t) /\ pc[t] # "bypass") THEN m ELSE x
      BY <1>2, <1>11, <2>4, <2>5, <2>6 DEF SettledFits
    <2>8. x \in Listed /\ Less(m, x) /\ r \in In(k) BY <1>2, <1>11, <2>4, <2>5, SettledIn
    <2>9. r \in AllNode BY <1>8, <2>3, <2>8, InListed
    <2>10. Less(F(t).node, F(t).nexts[k])'
      <3>1. Less(m, x)' BY <1>6, <1>8, <2>8
      <3>2. F(t)'.node = m /\ F(t)'.nexts[k] = x BY <1>2, <1>7, <2>4
      <3> QED BY <3>1, <3>2 DEF Less
    <2>11. NextIn(m, k)' = x BY <1>6, <1>9, <2>7 DEF NextIn
    <2>12. pc[t] = "bypass" => pc'[t] = "bypass" /\ ~Inserts(t)' BY <1>6, <1>7, <1>10, <1>13 DEF Inserts
    <2>13. pc[t] = "link" => Inserts(t) /\ Inserts(t)'
      <3>1. pc[t] = "link" => Inserts(t) BY <1>10 DEF IInv, Fits, LocalsFit
      <3> QED BY <1>7, <3>1 DEF Inserts
    <2>14. NextIn(r, k)' = IF Half(t, k)' THEN m ELSE x
      <3>1. CASE k = l
        <4>1. r = p /\ x = q BY <1>3, <1>4, <2>4, <2>5, <3>1
        <4>2. Half(t, k)' <=> pc[t] = "link"
          <5>1. l < l + 1 /\ ~(l >= l + 1) BY <1>6, LayerAssumption DEF Layer
          <5> QED BY <1>7, <2>3, <3>1, <5>1
        <4> QED BY <1>9, <3>1, <4>1, <4>2 DEF NextIn
      <3>2. CASE k # l
        <4>1. Half(t, k)' <=> Half(t, k)
          <5>1. (k < l + 1 <=> k < l) /\ (k >= l + 1 <=> k >= l)
            BY <1>6, <2>3, <3>2, LayerAssumption DEF Layer
          <5> QED BY <1>6, <1>7, <2>3, <5>1
        <4>2. NextIn(r, k)' = NextIn(r, k) BY <1>9, <2>3, <2>9, <3>2 DEF NextIn
        <4>3. NextIn(r, k) = IF Half(t, k) THEN m ELSE x BY <1>5, <2>7, <2>13
        <4> QED BY <4>1, <4>2, <4>3
      <3> QED BY <3>1, <3>2
    <2>15. Half(t, k)' \/ (~Inserts(t)' /\ pc'[t] # "bypass") <=> Half(t, k)'
      BY <1>5, <2>12, <2>13
    <2>16. NextIn(F(t).prevs[k], k)' = NextIn(r, k)' BY <1>7, <2>5 DEF NextIn
    <2>17. /\ F(t).nexts[k] \in Node \cup {tail} /\ NextIn(m, k)' = F(t).nexts[k]
           /\ NextIn(F(t).prevs[k], k)' = IF Half(t, k)' THEN m ELSE F(t).nexts[k]
      BY <2>4, <2>7, <2>11, <2>14, <2>16
    <2> QED BY <2>10, <2>15, <2>17
  <1> QED BY <1>12, <1>13

LEMMA SwingStep ==
  ASSUME IInv, NEW t \in Thread, NEW label, Swings(t, label), UNCHANGED <<alloc, slist>>,
         UNCHANGED jobs
  PROVE  IInv'
  <1>1. PICK l : l = F(t).layer OBVIOUS
  <1>2. PICK m : m = F(t).node OBVIOUS
  <1>3. PICK p : p = F(t).prevs[l] OBVIOUS
  <1>4. PICK q : q = F(t).nexts[l] OBVIOUS
  <1>5. PICK S : S = {} OBVIOUS
  <1>6. PICK f : f = [F(t) EXCEPT !.layer = IF F(t).layer < Top(t) THEN F(t).layer + 1
                                            ELSE MaxLayer]
    OBVIOUS
  <1>7. pc[t] \in {"link", "bypass"} BY DEF Swings
  <1>8. /\ Owns(t) /\ l \in Layer /\ l \in 0 .. Top(t) /\ Top(t) \in Layer
        /\ m \in alloc /\ m \in Node /\ m \in Listed /\ m \in AllNode /\ m # tail
        /\ p \in In(l) /\ p # tail /\ p \in Listed /\ p \in AllNode
        /\ q \in In(l) /\ q \in Listed /\ q \in Link
        /\ Less(p, m) /\ Less(m, q) /\ NextIn(m, l) = q /\ p # m
        /\ pc[t] = "link" => Creating(t) /\ NextIn(p, l) = q
        /\ pc[t] = "bypass" => Erased(t) /\ ~Inserts(t) /\ NextIn(p, l) = m
    BY <1>1, <1>2, <1>3, <1>4, <1>7, SwingPlace
  <1>9. /\ pc'[t] = label /\ F(t)'.node = F(t).node
        /\ F(t)'.prevs = F(t).prevs /\ F(t)'.nexts = F(t).nexts /\ F(t)'.find = F(t).find
        /\ F(t)'.layer = (IF l < Top(t) THEN l + 1 ELSE MaxLayer)
    BY <1>1, SwingFrame
  <1>10. /\ label \in {"link", "linked", "bypass", "eraseCount"}
         /\ pc[t] = "link" => label \in {"link", "linked"}
         /\ pc[t] = "bypass" => label \in {"bypass", "eraseCount"}
         /\ label \in {"link", "bypass"} => l < Top(t)
         /\ label \in {"linked", "eraseCount"} => ~(l < Top(t))
         /\ Go(t, label, f)
    BY <1>1, <1>6 DEF Swings
  <1>11. /\ snode' \in [AllNode -> NodeType]
         /\ \A n \in AllNode : /\ snode'[n].key = snode[n].key /\ snode'[n].top = snode[n].top
                               /\ snode'[n].refs = snode[n].refs
                               /\ snode'[n].linked = snode[n].linked
                               /\ snode'[n].removed = snode[n].removed
                               /\ snode'[n].modified = snode[n].modified
                               /\ snode'[n].writing = snode[n].writing
                               /\ n # p => snode'[n].next = snode[n].next
         /\ \A n \in AllNode, k \in Layer \ {l} : snode'[n].next[k] = snode[n].next[k]
         /\ snode'[p].next[l] = IF pc[t] = "link" THEN m ELSE q
    BY <1>1, <1>2, <1>3, <1>4 DEF Swings
  <1>12. (IF F(t).layer < Top(t) THEN F(t).layer + 1 ELSE MaxLayer) \in Layer
    BY <1>1, <1>8, LayerAssumption DEF Layer
  <1>13. F(t) \in FrameType /\ Types BY FrameIs
  <1>14. f \in FrameType BY ONLY <1>6, <1>12, <1>13 DEF FrameType
  <1>15. Writes(t, S) /\ Alone(t)
    <2>1. Go(t, label, f) /\ label \in LabelNames \ {"undefined"} BY <1>10 DEF LabelNames
    <2>2. slist' \in [entries : Int, layers : [Layer -> Int], top : {MaxLayer}]
      BY <1>13 DEF Types
    <2>3. IInv /\ t \in Thread /\ alloc' = alloc /\ UNCHANGED jobs OBVIOUS
    <2>4. \A n \in {head, tail} : /\ snode'[n].linked = snode[n].linked
                                  /\ snode'[n].writing = snode[n].writing
                                  /\ snode'[n].removed = snode[n].removed
      BY <1>11 DEF AllNode
    <2> QED BY ONLY <1>5, <1>11, <1>14, <2>1, <2>2, <2>3, <2>4, WriteGo
  <1>16. Leaves(t) BY SwingLeaves
  <1>17. Changes(t)
    <2>1. \E k \in Layer : F(t)' = [F(t) EXCEPT !.layer = k]
      <3>1. F(t)' = f BY <1>10, <1>13, GoFrame
      <3> QED BY <1>6, <1>12, <3>1
    <2>2. pc'[t] \in {"link", "bypass"} => F(t)'.layer <= Top(t)
      <3>1. l < Top(t) => l + 1 <= Top(t) BY <1>8, LayerAssumption DEF Layer
      <3> QED BY <1>9, <1>10, <3>1
    <2>3. pc'[t] \in {"linked", "insertCount", "eraseCount", "scan"} => F(t)'.layer = MaxLayer
      BY <1>9, <1>10
    <2> QED BY <1>7, <1>9, <1>10, <1>11, <2>1, <2>2, <2>3 DEF Changes
  <1>18. /\ OwnsRightly(t) /\ HoldsOn(t, S) /\ FlagsMove(t)
         /\ LocalsFit(t)' /\ CurFits(t)' /\ NextFits(t)' /\ FoundFits(t)' /\ AgainFits(t)'
         /\ PlaceFits(t)' /\ FlagsFit(t)'
         /\ Top(t)' = Top(t) /\ Spares(t, {}) /\ Listed' = Listed
         /\ \A n \in Listed : n \in AllNode /\ Keeps(n)
         /\ \A a, b \in Listed : Less(a, b)' <=> Less(a, b)
    BY <1>5, <1>15, <1>16, <1>17, ChangesOn
  <1>19. /\ Creating(t)' <=> Creating(t)
         /\ Marked(t)' <=> Marked(t)
         /\ Erased(t)' <=> Erased(t)
         /\ Owns(t)'
    <2>1. /\ Creating(t) <=> pc[t] \in {"link", "linked"}
          /\ Marked(t) <=> pc[t] = "unlink"
          /\ Erased(t) <=> pc[t] \in {"bypass", "eraseCount"}
          /\ Creating(t)' <=> pc'[t] \in {"link", "linked"}
          /\ ~Marked(t)'
          /\ Erased(t)' <=> pc'[t] \in {"bypass", "eraseCount"}
                              \/ (pc'[t] = "scan" /\ ~Inserts(t))
      BY <1>17, ChangesFrame
    <2> QED BY <1>7, <1>9, <1>10, <2>1 DEF Owns, Erases
  <1>20. SaysOn(t)
    <2>1. Says(t, m) BY <1>2, <1>8, OwnSays
    <2>2. Says(t, F(t).node)' BY <1>2, <1>8, <1>9, <1>11, <1>19, <2>1 DEF Says, Linked
    <2>3. alloc \subseteq AllNode BY <1>13, Typed DEF AllNode
    <2> QED BY <1>9, <1>11, <1>19, <2>2, <2>3 DEF SaysOn
  <1>21. \A k \in Layer :
           /\ k # l => In(k)' = In(k)
           /\ k = l => In(k)' = IF pc[t] = "link" THEN In(k) \cup {m} ELSE In(k) \ {m}
           /\ k = l => (m \in In(k) <=> pc[t] = "bypass")
    BY <1>1, <1>2, <1>15, SwingIn
  <1>22. ASSUME NEW k \in Layer PROVE SortedAt(k)'
    <2>1. \A n \in In(k) : n \in AllNode BY <1>18, InListed
    <2>2. CASE k # l
      <3>1. \A n \in In(k) : NextIn(n, k)' = NextIn(n, k) BY <1>11, <2>1, <2>2 DEF NextIn
      <3> QED BY <1>18, <1>21, <2>2, <3>1, SortedSame
    <2>3. CASE k = l
      <3>1. \A n \in In(l) \ {p} : NextIn(n, l)' = NextIn(n, l) BY <1>11, <2>1, <2>3 DEF NextIn
      <3>2. NextIn(p, l)' = (IF pc[t] = "link" THEN m ELSE q) /\ NextIn(m, l)' = q
        BY <1>8, <1>11 DEF NextIn
      <3>3. CASE pc[t] = "link"
        <4>1. In(l)' = In(l) \cup {m} /\ m \notin In(l) BY <1>8, <1>21, <3>3
        <4> QED BY <1>8, <1>18, <2>3, <3>1, <3>2, <3>3, <4>1, SortedMore
      <3>4. CASE pc[t] = "bypass"
        <4>1. In(l)' = In(l) \ {m} /\ m \in In(l) BY <1>8, <1>21, <3>4
        <4> QED BY <1>8, <1>18, <2>3, <3>1, <3>2, <3>4, <4>1, SortedFewer
      <3> QED BY <1>7, <3>3, <3>4
    <2> QED BY <2>2, <2>3
  <1>23. Sorted' BY <1>22 DEF Sorted, SortedAt
  <1>24. CountersFollow'
    <2>1. alloc' = alloc /\ alloc \subseteq AllNode BY <1>13, Typed DEF AllNode
    <2>2. \A n : /\ Uncounted({"insertCount"}, n)' <=> Uncounted({"insertCount"}, n)
                 /\ Uncounted({"bypass", "eraseCount"}, n)' <=> Uncounted({"bypass", "eraseCount"}, n)
      BY <1>7, <1>9, <1>10, <1>15 DEF Uncounted, Alone
    <2>3. Counted' = Counted BY <1>11, <2>1, <2>2 DEF Counted
    <2>4. \A n \in Counted : snode'[n].top = snode[n].top BY <1>11, <2>1 DEF Counted
    <2> QED BY <2>3, <2>4, CountersStep
  <1>25. \A n \in Listed : Linked(n) /\ snode[n].key = SentinelKey => snode'[n].linked
    BY <1>11, <1>18 DEF Linked
  <1>26. SettledFits(t)' BY <1>15, <1>16, <1>18, SwingSettled
  <1>27. Fits(t)' BY <1>18, <1>26 DEF Fits
  <1>28. IInv /\ t \in Thread OBVIOUS
  <1> QED BY ONLY <1>15, <1>16, <1>18, <1>20, <1>23, <1>24, <1>25, <1>27, <1>28, WriteStep

LEMMA SwingIs ==
  ASSUME IInv, NEW t \in Thread, pc[t] \in {"link", "bypass"}, NEW from, NEW to \in Link,
         Swing(t, from, to), NextIn(F(t).prevs[F(t).layer], F(t).layer) = from,
         to = (IF pc[t] = "link" THEN F(t).node ELSE F(t).nexts[F(t).layer]),
         NextLayerOr(t, IF pc[t] = "link" THEN "linked" ELSE "eraseCount"),
         UNCHANGED <<alloc, slist>>, UNCHANGED jobs
  PROVE  IInv'
  <1>1. PICK l : l = F(t).layer OBVIOUS
  <1>2. PICK m : m = F(t).node OBVIOUS
  <1>3. PICK p : p = F(t).prevs[l] OBVIOUS
  <1>4. PICK q : q = F(t).nexts[l] OBVIOUS
  <1>5. l \in Layer /\ p \in AllNode BY <1>1, <1>2, <1>3, <1>4, SwingPlace
  <1>6. /\ snode \in [AllNode -> NodeType] /\ snode[p] \in NodeType
        /\ snode[p].next \in [Layer -> Link]
    <2>1. snode \in [AllNode -> NodeType] BY DEF IInv, Types
    <2>2. snode[p] \in NodeType BY <1>5, <2>1
    <2> QED BY <2>1, <2>2 DEF NodeType
  <1>7. ~Reading(p) BY <1>1, <1>3 DEF Swing, Writable
  <1>8. snode' = [snode EXCEPT ![p].next[l] = to]
    BY <1>1, <1>3 DEF Swing, NextIn
  <1>9. PICK g : g = [snode[p].next EXCEPT ![l] = to] OBVIOUS
  <1>10. g \in [Layer -> Link] /\ g[l] = to /\ \A k \in Layer \ {l} : g[k] = snode[p].next[k]
    BY ONLY <1>5, <1>6, <1>9, to \in Link
  <1>11. PICK r : r = [snode[p] EXCEPT !.next = g] OBVIOUS
  <1>12. /\ r \in NodeType /\ r.key = snode[p].key /\ r.top = snode[p].top
         /\ r.refs = snode[p].refs /\ r.removed = snode[p].removed
         /\ r.modified = snode[p].modified /\ r.next = g
         /\ r.linked = snode[p].linked /\ r.writing = snode[p].writing
    BY ONLY <1>6, <1>10, <1>11 DEF NodeType
  <1>13. snode' = [snode EXCEPT ![p] = r] BY <1>8, <1>9, <1>11
  <1>14. /\ snode' \in [AllNode -> NodeType] /\ snode'[p] = r
         /\ \A n \in AllNode \ {p} : snode'[n] = snode[n]
    BY ONLY <1>5, <1>6, <1>12, <1>13
  <1>15. \A n \in AllNode : /\ snode'[n].key = snode[n].key /\ snode'[n].top = snode[n].top
                            /\ snode'[n].refs = snode[n].refs
                            /\ snode'[n].linked = snode[n].linked
                            /\ snode'[n].removed = snode[n].removed
                            /\ snode'[n].modified = snode[n].modified
                            /\ snode'[n].writing = snode[n].writing
                            /\ n # p => snode'[n].next = snode[n].next
                            /\ \A k \in Layer \ {l} : snode'[n].next[k] = snode[n].next[k]
    BY ONLY <1>10, <1>12, <1>14
  <1>16. snode'[p].next[l] = to BY ONLY <1>10, <1>12, <1>14
  <1>17. PICK label : label = (IF l < Top(t) THEN pc[t]
                               ELSE IF pc[t] = "link" THEN "linked" ELSE "eraseCount") OBVIOUS
  <1>18. Go(t, label, [F(t) EXCEPT !.layer = IF F(t).layer < Top(t) THEN F(t).layer + 1
                                             ELSE MaxLayer])
    BY <1>1, <1>17 DEF NextLayerOr
  <1>19. \/ pc[t] = "link" /\ label = (IF F(t).layer < Top(t) THEN "link" ELSE "linked")
         \/ pc[t] = "bypass" /\ label = (IF F(t).layer < Top(t) THEN "bypass" ELSE "eraseCount")
    BY <1>1, <1>17
  <1>20. Swings(t, label)
    BY <1>1, <1>3, <1>7, <1>14, <1>15, <1>16, <1>18, <1>19 DEF Swings
  <1> QED BY <1>20, SwingStep

LEMMA InsertLinkStep ==
  ASSUME IInv, NEW t \in Thread, InsertLink(t), UNCHANGED jobs
  PROVE  IInv'
  <1>1. /\ pc[t] = "link" /\ Swing(t, F(t).nexts[F(t).layer], F(t).node)
        /\ NextLayerOr(t, "linked") /\ UNCHANGED <<alloc, slist>>
    BY DEF InsertLink
  <1>2. PICK l : l = F(t).layer OBVIOUS
  <1>3. PICK m : m = F(t).node OBVIOUS
  <1>4. PICK p : p = F(t).prevs[l] OBVIOUS
  <1>5. PICK q : q = F(t).nexts[l] OBVIOUS
  <1>6. m \in Node /\ NextIn(p, l) = q BY <1>1, <1>2, <1>3, <1>4, <1>5, SwingPlace
  <1>7. m \in Link BY <1>6 DEF Link, AllNode
  <1>8. Swing(t, q, m) BY <1>1, <1>2, <1>3, <1>5
  <1>9. NextIn(F(t).prevs[F(t).layer], F(t).layer) = q BY <1>2, <1>4, <1>6
  <1>10. /\ m = (IF pc[t] = "link" THEN F(t).node ELSE F(t).nexts[F(t).layer])
         /\ NextLayerOr(t, IF pc[t] = "link" THEN "linked" ELSE "eraseCount")
         /\ pc[t] \in {"link", "bypass"}
    BY <1>1, <1>3
  <1>11. IInv /\ t \in Thread /\ UNCHANGED jobs OBVIOUS
  <1> QED BY ONLY <1>1, <1>7, <1>8, <1>9, <1>10, <1>11, SwingIs

LEMMA EraseBypassStep ==
  ASSUME IInv, NEW t \in Thread, EraseBypass(t), UNCHANGED jobs
  PROVE  IInv'
  <1>1. /\ pc[t] = "bypass" /\ Swing(t, F(t).node, F(t).nexts[F(t).layer])
        /\ NextLayerOr(t, "eraseCount") /\ UNCHANGED <<alloc, slist>>
    BY DEF EraseBypass
  <1>2. PICK l : l = F(t).layer OBVIOUS
  <1>3. PICK m : m = F(t).node OBVIOUS
  <1>4. PICK p : p = F(t).prevs[l] OBVIOUS
  <1>5. PICK q : q = F(t).nexts[l] OBVIOUS
  <1>6. q \in Link /\ NextIn(p, l) = m BY <1>1, <1>2, <1>3, <1>4, <1>5, SwingPlace
  <1>8. Swing(t, m, q) BY <1>1, <1>2, <1>3, <1>5
  <1>9. NextIn(F(t).prevs[F(t).layer], F(t).layer) = m BY <1>2, <1>4, <1>6
  <1>10. /\ q = (IF pc[t] = "link" THEN F(t).node ELSE F(t).nexts[F(t).layer])
         /\ NextLayerOr(t, IF pc[t] = "link" THEN "linked" ELSE "eraseCount")
         /\ pc[t] \in {"link", "bypass"}
    BY <1>1, <1>2, <1>5
  <1>11. IInv /\ t \in Thread /\ UNCHANGED jobs OBVIOUS
  <1> QED BY ONLY <1>1, <1>6, <1>8, <1>9, <1>10, <1>11, SwingIs

\* One more is counted, or one less.
LEMMA CardinalityMoved ==
  ASSUME NEW A, IsFiniteSet(A), NEW B, NEW m, NEW c \in {1, -1},
         IF c = 1 THEN m \notin A /\ B = A \cup {m} ELSE m \in A /\ B = A \ {m}
  PROVE  Cardinality(B) = Cardinality(A) + c
  <1>1. CASE c = 1 BY <1>1, FS_AddElement
  <1>2. CASE c = -1
    <2>1. m \in A /\ B = A \ {m} BY <1>2
    <2>2. Cardinality(B) = Cardinality(A) - 1 BY <2>1, FS_RemoveElement
    <2>3. Cardinality(A) \in Nat BY FS_CardinalityType
    <2> QED BY <1>2, <2>2, <2>3
  <1> QED BY <1>1, <1>2

\* The node that is counted is in the sum after the step, and not before it, or the
\* other way round.
LEMMA CountedMoved ==
  ASSUME IInv, NEW t \in Thread, NEW c \in {1, -1}, NEW m, m = F(t).node,
         IF c = 1 THEN pc[t] = "insertCount" ELSE pc[t] = "eraseCount",
         Alone(t), pc'[t] = "scan", UNCHANGED <<snode, alloc>>
  PROVE  /\ IF c = 1 THEN m \notin Counted /\ Counted' = Counted \cup {m}
                     ELSE m \in Counted /\ Counted' = Counted \ {m}
         /\ m \in alloc
  <1>1. Owns(t) /\ m \in alloc
    <2>1. Owns(t) BY DEF Owns, Erases, Created, Erased, Where, Calling
    <2> QED BY <2>1, Owned
  <1>2. \A u \in Thread : F(u).node = m /\ pc[u] \in {"insertCount", "bypass", "eraseCount"}
            => u = t
    <2>1. \A u \in Thread : pc[u] \in {"insertCount", "bypass", "eraseCount"} => Owns(u)
      BY DEF Owns, Erases, Created, Erased, Where, Calling
    <2> QED BY <1>1, <2>1, Owned
  <1>3. ASSUME NEW labels \in {{"insertCount"}, {"bypass", "eraseCount"}}
        PROVE  \A n : n # m => (Uncounted(labels, n)' <=> Uncounted(labels, n))
    <2>1. "scan" \notin labels BY <1>3
    <2> QED BY <1>1, <2>1 DEF Uncounted, Alone
  <1>4. /\ Uncounted({"insertCount"}, m) <=> c = 1
        /\ Uncounted({"bypass", "eraseCount"}, m) <=> c = -1
    BY <1>2 DEF Uncounted
  <1>5. ~Uncounted({"insertCount"}, m)' /\ ~Uncounted({"bypass", "eraseCount"}, m)'
    BY <1>2 DEF Uncounted, Alone
  <1>6. Linked(m) <=> c = 1
    <2>1. Says(t, m) BY <1>1, OwnSays
    <2>2. (Creating(t) \/ Erased(t)) <=> c = -1
      BY DEF Creating, Erased, Where, Calling, Placing, Updating
    <2>3. ~Linked(m) <=> Creating(t) \/ Erased(t) BY <2>1 DEF Says
    <2> QED BY <2>2, <2>3
  <1>7. \A n \in alloc : n # m => (n \in Counted' <=> n \in Counted)
    BY <1>3 DEF Counted
  <1>8. Counted \subseteq alloc /\ Counted' \subseteq alloc BY DEF Counted
  <1>9. m \in Counted <=> c = -1 BY <1>1, <1>4, <1>6 DEF Counted, Linked
  <1>10. m \in Counted' <=> c = 1 BY <1>1, <1>5, <1>6 DEF Counted, Linked
  <1> QED BY <1>1, <1>7, <1>8, <1>9, <1>10

LEMMA CountStep ==
  ASSUME IInv, NEW t \in Thread, NEW c \in {1, -1},
         IF c = 1 THEN pc[t] = "insertCount" ELSE pc[t] = "eraseCount",
         Count(t, c), Go(t, "scan", F(t)), UNCHANGED <<snode, alloc>>, UNCHANGED jobs
  PROVE  IInv'
  <1>1. pc[t] \in {"insertCount", "eraseCount"} OBVIOUS
  <1>2. PICK m : m = F(t).node OBVIOUS
  <1>3. PICK f : f = F(t) OBVIOUS
  <1>4. PICK S : S = {} OBVIOUS
  <1>5. PICK k : k = Top(t) OBVIOUS
  <1>6. Owns(t) /\ m \in alloc /\ m \in AllNode /\ k \in Layer /\ k = snode[m].top
    <2>1. Owns(t) BY <1>1 DEF Owns, Erases, Created, Erased, Where, Calling
    <2> QED BY <1>2, <1>5, <2>1, Owned DEF Top
  <1>7. f \in FrameType /\ Types /\ f.layer \in Layer BY <1>3, FrameIs
  <1>8. /\ slist' \in [entries : Int, layers : [Layer -> Int], top : {MaxLayer}]
        /\ slist'.entries = slist.entries + c
        /\ slist'.layers[k] = slist.layers[k] + c
        /\ \A j \in Layer \ {k} : slist'.layers[j] = slist.layers[j]
    <2>1. slist \in [entries : Int, layers : [Layer -> Int], top : {MaxLayer}]
      BY <1>7 DEF Types
    <2>2. slist' = [slist EXCEPT !.entries = slist.entries + c,
                                 !.layers = [slist.layers EXCEPT ![k] = slist.layers[k] + c]]
      BY <1>5, <2>1 DEF Count
    <2>3. c \in Int OBVIOUS
    <2>4. PICK e : e = slist.entries + c OBVIOUS
    <2>5. PICK a : a = slist.layers[k] + c OBVIOUS
    <2>6. PICK g : g = [slist.layers EXCEPT ![k] = a] OBVIOUS
    <2>7. slist.entries \in Int /\ slist.layers \in [Layer -> Int] BY ONLY <2>1
    <2>8. slist.layers[k] \in Int BY ONLY <1>6, <2>7
    <2>9. e \in Int /\ a \in Int BY ONLY <2>3, <2>4, <2>5, <2>7, <2>8
    <2>10. g \in [Layer -> Int] /\ g[k] = a /\ \A j \in Layer \ {k} : g[j] = slist.layers[j]
      BY ONLY <1>6, <2>6, <2>7, <2>9
    <2>11. slist' = [slist EXCEPT !.entries = e, !.layers = g]
      BY ONLY <2>2, <2>4, <2>5, <2>6
    <2>12. /\ slist' \in [entries : Int, layers : [Layer -> Int], top : {MaxLayer}]
           /\ slist'.entries = e /\ slist'.layers = g
      BY ONLY <2>1, <2>9, <2>10, <2>11
    <2> QED BY ONLY <2>4, <2>5, <2>10, <2>12
  <1>9. Writes(t, S) /\ Alone(t) /\ F(t)' = f /\ pc'[t] = "scan"
    <2>1. Go(t, "scan", f) /\ "scan" \in LabelNames \ {"undefined"} BY <1>3 DEF LabelNames
    <2>2. snode' = snode /\ snode' \in [AllNode -> NodeType] BY <1>7 DEF Types
    <2>3. IInv /\ t \in Thread /\ alloc' = alloc /\ UNCHANGED jobs OBVIOUS
    <2>4. /\ \A n \in AllNode : /\ snode'[n].key = snode[n].key /\ snode'[n].top = snode[n].top
                                /\ snode'[n].refs = snode[n].refs
          /\ \A n \in {head, tail} : /\ snode'[n].linked = snode[n].linked
                                     /\ snode'[n].writing = snode[n].writing
                                     /\ snode'[n].removed = snode[n].removed
      BY <2>2
    <2> QED BY ONLY <1>4, <1>7, <1>8, <2>1, <2>2, <2>3, <2>4, WriteGo
  <1>10. Leaves(t) BY DEF Leaves
  <1>11. Where(t) = pc[t] /\ f.layer = MaxLayer
    <2>1. LocalsFit(t) BY DEF IInv, Fits
    <2>2. Where(t) = pc[t] BY <1>1 DEF Where, Calling
    <2> QED BY <1>1, <1>3, <2>1, <2>2 DEF LocalsFit
  <1>12. Changes(t)
    <2>1. F(t)' = [F(t) EXCEPT !.layer = f.layer]
      <3>1. f = [f EXCEPT !.layer = f.layer] BY ONLY <1>7 DEF FrameType
      <3> QED BY <1>3, <1>9, <3>1
    <2> QED BY <1>1, <1>7, <1>9, <1>11, <2>1 DEF Changes
  <1>13. /\ OwnsRightly(t) /\ HoldsOn(t, S) /\ FlagsMove(t)
         /\ LocalsFit(t)' /\ CurFits(t)' /\ NextFits(t)' /\ FoundFits(t)' /\ AgainFits(t)'
         /\ PlaceFits(t)' /\ FlagsFit(t)'
         /\ Top(t)' = Top(t) /\ Spares(t, {})
         /\ \A n \in Listed : n \in AllNode /\ Keeps(n)
    BY <1>4, <1>9, <1>10, <1>12, ChangesOn
  <1>14. SaysOn(t)
    <2>1. Says(t, m) BY <1>2, <1>6, OwnSays
    <2>2. /\ Creating(t)' <=> Creating(t)
          /\ Marked(t)' <=> Marked(t)
          /\ Erased(t)' <=> Erased(t)
          /\ F(t)'.node = m
      <3>1. /\ Creating(t) <=> pc[t] \in {"link", "linked"}
            /\ Marked(t) <=> pc[t] = "unlink"
            /\ Erased(t) <=> pc[t] \in {"bypass", "eraseCount"}
            /\ Creating(t)' <=> pc'[t] \in {"link", "linked"}
            /\ ~Marked(t)'
            /\ Erased(t)' <=> pc'[t] \in {"bypass", "eraseCount"}
                                \/ (pc'[t] = "scan" /\ ~Inserts(t))
            /\ pc[t] = "insertCount" => Inserts(t)
            /\ pc[t] = "eraseCount" => ~Inserts(t)
        BY <1>12, ChangesFrame
      <3> QED BY <1>1, <1>2, <1>3, <1>9, <3>1
    <2>3. Says(t, F(t).node)' BY <1>6, <2>1, <2>2 DEF Says, Linked
    <2>4. Owns(t)'
      BY <1>1, <1>9 DEF Owns, Erases, Created, Erased, Where, Calling, Updating
    <2> QED BY <1>2, <2>2, <2>3, <2>4 DEF SaysOn
  <1>15. Sorted'
    <2>1. \A l \in Layer : ~Half(t, l) /\ ~Half(t, l)' BY <1>1, <1>9 DEF Half
    <2>2. SameLinks(t)
      <3>1. \A n \in alloc : snode[n].linked \in BOOLEAN
        BY <1>7, Typed DEF NodeType, AllNode
      <3> QED BY <2>1, <3>1 DEF SameLinks
    <2>3. \A l \in Layer : In(l)' = In(l) BY <1>13, <2>2, InStep
    <2>4. \A l \in Layer : \A n \in In(l) : Keeps(n) /\ snode'[n].next = snode[n].next
      BY <1>13, InListed
    <2> QED BY <2>3, <2>4, SortedStep
  <1>16. CountersFollow'
    <2>1. IF c = 1 THEN m \notin Counted /\ Counted' = Counted \cup {m}
                   ELSE m \in Counted /\ Counted' = Counted \ {m}
      <3>1. m = F(t).node BY <1>2
      <3> QED BY <1>9, <3>1, CountedMoved
    <2>2. IsFiniteSet(Counted)
      <3>1. Counted \subseteq Node BY <1>7, Typed DEF Counted
      <3> QED BY <3>1, NodeMemory, FS_Subset
    <2>3. /\ slist.entries = Cardinality(Counted)
          /\ \A l \in Layer : slist.layers[l] = Cardinality({n \in Counted : snode[n].top = l})
      BY CountersAre DEF IInv
    <2>4. slist'.entries = Cardinality(Counted')
      BY <1>8, <2>1, <2>2, <2>3, CardinalityMoved
    <2>5. ASSUME NEW l \in Layer
          PROVE  slist'.layers[l] = Cardinality({n \in Counted' : snode'[n].top = l})
      <3>1. PICK A : A = {n \in Counted : snode[n].top = l} OBVIOUS
      <3>2. PICK B : B = {n \in Counted' : snode'[n].top = l} OBVIOUS
      <3>3. IsFiniteSet(A) BY <2>2, <3>1, FS_Subset
      <3>4. CASE l = k
        <4>1. IF c = 1 THEN m \notin A /\ B = A \cup {m} ELSE m \in A /\ B = A \ {m}
          BY <1>6, <2>1, <3>1, <3>2, <3>4
        <4>2. Cardinality(B) = Cardinality(A) + c BY <3>3, <4>1, CardinalityMoved
        <4> QED BY <1>8, <2>3, <3>1, <3>2, <3>4, <4>2
      <3>5. CASE l # k
        <4>1. B = A BY <1>6, <2>1, <3>1, <3>2, <3>5
        <4> QED BY <1>8, <2>3, <3>1, <3>2, <3>5, <4>1
      <3> QED BY <3>4, <3>5
    <2>6. /\ slist'.entries = Cardinality(Counted')
          /\ \A l \in Layer : slist'.layers[l] = Cardinality({n \in Counted' : snode'[n].top = l})
      BY <2>4, <2>5
    <2> QED BY <2>6 DEF CountersFollow, Counted
  <1>17. \A n \in Listed : Linked(n) /\ snode[n].key = SentinelKey => snode'[n].linked
    BY DEF Linked
  <1>18. SettledFits(t)'
    <2>1. Where(t)' = "scan" BY <1>9 DEF Where, Calling
    <2> QED BY <2>1, LayersAt DEF SettledFits, Updating
  <1>19. Fits(t)' BY <1>13, <1>18 DEF Fits
  <1>20. IInv /\ t \in Thread OBVIOUS
  <1> QED BY ONLY <1>9, <1>10, <1>13, <1>14, <1>15, <1>16, <1>17, <1>19, <1>20, WriteStep

LEMMA InsertCountStep ==
  ASSUME IInv, NEW t \in Thread, InsertCount(t), UNCHANGED jobs
  PROVE  IInv'
  <1>1. /\ pc[t] = "insertCount" /\ Count(t, 1) /\ Go(t, "scan", F(t))
        /\ UNCHANGED <<snode, alloc>>
    BY DEF InsertCount
  <1> QED BY <1>1, CountStep

LEMMA EraseCountStep ==
  ASSUME IInv, NEW t \in Thread, EraseCount(t), UNCHANGED jobs
  PROVE  IInv'
  <1>1. /\ pc[t] = "eraseCount" /\ Count(t, -1) /\ Go(t, "scan", F(t))
        /\ UNCHANGED <<snode, alloc>>
    BY DEF EraseCount
  <1> QED BY <1>1, CountStep

-----------------------------------------------------------------------------
(* Nodes are made and deleted. *)

\* A step that makes or deletes nodes and writes to no other.
Allots(t, D) ==
    /\ Spares(t, D) /\ Types' /\ slist' = slist
    /\ pc[t] \in Rest /\ RestFits(t)' /\ ~FlagsOwn(t) /\ ~FlagsOwn(t)'
    /\ \A n \in {head, tail} : snode'[n] = snode[n]
    /\ \A n \in alloc \cap alloc' : /\ snode'[n] = snode[n]
                                    /\ F(t).node = n => ~Creating(t) /\ ~Marked(t) /\ ~Erased(t)
    /\ \A n \in alloc' \ alloc : /\ Owns(t)' /\ F(t)'.node = n
                                 /\ ~snode'[n].linked /\ ~snode'[n].modified
    /\ Owns(t)' => /\ F(t)'.node \in alloc' \ alloc /\ F(t)'.key \in Key
                   /\ snode'[F(t)'.node].key = F(t)'.key /\ Says(t, F(t).node)'
    /\ \A n \in Node : /\ snode'[n].refs = snode[n].refs /\ Mine(t, n)' = Mine(t, n)
                       /\ Holds(t, n)' => Holds(t, n) /\ n \in alloc'
    /\ \A n \in D : ~Linked(n) /\ n \notin Counted

LEMMA AllotStep ==
  ASSUME IInv, NEW t \in Thread, NEW D, Allots(t, D)
  PROVE  IInv'
  <1>1. /\ Spares(t, D) /\ Types' /\ Types /\ slist' = slist /\ Alone(t)
        /\ pc[t] \in Rest /\ RestFits(t)' /\ ~FlagsOwn(t) /\ ~FlagsOwn(t)'
    BY DEF Allots, Spares, IInv
  <1>2. /\ FlagLayers(t) = {} /\ FlagLayers(t)' = {} /\ Fits(t)'
        /\ Where(t) = pc[t] /\ Where(t)' = pc'[t]
    BY <1>1, NoFlagLayers, Resting
  <1>3. \A n : ~Flags(t, n) /\ ~Flags(t, n)' BY <1>1, <1>2 DEF Flags
  <1>4. alloc \subseteq Node /\ alloc' \subseteq Node /\ Node \subseteq AllNode
    BY <1>1 DEF Types, AllNode
  <1>5. Owns(t)' => /\ F(t)'.node \in alloc' /\ F(t)'.key \in Key
                    /\ snode'[F(t)'.node].key = F(t)'.key
                    /\ snode'[F(t)'.node].key \in Key /\ Says(t, F(t).node)'
                    /\ \A u \in Thread \ {t} : Owns(u) => F(u).node # F(t)'.node
    <2>1. \A u \in Thread : Owns(u) => F(u).node \in alloc BY Owned
    <2> QED BY <2>1 DEF Allots
  <1>6. Owners' BY <1>1, <1>5, OwnersStep
  <1>7. NodesFollow'
    <2>1. \A n \in alloc' : ~(Owns(t)' /\ F(t)'.node = n) =>
            /\ n \in alloc /\ snode'[n].writing = snode[n].writing
            /\ snode'[n].linked = snode[n].linked /\ snode'[n].removed = snode[n].removed
            /\ F(t).node = n => ~Creating(t) /\ ~Marked(t) /\ ~Erased(t)
      BY DEF Allots
    <2> QED BY <1>1, <1>5, <2>1, NodesStep
  <1>8. Ends'
    <2>1. \A n \in {head, tail} : snode'[n] = snode[n] BY DEF Allots
    <2> QED BY <2>1 DEF IInv, Ends, Linked
  <1>9. RefsFollow'
    <2>1. \A n \in Node : snode[n].refs \in Int /\ Mine(t, n) \in Int
      BY <1>1, Typed DEF AllNode, NodeType, Mine, One
    <2>2. ASSUME NEW n \in Node PROVE snode'[n].refs = snode[n].refs + Mine(t, n)' - Mine(t, n)
      <3>1. PICK b : b = Mine(t, n) OBVIOUS
      <3>2. PICK r : r = snode[n].refs OBVIOUS
      <3>3. b \in Int /\ r \in Int BY <2>1, <3>1, <3>2
      <3>4. snode'[n].refs = r /\ Mine(t, n)' = b BY <3>1, <3>2 DEF Allots
      <3>5. r = r + b - b BY ONLY <3>3
      <3> QED BY <3>1, <3>2, <3>4, <3>5
    <2> QED BY <1>1, <2>2, RefsStep
  <1>10. HeldStay'
    <2>1. \A n \in Node : Holds(t, n)' => n \in alloc' /\ Visible(n)
      BY HeldListed DEF Allots
    <2>2. Creating(t)' => F(t)'.node \notin alloc
      <3>1. Creating(t)' => Owns(t)' BY DEF Owns
      <3> QED BY <3>1 DEF Allots
    <2> QED BY <1>1, <2>1, <2>2, HeldStep
  <1>11. FlagsFollow'
    <2>1. ASSUME NEW n \in Listed'
          PROVE  \/ /\ n \in Listed /\ snode'[n].modified = snode[n].modified
                    /\ Flags(t, n)' <=> Flags(t, n)
                 \/ /\ \A u \in Thread \ {t} : ~Flags(u, n)
                    /\ snode'[n].modified <=> Flags(t, n)'
      <3>1. CASE n \in Listed
        <4>1. snode'[n] = snode[n] BY <2>1, <3>1, <1>1, Typed DEF Allots, Listed
        <4> QED BY <1>3, <3>1, <4>1
      <3>2. CASE n \notin Listed
        <4>1. n \in alloc' \ alloc BY <2>1, <3>2 DEF Listed
        <4>2. ~snode'[n].modified BY <4>1 DEF Allots
        <4>3. \A u \in Thread : ~Flags(u, n) BY <3>2, FlagsListed
        <4> QED BY <1>3, <4>2, <4>3
      <3> QED BY <3>1, <3>2
    <2> QED BY <1>1, <1>3, <2>1, FlagsStep
  <1>12. SameLinks(t)
    <2>1. \A l \in Layer : ~Half(t, l) /\ ~Half(t, l)'
      BY <1>1 DEF Half, Rest, RestFits
    <2>2. \A n \in alloc : snode[n].linked \in BOOLEAN
      BY <1>1, Typed DEF NodeType, AllNode
    <2>3. \A n \in alloc' : snode'[n].linked \in BOOLEAN
      <3>1. \A n \in AllNode : snode'[n] \in NodeType BY <1>1 DEF Types
      <3> QED BY <1>4, <3>1 DEF NodeType
    <2>4. \A n \in alloc' : snode'[n].linked = (n \in alloc /\ snode[n].linked)
      BY <2>2, <2>3 DEF Allots
    <2> QED BY <2>1, <2>4 DEF SameLinks
  <1>13. Sorted'
    <2>1. \A l \in Layer : In(l)' = In(l) BY <1>1, <1>12, InStep
    <2>2. ASSUME NEW l \in Layer, NEW n \in In(l)
          PROVE  Keeps(n) /\ snode'[n].next = snode[n].next
      <3>1. n \in Listed BY <2>2, InListed
      <3>2. n \notin D BY <1>1, <2>2 DEF Spares
      <3>3. Keeps(n) BY <1>1, <3>1, <3>2 DEF Spares
      <3>4. n \in (alloc \cap alloc') \cup {head, tail} BY <3>1, <3>3 DEF Keeps, Listed
      <3> QED BY <3>3, <3>4 DEF Allots
    <2>3. \A l \in Layer : \A n \in In(l) : Keeps(n) /\ snode'[n].next = snode[n].next
      BY <2>2
    <2> QED BY <2>1, <2>3, SortedStep
  <1>14. CountersFollow'
    <2>1. SameCounts(t) BY <1>1 DEF SameCounts, Rest, RestFits
    <2>2. \A n \in D : n \notin Counted BY DEF Allots
    <2> QED BY <1>1, <1>12, <2>1, <2>2, CountedStep
  <1>15. Sentinel'
    <2>1. \A n \in D : ~Linked(n) BY DEF Allots
    <2>2. ASSUME NEW n \in Listed, Linked(n) PROVE snode'[n].linked
      <3>1. Keeps(n) BY <1>1, <2>1, <2>2 DEF Spares
      <3>2. n \in (alloc \cap alloc') \cup {head, tail} BY <2>2, <3>1 DEF Keeps, Listed
      <3>3. snode'[n] = snode[n] BY <3>2 DEF Allots
      <3> QED BY <2>2, <3>3 DEF Linked
    <2> QED BY <1>1, <2>1, <2>2, SentinelStep
  <1>16. \A u \in Thread : Fits(u)' BY <1>1, <1>2, OtherFits
  <1> QED BY <1>1, <1>6, <1>7, <1>8, <1>9, <1>10, <1>11, <1>13, <1>14, <1>15, <1>16 DEF IInv

\* The memory of a new node is nobody's, and nobody has found it to come next.
LEMMA NewNodeStep ==
  ASSUME IInv, NEW t \in Thread, NewNode(t), UNCHANGED jobs,
         \A u \in Thread, l \in Layer : F(u).nexts[l] \notin alloc' \ alloc
  PROVE  IInv'
  <1>1. PICK m \in Node \ alloc, top \in Layer :
          /\ alloc' = alloc \cup {m}
          /\ snode' = [snode EXCEPT ![m] = [NewSnode(F(t).key, top) EXCEPT !.writing = TRUE]]
          /\ Go(t, "insert", [F(t) EXCEPT !.node = m])
    BY DEF NewNode
  <1>2. pc[t] = "new" /\ slist' = slist BY DEF NewNode
  <1>3. PICK k : k = F(t).key OBVIOUS
  <1>4. PICK f : f = [F(t) EXCEPT !.node = m] OBVIOUS
  <1>5. PICK r : r = [NewSnode(k, top) EXCEPT !.writing = TRUE] OBVIOUS
  <1>6. PICK D : D = {} OBVIOUS
  <1>7. F(t) \in FrameType /\ Types /\ F(t) = frame[t] /\ k \in Keys
    BY <1>3, FrameIs
  <1>8. /\ f \in FrameType /\ f.node = m /\ f.key = k /\ f.passed = F(t).passed
        /\ f.then = F(t).then /\ f.cur = F(t).cur /\ f.cursor = F(t).cursor
    BY ONLY <1>1, <1>3, <1>4, <1>7 DEF FrameType
  <1>9. /\ r \in NodeType /\ r.key = k /\ r.refs = 0 /\ ~r.linked /\ ~r.modified /\ ~r.removed
        /\ r.writing
    <2>1. Null \in Link BY DEF Link
    <2>2. PICK g : g = [l \in Layer |-> Null] OBVIOUS
    <2>3. g \in [Layer -> Link] BY ONLY <2>1, <2>2
    <2>4. r = [key |-> k, top |-> top, next |-> g, linked |-> FALSE, modified |-> FALSE,
               removed |-> FALSE, refs |-> 0, writing |-> TRUE]
      BY ONLY <1>5, <2>2 DEF NewSnode
    <2>5. top \in Layer /\ 0 \in Int BY <1>1
    <2> QED BY ONLY <1>7, <2>3, <2>4, <2>5 DEF NodeType
  <1>10. /\ Alone(t) /\ F(t)' = f /\ pc'[t] = "insert"
         /\ frame' \in [Thread -> FrameType] /\ pc' \in [Thread -> LabelNames \ {"undefined"}]
    <2>1. Go(t, "insert", f) /\ "insert" \in LabelNames \ {"undefined"}
      BY <1>1, <1>4 DEF LabelNames
    <2> QED BY <1>7, <1>8, <2>1, GoFrame, GoTypes
  <1>11. /\ snode' \in [AllNode -> NodeType] /\ snode'[m] = r
         /\ \A n \in AllNode \ {m} : snode'[n] = snode[n]
    <2>1. snode \in [AllNode -> NodeType] /\ m \in AllNode BY <1>1, <1>7 DEF Types, AllNode
    <2>2. snode' = [snode EXCEPT ![m] = r] BY <1>1, <1>3, <1>5
    <2> QED BY ONLY <1>9, <2>1, <2>2
  <1>12. /\ alloc \subseteq Node /\ alloc' = alloc \cup {m} /\ m \in Node /\ m \notin alloc
         /\ Node \subseteq AllNode /\ head \in AllNode /\ tail \in AllNode
         /\ m \notin {head, tail} /\ m \notin Listed /\ Listed \subseteq AllNode
         /\ alloc' \ alloc = {m}
    BY <1>1, <1>7, NodesAssumption DEF Types, AllNode, Listed
  <1>13. Types'
    <2>1. UNCHANGED jobs OBVIOUS
    <2> QED BY <1>2, <1>7, <1>10, <1>11, <1>12, <2>1 DEF Types
  <1>14. Where(t) = "new" /\ FlagLayers(t) = {} /\ F(t).passed = {}
    BY <1>2, NoFlagLayers DEF Rest
  <1>15. k \in Key /\ F(t).then = "insertFound"
    <2>1. LocalsFit(t) BY DEF IInv, Fits
    <2> QED BY <1>3, <1>14, <2>1 DEF LocalsFit
  <1>16. RestFits(t)' BY <1>8, <1>10, <1>14, <1>15 DEF RestFits, Rest
  <1>17. RestRoles(t) /\ RestRoles(t)'
    BY <1>2, <1>8, <1>10, <1>14, RestRole DEF Rest
  <1>18. /\ ~FlagsOwn(t) /\ ~FlagsOwn(t)' /\ Owns(t)' /\ Creating(t)' /\ ~Marked(t)' /\ ~Erased(t)'
         /\ ~Creating(t) /\ ~Marked(t) /\ ~Erased(t)
         /\ \A n : /\ ~HoldsCur(t, n) /\ ~HoldsNext(t, n) /\ ~HoldsPassed(t, n)
                   /\ ~HoldsNode(t, n) /\ ~HoldsCursor(t, n)
         /\ \A n : /\ ~HoldsCur(t, n)' /\ ~HoldsNext(t, n)' /\ ~HoldsPassed(t, n)'
                   /\ ~HoldsNode(t, n)' /\ ~HoldsCursor(t, n)'
    BY <1>2, <1>10, <1>17 DEF RestRoles, Owns
  <1>19. Spares(t, D)
    <2>1. \A n \in Listed \ D : Keeps(n)
      <3>1. \A n \in Listed : snode'[n] = snode[n] BY <1>11, <1>12
      <3> QED BY <1>12, <3>1 DEF Keeps, Listed
    <2>2. \A n \in Listed : snode'[n] = snode[n] BY <1>11, <1>12
    <2>3. \A u \in Thread \ {t}, l \in Layer : F(u).nexts[l] \notin alloc' \ alloc OBVIOUS
    <2> QED BY <1>6, <1>10, <2>1, <2>2, <2>3 DEF Spares
  <1>20. \A n \in Node : snode'[n].refs = snode[n].refs
    <2>1. \A u \in Thread : ~Holds(u, m) BY <1>12, HeldListed
    <2>2. snode[m].refs = 0 BY <1>12, <2>1, NoRefs
    <2> QED BY <1>9, <1>11, <1>12, <2>2
  <1>21. \A n \in Node : /\ Mine(t, n)' = Mine(t, n) /\ (Holds(t, n)' => Holds(t, n) /\ n \in alloc')
    BY <1>18 DEF Mine, One, Holds
  <1>22. Says(t, F(t).node)' /\ F(t)'.node = m /\ F(t)'.key = k /\ snode'[m].key = k
    BY <1>8, <1>9, <1>10, <1>11, <1>18 DEF Says, Linked
  <1>23. Allots(t, D)
    <2>1. \A n \in {head, tail} : snode'[n] = snode[n] BY <1>11, <1>12
    <2>2. \A n \in alloc \cap alloc' : /\ snode'[n] = snode[n]
                                       /\ ~Creating(t) /\ ~Marked(t) /\ ~Erased(t)
      BY <1>11, <1>12, <1>18
    <2>3. \A n \in alloc' \ alloc : /\ Owns(t)' /\ F(t)'.node = n
                                    /\ ~snode'[n].linked /\ ~snode'[n].modified
      BY <1>9, <1>11, <1>12, <1>18, <1>22
    <2>4. pc[t] \in Rest BY <1>2 DEF Rest
    <2> QED BY <1>2, <1>6, <1>12, <1>13, <1>15, <1>16, <1>18, <1>19, <1>20, <1>21, <1>22, <2>1,
               <2>2, <2>3, <2>4 DEF Allots
  <1> QED BY <1>23, AllotStep

\* A node is deleted that nobody has a reference on and that is in no layer.
LEMMA DeleteStep ==
  ASSUME IInv, NEW t \in Thread, NEW label, Delete(t, label), UNCHANGED jobs,
         \/ pc[t] = "duplicate" /\ label = "find"
         \/ pc[t] = "waitRefs" /\ label = "eraseFound" /\ snode[F(t).node].refs = 0
  PROVE  IInv'
  <1>1. PICK m : m = F(t).node OBVIOUS
  <1>2. PICK D : D = {m} OBVIOUS
  <1>3. PICK f : f = [F(t) EXCEPT !.node = Null, !.cur = Null, !.next = Null] OBVIOUS
  <1>4. PICK r : r = NewSnode(Null, 0) OBVIOUS
  <1>5. /\ alloc' = alloc \ {m} /\ snode' = [snode EXCEPT ![m] = r] /\ Go(t, label, f)
        /\ slist' = slist
    BY <1>1, <1>3, <1>4 DEF Delete
  <1>6. F(t) \in FrameType /\ Types BY FrameIs
  <1>7. /\ f \in FrameType /\ f.node = Null /\ f.key = F(t).key /\ f.passed = F(t).passed
        /\ f.then = F(t).then /\ f.cursor = F(t).cursor
    <2>1. Null \in Link /\ Null \in Node \cup {Null} BY DEF Link
    <2> QED BY ONLY <1>3, <1>6, <2>1 DEF FrameType
  <1>8. r \in NodeType /\ r.refs = 0
    <2>1. Null \in Link /\ Null \in Keys /\ 0 \in Layer
      BY LayerAssumption DEF Link, Keys, Layer
    <2> QED BY ONLY <1>4, <2>1 DEF NodeType, NewSnode
  <1>9. pc[t] \in Rest BY DEF Rest
  <1>10. Where(t) = pc[t] /\ FlagLayers(t) = {} /\ F(t).passed = {}
    BY <1>9, NoFlagLayers
  <1>11. RestRoles(t) BY <1>9, <1>10, RestRole
  <1>12. /\ Owns(t) /\ ~FlagsOwn(t)
         /\ Creating(t) <=> pc[t] = "duplicate"
         /\ Erased(t) <=> pc[t] = "waitRefs"
    BY <1>11 DEF RestRoles, Owns, Erases
  <1>13. /\ m \in alloc /\ m \in Node /\ m \in Listed /\ m \in AllNode /\ m \notin {head, tail}
         /\ \A u \in Thread : Owns(u) /\ F(u).node = m => u = t
    BY <1>1, <1>12, Owned
  <1>14. F(t).key \in Key /\ F(t).then \in Thens
         /\ (pc[t] = "duplicate" => F(t).then = "insertFound")
    <2>1. LocalsFit(t) BY DEF IInv, Fits
    <2>2. F(t).key \in Key BY <1>12 DEF IInv, Owners
    <2> QED BY <1>6, <1>12, <2>1, <2>2 DEF LocalsFit, FrameType
  <1>15. /\ Alone(t) /\ F(t)' = f /\ pc'[t] = label
         /\ frame' \in [Thread -> FrameType] /\ pc' \in [Thread -> LabelNames \ {"undefined"}]
    <2>1. label \in LabelNames \ {"undefined"} BY DEF LabelNames
    <2> QED BY <1>5, <1>6, <1>7, <2>1, GoFrame, GoTypes
  <1>16. /\ snode' \in [AllNode -> NodeType] /\ snode'[m] = r
         /\ \A n \in AllNode \ {m} : snode'[n] = snode[n]
    <2>1. snode \in [AllNode -> NodeType] BY <1>6 DEF Types
    <2> QED BY ONLY <1>5, <1>8, <1>13, <2>1
  <1>17. Types'
    <2>1. UNCHANGED jobs OBVIOUS
    <2> QED BY <1>5, <1>6, <1>15, <1>16, <2>1 DEF Types
  <1>18. RestFits(t)' BY <1>7, <1>10, <1>14, <1>15 DEF RestFits, Rest
  <1>19. RestRoles(t)' BY <1>7, <1>10, <1>15, <1>18, RestRole DEF RestFits
  <1>20. ~Owns(t)' /\ ~FlagsOwn(t)'
    BY <1>7, <1>14, <1>15, <1>19 DEF RestRoles, Owns, Erases
  <1>21. \A n : /\ HoldsCur(t, n)' <=> HoldsCur(t, n)
                /\ HoldsNext(t, n)' <=> HoldsNext(t, n)
                /\ HoldsPassed(t, n)' <=> HoldsPassed(t, n)
                /\ HoldsNode(t, n)' <=> HoldsNode(t, n)
                /\ HoldsCursor(t, n)' <=> HoldsCursor(t, n)
    BY <1>7, <1>11, <1>14, <1>15, <1>19 DEF RestRoles
  <1>22. /\ snode[m].refs = 0
         /\ \A u \in Thread : ~Holds(u, m)
         /\ \A u \in Thread \ {t} : ~Flags(u, m)
         /\ \A l \in Layer : m \notin In(l)
    <2>1. CASE pc[t] = "duplicate"
      <3>1. Creating(t) /\ Where(t) \notin {"link", "linked"} BY <1>10, <1>12, <2>1
      <3>2. \A u \in Thread \ {t} : ~Holds(u, m) /\ ~Flags(u, m) BY <1>1, <3>1, HiddenAlone
      <3>3. \A l \in Layer : m \notin In(l)
        <4>1. CASE \E u \in Thread : u # t BY <1>1, <3>1, <4>1, HiddenAlone
        <4>2. CASE \A u \in Thread : u = t
          <5>1. ~Linked(m)
            <6>1. Says(t, m) BY <1>1, <1>12, OwnSays
            <6> QED BY <3>1, <6>1 DEF Says
          <5>2. \A l \in Layer : ~Half(t, l) BY <2>1 DEF Half
          <5> QED BY <1>13, <4>2, <5>1, <5>2 DEF In
        <4> QED BY <4>1, <4>2
      <3>4. ~Holds(t, m) BY <1>11, <2>1 DEF RestRoles, Holds
      <3>5. \A u \in Thread : ~Holds(u, m) BY <3>2, <3>4
      <3> QED BY <1>13, <3>2, <3>3, <3>5, NoRefs
    <2>2. CASE pc[t] = "waitRefs"
      <3>1. snode[m].refs = 0 /\ \A u \in Thread : ~Holds(u, m) BY <1>1, <1>13, <2>2, NoRefs
      <3>2. ~Linked(m)
        <4>1. Says(t, m) BY <1>1, <1>12, OwnSays
        <4> QED BY <1>12, <2>2, <4>1 DEF Says
      <3>3. \A l \in Layer : m \notin In(l)
        <4>1. \A u \in Thread, l \in Layer : Half(u, l) /\ F(u).node = m => u = t
          BY <1>13, HalfOwns
        <4>2. \A l \in Layer : ~Half(t, l) BY <2>2 DEF Half
        <4> QED BY <1>13, <3>2, <4>1, <4>2 DEF In
      <3>4. ASSUME NEW u \in Thread \ {t} PROVE ~Flags(u, m)
        <4>1. ~(FlagsOwn(u) /\ F(u).node = m)
          <5>1. FlagsOwn(u) => Owns(u) BY DEF FlagsOwn, Owns, Erases, Unmarked
          <5> QED BY <1>13, <5>1
        <4>2. ASSUME NEW l \in FlagLayers(u), F(u).prevs[l] = m PROVE FALSE
          <5>1. FlagsFit(u) /\ CurFits(u) BY DEF IInv, Fits
          <5>2. \/ pc[u] = "neighbours" /\ l = F(u).layer
                \/ pc[u] = "clear" /\ m = F(u).cur
            BY <3>2, <4>2, <5>1 DEF FlagsFit
          <5>3. Where(u) = pc[u] BY <5>2 DEF Where, Calling
          <5>4. pc[u] = "neighbours" => F(u).prevs[F(u).layer] = F(u).cur
            BY <5>1, <5>3 DEF CurFits, Walking, Stepping, Placing
          <5>5. F(u).cur = m BY <4>2, <5>2, <5>4
          <5>6. HoldsCur(u, m) BY <5>2, <5>3, <5>5 DEF HoldsCur, Held, Stepping, Placing
          <5> QED BY <3>1, <5>6 DEF Holds
        <4> QED BY <4>1, <4>2 DEF Flags
      <3> QED BY <3>1, <3>3, <3>4
    <2> QED BY <2>1, <2>2
  <1>23. Spares(t, D)
    <2>1. \A n \in Listed \ D : Keeps(n)
      <3>1. \A n \in Listed \ D : n \in AllNode \ {m} /\ n \in Listed'
        BY <1>2, <1>5, <1>6, Typed DEF Listed
      <3> QED BY <1>16, <3>1 DEF Keeps
    <2>2. \A n \in D : /\ n \in alloc /\ n \notin alloc' /\ \A l \in Layer : n \notin In(l)
                       /\ \A u \in Thread \ {t} :
                               ~Holds(u, n) /\ ~Flags(u, n) /\ ~(Owns(u) /\ F(u).node = n)
      BY <1>2, <1>5, <1>13, <1>22
    <2>3. \A u \in Thread \ {t}, l \in Layer : F(u).nexts[l] \notin alloc' \ alloc
      BY <1>5
    <2>4. ASSUME NEW u \in Thread \ {t}, NEW n \in Listed,
                 \/ Flags(u, n)
                 \/ Creating(u) /\ F(u).node = n
                 \/ pc[u] = "grab" /\ F(u).at = n
          PROVE  snode'[n] = snode[n]
      <3>1. n # m
        <4>1. ~Flags(u, m) BY <1>22
        <4>2. Creating(u) => F(u).node # m BY <1>13 DEF Owns
        <4>3. pc[u] = "grab" => F(u).at # m BY <1>22, GrabIn
        <4> QED BY <2>4, <4>1, <4>2, <4>3
      <3>2. n \in AllNode BY <1>6, Typed
      <3> QED BY <1>16, <3>1, <3>2
    <2> QED BY <1>15, <2>1, <2>2, <2>3, <2>4 DEF Spares
  <1>24. \A n \in Node : snode'[n].refs = snode[n].refs
    BY <1>8, <1>16, <1>22 DEF AllNode
  <1>25. \A n \in Node : /\ Mine(t, n)' = Mine(t, n)
                         /\ Holds(t, n)' => Holds(t, n) /\ n \in alloc'
    <2>1. \A n \in Node : Mine(t, n)' = Mine(t, n) BY <1>21 DEF Mine, One
    <2>2. \A n \in Node : Holds(t, n)' => Holds(t, n) BY <1>21 DEF Holds
    <2>3. \A n \in Node : Holds(t, n) => n \in alloc /\ n # m BY <1>22, HeldListed
    <2> QED BY <1>5, <2>1, <2>2, <2>3
  <1>26. ~Linked(m) /\ m \notin Counted
    <2>1. Says(t, m) BY <1>1, <1>12, OwnSays
    <2>2. ~Linked(m) BY <1>12, <2>1 DEF Says
    <2>3. ~Uncounted({"insertCount"}, m) /\ ~Uncounted({"bypass", "eraseCount"}, m)
      <3>1. ASSUME NEW u \in Thread, pc[u] \in {"insertCount", "bypass", "eraseCount"},
                   F(u).node = m
            PROVE  FALSE
        <4>1. Owns(u) BY <3>1 DEF Owns, Erases, Created, Erased, Where, Calling
        <4>2. u = t BY <1>13, <3>1, <4>1
        <4> QED BY <3>1, <4>2
      <3> QED BY <3>1 DEF Uncounted
    <2> QED BY <2>2, <2>3 DEF Counted, Linked
  <1>27. Allots(t, D)
    <2>1. \A n \in {head, tail} : snode'[n] = snode[n] BY <1>13, <1>16 DEF AllNode
    <2>2. \A n \in alloc \cap alloc' : snode'[n] = snode[n] /\ n # F(t).node
      <3>1. alloc \subseteq AllNode BY <1>6, Typed DEF AllNode
      <3> QED BY <1>1, <1>5, <1>16, <3>1
    <2>3. alloc' \ alloc = {} BY <1>5
    <2>4. \A n \in D : ~Linked(n) /\ n \notin Counted BY <1>2, <1>26
    <2> QED BY <1>5, <1>9, <1>12, <1>17, <1>18, <1>20, <1>23, <1>24, <1>25, <2>1, <2>2, <2>3,
               <2>4 DEF Allots
  <1> QED BY <1>27, AllotStep

LEMMA DeleteDuplicateStep ==
  ASSUME IInv, NEW t \in Thread, DeleteDuplicate(t), UNCHANGED jobs
  PROVE  IInv'
  <1>1. pc[t] = "duplicate" /\ Delete(t, "find") BY DEF DeleteDuplicate
  <1> QED BY <1>1, DeleteStep

LEMMA DeleteErasedStep ==
  ASSUME IInv, NEW t \in Thread, DeleteErased(t), UNCHANGED jobs
  PROVE  IInv'
  <1>1. CASE snode[F(t).node].refs = 0
    <2>1. pc[t] = "waitRefs" /\ Delete(t, "eraseFound") BY <1>1 DEF DeleteErased
    <2> QED BY <1>1, <2>1, DeleteStep
  <1>2. CASE snode[F(t).node].refs # 0 BY <1>2, WaitOnStep
  <1> QED BY <1>1, <1>2

-----------------------------------------------------------------------------
(* Every step keeps the invariant. *)

LEMMA SearchSteps ==
  ASSUME IInv, NEW t \in Thread, UNCHANGED jobs,
         \/ NextLoad(t) \/ NextGrab(t) \/ NextCheck(t) \/ NextSkip(t)
         \/ ClearFlag(t) \/ Flag(t) \/ Neighbours(t) \/ Again(t) \/ ScanLayers(t) \/ StoreTop(t)
         \/ FindStart(t) \/ FindRetry(t) \/ FindRight(t) \/ FindEqual(t) \/ FindDown(t)
         \/ FindBottom(t) \/ Successor(t)
  PROVE  IInv'
  BY NextLoadStep, NextGrabStep, NextCheckStep, NextSkipStep, ClearFlagStep, FlagStep,
     NeighboursStep, AgainStep, ScanLayersStep, StoreTopStep, FindStartStep, FindRetryStep,
     FindRightStep, FindEqualStep, FindDownStep, FindBottomStep, SuccessorStep

LEMMA InsertSteps ==
  ASSUME IInv, NEW t \in Thread, UNCHANGED jobs,
         \/ InsertStart(t) \/ InsertRetry(t) \/ InsertRight(t) \/ InsertDuplicate(t)
         \/ InsertDown(t) \/ InsertPlace(t) \/ InsertLink(t) \/ InsertLinked(t) \/ InsertCount(t)
  PROVE  IInv'
  BY InsertStartStep, RetryStep, InsertRightStep, InsertDuplicateStep, InsertDownStep,
     InsertPlaceStep, InsertLinkStep, InsertLinkedStep, InsertCountStep

LEMMA EraseSteps ==
  ASSUME IInv, NEW t \in Thread, UNCHANGED jobs,
         \/ EraseNode(t) \/ EraseFlagNode(t) \/ EraseMark(t) \/ EraseStart(t)
         \/ EraseRetry(t) \/ EraseRight(t) \/ EraseDown(t) \/ ErasePlace(t) \/ EraseUnlink(t)
         \/ EraseBypass(t) \/ EraseCount(t) \/ EraseUnflag(t)
  PROVE  IInv'
  BY EraseNodeStep, EraseFlagNodeStep, EraseMarkStep, EraseStartStep, RetryStep,
     EraseRightStep, EraseDownStep, ErasePlaceStep, EraseUnlinkStep, EraseBypassStep,
     EraseCountStep, EraseUnflagStep

LEMMA MapSteps ==
  ASSUME IInv, NEW t \in Thread, UNCHANGED jobs, MapWork(t), StaysApart
  PROVE  IInv'
  <1>1. CASE NewNode(t)
    <2>1. \A u \in Thread, l \in Layer : F(u).nexts[l] \notin alloc' \ alloc BY DEF StaysApart
    <2> QED BY <1>1, <2>1, NewNodeStep
  <1>2. CASE EraseNext(t)
    <2>1. \A u \in Thread \ {t} : Owns(u) => F(u).node # F(t).cursor
      BY <1>2 DEF StaysApart
    <2> QED BY <1>2, <2>1, EraseNextStep
  <1>3. CASE InsertGrab(t) \/ DeleteDuplicate(t) \/ InsertAgain(t)
    BY <1>3, InsertGrabStep, DeleteDuplicateStep, InsertAgainStep
  <1>4. CASE EraseRelease(t) \/ WaitForUsers(t) \/ DeleteErased(t)
    BY <1>4, EraseReleaseStep, WaitForUsersStep, DeleteErasedStep
  <1>5. CASE BeginAtHead(t) \/ FirstEntry(t) \/ NextEntry(t) \/ EmptySize(t)
    BY <1>5, BeginAtHeadStep, FirstEntryStep, NextEntryStep, EmptySizeStep
  <1> QED BY <1>1, <1>2, <1>3, <1>4, <1>5 DEF MapWork

LEMMA ReturnSteps ==
  ASSUME IInv, NEW t \in Thread, MapReturn(t)
  PROVE  IInv'
  BY InsertReturnStep, InsertFoundStep, EraseReturnStep, PreviousFoundStep, SumReturnStep,
     EmptyReturnStep DEF MapReturn

LEMMA WorkSteps ==
  ASSUME IInv, NEW t \in Thread, Work(t), StaysApart
  PROVE  IInv'
  <1>1. (SkipListStep(t) \/ MapWork(t)) /\ UNCHANGED jobs BY DEF Work
  <1>2. CASE SkipListStep(t)
    BY <1>1, <1>2, SearchSteps, InsertSteps, EraseSteps DEF SkipListStep
  <1>3. CASE MapWork(t) BY <1>1, <1>3, MapSteps
  <1> QED BY <1>1, <1>2, <1>3

\* Nothing happens.
LEMMA StutterRoles ==
  ASSUME UNCHANGED vars, NEW u \in Thread
  PROVE  /\ Where(u)' = Where(u) /\ (Inserts(u)' <=> Inserts(u))
         /\ (Creating(u)' <=> Creating(u)) /\ (Created(u)' <=> Created(u))
         /\ (Unmarked(u)' <=> Unmarked(u)) /\ (Marked(u)' <=> Marked(u))
         /\ (Erased(u)' <=> Erased(u)) /\ (Erases(u)' <=> Erases(u)) /\ (Owns(u)' <=> Owns(u))
         /\ (Visiting(u)' <=> Visiting(u)) /\ (FlagsOwn(u)' <=> FlagsOwn(u))
         /\ \A l : Half(u, l)' <=> Half(u, l)
         /\ F(u)' = F(u) /\ pc'[u] = pc[u] /\ Top(u)' = Top(u)
         /\ FlagLayers(u)' = FlagLayers(u) /\ Settled(u)' = Settled(u)
         /\ \A n : Flags(u, n)' <=> Flags(u, n)
         /\ \A n : Holds(u, n)' <=> Holds(u, n)
         /\ \A n : /\ HoldsCur(u, n)' <=> HoldsCur(u, n)
                   /\ HoldsNext(u, n)' <=> HoldsNext(u, n)
                   /\ HoldsPassed(u, n)' <=> HoldsPassed(u, n)
                   /\ HoldsNode(u, n)' <=> HoldsNode(u, n)
                   /\ HoldsCursor(u, n)' <=> HoldsCursor(u, n)
  <1>0. F(u)' = F(u) /\ pc'[u] = pc[u] /\ snode' = snode BY DEF F, vars
  <1>1. Top(u)' = Top(u) BY <1>0 DEF Top
  <1>2. Where(u)' = Where(u) BY <1>0 DEF Where
  <1>3. Inserts(u)' <=> Inserts(u) BY <1>0 DEF Inserts
  <1>4. /\ (Creating(u)' <=> Creating(u)) /\ (Created(u)' <=> Created(u))
        /\ (Unmarked(u)' <=> Unmarked(u)) /\ (Marked(u)' <=> Marked(u))
        /\ (Erased(u)' <=> Erased(u)) /\ (Visiting(u)' <=> Visiting(u))
    BY <1>0, <1>2, <1>3 DEF Creating, Created, Unmarked, Marked, Erased, Visiting
  <1>5. \A l : Half(u, l)' <=> Half(u, l) BY <1>0 DEF Half
  <1>6. FlagsOwn(u)' <=> FlagsOwn(u) BY <1>2, <1>4 DEF FlagsOwn
  <1>7. (Erases(u)' <=> Erases(u)) /\ (Owns(u)' <=> Owns(u)) BY <1>4 DEF Erases, Owns
  <1>8. FlagLayers(u)' = FlagLayers(u) BY <1>0, <1>1, <1>2 DEF FlagLayers
  <1>9. Settled(u)' = Settled(u) BY <1>0, <1>1, <1>2 DEF Settled
  <1>10. \A n : Flags(u, n)' <=> Flags(u, n) BY <1>0, <1>6, <1>8 DEF Flags
  <1>11. ASSUME NEW n
         PROVE  /\ HoldsCur(u, n)' <=> HoldsCur(u, n)
                /\ HoldsNext(u, n)' <=> HoldsNext(u, n)
                /\ HoldsPassed(u, n)' <=> HoldsPassed(u, n)
                /\ HoldsNode(u, n)' <=> HoldsNode(u, n)
                /\ HoldsCursor(u, n)' <=> HoldsCursor(u, n)
    BY <1>0, <1>2, <1>4, <1>7 DEF HoldsCur, HoldsNext, HoldsPassed, HoldsNode, HoldsCursor
  <1>12. \A n : Holds(u, n)' <=> Holds(u, n) BY <1>11 DEF Holds
  <1> QED BY <1>0, <1>1, <1>2, <1>3, <1>4, <1>5, <1>6, <1>7, <1>8, <1>9, <1>10, <1>11, <1>12

LEMMA StutterFits ==
  ASSUME IInv, UNCHANGED vars, NEW u \in Thread
  PROVE  Fits(u)'
  <1>1. /\ F(u)' = F(u) /\ pc'[u] = pc[u] /\ Where(u)' = Where(u) /\ Top(u)' = Top(u)
        /\ (Inserts(u)' <=> Inserts(u)) /\ (Creating(u)' <=> Creating(u))
        /\ \A l : Half(u, l)' <=> Half(u, l)
        /\ FlagLayers(u)' = FlagLayers(u) /\ Settled(u)' = Settled(u)
    BY StutterRoles
  <1>2. snode' = snode /\ alloc' = alloc BY DEF vars
  <1>3. \A a, b : Less(a, b)' <=> Less(a, b) BY <1>2 DEF Less
  <1>4. (\A n : Linked(n)' <=> Linked(n)) /\ (\A n, l : NextIn(n, l)' = NextIn(n, l))
    BY <1>2 DEF Linked, NextIn
  <1>5. Fits(u) BY DEF IInv
  <1>6. LocalsFit(u)' BY <1>1, <1>5 DEF Fits, LocalsFit
  <1>7. CurFits(u)'
    <2>1. Less(F(u).cur, F(u).node)' <=> Less(F(u).cur, F(u).node) BY <1>1, <1>2 DEF Less
    <2> QED BY <1>1, <1>2, <1>5, <2>1 DEF Fits, CurFits
  <1>8. NextFits(u)' BY <1>1, <1>2, <1>5 DEF Fits, NextFits, Less, Linked, NextIn
  <1>9. FoundFits(u)' BY <1>1, <1>2, <1>5 DEF Fits, FoundFits, Less
  <1>10. AgainFits(u)' BY <1>1, <1>2, <1>5 DEF Fits, AgainFits, NextIn
  <1>11. PlaceFits(u)' BY <1>1, <1>2, <1>5 DEF Fits, PlaceFits, NextIn, Less
  <1>12. SettledFits(u)' BY <1>1, <1>2, <1>5 DEF Fits, SettledFits, NextIn, Less
  <1>13. FlagsFit(u)' BY <1>1, <1>2, <1>5 DEF Fits, FlagsFit, Linked, Less
  <1> QED BY <1>6, <1>7, <1>8, <1>9, <1>10, <1>11, <1>12, <1>13 DEF Fits

LEMMA Stutter ==
  ASSUME IInv, UNCHANGED vars
  PROVE  IInv'
  <1>1. /\ snode' = snode /\ alloc' = alloc /\ slist' = slist /\ frame' = frame
        /\ pc' = pc /\ jobs' = jobs
    BY DEF vars
  <1>2. \A u \in Thread : /\ (Owns(u)' <=> Owns(u)) /\ (Creating(u)' <=> Creating(u))
                          /\ (Marked(u)' <=> Marked(u)) /\ (Erased(u)' <=> Erased(u))
                          /\ F(u)' = F(u) /\ pc'[u] = pc[u] /\ Where(u)' = Where(u)
                          /\ \A l : Half(u, l)' <=> Half(u, l)
                          /\ \A n : Flags(u, n)' <=> Flags(u, n)
                          /\ \A n : Holds(u, n)' <=> Holds(u, n)
                          /\ \A n : /\ HoldsCur(u, n)' <=> HoldsCur(u, n)
                                    /\ HoldsNext(u, n)' <=> HoldsNext(u, n)
                                    /\ HoldsPassed(u, n)' <=> HoldsPassed(u, n)
                                    /\ HoldsNode(u, n)' <=> HoldsNode(u, n)
                                    /\ HoldsCursor(u, n)' <=> HoldsCursor(u, n)
    BY StutterRoles
  <1>3. Types' BY <1>1 DEF IInv, Types
  <1>4. Owners' BY <1>1, <1>2 DEF IInv, Owners
  <1>5. NodesFollow' BY <1>1, <1>2 DEF IInv, NodesFollow, Linked
  <1>6. Ends' BY <1>1 DEF IInv, Ends, Linked
  <1>7. RefsFollow'
    <2>1. ASSUME NEW n
          PROVE  /\ {t \in Thread : HoldsCur(t, n)}' = {t \in Thread : HoldsCur(t, n)}
                 /\ {t \in Thread : HoldsNext(t, n)}' = {t \in Thread : HoldsNext(t, n)}
                 /\ {t \in Thread : HoldsPassed(t, n)}' = {t \in Thread : HoldsPassed(t, n)}
                 /\ {t \in Thread : HoldsNode(t, n)}' = {t \in Thread : HoldsNode(t, n)}
                 /\ {t \in Thread : HoldsCursor(t, n)}' = {t \in Thread : HoldsCursor(t, n)}
      BY <1>2
    <2> QED BY <1>1, <2>1 DEF IInv, RefsFollow
  <1>8. \A n : Visible(n)' <=> Visible(n) BY <1>1, <1>2 DEF Visible, Hidden
  <1>9. HeldStay' BY <1>2, <1>8 DEF IInv, HeldStay
  <1>10. FlagsFollow' BY <1>1, <1>2 DEF IInv, FlagsFollow
  <1>11. \A l : In(l)' = In(l) BY <1>1, <1>2 DEF In, Linked
  <1>12. Sorted'
    <2>1. \A l \in Layer : In(l)' = In(l) BY <1>11
    <2>2. \A l \in Layer : \A n \in In(l) : Keeps(n) /\ snode'[n].next = snode[n].next
      BY <1>1, InListed DEF Keeps, Listed
    <2> QED BY <2>1, <2>2, SortedStep
  <1>13. CountersFollow'
    <2>1. Counted' = Counted BY <1>1, <1>2 DEF Counted, Uncounted
    <2> QED BY <1>1, <2>1, CountersStep
  <1>14. Sentinel' BY <1>1 DEF IInv, Sentinel, Linked
  <1>15. \A u \in Thread : Fits(u)' BY StutterFits
  <1> QED BY <1>3, <1>4, <1>5, <1>6, <1>7, <1>9, <1>10, <1>12, <1>13, <1>14, <1>15 DEF IInv

\* The invariant is inductive.
LEMMA Inductive ==
  ASSUME IInv, [Next]_vars, [StaysApart]_vars
  PROVE  IInv'
  <1>1. CASE UNCHANGED vars BY <1>1, Stutter
  <1>2. CASE ~UNCHANGED vars
    <2>1. StaysApart /\ Next /\ ~Finished BY <1>2 DEF Finished
    <2>2. PICK t \in Thread : Step(t) BY <2>1 DEF Next
    <2>3. CASE Begin(t) BY <2>3, BeginStep
    <2>4. CASE Work(t) BY <2>1, <2>4, WorkSteps
    <2>5. CASE MapReturn(t) BY <2>5, ReturnSteps
    <2> QED BY <2>2, <2>3, <2>4, <2>5 DEF Step
  <1> QED BY <1>1, <1>2

-----------------------------------------------------------------------------
(* The list that the scenario starts with. *)

\* The least of finitely many keys.
LEMMA LeastKey ==
  ASSUME NEW S, S \subseteq Key \cup {SentinelKey}, IsFiniteSet(S), S # {}
  PROVE  \E k \in S : \A m \in S : ~Below(m, k)
  <1> DEFINE Bad(T) == T # {} /\ \A k \in T : \E m \in T : Below(m, k)
             C == {i \in Nat : \E T \in SUBSET S : Bad(T) /\ Cardinality(T) = i}
  <1>1. SUFFICES ASSUME Bad(S) PROVE FALSE OBVIOUS
  <1>2. \A T \in SUBSET S : IsFiniteSet(T) /\ Cardinality(T) \in Nat
    BY FS_Subset, FS_CardinalityType
  <1>3. C \subseteq Nat /\ Cardinality(S) \in C BY <1>1, <1>2
  <1>4. PICK i \in C : \A j \in C : i <= j
    <2> HIDE DEF C
    <2> QED BY <1>3, LeastNumber
  <1>5. PICK T \in SUBSET S : Bad(T) /\ Cardinality(T) = i BY <1>4
  <1>6. PICK x \in T : TRUE BY <1>5
  <1>7. PICK U : U = T \ {x} OBVIOUS
  <1>8. U \in SUBSET S /\ Cardinality(U) = Cardinality(T) - 1
    BY <1>2, <1>5, <1>6, <1>7, FS_RemoveElement
  <1>9. ~Bad(U)
    <2>1. SUFFICES ASSUME Bad(U) PROVE FALSE OBVIOUS
    <2>2. Cardinality(U) \in C BY <1>2, <1>8, <2>1
    <2>3. i \in Nat BY <1>4
    <2> QED BY <1>4, <1>5, <1>8, <2>2, <2>3
  <1>10. \A k \in T : ~Below(k, k) /\ k \in Key \cup {SentinelKey} BY KeyOrder
  <1>11. PICK y \in T : Below(y, x) BY <1>5, <1>6
  <1>12. y \in U BY <1>7, <1>10, <1>11
  <1>13. PICK k \in U : \A m \in U : ~Below(m, k) BY <1>9, <1>12
  <1>14. PICK z \in T : Below(z, k) BY <1>5, <1>7, <1>13
  <1>15. z = x BY <1>7, <1>13, <1>14
  <1>16. Below(y, k) BY <1>7, <1>10, <1>11, <1>13, <1>14, <1>15, KeyOrder
  <1> QED BY <1>12, <1>13, <1>16

\* Each key has a node of its own.
Placed(place, tops) ==
    /\ DOMAIN tops \subseteq Key \cup {SentinelKey}
    /\ \A k \in DOMAIN tops : tops[k] \in Layer
    /\ SentinelKey \in DOMAIN tops /\ tops[SentinelKey] = MaxLayer
    /\ place \in [DOMAIN tops -> Node]
    /\ \A j, k \in DOMAIN tops : j # k => place[j] # place[k]

LEMMA PlacedFinite ==
  ASSUME NEW place, NEW tops, Placed(place, tops), NEW D \in SUBSET DOMAIN tops
  PROVE  /\ IsFiniteSet(D)
         /\ Cardinality({place[k] : k \in D}) = Cardinality(D)
  <1>1. /\ place \in [DOMAIN tops -> Node]
        /\ \A j, k \in DOMAIN tops : j # k => place[j] # place[k]
    BY DEF Placed
  <1>2. place \in Injection(DOMAIN tops, Node)
    BY <1>1 DEF Injection, IsInjective
  <1>3. IsFiniteSet(DOMAIN tops) BY <1>2, NodeMemory, FS_Injection
  <1>4. IsFiniteSet(D) BY <1>3, FS_Subset
  <1>5. PICK T : T = {place[k] : k \in D} OBVIOUS
  <1>6. PICK f : f = [k \in D |-> place[k]] OBVIOUS
  <1>7. f \in [D -> T] /\ (\A a, b \in D : f[a] = f[b] => a = b) /\ (\A n \in T : \E k \in D : f[k] = n)
    BY <1>1, <1>5, <1>6
  <1>8. f \in Bijection(D, T)
    BY <1>7 DEF Bijection, Injection, Surjection, IsInjective
  <1>9. ExistsBijection(D, T) BY <1>8 DEF ExistsBijection
  <1> QED BY <1>4, <1>5, <1>9, FS_Bijection

\* The next key of a layer.
LEMMA AfterIs ==
  ASSUME NEW place, NEW tops, Placed(place, tops), NEW j \in DOMAIN tops, NEW l \in Layer,
         NEW above, above = {k \in DOMAIN tops : Below(j, k) /\ tops[k] >= l}
  PROVE  \/ above = {} /\ After(place, tops, j, l) = tail
         \/ \E k \in above : /\ After(place, tops, j, l) = place[k]
                             /\ \A m \in above : ~Below(m, k)
  <1>1. CASE above = {} BY <1>1 DEF After
  <1>2. CASE above # {}
    <2>1. above \in SUBSET DOMAIN tops OBVIOUS
    <2>2. above \subseteq Key \cup {SentinelKey} BY <2>1 DEF Placed
    <2>3. \E k \in above : \A m \in above : ~Below(m, k)
      BY <1>2, <2>1, <2>2, LeastKey, PlacedFinite
    <2>4. PICK k : k = CHOOSE j1 \in above : \A m \in above : ~Below(m, j1) OBVIOUS
    <2>5. k \in above /\ \A m \in above : ~Below(m, k) BY <2>3, <2>4
    <2>6. After(place, tops, j, l) = place[k] BY <1>2, <2>4 DEF After
    <2> QED BY <2>5, <2>6
  <1> QED BY <1>1, <1>2

\* What each node holds.
LEMMA BuiltIs ==
  ASSUME NEW place, NEW tops, Placed(place, tops)
  PROVE  /\ \A n \in AllNode : /\ Built(place, tops, n) \in NodeType
                               /\ Built(place, tops, n).refs = 0
                               /\ ~Built(place, tops, n).writing
                               /\ ~Built(place, tops, n).modified
                               /\ ~Built(place, tops, n).removed
         /\ \A n \in {head, tail} : /\ Built(place, tops, n).linked
                                    /\ Built(place, tops, n).top = MaxLayer
         /\ \A l \in Layer : Built(place, tops, head).next[l] = place[SentinelKey]
         /\ \A k \in DOMAIN tops :
                /\ Built(place, tops, place[k]).key = k
                /\ Built(place, tops, place[k]).top = tops[k]
                /\ Built(place, tops, place[k]).linked
                /\ \A l \in Layer : l <= tops[k] =>
                      Built(place, tops, place[k]).next[l] = After(place, tops, k, l)
  <1>1. /\ DOMAIN tops \subseteq Key \cup {SentinelKey}
        /\ \A k \in DOMAIN tops : tops[k] \in Layer /\ place[k] \in Node
        /\ SentinelKey \in DOMAIN tops /\ tops[SentinelKey] = MaxLayer
        /\ \A j, k \in DOMAIN tops : j # k => place[j] # place[k]
    BY DEF Placed
  <1>2. ASSUME NEW j \in DOMAIN tops, NEW l \in Layer PROVE After(place, tops, j, l) \in Link
    <2>1. PICK above : above = {k \in DOMAIN tops : Below(j, k) /\ tops[k] >= l} OBVIOUS
    <2>2. \/ After(place, tops, j, l) = tail
          \/ \E k \in above : After(place, tops, j, l) = place[k]
      BY <2>1, AfterIs
    <2> QED BY <1>1, <2>1, <2>2 DEF Link, AllNode
  <1>3. /\ Null \in Link /\ Null \in Keys /\ SentinelKey \in Keys /\ MaxLayer \in Layer
        /\ 0 \in Layer /\ \A k \in DOMAIN tops : k \in Keys /\ place[k] \in Link
        /\ \A l \in Layer : MaxLayer >= l
    BY <1>1, LayerAssumption DEF Link, Keys, Layer, AllNode
  <1>4. PICK none : none = [l \in Layer |-> Null] OBVIOUS
  <1>5. none \in [Layer -> Link] BY <1>3, <1>4
  <1>6. \A key, top : NewSnode(key, top) =
            [key |-> key, top |-> top, next |-> none, linked |-> FALSE, modified |-> FALSE,
             removed |-> FALSE, refs |-> 0, writing |-> FALSE]
    BY <1>4 DEF NewSnode
  <1>7. ASSUME NEW n \in {head, tail}
        PROVE  /\ Built(place, tops, n) \in NodeType /\ Built(place, tops, n).refs = 0
               /\ ~Built(place, tops, n).writing /\ ~Built(place, tops, n).modified
               /\ ~Built(place, tops, n).removed
               /\ Built(place, tops, n).linked /\ Built(place, tops, n).top = MaxLayer
               /\ n = head => \A l \in Layer : Built(place, tops, n).next[l] = place[SentinelKey]
    <2>1. PICK g : g = [l \in Layer |->
                         IF n = tail THEN Null
                         ELSE IF tops[SentinelKey] >= l THEN place[SentinelKey]
                         ELSE After(place, tops, SentinelKey, l)]
      OBVIOUS
    <2>2. g \in [Layer -> Link] BY <1>1, <1>2, <1>3, <2>1
    <2>3. n = head => \A l \in Layer : g[l] = place[SentinelKey]
      BY <1>1, <1>3, <2>1, NodesAssumption
    <2>4. PICK r : r = NewSnode(SentinelKey, MaxLayer) OBVIOUS
    <2>5. Built(place, tops, n) = [r EXCEPT !.linked = TRUE, !.next = g]
      BY <1>7, <2>1, <2>4 DEF Built
    <2>6. r = [key |-> SentinelKey, top |-> MaxLayer, next |-> none, linked |-> FALSE,
               modified |-> FALSE, removed |-> FALSE, refs |-> 0, writing |-> FALSE]
      BY <1>6, <2>4
    <2>7. PICK b : b = Built(place, tops, n) OBVIOUS
    <2>8. b = [key |-> SentinelKey, top |-> MaxLayer, next |-> g, linked |-> TRUE,
               modified |-> FALSE, removed |-> FALSE, refs |-> 0, writing |-> FALSE]
      BY ONLY <2>5, <2>6, <2>7
    <2>9. b \in NodeType BY ONLY <1>3, <2>2, <2>8 DEF NodeType
    <2> QED BY <2>3, <2>7, <2>8, <2>9
  <1>8. ASSUME NEW k \in DOMAIN tops
        PROVE  /\ Built(place, tops, place[k]) \in NodeType
               /\ Built(place, tops, place[k]).refs = 0
               /\ ~Built(place, tops, place[k]).writing /\ ~Built(place, tops, place[k]).modified
               /\ ~Built(place, tops, place[k]).removed
               /\ Built(place, tops, place[k]).key = k
               /\ Built(place, tops, place[k]).top = tops[k]
               /\ Built(place, tops, place[k]).linked
               /\ \A l \in Layer : l <= tops[k] =>
                      Built(place, tops, place[k]).next[l] = After(place, tops, k, l)
    <2>1. PICK g : g = [l \in Layer |-> IF l > tops[k] THEN Null ELSE After(place, tops, k, l)]
      OBVIOUS
    <2>2. g \in [Layer -> Link] BY <1>2, <1>3, <2>1
    <2>3. \A l \in Layer : l <= tops[k] => g[l] = After(place, tops, k, l)
      <3>1. \A l \in Layer : l \in Int /\ tops[k] \in Int BY <1>1, LayerAssumption DEF Layer
      <3> QED BY <2>1, <3>1
    <2>4. (CHOOSE j \in DOMAIN tops : place[j] = place[k]) = k BY <1>1
    <2>5. PICK r : r = NewSnode(k, tops[k]) OBVIOUS
    <2>6. place[k] \notin {head, tail} BY <1>1, NodesAssumption
    <2>7. Built(place, tops, place[k]) = [r EXCEPT !.linked = TRUE, !.next = g]
      BY <2>1, <2>4, <2>5, <2>6 DEF Built
    <2>8. PICK top : top = tops[k] OBVIOUS
    <2>9. r = [key |-> k, top |-> top, next |-> none, linked |-> FALSE,
               modified |-> FALSE, removed |-> FALSE, refs |-> 0, writing |-> FALSE]
      BY <1>6, <2>5, <2>8
    <2>10. PICK b : b = Built(place, tops, place[k]) OBVIOUS
    <2>11. b = [key |-> k, top |-> top, next |-> g, linked |-> TRUE,
                modified |-> FALSE, removed |-> FALSE, refs |-> 0, writing |-> FALSE]
      BY ONLY <2>7, <2>9, <2>10
    <2>12. k \in Keys /\ top \in Layer BY <1>1, <1>3, <2>8
    <2>13. b \in NodeType BY ONLY <2>2, <2>11, <2>12 DEF NodeType
    <2> QED BY <2>3, <2>8, <2>10, <2>11, <2>13
  <1>9. ASSUME NEW n \in Node, \A k \in DOMAIN tops : place[k] # n
        PROVE  /\ Built(place, tops, n) \in NodeType /\ Built(place, tops, n).refs = 0
               /\ ~Built(place, tops, n).writing /\ ~Built(place, tops, n).modified
               /\ ~Built(place, tops, n).removed
    <2>1. PICK b : b = Built(place, tops, n) OBVIOUS
    <2>2. n \notin {head, tail} BY NodesAssumption
    <2>3. b = NewSnode(Null, 0) BY <1>9, <2>1, <2>2 DEF Built
    <2>4. b = [key |-> Null, top |-> 0, next |-> none, linked |-> FALSE,
               modified |-> FALSE, removed |-> FALSE, refs |-> 0, writing |-> FALSE]
      BY <1>6, <2>3
    <2>5. b \in NodeType BY ONLY <1>3, <1>5, <2>4 DEF NodeType
    <2> QED BY <2>1, <2>4, <2>5
  <1>10. ASSUME NEW n \in AllNode
         PROVE  /\ Built(place, tops, n) \in NodeType /\ Built(place, tops, n).refs = 0
                /\ ~Built(place, tops, n).writing /\ ~Built(place, tops, n).modified
                /\ ~Built(place, tops, n).removed
    <2>1. CASE n \in {head, tail} BY <1>7, <2>1
    <2>2. CASE \E k \in DOMAIN tops : place[k] = n BY <1>8, <2>2
    <2>3. CASE n \in Node /\ \A k \in DOMAIN tops : place[k] # n BY <1>9, <2>3
    <2> QED BY <2>1, <2>2, <2>3 DEF AllNode
  <1> QED BY <1>7, <1>8, <1>10

\* A thread that is not in a call has nothing to do with any node.
LEMMA Idle ==
  ASSUME NEW t \in Thread, pc[t] = "idle", F(t).passed = {}
  PROVE  /\ Where(t) = "idle" /\ ~Owns(t) /\ ~Creating(t) /\ ~Marked(t) /\ ~Erased(t)
         /\ FlagLayers(t) = {} /\ Settled(t) = {} /\ \A l : ~Half(t, l)
         /\ \A n : /\ ~Flags(t, n) /\ ~Holds(t, n) /\ ~HoldsCur(t, n) /\ ~HoldsNext(t, n)
                   /\ ~HoldsPassed(t, n) /\ ~HoldsNode(t, n) /\ ~HoldsCursor(t, n)
  <1>1. Where(t) = "idle" BY DEF Where, Calling
  <1>2. ~Creating(t) /\ ~Created(t) /\ ~Unmarked(t) /\ ~Marked(t) /\ ~Erased(t)
    BY <1>1 DEF Creating, Created, Unmarked, Marked, Erased, Placing, Updating, Searching
  <1>3. ~Owns(t) /\ ~Erases(t) BY <1>2 DEF Owns, Erases
  <1>4. FlagLayers(t) = {} BY <1>1 DEF FlagLayers, Updating
  <1>5. Settled(t) = {} BY <1>1 DEF Settled, Placing
  <1>6. \A l : ~Half(t, l) BY DEF Half
  <1>7. ~FlagsOwn(t) BY <1>1, <1>2 DEF FlagsOwn
  <1>8. \A n : ~Flags(t, n) BY <1>4, <1>7 DEF Flags
  <1>9. \A n : ~HoldsCur(t, n)
    BY <1>1 DEF HoldsCur, Held, Stepping, Placing, Updating
  <1>10. \A n : ~HoldsNext(t, n) BY DEF HoldsNext, Returns
  <1>11. \A n : ~HoldsPassed(t, n) BY DEF HoldsPassed
  <1>12. ~Visiting(t) BY <1>1 DEF Visiting, Searching
  <1>13. \A n : ~HoldsNode(t, n) BY <1>1, <1>2, <1>12 DEF HoldsNode
  <1>14. \A n : ~HoldsCursor(t, n) BY <1>1, <1>3 DEF HoldsCursor
  <1> QED BY <1>1, <1>2, <1>3, <1>4, <1>5, <1>6, <1>8, <1>9, <1>10, <1>11, <1>13, <1>14 DEF Holds

LEMMA IdleFits ==
  ASSUME NEW t \in Thread, pc[t] = "idle", F(t) = EmptyFrame
  PROVE  Fits(t)
  <1>1. F(t).passed = {} /\ F(t).then = "idle" BY EmptyFrameType
  <1>2. Where(t) = "idle" /\ ~Creating(t) /\ FlagLayers(t) = {} /\ Settled(t) = {} BY <1>1, Idle
  <1>3. LocalsFit(t)
    BY <1>1, <1>2 DEF LocalsFit, Calling, Returns, Placing, Updating, Searching
  <1>4. CurFits(t) BY <1>2 DEF CurFits, Walking, Stepping, Placing
  <1>5. NextFits(t) BY DEF NextFits, Returns
  <1>6. FoundFits(t) BY DEF FoundFits
  <1>7. AgainFits(t) BY <1>2 DEF AgainFits
  <1>8. PlaceFits(t) BY <1>2 DEF PlaceFits, Placing
  <1>9. SettledFits(t) BY <1>2 DEF SettledFits
  <1>10. FlagsFit(t) BY <1>2 DEF FlagsFit
  <1> QED BY <1>3, <1>4, <1>5, <1>6, <1>7, <1>8, <1>9, <1>10 DEF Fits

\* The state that a scenario starts in.
Fresh(place, tops) ==
    /\ Placed(place, tops)
    /\ snode = [n \in AllNode |-> Built(place, tops, n)]
    /\ alloc = {place[k] : k \in DOMAIN tops}
    /\ slist = [entries |-> Cardinality(DOMAIN tops),
                layers |-> [l \in Layer |-> Cardinality({k \in DOMAIN tops : tops[k] = l})],
                top |-> MaxLayer]
    /\ frame = [t \in Thread |-> EmptyFrame]
    /\ pc = [t \in Thread |-> "idle"]
    /\ jobs \in [Thread -> Seq(AnyJob)]

LEMMA InitFresh ==
  ASSUME SentinelStays, Init
  PROVE  \E place, tops : Fresh(place, tops)
  <1> DEFINE P(s) == CHOOSE p \in [DOMAIN s.tops -> Node] :
                        \A j, k \in DOMAIN s.tops : j # k => p[j] # p[k]
             M(s) == Sets!Max({s.tops[k] : k \in DOMAIN s.tops})
  <1>1. PICK s \in Scenario :
          /\ snode = [n \in AllNode |-> Built(P(s), s.tops, n)]
          /\ alloc = {P(s)[k] : k \in DOMAIN s.tops}
          /\ slist = [entries |-> Cardinality(DOMAIN s.tops),
                      layers |-> [l \in Layer |-> Cardinality({k \in DOMAIN s.tops : s.tops[k] = l})],
                      top |-> M(s)]
          /\ frame = [t \in Thread |-> EmptyFrame]
          /\ pc = [t \in Thread |-> "idle"]
          /\ jobs = s.jobs
    BY DEF Init
  <1>2. /\ DOMAIN s.tops \subseteq Key \cup {SentinelKey}
        /\ \A k \in DOMAIN s.tops : s.tops[k] \in Layer
        /\ SentinelKey \in DOMAIN s.tops /\ s.tops[SentinelKey] = MaxLayer
        /\ \E p \in [DOMAIN s.tops -> Node] : \A j, k \in DOMAIN s.tops : j # k => p[j] # p[k]
        /\ s.jobs \in [Thread -> Seq(AnyJob)]
    BY DEF SentinelStays
  <1>3. P(s) \in [DOMAIN s.tops -> Node] /\ \A j, k \in DOMAIN s.tops : j # k => P(s)[j] # P(s)[k]
    BY <1>2
  <1>4. PICK place : place = P(s) OBVIOUS
  <1>5. PICK tops : tops = s.tops OBVIOUS
  <1>6. M(s) = MaxLayer
    <2>1. PICK T : T = {s.tops[k] : k \in DOMAIN s.tops} OBVIOUS
    <2>2. MaxLayer \in T /\ \A y \in T : MaxLayer >= y /\ y \in Int
      BY <1>2, <2>1, LayerAssumption DEF Layer
    <2>3. M(s) = CHOOSE x \in T : \A y \in T : x >= y BY <2>1 DEF Sets!Max
    <2>4. \A x \in T : (\A y \in T : x >= y) => x = MaxLayer BY <2>2, LayerAssumption
    <2>5. M(s) \in T /\ \A y \in T : M(s) >= y
      <3> HIDE DEF M
      <3> QED BY <2>2, <2>3
    <2> HIDE DEF M
    <2> QED BY <2>4, <2>5
  <1> HIDE DEF P, M
  <1>7. Placed(place, tops) BY <1>2, <1>3, <1>4, <1>5 DEF Placed
  <1>8. Fresh(place, tops) BY <1>1, <1>2, <1>4, <1>5, <1>6, <1>7 DEF Fresh
  <1> QED BY <1>8

\* The nodes of the keys, and the ends.
LEMMA FreshNodes ==
  ASSUME NEW place, NEW tops, Fresh(place, tops)
  PROVE  /\ \A n \in AllNode : /\ snode[n] \in NodeType /\ snode[n].refs = 0
                               /\ ~snode[n].writing /\ ~snode[n].modified /\ ~snode[n].removed
         /\ \A n \in {head, tail} : Linked(n) /\ snode[n].top = MaxLayer
         /\ \A l \in Layer : NextIn(head, l) = place[SentinelKey]
         /\ \A k \in DOMAIN tops :
                /\ place[k] \in alloc /\ place[k] \in Node /\ place[k] \notin {head, tail}
                /\ k \in Key \cup {SentinelKey} /\ tops[k] \in Layer
                /\ snode[place[k]].key = k /\ snode[place[k]].top = tops[k]
                /\ Linked(place[k])
                /\ \A l \in Layer : l <= tops[k] =>
                      NextIn(place[k], l) = After(place, tops, k, l)
         /\ \A n \in alloc : \E k \in DOMAIN tops : n = place[k]
         /\ alloc \subseteq Node
         /\ SentinelKey \in DOMAIN tops /\ tops[SentinelKey] = MaxLayer
         /\ \A j, k \in DOMAIN tops : j # k => place[j] # place[k]
  <1>1. Placed(place, tops) BY DEF Fresh
  <1>2. /\ DOMAIN tops \subseteq Key \cup {SentinelKey}
        /\ \A k \in DOMAIN tops : tops[k] \in Layer /\ place[k] \in Node
        /\ SentinelKey \in DOMAIN tops /\ tops[SentinelKey] = MaxLayer
        /\ \A j, k \in DOMAIN tops : j # k => place[j] # place[k]
    BY <1>1 DEF Placed
  <1>3. \A n \in AllNode : snode[n] = Built(place, tops, n) BY DEF Fresh
  <1>4. head \in AllNode /\ tail \in AllNode /\ \A k \in DOMAIN tops : place[k] \in AllNode
    BY <1>2 DEF AllNode
  <1>5. \A k \in DOMAIN tops : place[k] \notin {head, tail} BY <1>2, NodesAssumption
  <1>6. alloc = {place[k] : k \in DOMAIN tops} BY DEF Fresh
  <1>7. \A n \in AllNode : /\ snode[n] \in NodeType /\ snode[n].refs = 0
                           /\ ~snode[n].writing /\ ~snode[n].modified /\ ~snode[n].removed
    BY <1>1, <1>3, BuiltIs
  <1>8. /\ \A n \in {head, tail} : Linked(n) /\ snode[n].top = MaxLayer
        /\ \A l \in Layer : NextIn(head, l) = place[SentinelKey]
    BY <1>1, <1>3, <1>4, BuiltIs DEF Linked, NextIn
  <1>9. \A k \in DOMAIN tops :
            /\ snode[place[k]].key = k /\ snode[place[k]].top = tops[k]
            /\ Linked(place[k])
            /\ \A l \in Layer : l <= tops[k] =>
                      NextIn(place[k], l) = After(place, tops, k, l)
    BY <1>1, <1>3, <1>4, BuiltIs DEF Linked, NextIn
  <1> QED BY <1>2, <1>5, <1>6, <1>7, <1>8, <1>9

LEMMA FreshThreads ==
  ASSUME NEW place, NEW tops, Fresh(place, tops), NEW t \in Thread
  PROVE  /\ F(t) = EmptyFrame /\ F(t).passed = {} /\ pc[t] = "idle" /\ Fits(t)
         /\ ~Owns(t) /\ ~Creating(t) /\ ~Marked(t) /\ ~Erased(t) /\ \A l : ~Half(t, l)
         /\ \A n : /\ ~Flags(t, n) /\ ~Holds(t, n) /\ ~HoldsCur(t, n) /\ ~HoldsNext(t, n)
                   /\ ~HoldsPassed(t, n) /\ ~HoldsNode(t, n) /\ ~HoldsCursor(t, n)
  <1>1. F(t) = EmptyFrame /\ pc[t] = "idle" BY DEF Fresh, F
  <1>2. F(t).passed = {} BY <1>1, EmptyFrameType
  <1> QED BY <1>1, <1>2, Idle, IdleFits

LEMMA FreshTypes ==
  ASSUME NEW place, NEW tops, Fresh(place, tops)
  PROVE  Types
  <1>1. Placed(place, tops) BY DEF Fresh
  <1>2. snode \in [AllNode -> NodeType] BY FreshNodes DEF Fresh
  <1>3. alloc \subseteq Node BY FreshNodes
  <1>4. slist \in [entries : Int, layers : [Layer -> Int], top : {MaxLayer}]
    <2>1. \A D \in SUBSET DOMAIN tops : Cardinality(D) \in Int
      <3>1. TAKE D \in SUBSET DOMAIN tops
      <3>2. IsFiniteSet(D) BY <1>1, PlacedFinite
      <3> QED BY <3>2, FS_CardinalityType
    <2>2. PICK g : g = [l \in Layer |-> Cardinality({k \in DOMAIN tops : tops[k] = l})] OBVIOUS
    <2>3. g \in [Layer -> Int] BY <2>1, <2>2
    <2>4. PICK c : c = Cardinality(DOMAIN tops) OBVIOUS
    <2>5. c \in Int BY <2>1, <2>4
    <2>6. slist = [entries |-> c, layers |-> g, top |-> MaxLayer] BY <2>2, <2>4 DEF Fresh
    <2> QED BY ONLY <2>3, <2>5, <2>6
  <1>5. frame \in [Thread -> FrameType] BY EmptyFrameType DEF Fresh
  <1>6. pc \in [Thread -> LabelNames \ {"undefined"}]
    <2>1. "idle" \in LabelNames \ {"undefined"} BY DEF LabelNames
    <2> QED BY <2>1 DEF Fresh
  <1>7. jobs \in [Thread -> Seq(AnyJob)] BY DEF Fresh
  <1> QED BY <1>2, <1>3, <1>4, <1>5, <1>6, <1>7 DEF Types

\* The nodes of a layer are the ends, and those whose keys reach up to it.
LEMMA FreshIn ==
  ASSUME NEW place, NEW tops, Fresh(place, tops), NEW l \in Layer
  PROVE  \A n : n \in In(l) <=> \/ n \in {head, tail}
                                \/ \E k \in DOMAIN tops : n = place[k] /\ tops[k] >= l
  <1>1. \A t \in Thread : ~Half(t, l) BY FreshThreads
  <1>2. \A n : n \in In(l) <=> \/ n \in {head, tail}
                               \/ n \in alloc /\ snode[n].top >= l /\ Linked(n)
    BY <1>1 DEF In
  <1> QED BY <1>2, FreshNodes

LEMMA FreshSorted ==
  ASSUME NEW place, NEW tops, Fresh(place, tops)
  PROVE  Sorted
  <1>1. Placed(place, tops) BY DEF Fresh
  <1>2. head # tail BY NodesAssumption
  <1>3. ASSUME NEW j \in DOMAIN tops, NEW k \in DOMAIN tops
        PROVE  /\ Less(place[j], place[k]) <=> Below(j, k)
               /\ Less(place[j], tail) /\ Less(head, place[j])
               /\ ~Less(place[j], head) /\ ~Less(tail, place[j])
    BY <1>2, FreshNodes DEF Less
  <1>4. Less(head, tail) /\ ~Less(tail, head) /\ ~Less(head, head) /\ ~Less(tail, tail)
    BY <1>2, NodesAssumption DEF Less
  <1>5. DOMAIN tops \subseteq Key \cup {SentinelKey} BY <1>1 DEF Placed
  <1>6. ASSUME NEW l \in Layer PROVE SentinelKey \in DOMAIN tops /\ tops[SentinelKey] >= l
    BY FreshNodes, LayerAssumption DEF Layer
  <1>7. \A k \in DOMAIN tops \ {SentinelKey} : Below(SentinelKey, k)
    BY <1>5, KeysAssumption DEF Below, KeyLess
  <1>8. ASSUME NEW l \in Layer, NEW n \in In(l) \ {tail}
        PROVE  /\ NextIn(n, l) \in In(l) /\ Less(n, NextIn(n, l))
               /\ \A o \in In(l) : Less(n, o) => NextIn(n, l) = o \/ Less(NextIn(n, l), o)
    <2>1. CASE n = head
      <3>1. NextIn(n, l) = place[SentinelKey] BY <2>1, FreshNodes
      <3>2. NextIn(n, l) \in In(l) /\ Less(n, NextIn(n, l))
        BY <1>3, <1>6, <2>1, <3>1, FreshIn
      <3>3. ASSUME NEW o \in In(l), Less(n, o)
            PROVE  place[SentinelKey] = o \/ Less(place[SentinelKey], o)
        <4>1. CASE o \in {head, tail} BY <1>3, <1>4, <1>6, <2>1, <3>3, <4>1
        <4>2. CASE \E k \in DOMAIN tops : o = place[k] BY <1>3, <1>6, <1>7, <4>2
        <4> QED BY <4>1, <4>2, FreshIn
      <3> QED BY <3>1, <3>2, <3>3
    <2>2. CASE n # head
      <3>1. PICK j \in DOMAIN tops : n = place[j] /\ tops[j] >= l BY <1>8, <2>2, FreshIn
      <3>2. l <= tops[j] BY <3>1, FreshNodes, LayerAssumption DEF Layer
      <3>3. NextIn(n, l) = After(place, tops, j, l) BY <3>1, <3>2, FreshNodes
      <3>4. PICK above : above = {k \in DOMAIN tops : Below(j, k) /\ tops[k] >= l} OBVIOUS
      <3>5. \/ above = {} /\ After(place, tops, j, l) = tail
            \/ \E k \in above : /\ After(place, tops, j, l) = place[k]
                                /\ \A m \in above : ~Below(m, k)
        BY <1>1, <3>4, AfterIs
      <3>6. ASSUME NEW o \in In(l), Less(n, o)
            PROVE o = tail \/ \E m \in above : o = place[m]
        <4>1. CASE o \in {head, tail} BY <1>3, <3>1, <3>6, <4>1
        <4>2. CASE \E m \in DOMAIN tops : o = place[m] /\ tops[m] >= l
          BY <1>3, <3>1, <3>4, <3>6, <4>2
        <4> QED BY <4>1, <4>2, FreshIn
      <3>7. CASE above = {}
        <4>1. NextIn(n, l) = tail BY <3>3, <3>5, <3>7
        <4> QED BY <1>3, <3>1, <3>6, <3>7, <4>1, FreshIn
      <3>8. CASE above # {}
        <4>1. PICK k \in above : NextIn(n, l) = place[k] /\ \A m \in above : ~Below(m, k)
          BY <3>3, <3>5, <3>8
        <4>2. NextIn(n, l) \in In(l) /\ Less(n, NextIn(n, l))
          BY <1>3, <3>1, <3>4, <4>1, FreshIn
        <4>3. ASSUME NEW o \in In(l), Less(n, o) PROVE place[k] = o \/ Less(place[k], o)
          <5>1. CASE o = tail BY <1>3, <3>4, <5>1
          <5>2. CASE \E m \in above : o = place[m]
            <6>1. PICK m \in above : o = place[m] BY <5>2
            <6>2. m \in DOMAIN tops /\ k \in DOMAIN tops BY <3>4
            <6>3. m = k \/ Below(k, m) BY <1>5, <4>1, <6>2, KeyOrder
            <6> QED BY <1>3, <6>1, <6>2, <6>3
          <5> QED BY <3>6, <4>3, <5>1, <5>2
        <4> QED BY <4>1, <4>2, <4>3
      <3> QED BY <3>7, <3>8
    <2> QED BY <2>1, <2>2
  <1>9. ASSUME NEW l \in Layer, NEW m \in In(l), NEW n \in In(l), m # n
        PROVE  Less(m, n) \/ Less(n, m)
    <2>1. CASE m \in {head, tail} BY <1>9, <2>1, NodesAssumption DEF Less
    <2>2. CASE n \in {head, tail} BY <1>9, <2>2, NodesAssumption DEF Less
    <2>3. CASE m \notin {head, tail} /\ n \notin {head, tail}
      <3>1. PICK j \in DOMAIN tops : m = place[j] BY <2>3, FreshIn
      <3>2. PICK k \in DOMAIN tops : n = place[k] BY <2>3, FreshIn
      <3>3. Below(j, k) \/ Below(k, j) BY <1>5, <1>9, <3>1, <3>2, KeyOrder
      <3> QED BY <1>3, <3>1, <3>2, <3>3
    <2> QED BY <2>1, <2>2, <2>3
  <1> QED BY <1>8, <1>9 DEF Sorted

LEMMA FreshCounters ==
  ASSUME NEW place, NEW tops, Fresh(place, tops)
  PROVE  CountersFollow
  <1>1. Placed(place, tops) BY DEF Fresh
  <1>2. \A label, n : Uncounted(label, n) => \E t \in Thread : pc[t] \in label BY DEF Uncounted
  <1>3. \A t \in Thread : pc[t] = "idle" BY FreshThreads
  <1>4. \A n : ~Uncounted({"insertCount"}, n) /\ ~Uncounted({"bypass", "eraseCount"}, n)
    BY <1>2, <1>3
  <1>5. Counted = alloc BY <1>4, FreshNodes DEF Counted, Linked
  <1>6. alloc = {place[k] : k \in DOMAIN tops} BY DEF Fresh
  <1>7. slist.entries = Cardinality(Counted)
    <2>1. DOMAIN tops \in SUBSET DOMAIN tops OBVIOUS
    <2>2. Cardinality({place[k] : k \in DOMAIN tops}) = Cardinality(DOMAIN tops)
      BY <1>1, <2>1, PlacedFinite
    <2> QED BY <1>5, <1>6, <2>2 DEF Fresh
  <1>8. ASSUME NEW l \in Layer
        PROVE  slist.layers[l] = Cardinality({n \in Counted : snode[n].top = l})
    <2>1. PICK D : D = {k \in DOMAIN tops : tops[k] = l} OBVIOUS
    <2>2. D \in SUBSET DOMAIN tops BY <2>1
    <2>3. Cardinality({place[k] : k \in D}) = Cardinality(D) BY <1>1, <2>2, PlacedFinite
    <2>4. {n \in Counted : snode[n].top = l} = {place[k] : k \in D}
      BY <1>5, <1>6, <2>1, FreshNodes
    <2>5. slist.layers[l] = Cardinality(D) BY <2>1 DEF Fresh
    <2> QED BY <2>3, <2>4, <2>5
  <1> QED BY <1>7, <1>8, CountersAre

\* The invariant holds when the scenario starts.
LEMMA Initially ==
  ASSUME SentinelStays, Init
  PROVE  IInv
  <1>1. PICK place, tops : Fresh(place, tops) BY InitFresh
  <1>2. \A t \in Thread :
            /\ ~Owns(t) /\ ~Creating(t) /\ ~Marked(t) /\ ~Erased(t) /\ Fits(t)
            /\ \A n : /\ ~Flags(t, n) /\ ~Holds(t, n) /\ ~HoldsCur(t, n) /\ ~HoldsNext(t, n)
                      /\ ~HoldsPassed(t, n) /\ ~HoldsNode(t, n) /\ ~HoldsCursor(t, n)
    BY <1>1, FreshThreads
  <1>3. Types BY <1>1, FreshTypes
  <1>4. Owners BY <1>2 DEF Owners
  <1>5. \A n \in alloc : n \in AllNode /\ n \in Node BY <1>1, FreshNodes DEF AllNode
  <1>6. head \in AllNode /\ tail \in AllNode BY DEF AllNode
  <1>7. \A n \in AllNode : /\ snode[n].refs = 0 /\ ~snode[n].writing /\ ~snode[n].modified
                           /\ ~snode[n].removed
    BY <1>1, FreshNodes
  <1>8. \A n \in alloc : Linked(n) /\ snode[n].key \in Key \cup {SentinelKey}
    BY <1>1, FreshNodes
  <1>9. NodesFollow BY <1>2, <1>5, <1>7, <1>8 DEF NodesFollow
  <1>10. Ends BY <1>1, <1>6, <1>7, FreshNodes DEF Ends
  <1>11. RefsFollow
    <2>1. SUFFICES ASSUME NEW n \in Node
                   PROVE  snode[n].refs = Cardinality({t \in Thread : HoldsCur(t, n)})
                                        + Cardinality({t \in Thread : HoldsNext(t, n)})
                                        + Cardinality({t \in Thread : HoldsPassed(t, n)})
                                        + Cardinality({t \in Thread : HoldsNode(t, n)})
                                        + Cardinality({t \in Thread : HoldsCursor(t, n)})
      BY DEF RefsFollow
    <2>2. /\ {t \in Thread : HoldsCur(t, n)} = {} /\ {t \in Thread : HoldsNext(t, n)} = {}
          /\ {t \in Thread : HoldsPassed(t, n)} = {} /\ {t \in Thread : HoldsNode(t, n)} = {}
          /\ {t \in Thread : HoldsCursor(t, n)} = {}
      BY <1>2
    <2>3. Cardinality({}) = 0 BY FS_EmptySet
    <2>4. snode[n].refs = 0 BY <1>7 DEF AllNode
    <2> QED BY <2>2, <2>3, <2>4
  <1>12. HeldStay BY <1>2 DEF HeldStay
  <1>13. FlagsFollow BY <1>2, <1>5, <1>6, <1>7 DEF FlagsFollow
  <1>14. Sorted BY <1>1, FreshSorted
  <1>15. CountersFollow BY <1>1, FreshCounters
  <1>16. Sentinel
    <2>1. SentinelKey \in DOMAIN tops /\ tops[SentinelKey] = MaxLayer BY <1>1, FreshNodes
    <2>2. LET n == place[SentinelKey]
          IN  n \in alloc /\ snode[n].key = SentinelKey /\ Linked(n) /\ snode[n].top = MaxLayer
      BY <1>1, <2>1, FreshNodes
    <2> QED BY <2>2 DEF Sentinel
  <1> QED BY <1>2, <1>3, <1>4, <1>9, <1>10, <1>11, <1>12, <1>13, <1>14, <1>15, <1>16 DEF IInv

-----------------------------------------------------------------------------
(* What the invariant says of the properties.                                *)

LEMMA InvariantTypeOK ==
  ASSUME IInv
  PROVE  TypeOK
  <1>1. Types BY DEF IInv
  <1>2. ASSUME NEW n \in AllNode
        PROVE  /\ DOMAIN snode[n].next = Layer
               /\ \A l \in Layer : snode[n].next[l] \in AllNode \cup {Null}
               /\ snode[n].refs \in Nat /\ snode[n].top \in Layer
    <2>1. snode[n] \in NodeType BY <1>1, Typed
    <2>2. snode[n].next \in [Layer -> Link] /\ snode[n].top \in Layer BY <2>1 DEF NodeType
    <2>3. CASE n \in Node BY <2>2, <2>3, NoRefs DEF Link
    <2>4. CASE n \in {head, tail}
      <3>1. snode[n].refs = 0 BY <2>4 DEF IInv, Ends
      <3> QED BY <2>2, <3>1 DEF Link
    <2> QED BY <2>3, <2>4 DEF AllNode
  <1>3. alloc \subseteq Node /\ IsFiniteSet(alloc) BY <1>1, NodeMemory, FS_Subset DEF Types
  <1>4. \A S \in SUBSET alloc : Cardinality(S) \in Nat
    BY <1>3, FS_Subset, FS_CardinalityType
  <1>5. /\ slist.entries = Cardinality(Counted)
        /\ \A l \in Layer :
              slist.layers[l] = Cardinality({n \in Counted : snode[n].top = l})
    BY CountersAre DEF IInv
  <1>6. Counted \in SUBSET alloc /\ \A l \in Layer : {n \in Counted : snode[n].top = l} \in SUBSET alloc
    BY DEF Counted
  <1>7. slist.entries \in Nat /\ \A l \in Layer : slist.layers[l] \in Nat BY <1>4, <1>5, <1>6
  <1>8. slist.layers \in [Layer -> Int] /\ slist.top = MaxLayer BY <1>1 DEF Types
  <1>9. slist.layers \in [Layer -> Nat] BY <1>7, <1>8
  <1>10. slist.top \in Layer BY <1>1, <1>8, Typed
  <1>11. pc \in [Thread -> LabelNames] BY <1>1 DEF Types
  <1> QED BY <1>2, <1>3, <1>7, <1>9, <1>10, <1>11 DEF TypeOK

LEMMA InvariantNodesOutlive ==
  ASSUME IInv
  PROVE  NodesOutliveTheirUse
  <1>1. SUFFICES ASSUME NEW t \in Thread
                 PROVE  pc[t] # "undefined" /\ \A n \in Used(t) \ {Null} : n \in Listed
    BY DEF NodesOutliveTheirUse, Exists, Listed
  <1>2. pc[t] \in LabelNames \ {"undefined"} BY DEF IInv, Types
  <1>3. SUFFICES ASSUME NEW n \in Used(t), n # Null PROVE n \in Listed BY <1>2
  <1> DEFINE f == F(t)
  <1>4. /\ f.cur \in Link /\ f.next \in Link /\ f.node \in Node \cup {Null}
        /\ f.cursor \in Node \cup {Null} /\ f.layer \in Layer
    BY FrameIs
  <1>5. /\ pc[t] \in Calling => Where(t) \in Returns
        /\ pc[t] \notin Calling => Where(t) = pc[t]
    BY WhereIs
  <1>6. Returns \subseteq Walking /\ Placing \subseteq Walking
    BY DEF Returns, Walking, Stepping, Placing
  <1>7. CASE pc[t] = "next"
    <2>1. n = f.cur BY <1>3, <1>7 DEF Used
    <2> QED BY <1>5, <1>6, <1>7, <2>1, CurListed DEF Calling
  <1>8. CASE pc[t] = "grab"
    <2>1. n \in {f.at, f.next} BY <1>3, <1>8 DEF Used
    <2> QED BY <1>8, <2>1, GrabIn
  <1>9. CASE pc[t] \in {"check", "skip"}
    <2>1. n \in f.passed \cup {f.next} BY <1>3, <1>9 DEF Used
    <2> QED BY <1>9, <2>1, NextListed, PassedListed
  <1>10. CASE pc[t] \in {"flag", "neighbours"}
    <2>1. n = f.cur BY <1>3, <1>10 DEF Used
    <2>2. Where(t) \in Walking BY <1>5, <1>6, <1>10 DEF Calling, Placing
    <2> QED BY <2>1, <2>2, CurListed
  <1>11. CASE pc[t] = "clear"
    <2>1. PICK l \in f.clearing : n = f.prevs[l] BY <1>3, <1>11 DEF Used
    <2>2. FlagLayers(t) = f.clearing BY <1>5, <1>11 DEF FlagLayers, Calling, Updating
    <2>3. f.prevs[l] \in alloc \cup {head}
      BY <2>1, <2>2 DEF IInv, Fits, FlagsFit
    <2> QED BY <2>1, <2>3 DEF Listed
  <1>12. CASE pc[t] \in {"link", "bypass"}
    <2>1. n \in {f.node, f.prevs[f.layer]} BY <1>3, <1>12 DEF Used
    <2>2. Where(t) = pc[t] BY <1>5, <1>12 DEF Calling
    <2>3. Owns(t) BY <1>12, <2>2 DEF Owns, Creating, Erases, Erased
    <2>4. f.layer <= Top(t) BY <1>12, <2>2 DEF IInv, Fits, LocalsFit
    <2>5. f.layer \in FlagLayers(t)
      <3>1. FlagLayers(t) = 0 .. Top(t) BY <1>12, <2>2 DEF FlagLayers
      <3>2. f.layer \in Nat /\ Top(t) \in Nat BY <1>4, <2>3, Owned, LayerAssumption DEF Layer
      <3> QED BY <2>4, <3>1, <3>2
    <2>6. f.prevs[f.layer] \in alloc \cup {head} BY <2>5 DEF IInv, Fits, FlagsFit
    <2> QED BY <2>1, <2>3, <2>6, Owned DEF Listed
  <1>13. CASE pc[t] \in {"insertMove", "eraseMove"}
    <2>1. n \in {f.node, f.cur, f.next} BY <1>3, <1>13 DEF Used
    <2>2. Where(t) = pc[t] /\ Where(t) \in Walking
      BY <1>5, <1>13 DEF Calling, Walking, Stepping
    <2>3. Owns(t) BY <1>13, <2>2 DEF Owns, Creating, Erases, Marked
    <2>4. n = f.next => n \in Listed BY <1>3, <1>13, NextListed DEF Returns
    <2> QED BY <2>1, <2>2, <2>3, <2>4, Owned, CurListed
  <1>14. CASE pc[t] \in {"again", "findMove", "first"}
    <2>1. n = f.next BY <1>3, <1>14 DEF Used
    <2> QED BY <1>3, <1>14, <2>1, NextListed DEF Returns
  <1>15. CASE pc[t] \in {"linked", "insertCount", "inserted", "held", "eraseNode",
                         "eraseFlagNode", "eraseMark", "erase", "unlink", "eraseCount",
                         "eraseUnflag", "erased", "wait", "waitRefs", "duplicate"}
    <2>1. n = f.node BY <1>3, <1>15 DEF Used
    <2>2. Where(t) = pc[t] BY <1>5, <1>15 DEF Calling
    <2>3. Owns(t) BY <1>15, <2>2 DEF Owns, Creating, Created, Erases, Unmarked, Marked, Erased
    <2> QED BY <2>1, <2>3, Owned
  <1>16. CASE pc[t] \in {"insertFound", "previousFound", "eraseFound", "advance"}
    <2>1. n = f.cursor \/ (pc[t] = "advance" /\ n = f.node) BY <1>3, <1>16 DEF Used
    <2>2. Where(t) = pc[t] BY <1>5, <1>16 DEF Calling
    <2>3. HoldsCursor(t, f.cursor) BY <1>16, <2>2 DEF HoldsCursor
    <2>4. pc[t] = "advance" => HoldsNode(t, f.node)
      BY <2>2 DEF HoldsNode, Visiting
    <2>5. n \in Node /\ Holds(t, n) BY <1>3, <1>4, <2>1, <2>3, <2>4 DEF Holds
    <2> QED BY <2>5, HeldListed
  <1>17. CASE pc[t] \in {"idle", "scan", "storeTop", "new", "insert", "find", "successor",
                         "begin", "size"}
    BY <1>3, <1>17 DEF Used
  <1> QED BY <1>2, <1>7, <1>8, <1>9, <1>10, <1>11, <1>12, <1>13, <1>14, <1>15, <1>16, <1>17
      DEF LabelNames

LEMMA InvariantNothingLeft ==
  ASSUME IInv
  PROVE  NothingLeftBehind
  <1>1. SUFFICES ASSUME \A t \in Thread : pc[t] = "idle"
                 PROVE  /\ \A n \in alloc : snode[n].linked /\ snode[n].refs = 0
                        /\ \A n \in alloc \cup {head} :
                              ~snode[n].modified /\ ~snode[n].removed /\ ~snode[n].writing
    BY DEF NothingLeftBehind
  <1>2. \A t \in Thread : F(t).passed = {} BY <1>1 DEF IInv, Fits, LocalsFit
  <1>3. \A t \in Thread : /\ ~Owns(t) /\ ~Creating(t) /\ ~Marked(t) /\ ~Erased(t)
                          /\ \A n : ~Flags(t, n) /\ ~Holds(t, n)
    BY <1>1, <1>2, Idle
  <1>4. \A n \in alloc : Linked(n) /\ ~snode[n].writing /\ ~snode[n].removed
    BY <1>3 DEF IInv, NodesFollow
  <1>5. \A n \in alloc : n \in Node BY Typed DEF IInv
  <1>6. \A n \in alloc : snode[n].refs = 0 BY <1>3, <1>5, NoRefs
  <1>7. \A n \in alloc \cup {head} : ~snode[n].modified BY <1>3 DEF IInv, FlagsFollow
  <1>8. ~snode[head].removed /\ ~snode[head].writing BY DEF IInv, Ends
  <1> QED BY <1>4, <1>6, <1>7, <1>8 DEF Linked

\* The nodes of layer l before n.
Earlier(n, l) == {m \in In(l) : Less(m, n)}

LEMMA EarlierFinite ==
  ASSUME IInv, NEW l \in Layer, NEW n \in In(l)
  PROVE  /\ Earlier(n, l) \subseteq alloc \cup {head}
         /\ \A S \in SUBSET Earlier(n, l) :
                IsFiniteSet(S) /\ Cardinality(S) \in Nat /\ Cardinality(S) <= Cardinality(alloc) + 1
         /\ Cardinality(alloc) + 1 \in Nat
  <1>1. IsFiniteSet(alloc) BY NodeMemory, FS_Subset DEF IInv, Types
  <1>2. PICK T : T = alloc \cup {head} OBVIOUS
  <1>3. head \notin alloc BY Typed DEF IInv
  <1>4. IsFiniteSet(T) /\ Cardinality(T) = Cardinality(alloc) + 1
    BY <1>1, <1>2, <1>3, FS_AddElement
  <1>5. Earlier(n, l) \subseteq T
    <2>1. In(l) \subseteq Listed BY InListed
    <2>2. \A m \in Listed : Less(m, n) => m # tail BY <2>1, LessOrder
    <2> QED BY <1>2, <2>1, <2>2 DEF Earlier, Listed
  <1>6. \A S \in SUBSET T : IsFiniteSet(S) /\ Cardinality(S) \in Nat /\ Cardinality(S) <= Cardinality(T)
    BY <1>4, FS_Subset, FS_CardinalityType
  <1> QED BY <1>1, <1>2, <1>4, <1>5, <1>6, FS_CardinalityType

\* Some node of the layer leads to each one but the head.
LEMMA HasPrevious ==
  ASSUME IInv, NEW l \in Layer, NEW n \in In(l), n # head
  PROVE  \E p \in In(l) \ {tail} : NextIn(p, l) = n
  <1> DEFINE Between(p) == {m \in Earlier(n, l) : Less(p, m)}
             C == {i \in Nat : \E p \in Earlier(n, l) : Cardinality(Between(p)) = i}
  <1>1. head \in Earlier(n, l)
    BY InListed, NodesAssumption DEF Earlier, Less
  <1>2. \A p : /\ IsFiniteSet(Between(p)) /\ Cardinality(Between(p)) \in Nat
    <2>1. \A p : Between(p) \in SUBSET Earlier(n, l) OBVIOUS
    <2> HIDE DEF Between
    <2> QED BY <2>1, EarlierFinite
  <1>3. C \subseteq Nat /\ C # {}
    <2> HIDE DEF Between
    <2> QED BY <1>1, <1>2
  <1>4. PICK i \in C : \A j \in C : i <= j
    <2> HIDE DEF C
    <2> QED BY <1>3, LeastNumber
  <1>5. PICK p \in Earlier(n, l) : Cardinality(Between(p)) = i BY <1>4
  <1>6. p \in In(l) /\ Less(p, n) /\ p # tail /\ p \in Listed /\ n \in Listed
    <2>1. p \in In(l) /\ Less(p, n) BY DEF Earlier
    <2> QED BY <2>1, InListed, LessOrder
  <1>7. NextIn(p, l) \in In(l) /\ Less(p, NextIn(p, l)) BY <1>6, InOrder
  <1>8. SUFFICES ASSUME Less(NextIn(p, l), n) PROVE FALSE BY <1>6, InOrder
  <1>9. PICK q : q = NextIn(p, l) OBVIOUS
  <1>10. q \in Earlier(n, l) /\ q \in Listed /\ Less(p, q) BY <1>7, <1>8, <1>9, InListed DEF Earlier
  <1>11. PICK S : S = Between(p) OBVIOUS
  <1>12. PICK R : R = Between(q) OBVIOUS
  <1>13. q \in S BY <1>10, <1>11
  <1>14. R \subseteq S \ {q}
    <2>1. \A m \in Earlier(n, l) : m \in Listed BY InListed DEF Earlier
    <2>2. \A m \in Listed : Less(q, m) => m # q /\ Less(p, m) BY <1>6, <1>10, LessOrder
    <2> QED BY <1>11, <1>12, <2>1, <2>2
  <1>15. IsFiniteSet(S) /\ Cardinality(S) = i /\ Cardinality(R) \in Nat
    <2> HIDE DEF Between
    <2> QED BY <1>2, <1>5, <1>11, <1>12
  <1>16. IsFiniteSet(S \ {q}) /\ Cardinality(S \ {q}) = i - 1
    BY <1>13, <1>15, FS_RemoveElement
  <1>17. Cardinality(R) <= i - 1 BY <1>14, <1>16, FS_Subset
  <1>18. Cardinality(R) \in C BY <1>10, <1>12, <1>15
  <1>19. i \in Nat BY <1>4
  <1>20. i <= Cardinality(R)
    <2> HIDE DEF C
    <2> QED BY <1>4, <1>18
  <1> QED BY ONLY <1>15, <1>17, <1>19, <1>20

\* The sets of nodes that Reached goes through.
LEMMA ReachedIs ==
  ASSUME IInv, NEW l \in Layer
  PROVE  \E f : /\ f \in [Nat -> SUBSET In(l)]
                /\ f[0] = {head}
                /\ \A i \in Nat : f[i + 1] = f[i] \cup {NextIn(n, l) : n \in f[i] \ {tail}}
                /\ Reached(l) = f[Cardinality(alloc) + 1]
  <1> DEFINE D == SUBSET In(l)
             G == [S \in D |-> S \cup {NextIn(n, l) : n \in S \ {tail}}]
             Is(g) == g = [i \in Nat |->
                        IF i = 0 THEN {head}
                        ELSE g[i - 1] \cup {snode[n].next[l] : n \in g[i - 1] \ {tail}}]
  <1>1. PICK f \in [Nat -> D] : f[0] = {head} /\ \A i \in Nat : f[i + 1] = G[f[i]]
    <2>1. \A S \in D : G[S] \in D BY InOrder
    <2>2. {head} \in D BY InListed
    <2> HIDE DEF D, G
    <2>3. PICK d : d = D OBVIOUS
    <2>4. PICK first : first = {head} OBVIOUS
    <2>5. PICK next : next = G OBVIOUS
    <2>6. first \in d /\ \A x \in d : next[x] \in d BY <2>1, <2>2, <2>3, <2>4, <2>5
    <2>7. PICK f : Iteration(f, first, next, d) BY <2>6, Iterates
    <2> QED BY <2>3, <2>4, <2>5, <2>7 DEF Iteration
  <1>2. ASSUME NEW i \in Nat
        PROVE  f[i] = IF i = 0 THEN {head}
                      ELSE f[i - 1] \cup {snode[n].next[l] : n \in f[i - 1] \ {tail}}
    <2>1. CASE i = 0 BY <1>1, <2>1
    <2>2. CASE i # 0
      <3>1. PICK j \in Nat : j = i - 1 /\ j + 1 = i BY <2>2
      <3>2. f[j] \in D /\ f[j + 1] = G[f[j]] BY <1>1
      <3>3. f[i] = f[j] \cup {NextIn(n, l) : n \in f[j] \ {tail}} BY <3>1, <3>2
      <3> QED BY <2>2, <3>1, <3>3 DEF NextIn
    <2> QED BY <2>1, <2>2
  <1>3. Is(f)
    <2>1. f = [i \in Nat |-> f[i]] OBVIOUS
    <2> QED BY <1>2, <2>1
  <1>4. PICK g : g = CHOOSE h : Is(h) OBVIOUS
  <1>5. Is(g)
    <2> HIDE DEF Is
    <2> QED BY <1>3, <1>4
  <1>6. Reached(l) = g[Cardinality(alloc) + 1]
    <2>1. Reached(l) = (CHOOSE h : Is(h))[Cardinality(alloc) + 1] BY DEF Reached
    <2> HIDE DEF Is
    <2> QED BY <1>4, <2>1
  <1>7. \A i \in Nat :
          g[i] = IF i = 0 THEN {head}
                 ELSE g[i - 1] \cup {snode[n].next[l] : n \in g[i - 1] \ {tail}}
    BY <1>5
  <1>8. g = [i \in Nat |-> g[i]] BY <1>5
  <1>9. g[0] = {head} BY <1>7
  <1>10. ASSUME NEW i \in Nat PROVE g[i + 1] = g[i] \cup {NextIn(n, l) : n \in g[i] \ {tail}}
    <2>1. i + 1 \in Nat /\ i + 1 # 0 /\ (i + 1) - 1 = i OBVIOUS
    <2> QED BY <1>7, <2>1 DEF NextIn
  <1> DEFINE E == {i \in Nat : g[i] \in SUBSET In(l)}
  <1>11. 0 \in E BY <1>9, InListed
  <1>12. ASSUME NEW i \in Nat, i \in E PROVE i + 1 \in E
    <2>1. g[i] \in SUBSET In(l) BY <1>12
    <2>2. \A n \in g[i] \ {tail} : NextIn(n, l) \in In(l) BY <2>1, InOrder
    <2>3. g[i + 1] \in SUBSET In(l) BY <1>10, <2>1, <2>2
    <2> QED BY <2>3
  <1>13. Nat \subseteq E
    <2> HIDE DEF E
    <2> QED BY <1>11, <1>12, NatSets
  <1>14. g \in [Nat -> SUBSET In(l)]
    <2>1. \A i \in Nat : g[i] \in SUBSET In(l) BY <1>13
    <2> QED BY <1>8, <2>1
  <1> QED BY <1>6, <1>9, <1>10, <1>14

\* The head leads to all nodes of the layer and to no others.
LEMMA ReachedIn ==
  ASSUME IInv, NEW l \in Layer
  PROVE  Reached(l) = In(l)
  <1>1. PICK f : /\ f \in [Nat -> SUBSET In(l)]
                 /\ f[0] = {head}
                 /\ \A i \in Nat : f[i + 1] = f[i] \cup {NextIn(n, l) : n \in f[i] \ {tail}}
                 /\ Reached(l) = f[Cardinality(alloc) + 1]
    BY ReachedIs
  <1> DEFINE S == {i \in Nat : \A n \in In(l) : Cardinality(Earlier(n, l)) <= i => n \in f[i]}
  <1>2. ASSUME NEW n \in In(l), n # head
        PROVE  \E p \in In(l) \ {tail} :
                  /\ NextIn(p, l) = n
                  /\ Cardinality(Earlier(p, l)) <= Cardinality(Earlier(n, l)) - 1
                  /\ Cardinality(Earlier(p, l)) \in Nat /\ Cardinality(Earlier(n, l)) \in Nat
    <2>1. PICK p \in In(l) \ {tail} : NextIn(p, l) = n BY <1>2, HasPrevious
    <2>2. Less(p, n) /\ p \in Listed /\ n \in Listed BY <2>1, InOrder, InListed
    <2>3. PICK B : B = Earlier(n, l) OBVIOUS
    <2>4. PICK A : A = Earlier(p, l) OBVIOUS
    <2>5. p \in B BY <2>2, <2>3 DEF Earlier
    <2>6. A \subseteq B \ {p}
      <3>1. \A m \in Listed : Less(m, p) => m # p /\ Less(m, n) BY <2>2, LessOrder
      <3> QED BY <2>3, <2>4, <3>1, InListed DEF Earlier
    <2>7. B \in SUBSET Earlier(n, l) /\ A \in SUBSET Earlier(p, l) BY <2>3, <2>4
    <2>8. IsFiniteSet(B) /\ Cardinality(B) \in Nat /\ Cardinality(A) \in Nat
      BY <2>7, EarlierFinite
    <2>9. IsFiniteSet(B \ {p}) /\ Cardinality(B \ {p}) = Cardinality(B) - 1
      BY <2>5, <2>8, FS_RemoveElement
    <2>10. Cardinality(A) <= Cardinality(B) - 1 BY <2>6, <2>9, FS_Subset
    <2> QED BY <2>1, <2>3, <2>4, <2>8, <2>10
  <1>3. 0 \in S
    <2>1. ASSUME NEW n \in In(l), Cardinality(Earlier(n, l)) <= 0 PROVE n \in f[0]
      <3>1. SUFFICES ASSUME n # head PROVE FALSE BY <1>1
      <3>2. \E p \in In(l) \ {tail} :
                  /\ Cardinality(Earlier(p, l)) <= Cardinality(Earlier(n, l)) - 1
                  /\ Cardinality(Earlier(p, l)) \in Nat /\ Cardinality(Earlier(n, l)) \in Nat
        BY <1>2, <3>1
      <3> QED BY <2>1, <3>2
    <2> QED BY <2>1
  <1>4. ASSUME NEW i \in Nat, i \in S PROVE i + 1 \in S
    <2>1. ASSUME NEW n \in In(l), Cardinality(Earlier(n, l)) <= i + 1 PROVE n \in f[i + 1]
      <3>1. f[i + 1] = f[i] \cup {NextIn(m, l) : m \in f[i] \ {tail}} BY <1>1
      <3>2. CASE n = head
        <4>1. head \in In(l) /\ Earlier(head, l) = {}
          BY InListed, LessOrder DEF Earlier
        <4>2. Cardinality(Earlier(n, l)) <= i BY <3>2, <4>1, FS_EmptySet
        <4> QED BY <1>4, <3>1, <3>2, <4>2
      <3>3. CASE n # head
        <4>1. PICK p \in In(l) \ {tail} :
                  /\ NextIn(p, l) = n
                  /\ Cardinality(Earlier(p, l)) <= Cardinality(Earlier(n, l)) - 1
                  /\ Cardinality(Earlier(p, l)) \in Nat /\ Cardinality(Earlier(n, l)) \in Nat
          BY <1>2, <3>3
        <4>2. Cardinality(Earlier(p, l)) <= i BY <2>1, <4>1
        <4>3. p \in f[i] BY <1>4, <4>2
        <4> QED BY <3>1, <4>1, <4>3
      <3> QED BY <3>2, <3>3
    <2> QED BY <2>1
  <1>5. Nat \subseteq S
    <2> HIDE DEF S
    <2> QED BY <1>3, <1>4, NatSets
  <1>6. ASSUME NEW n \in In(l)
        PROVE  n \in f[Cardinality(alloc) + 1]
    <2>1. Earlier(n, l) \in SUBSET Earlier(n, l) OBVIOUS
    <2>2. /\ Cardinality(Earlier(n, l)) <= Cardinality(alloc) + 1
          /\ Cardinality(alloc) + 1 \in Nat
      BY <2>1, EarlierFinite
    <2>3. Cardinality(alloc) + 1 \in S BY <1>5, <2>2
    <2> QED BY <2>2, <2>3
  <1>7. Cardinality(alloc) + 1 \in Nat
    <2>1. head \in In(l) BY InListed
    <2> QED BY <2>1, EarlierFinite
  <1> HIDE DEF S
  <1> QED BY <1>1, <1>6, <1>7

LEMMA InvariantWhole ==
  ASSUME IInv
  PROVE  EachLayerIsWhole
  <1>1. ASSUME NEW l \in Layer, NEW nodes, nodes = Reached(l)
        PROVE  /\ tail \in nodes /\ Null \notin nodes
               /\ {n \in alloc : snode[n].linked /\ snode[n].top >= l} \subseteq nodes
               /\ \A n \in nodes \ {tail} :
                    LET next == snode[n].next[l]
                    IN  /\ Exists(next) /\ snode[next].top >= l
                        /\ next # tail => n = head \/ Below(snode[n].key, snode[next].key)
    <2>1. nodes = In(l) BY <1>1, ReachedIn
    <2>2. tail \in nodes /\ Null \notin nodes
      BY <2>1, InListed, Typed, NodesAssumption DEF IInv, Listed
    <2>3. {n \in alloc : snode[n].linked /\ snode[n].top >= l} \subseteq nodes
      BY <2>1, InListed DEF Listed, Linked
    <2>4. ASSUME NEW n \in nodes \ {tail}
          PROVE  LET next == snode[n].next[l]
                 IN  /\ Exists(next) /\ snode[next].top >= l
                     /\ next # tail => n = head \/ Below(snode[n].key, snode[next].key)
      <3>1. PICK next : next = NextIn(n, l) OBVIOUS
      <3>2. next \in In(l) /\ Less(n, next) BY <2>1, <2>4, <3>1, InOrder
      <3>3. Exists(next) /\ snode[next].top >= l BY <3>2, InListed DEF Exists, Listed
      <3>4. next # tail => n = head \/ Below(snode[n].key, snode[next].key)
        BY <2>4, <3>2 DEF Less
      <3> QED BY <3>1, <3>3, <3>4 DEF NextIn
    <2> QED BY <2>2, <2>3, <2>4
  <1> QED BY <1>1 DEF EachLayerIsWhole

-----------------------------------------------------------------------------
(* The theorems.                                                             *)

\* The inductive invariant holds in every state, as long as no two calls erase one node
\* at once and no memory is used again that somebody has found to come next.
THEOREM Invariance ==
  ASSUME SentinelStays
  PROVE  Spec /\ CallsApart => []IInv
  <1>1. Init => IInv BY Initially
  <1>2. IInv /\ [Next]_vars /\ [StaysApart]_vars => IInv' BY Inductive
  <1> QED BY <1>1, <1>2, PTL DEF Spec, CallsApart

\* The variables have their types; no count of references and none of the entries
\* falls below zero.
THEOREM TypeCorrect ==
  ASSUME SentinelStays
  PROVE  Spec /\ CallsApart => []TypeOK
  <1>1. IInv => TypeOK BY InvariantTypeOK
  <1> QED BY <1>1, Invariance, PTL

\* Nobody reads or writes a node that has been deleted, and nothing undefined is done.
THEOREM NoUseAfterDelete ==
  ASSUME SentinelStays
  PROVE  Spec /\ CallsApart => []NodesOutliveTheirUse
  <1>1. IInv => NodesOutliveTheirUse BY InvariantNodesOutlive
  <1> QED BY <1>1, Invariance, PTL

\* Each layer leads from the head to the tail through all linked nodes that reach up to
\* it, in the order of their keys.
THEOREM LayersStayWhole ==
  ASSUME SentinelStays
  PROVE  Spec /\ CallsApart => []EachLayerIsWhole
  <1>1. IInv => EachLayerIsWhole BY InvariantWhole
  <1> QED BY <1>1, Invariance, PTL

\* The counters hold the number of linked nodes, but for what is about to be counted.
THEOREM CountersAreRight ==
  ASSUME SentinelStays
  PROVE  Spec /\ CallsApart => []CountersFollow
  <1>1. IInv => CountersFollow BY DEF IInv
  <1> QED BY <1>1, Invariance, PTL

\* When all calls have returned, no reference, flag, mark or lock is left behind.
THEOREM CallsCleanUp ==
  ASSUME SentinelStays
  PROVE  Spec /\ CallsApart => []NothingLeftBehind
  <1>1. IInv => NothingLeftBehind BY InvariantNothingLeft
  <1> QED BY <1>1, Invariance, PTL
===============================================================================
