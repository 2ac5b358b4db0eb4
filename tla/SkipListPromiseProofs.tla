------------------------- MODULE SkipListPromiseProofs -------------------------
(***************************************************************************)
(* The map over the skip list implements OrderedIndex: an insert or an     *)
(* erase takes effect at one instant, and no search misses a key that was  *)
(* there all the time.  PInv, which says what each call knows, holds       *)
(* initially and is kept by every step, and with it every step of the map  *)
(* is one of OrderedIndex, or none.                                        *)
(***************************************************************************)
EXTENDS SkipListProofs, SkipListPromise

-----------------------------------------------------------------------------
(* The keys in the index, and the bottom layer. *)

LEMMA KeysOfNodes ==
  ASSUME IInv
  PROVE  /\ \A n \in Listed \ {head, tail} : n \in alloc /\ snode[n].key \in Key \cup {SentinelKey}
         /\ alloc \cap {head, tail, Null} = {} /\ head # tail /\ 0 \in Layer
         /\ Contents \subseteq Key \cup {SentinelKey}
  BY Typed, LayerAssumption DEF IInv, NodesFollow, Listed, Contents, Linked, Layer

LEMMA InBottom ==
  ASSUME IInv
  PROVE  /\ In(0) \subseteq Listed /\ head \in In(0) /\ tail \in In(0)
         /\ \A n \in Listed : Linked(n) => n \in In(0)
         /\ \A k \in Contents : \E n \in alloc : Linked(n) /\ n \in In(0) /\ snode[n].key = k
  <1>1. 0 \in Layer BY KeysOfNodes
  <1>2. \A n \in Listed : snode[n].top >= 0
    BY Typed DEF IInv, NodeType, Layer
  <1>3. \A n \in Listed : Linked(n) => n \in In(0) BY <1>1, <1>2, InListed
  <1> QED BY <1>1, <1>3, InListed DEF Contents, Linked, Listed

\* There is one node with each key.
LEMMA OneNode ==
  ASSUME IInv, NEW m \in In(0) \ {head, tail}, NEW n \in In(0) \ {head, tail},
         snode[m].key = snode[n].key
  PROVE  m = n
  <1>1. m \in Listed /\ n \in Listed BY InBottom
  <1>2. /\ snode[m].key \in Key \cup {SentinelKey}
        /\ 0 \in Layer BY <1>1, KeysOfNodes
  <1>3. m # n => Less(m, n) \/ Less(n, m) BY <1>2, InOrder
  <1>4. ~Below(snode[m].key, snode[n].key) /\ ~Below(snode[n].key, snode[m].key)
    BY <1>2, KeyOrder
  <1> QED BY <1>3, <1>4 DEF Less

\* No key of the index lies between a node of the bottom layer and the next one.
LEMMA NothingBetween ==
  ASSUME IInv, NEW n \in In(0) \ {tail}, NEW k \in Contents
  PROVE  ~(IsAfter(k, n) /\ IsBefore(k, NextIn(n, 0)))
  <1>1. SUFFICES ASSUME IsAfter(k, n), IsBefore(k, NextIn(n, 0)) PROVE FALSE OBVIOUS
  <1>2. PICK m \in alloc : m \in In(0) /\ snode[m].key = k BY InBottom
  <1>3. m \notin {head, tail} /\ m \in Listed /\ 0 \in Layer BY <1>2, KeysOfNodes DEF Listed
  <1>4. Less(n, m) BY <1>1, <1>2, <1>3 DEF IsAfter, Less
  <1>5. PICK b : b = NextIn(n, 0) OBVIOUS
  <1>6. b \in In(0) /\ Less(n, b) /\ (b = m \/ Less(b, m))
    BY <1>2, <1>3, <1>4, <1>5, InOrder
  <1>7. b \in Listed /\ n \in Listed BY <1>6, InBottom
  <1>8. b # head BY <1>6, <1>7, LessOrder
  <1>9. CASE b = tail
    <2>1. m # tail /\ ~Less(b, m) BY <1>3, <1>8, <1>9 DEF Less
    <2> QED BY <1>6, <1>9, <2>1
  <1>10. CASE b # tail
    <2>1. snode[b].key \in Key \cup {SentinelKey} /\ k \in Key \cup {SentinelKey}
      BY <1>7, <1>8, <1>10, KeysOfNodes
    <2>2. Below(k, snode[b].key) BY <1>1, <1>5, <1>8, <1>10 DEF IsBefore
    <2>3. snode[b].key = k \/ Below(snode[b].key, k)
      BY <1>2, <1>3, <1>6, <1>8, <1>10 DEF Less
    <2> QED BY <2>1, <2>2, <2>3, KeyOrder
  <1> QED BY <1>9, <1>10

\* Where a thread comes to in the bottom layer, and what is there then.
GrabsKnown ==
  \A t \in Thread : pc[t] = "grab" =>
      /\ F(t).at \in Listed /\ F(t).next \in Listed /\ F(t).next # head
      /\ F(t).layer = 0 => /\ F(t).next \in In(0) /\ F(t).at \in In(0) \ {tail}
                           /\ \A k \in Contents : ~(IsAfter(k, F(t).at) /\ IsBefore(k, F(t).next))

LEMMA GrabKnows == IInv => GrabsKnown
  <1> SUFFICES ASSUME IInv, NEW t \in Thread, pc[t] = "grab"
               PROVE  /\ F(t).at \in Listed /\ F(t).next \in Listed /\ F(t).next # head
                      /\ F(t).layer = 0 =>
                            /\ F(t).next \in In(0) /\ F(t).at \in In(0) \ {tail}
                            /\ \A k \in Contents : ~(IsAfter(k, F(t).at) /\ IsBefore(k, F(t).next))
    BY DEF GrabsKnown
  <1>1. /\ F(t).at \in In(F(t).layer) /\ F(t).at # tail /\ F(t).at \in Listed
        /\ F(t).next = NextIn(F(t).at, F(t).layer) /\ F(t).next \in In(F(t).layer)
        /\ F(t).next \in Listed /\ F(t).next # head
    BY GrabIn
  <1> QED BY <1>1, NothingBetween

-----------------------------------------------------------------------------
(* What the other threads know. *)

\* The nodes whose keys a thread knows of are there.
NodesKnown ==
  \A t \in Thread :
      /\ Where(t) \in Seeking => F(t).cur = head \/ F(t).cur \in alloc
      /\ pc[t] \in {"check", "skip"} \/ (pc[t] \in Returns /\ F(t).next # Null)
            => F(t).next # head /\ (F(t).next = tail \/ F(t).next \in alloc)
      /\ Visiting(t) /\ F(t).node # Null => F(t).node \in alloc
      /\ /\ F(t).cursor # Null
         /\ \/ Where(t) \in {"insertFound", "previousFound", "eraseFound", "advance"}
            \/ Erases(t) /\ Where(t) \notin Searching
         => F(t).cursor \in alloc

LEMMA KnownNodes == IInv => NodesKnown
  <1> SUFFICES ASSUME IInv, NEW t \in Thread
               PROVE  /\ Where(t) \in Seeking => F(t).cur = head \/ F(t).cur \in alloc
                      /\ pc[t] \in {"check", "skip"} \/ (pc[t] \in Returns /\ F(t).next # Null)
                            => F(t).next # head /\ (F(t).next = tail \/ F(t).next \in alloc)
                      /\ Visiting(t) /\ F(t).node # Null => F(t).node \in alloc
                      /\ /\ F(t).cursor # Null
                         /\ \/ Where(t) \in {"insertFound", "previousFound", "eraseFound", "advance"}
                            \/ Erases(t) /\ Where(t) \notin Searching
                         => F(t).cursor \in alloc
    BY DEF NodesKnown
  <1>1. F(t).node \in Node \cup {Null} /\ F(t).cursor \in Node \cup {Null}
    BY Typed DEF IInv, FrameType, F
  <1>2. Where(t) \in Seeking => F(t).cur = head \/ F(t).cur \in alloc
    BY CurListed DEF Seeking, Walking, Stepping
  <1>3. pc[t] \in {"check", "skip"} \/ (pc[t] \in Returns /\ F(t).next # Null)
            => F(t).next # head /\ (F(t).next = tail \/ F(t).next \in alloc)
    BY NextListed DEF Listed
  <1>4. Visiting(t) /\ F(t).node # Null => F(t).node \in alloc
    BY <1>1, HeldListed DEF Holds, HoldsNode
  <1>5. /\ F(t).cursor # Null
        /\ \/ Where(t) \in {"insertFound", "previousFound", "eraseFound", "advance"}
           \/ Erases(t) /\ Where(t) \notin Searching
        => F(t).cursor \in alloc
    BY <1>1, HeldListed DEF Holds, HoldsCursor
  <1> QED BY <1>2, <1>3, <1>4, <1>5

\* A step of t keeps the keys of the nodes, and links nodes or unlinks them, not both.
Tame(t) ==
    /\ Alone(t)
    /\ \A n \in alloc \cap alloc' : snode'[n].key = snode[n].key
    /\ \/ \A n \in alloc' : snode'[n].linked => n \in alloc /\ snode[n].linked
       \/ \A n \in alloc : snode[n].linked => n \in alloc' /\ snode'[n].linked

\* The call of u goes on, and sees what the index holds.
GoesOn(u) ==
    LET c == call[u]
        d == call'[u]
    IN  /\ d = [op |-> c.op, key |-> c.key, acted |-> c.acted, always |-> d.always,
                ever |-> d.ever, answer |-> c.answer]
        /\ d.always \subseteq c.always /\ c.ever \subseteq d.ever
        /\ c.op # "none" => d.always \subseteq Contents' /\ Contents' \subseteq d.ever

LEMMA CallOf ==
  ASSUME NEW t \in Thread, CallIs(t)
  PROVE  /\ call[t] = [op |-> call[t].op, key |-> call[t].key, acted |-> call[t].acted,
                       always |-> call[t].always, ever |-> call[t].ever,
                       answer |-> call[t].answer]
         /\ call[t].acted \in BOOLEAN
         /\ call[t].op = "none" <=> pc[t] = "idle"
         /\ call[t].op # "none" => /\ call[t].op \in Operations(F(t).then)
                                  /\ call[t].always \subseteq Contents
                                  /\ Contents \subseteq call[t].ever
  BY DEF CallIs

LEMMA OtherCall ==
  ASSUME NEW t \in Thread, Tame(t), NEW u \in Thread \ {t}, GoesOn(u), Knows(u)
  PROVE  CallIs(u)' /\ ThenIs(u)' /\ ActedIs(u)'
  <1>1. F(u)' = F(u) /\ pc'[u] = pc[u] BY DEF Tame, Alone
  <1>2. PICK c : c = call[u] OBVIOUS
  <1>3. PICK d : d = call'[u] OBVIOUS
  <1>4. /\ d = [op |-> c.op, key |-> c.key, acted |-> c.acted, always |-> d.always,
                ever |-> d.ever, answer |-> c.answer]
        /\ d.always \subseteq c.always /\ c.ever \subseteq d.ever
        /\ c.op # "none" => d.always \subseteq Contents' /\ Contents' \subseteq d.ever
    BY <1>2, <1>3 DEF GoesOn
  <1>5. d.op = c.op /\ d.key = c.key /\ d.acted = c.acted /\ d.answer = c.answer BY <1>4
  <1>6. CallIs(u)'
    <2>1. /\ c.acted \in BOOLEAN /\ (c.op = "none" <=> pc[u] = "idle")
          /\ c.op # "none" => c.op \in Operations(F(u).then)
      BY <1>2, CallOf DEF Knows
    <2>2. Operations(F(u).then)' = Operations(F(u).then) BY <1>1 DEF Operations
    <2>3. d = [op |-> d.op, key |-> d.key, acted |-> d.acted, always |-> d.always,
               ever |-> d.ever, answer |-> d.answer] BY <1>4, <1>5
    <2> QED BY <1>1, <1>3, <1>4, <1>5, <2>1, <2>2, <2>3 DEF CallIs
  <1>7. ThenIs(u)'
    BY <1>1, <1>2, <1>3, <1>5, OtherThread DEF Tame, Knows, ThenIs
  <1>8. ActedIs(u)'
    BY <1>1, <1>2, <1>3, <1>4, <1>5, OtherThread DEF Tame, Knows, ActedIs
  <1> QED BY <1>6, <1>7, <1>8

\* The nodes whose keys u knows keep them.
LEMMA OtherNodes ==
  ASSUME IInv, IInv', NEW t \in Thread, Tame(t), NEW u \in Thread \ {t}
  PROVE  /\ Where(u) \in Seeking =>
                F(u).cur = head \/ (F(u).cur \in alloc /\ snode'[F(u).cur].key = snode[F(u).cur].key)
         /\ Where(u) \in Seeking /\ pc[u] # "next" /\ F(u).next # Null =>
                /\ F(u).next # head
                /\ \/ F(u).next = tail
                   \/ /\ F(u).next \in alloc /\ F(u).next \in alloc'
                      /\ snode'[F(u).next].key = snode[F(u).next].key
         /\ Visiting(u) /\ F(u).node # Null => snode'[F(u).node].key = snode[F(u).node].key
         /\ /\ F(u).cursor # Null
            /\ \/ Where(u) \in {"insertFound", "previousFound", "eraseFound", "advance"}
               \/ Erases(u) /\ Where(u) \notin Searching
            => snode'[F(u).cursor].key = snode[F(u).cursor].key
  <1>1. F(u)' = F(u) /\ pc'[u] = pc[u] BY DEF Tame, Alone
  <1>2. /\ Where(u)' = Where(u) /\ (Visiting(u)' <=> Visiting(u)) /\ (Erases(u)' <=> Erases(u))
    BY OtherThread DEF Tame
  <1>3. NodesKnown /\ GrabsKnown BY KnownNodes, GrabKnows
  <1>4. (IInv => NodesKnown)' BY KnownNodes, PTL
  <1>5. (IInv => GrabsKnown)' BY GrabKnows, PTL
  <1>6. NodesKnown' /\ GrabsKnown' BY <1>4, <1>5
  <1>9. \A n \in alloc \cap alloc' : snode'[n].key = snode[n].key BY DEF Tame
  <1>10. Where(u) \in Seeking =>
            F(u).cur = head \/ (F(u).cur \in alloc /\ snode'[F(u).cur].key = snode[F(u).cur].key)
    BY <1>1, <1>2, <1>3, <1>6, <1>9 DEF NodesKnown
  <1>11. Where(u) \in Seeking /\ pc[u] # "next" /\ F(u).next # Null =>
            /\ F(u).next # head
            /\ F(u).next = tail \/ (F(u).next \in alloc /\ F(u).next \in alloc')
    <2>1. CASE pc[u] = "grab" BY <1>1, <1>3, <1>6, <2>1 DEF Listed, GrabsKnown
    <2>2. CASE pc[u] \in {"check", "skip"} BY <1>1, <1>3, <1>6, <2>2 DEF NodesKnown
    <2>3. CASE pc[u] \notin Calling
      <3>1. Where(u) \in Seeking => pc[u] \in Returns BY <2>3 DEF Where, Seeking, Returns
      <3> QED BY <1>1, <1>3, <1>6, <3>1 DEF NodesKnown
    <2> QED BY <2>1, <2>2, <2>3 DEF Calling
  <1>12. Visiting(u) /\ F(u).node # Null => snode'[F(u).node].key = snode[F(u).node].key
    BY <1>1, <1>2, <1>3, <1>6, <1>9 DEF NodesKnown
  <1>13. /\ F(u).cursor # Null
         /\ \/ Where(u) \in {"insertFound", "previousFound", "eraseFound", "advance"}
            \/ Erases(u) /\ Where(u) \notin Searching
         => snode'[F(u).cursor].key = snode[F(u).cursor].key
    BY <1>1, <1>2, <1>3, <1>6, <1>9 DEF NodesKnown
  <1> QED BY <1>9, <1>10, <1>11, <1>12, <1>13

LEMMA OtherQuery ==
  ASSUME IInv, IInv', NEW t \in Thread, Tame(t), NEW u \in Thread \ {t}, GoesOn(u), Knows(u)
  PROVE  QueryIs(u)' /\ VisitedIs(u)'
  <1>1. F(u)' = F(u) /\ pc'[u] = pc[u] BY DEF Tame, Alone
  <1>2. Where(u)' = Where(u) /\ (Visiting(u)' <=> Visiting(u)) BY OtherThread DEF Tame
  <1>3. /\ call'[u].key = call[u].key /\ call'[u].op = call[u].op
        /\ call'[u].always \subseteq call[u].always /\ call[u].ever \subseteq call'[u].ever
    BY DEF GoesOn
  <1>4. Visiting(u) /\ F(u).node # Null => snode'[F(u).node].key = snode[F(u).node].key
    BY OtherNodes
  <1>5. QueryIs(u)' BY <1>1, <1>2, <1>3, <1>4 DEF Knows, QueryIs
  <1>6. VisitedIs(u)'
    <2>1. VisitedIs(u) BY DEF Knows
    <2> QED BY <1>1, <1>2, <1>3, <2>1 DEF VisitedIs
  <1> QED BY <1>5, <1>6

\* A node whose key was there all the time stays linked, as no other has the key.
LEMMA StaysLinked ==
  ASSUME IInv, NEW t \in Thread, Tame(t), NEW n \in alloc, Linked(n), n \in alloc',
         snode'[n].key \in Contents'
  PROVE  snode'[n].linked
  <1>1. SUFFICES ASSUME ~snode'[n].linked PROVE FALSE OBVIOUS
  <1>2. \A m \in alloc \cap alloc' : snode'[m].key = snode[m].key BY DEF Tame
  <1>3. \A m \in alloc' : snode'[m].linked => m \in alloc /\ Linked(m)
    BY <1>1 DEF Tame, Linked
  <1>4. PICK m \in alloc' : snode'[m].linked /\ snode'[m].key = snode'[n].key
    BY DEF Contents
  <1>5. m \in alloc /\ Linked(m) /\ snode[m].key = snode[n].key BY <1>2, <1>3, <1>4
  <1>6. m \in In(0) \ {head, tail} /\ n \in In(0) \ {head, tail}
    BY <1>5, InBottom, KeysOfNodes DEF Listed
  <1>7. m = n BY <1>5, <1>6, OneNode
  <1> QED BY <1>1, <1>4, <1>7

LEMMA OtherWalk ==
  ASSUME IInv, IInv', NEW t \in Thread, Tame(t), NEW u \in Thread \ {t}, GoesOn(u), Knows(u)
  PROVE  WalkIs(u)'
  <1>1. F(u)' = F(u) /\ pc'[u] = pc[u] /\ Where(u)' = Where(u) BY OtherThread DEF Tame, Alone
  <1>2. PICK c : c = call[u] OBVIOUS
  <1>3. PICK d : d = call'[u] OBVIOUS
  <1>4. /\ d.always \subseteq c.always /\ c.ever \subseteq d.ever
        /\ c.op # "none" => d.always \subseteq Contents'
    BY <1>2, <1>3 DEF GoesOn
  <1>5. SUFFICES ASSUME Where(u) \in Seeking PROVE WalkIs(u)' BY <1>1 DEF WalkIs
  <1>6. c.op # "none"
    <2>1. pc[u] # "idle" BY <1>5 DEF Where, Seeking, Calling
    <2> QED BY <1>2, <2>1, CallOf DEF Knows
  <1>7. PICK f : f = F(u) OBVIOUS
  <1>8. f.cur = head \/ (f.cur \in alloc /\ snode'[f.cur].key = snode[f.cur].key)
    BY <1>5, <1>7, OtherNodes
  <1>9. pc[u] # "next" /\ f.next # Null =>
            /\ f.next # head
            /\ \/ f.next = tail
               \/ /\ f.next \in alloc /\ f.next \in alloc'
                  /\ snode'[f.next].key = snode[f.next].key
    BY <1>5, <1>7, OtherNodes
  <1>10. /\ f.cur = head \/ snode[f.cur].key \in c.ever
         /\ Where(u) = "findMove" => f.cur = head \/ Below(snode[f.cur].key, f.key)
         /\ f.layer = 0 /\ pc[u] # "next" /\ f.next # Null =>
                {k \in c.always : IsAfter(k, f.cur) /\ IsBefore(k, f.next)} = {}
         /\ f.layer = 0 /\ pc[u] = "check" /\ snode[f.next].key \in c.always => Linked(f.next)
         /\ f.layer = 0 /\ pc[u] = "skip" => snode[f.next].key \notin c.always
         /\ pc[u] \in Returns /\ f.next \notin {Null, tail} => snode[f.next].key \in c.ever
    BY <1>2, <1>5, <1>7 DEF Knows, WalkIs, Missed
  <1>11. f.cur = head \/ snode'[f.cur].key \in d.ever BY <1>4, <1>8, <1>10
  <1>12. Where(u) = "findMove" => f.cur = head \/ Below(snode'[f.cur].key, f.key)
    BY <1>8, <1>10
  <1>13. ASSUME f.layer = 0, pc[u] # "next", f.next # Null
         PROVE  {k \in d.always : IsAfter(k, f.cur)' /\ IsBefore(k, f.next)'} = {}
    <2>1. ASSUME NEW k \in d.always, IsAfter(k, f.cur)', IsBefore(k, f.next)' PROVE FALSE
      <3>1. IsAfter(k, f.cur) BY <1>8, <2>1 DEF IsAfter
      <3>2. IsBefore(k, f.next) BY <1>9, <1>13, <2>1 DEF IsBefore
      <3> QED BY <1>4, <1>10, <1>13, <2>1, <3>1, <3>2
    <2> QED BY <2>1
  <1>14. pc[u] \in {"check", "skip"} => f.next # Null
    BY <1>7, NodesAssumption, Typed DEF IInv, Fits, NextFits
  <1>15. ASSUME f.layer = 0, pc[u] = "check", snode'[f.next].key \in d.always
         PROVE  Linked(f.next)'
    <2>1. CASE f.next = tail BY <2>1 DEF IInv, Ends
    <2>2. CASE f.next # tail
      <3>1. /\ f.next \in alloc /\ f.next \in alloc' /\ snode'[f.next].key = snode[f.next].key
            /\ snode'[f.next].key \in Contents'
        BY <1>4, <1>6, <1>9, <1>14, <1>15, <2>2
      <3>2. Linked(f.next) BY <1>4, <1>10, <1>15, <3>1
      <3> QED BY <3>1, <3>2, StaysLinked DEF Linked
    <2> QED BY <2>1, <2>2
  <1>16. f.layer = 0 /\ pc[u] = "skip" => snode'[f.next].key \notin d.always
    <2>1. pc[u] = "skip" => f.next # tail BY <1>7 DEF IInv, Fits, NextFits
    <2> QED BY <1>4, <1>9, <1>10, <1>14, <2>1
  <1>17. pc[u] \in Returns /\ f.next \notin {Null, tail} => snode'[f.next].key \in d.ever
    <2>1. pc[u] \in Returns => pc[u] # "next" BY DEF Returns
    <2> QED BY <1>4, <1>9, <1>10, <2>1
  <1>18. F(u)' = f BY <1>1, <1>7
  <1> QED BY <1>1, <1>3, <1>11, <1>12, <1>13, <1>15, <1>16, <1>17, <1>18 DEF WalkIs, Missed

LEMMA OtherCursor ==
  ASSUME IInv, IInv', NEW t \in Thread, Tame(t), NEW u \in Thread \ {t}, GoesOn(u), Knows(u)
  PROVE  CursorIs(u)'
  <1>1. /\ F(u)' = F(u) /\ pc'[u] = pc[u] /\ Where(u)' = Where(u)
        /\ Erases(u)' <=> Erases(u) BY OtherThread DEF Tame, Alone
  <1>2. PICK c : c = call[u] OBVIOUS
  <1>3. PICK d : d = call'[u] OBVIOUS
  <1>4. d.always \subseteq c.always /\ c.ever \subseteq d.ever /\ d.key = c.key
    BY <1>2, <1>3 DEF GoesOn
  <1>5. /\ F(u).cursor # Null
        /\ \/ Where(u) \in {"insertFound", "previousFound", "eraseFound", "advance"}
           \/ Erases(u) /\ Where(u) \notin Searching
        => snode'[F(u).cursor].key = snode[F(u).cursor].key
    BY OtherNodes
  <1>6. CursorIs(u) BY DEF Knows
  <1> QED BY <1>1, <1>2, <1>3, <1>4, <1>5, <1>6 DEF CursorIs

LEMMA OtherKnows ==
  ASSUME IInv, IInv', NEW t \in Thread, Tame(t), NEW u \in Thread \ {t}, GoesOn(u), Knows(u)
  PROVE  Knows(u)'
  BY OtherCall, OtherQuery, OtherWalk, OtherCursor DEF Knows

-----------------------------------------------------------------------------
(* Steps that leave the keys alone. *)

\* What a step of t leaves that neither links a node nor unlinks one.
Calm(t) ==
    /\ Alone(t)
    /\ \A n \in alloc \cap alloc' : snode'[n].key = snode[n].key
    /\ \A n \in alloc' : snode'[n].linked => n \in alloc /\ snode[n].linked
    /\ \A n \in alloc : snode[n].linked => n \in alloc' /\ snode'[n].linked

LEMMA CalmTame ==
  ASSUME NEW t \in Thread, Calm(t)
  PROVE  Tame(t) /\ Contents' = Contents
  <1>1. Tame(t) BY DEF Calm, Tame
  <1>2. \A k : k \in Contents' <=> k \in Contents BY DEF Calm, Contents
  <1> QED BY <1>1, <1>2

Gentle ==
    alloc' = alloc /\ \A n \in alloc : /\ snode'[n].key = snode[n].key
                                       /\ snode'[n].linked = snode[n].linked

LEMMA GentleCalm ==
  ASSUME IInv, NEW t \in Thread, NEW label, NEW f, Go(t, label, f), Gentle
  PROVE  Calm(t)
  BY GoFrame DEF Calm, Gentle, IInv

LEMMA GentleRefs ==
  ASSUME IInv, UNCHANGED alloc,
         \/ \E S : snode' = Grabbed(S) \/ snode' = Dropped(S)
         \/ UNCHANGED snode
  PROVE  Gentle
  <1>1. alloc \subseteq AllNode BY Typed DEF IInv, AllNode
  <1>2. CASE UNCHANGED snode BY <1>2 DEF Gentle
  <1>3. CASE \E S : snode' = Grabbed(S)
    <2>1. PICK S : snode' = Grabbed(S) BY <1>3
    <2> QED BY <1>1, <2>1, GrabbedTakes DEF Gentle, Takes, Same, IInv
  <1>4. CASE \E S : snode' = Dropped(S)
    <2>1. PICK S : snode' = Dropped(S) BY <1>4
    <2> QED BY <1>1, <2>1, DroppedTakes DEF Gentle, Takes, Same, IInv
  <1> QED BY <1>2, <1>3, <1>4

LEMMA ClearsCalm ==
  ASSUME IInv, NEW t \in Thread, NEW start, NEW nodes, NEW label, ClearFlags(t, start, nodes, label)
  PROVE  Calm(t)
  <1>1. Gentle BY GentleRefs DEF ClearFlags
  <1>2. \E l, f : Go(t, l, f) BY DEF ClearFlags
  <1> QED BY <1>1, <1>2, GentleCalm

\* One field of one node is stored that is neither its key nor "linked".
LEMMA GentleStore ==
  ASSUME IInv, UNCHANGED alloc, NEW m,
         \/ snode' = [snode EXCEPT ![m].modified = TRUE]
         \/ snode' = [snode EXCEPT ![m].modified = FALSE]
         \/ snode' = [snode EXCEPT ![m].removed = TRUE]
         \/ snode' = [snode EXCEPT ![m].removed = FALSE]
         \/ \E l, n : snode' = [snode EXCEPT ![m].next[l] = n]
  PROVE  Gentle
  <1>1. snode \in [AllNode -> NodeType] /\ alloc \subseteq AllNode
    BY Typed DEF IInv, AllNode, Types
  <1>2. CASE \E l, n : snode' = [snode EXCEPT ![m].next[l] = n]
    BY <1>1, <1>2 DEF Gentle, NodeType
  <1>3. CASE \/ snode' = [snode EXCEPT ![m].modified = TRUE]
             \/ snode' = [snode EXCEPT ![m].modified = FALSE]
    BY <1>1, <1>3 DEF Gentle, NodeType
  <1>4. CASE \/ snode' = [snode EXCEPT ![m].removed = TRUE]
             \/ snode' = [snode EXCEPT ![m].removed = FALSE]
    BY <1>1, <1>4 DEF Gentle, NodeType
  <1> QED BY <1>2, <1>3, <1>4

LEMMA ClearFlagCalm ==
  ASSUME IInv, NEW t \in Thread, ClearFlag(t)
  PROVE  Calm(t)
  <1> DEFINE rest == F(t).clearing \ {Sets!Min(F(t).clearing)}
  <1>1. PICK d : d = IF rest = {} THEN Dropped({F(t).cur}) ELSE snode OBVIOUS
  <1>2. PICK m : snode' = [d EXCEPT ![m].modified = FALSE] BY <1>1 DEF ClearFlag
  <1>3. alloc' = alloc /\ \E l, f : Go(t, l, f) BY DEF ClearFlag
  <1>4. snode \in [AllNode -> NodeType] /\ alloc \subseteq AllNode
    BY Typed DEF IInv, AllNode, Types
  <1>5. /\ d \in [AllNode -> NodeType]
        /\ \A n \in AllNode : d[n].key = snode[n].key /\ d[n].linked = snode[n].linked
    <2>1. CASE d = snode BY <1>4, <2>1
    <2>2. CASE d = Dropped({F(t).cur})
      <3>1. PICK S : S = {F(t).cur} \cap Node OBVIOUS
      <3>2. d = [n \in AllNode |-> IF n \in S THEN [snode[n] EXCEPT !.refs = @ - 1] ELSE snode[n]]
        BY <2>2, <3>1 DEF Dropped
      <3>3. \A n \in AllNode : /\ d[n] \in NodeType /\ d[n].key = snode[n].key
                               /\ d[n].linked = snode[n].linked
        BY ONLY <1>4, <3>2 DEF NodeType
      <3> QED BY <3>2, <3>3
    <2> QED BY <1>1, <2>1, <2>2
  <1>6. Gentle BY <1>2, <1>3, <1>4, <1>5 DEF Gentle, NodeType
  <1> QED BY <1>3, <1>6, GentleCalm

LEMMA SwingGentle ==
  ASSUME IInv, NEW t \in Thread, NEW from, NEW to, Swing(t, from, to), UNCHANGED alloc
  PROVE  Gentle
  BY GentleStore, GentleRefs DEF Swing

\* Of the skip list's steps all but two are calm.
LEMMA SkipListCalm ==
  ASSUME IInv, NEW t \in Thread, SkipListStep(t), ~InsertLinked(t), ~EraseUnlink(t)
  PROVE  Calm(t)
  <1>1. ASSUME UNCHANGED snode \/ \E S : snode' = Grabbed(S) \/ snode' = Dropped(S),
               UNCHANGED alloc, NEW label, NEW f, Go(t, label, f)
        PROVE  Calm(t)
    BY <1>1, GentleRefs, GentleCalm
  <1>2. CASE NextLoad(t) \/ NextGrab(t) \/ NextCheck(t) \/ NextSkip(t)
    <2>1. CASE NextLoad(t) BY <1>1, <2>1 DEF NextLoad, memory
    <2>2. CASE NextGrab(t) BY <1>1, <2>2 DEF NextGrab, Undefined, memory
    <2>3. CASE NextCheck(t) BY <1>1, <2>3 DEF NextCheck
    <2>4. CASE NextSkip(t) BY <1>1, <2>4 DEF NextSkip
    <2> QED BY <1>2, <2>1, <2>2, <2>3, <2>4
  <1>3. ASSUME Right(t) \/ Down(t) \/ Place(t) PROVE Calm(t)
    BY <1>1, <1>3 DEF Right, Down, Place, CallNext
  <1>4. CASE ClearFlag(t) \/ Flag(t) \/ Neighbours(t) \/ Again(t)
    <2>1. CASE ClearFlag(t) BY <2>1, ClearFlagCalm
    <2>2. CASE Flag(t)
      <3>1. CASE SameAsAbove(t) \/ ~snode[F(t).cur].modified
        <4>1. /\ snode' = [snode EXCEPT ![F(t).cur].modified = TRUE] /\ UNCHANGED alloc
              /\ Go(t, "neighbours", F(t))
          BY <2>2, <3>1 DEF Flag
        <4> QED BY <4>1, GentleStore, GentleCalm
      <3>2. CASE ~(SameAsAbove(t) \/ ~snode[F(t).cur].modified)
        BY <2>2, <3>2, ClearsCalm DEF Flag
      <3> QED BY <3>1, <3>2
    <2>3. CASE Neighbours(t)
      <3>1. PICK l : l = F(t).layer OBVIOUS
      <3>2. \/ ClearFlags(t, IF SameAsAbove(t) THEN l + 1 ELSE l, {}, Retry(t))
            \/ /\ snode' = IF F(t).find = Null
                           THEN [snode EXCEPT ![F(t).node].next[l] = F(t).nexts[l]]
                           ELSE snode
               /\ CallNext(t, F(t), "again")
               /\ UNCHANGED alloc
        BY <2>3, <3>1 DEF Neighbours
      <3>3. ASSUME snode' = IF F(t).find = Null
                            THEN [snode EXCEPT ![F(t).node].next[l] = F(t).nexts[l]]
                            ELSE snode,
                   CallNext(t, F(t), "again"), UNCHANGED alloc
            PROVE  Calm(t)
        <4>1. Gentle BY <3>3, GentleStore, GentleRefs
        <4> QED BY <3>3, <4>1, GentleCalm DEF CallNext
      <3> QED BY <3>2, <3>3, ClearsCalm
    <2>4. CASE Again(t)
      <3>1. CASE F(t).next = Null BY <1>1, <2>4, <3>1 DEF Again, Undefined, memory
      <3>2. CASE F(t).next # Null /\ F(t).next # F(t).nexts[F(t).layer]
        BY <2>4, <3>2, ClearsCalm DEF Again
      <3>3. CASE F(t).next # Null /\ F(t).next = F(t).nexts[F(t).layer]
        BY <1>1, <2>4, <3>3 DEF Again, CallNext
      <3> QED BY <3>1, <3>2, <3>3
    <2> QED BY <1>4, <2>1, <2>2, <2>3, <2>4
  <1>5. CASE ScanLayers(t) \/ StoreTop(t)
    <2>1. CASE ScanLayers(t)
      <3>1. \/ ClearFlags(t, 0, {}, AfterUpdate(t))
            \/ UNCHANGED memory /\ \E l, f : Go(t, l, f)
        BY <2>1 DEF ScanLayers
      <3> QED BY <1>1, <3>1, ClearsCalm DEF memory
    <2>2. CASE StoreTop(t) BY <1>1, <2>2 DEF StoreTop
    <2> QED BY <1>5, <2>1, <2>2
  <1>6. CASE \/ InsertStart(t) \/ InsertRetry(t) \/ InsertRight(t) \/ InsertDuplicate(t)
             \/ InsertDown(t) \/ InsertPlace(t) \/ InsertLink(t) \/ InsertCount(t)
    <2>1. CASE InsertStart(t) BY <1>1, <2>1 DEF InsertStart, FromHead, CallNext, memory
    <2>2. CASE InsertRetry(t) \/ InsertDuplicate(t)
      BY <2>2, ClearsCalm DEF InsertRetry, InsertDuplicate
    <2>3. CASE InsertRight(t) \/ InsertDown(t) \/ InsertPlace(t)
      BY <1>3, <2>3 DEF InsertRight, InsertDown, InsertPlace
    <2>4. CASE InsertLink(t)
      <3>1. Gentle BY <2>4, SwingGentle DEF InsertLink
      <3> QED BY <2>4, <3>1, GentleCalm DEF InsertLink, NextLayerOr
    <2>5. CASE InsertCount(t) BY <1>1, <2>5 DEF InsertCount
    <2> QED BY <1>6, <2>1, <2>2, <2>3, <2>4, <2>5
  <1>7. CASE \/ FindStart(t) \/ FindRetry(t) \/ FindRight(t) \/ FindEqual(t) \/ FindDown(t)
             \/ FindBottom(t) \/ Successor(t)
    <2>1. CASE FindStart(t) BY <1>1, <2>1 DEF FindStart, FromHead, CallNext, memory
    <2>2. CASE FindRetry(t) BY <1>1, <2>2 DEF FindRetry
    <2>3. CASE FindRight(t) \/ FindDown(t) BY <1>3, <2>3 DEF FindRight, FindDown
    <2>4. CASE FindEqual(t) \/ FindBottom(t) BY <1>1, <2>4 DEF FindEqual, FindBottom, Return
    <2>5. CASE Successor(t) BY <1>1, <2>5 DEF Successor, memory
    <2> QED BY <1>7, <2>1, <2>2, <2>3, <2>4, <2>5
  <1>8. CASE \/ EraseNode(t) \/ EraseFlagNode(t) \/ EraseMark(t) \/ EraseStart(t)
             \/ EraseRetry(t) \/ EraseRight(t) \/ EraseDown(t) \/ ErasePlace(t)
    <2>1. CASE EraseNode(t) BY <1>1, <2>1 DEF EraseNode, memory
    <2>2. CASE EraseFlagNode(t)
      <3>1. UNCHANGED alloc BY <2>2 DEF EraseFlagNode
      <3>2. \/ UNCHANGED snode
            \/ snode' = [snode EXCEPT ![F(t).node].modified = TRUE]
        BY <2>2 DEF EraseFlagNode
      <3>3. Gentle BY <3>1, <3>2, GentleStore, GentleRefs
      <3> QED BY <2>2, <3>3, GentleCalm DEF EraseFlagNode
    <2>3. CASE EraseMark(t)
      <3>1. Gentle BY <2>3, GentleStore DEF EraseMark
      <3> QED BY <2>3, <3>1, GentleCalm DEF EraseMark
    <2>4. CASE EraseStart(t)
      <3>1. UNCHANGED alloc BY <2>4 DEF EraseStart
      <3>2. \/ UNCHANGED snode
            \/ snode' = [snode EXCEPT ![F(t).node].removed = FALSE]
        BY <2>4 DEF EraseStart
      <3>3. Gentle BY <3>1, <3>2, GentleStore, GentleRefs
      <3>4. \E l, f : Go(t, l, f) BY <2>4 DEF EraseStart, FromHead, CallNext
      <3> QED BY <3>3, <3>4, GentleCalm
    <2>5. CASE EraseRetry(t) BY <2>5, ClearsCalm DEF EraseRetry
    <2>6. CASE EraseRight(t) \/ EraseDown(t) \/ ErasePlace(t)
      BY <1>3, <2>6 DEF EraseRight, EraseDown, ErasePlace
    <2> QED BY <1>8, <2>1, <2>2, <2>3, <2>4, <2>5, <2>6
  <1>9. CASE EraseBypass(t) \/ EraseCount(t) \/ EraseUnflag(t)
    <2>1. CASE EraseBypass(t)
      <3>1. Gentle BY <2>1, SwingGentle DEF EraseBypass
      <3> QED BY <2>1, <3>1, GentleCalm DEF EraseBypass, NextLayerOr
    <2>2. CASE EraseCount(t) BY <1>1, <2>2 DEF EraseCount
    <2>3. CASE EraseUnflag(t)
      <3>1. Gentle BY <2>3, GentleStore DEF EraseUnflag
      <3> QED BY <2>3, <3>1, GentleCalm DEF EraseUnflag
    <2> QED BY <1>9, <2>1, <2>2, <2>3
  <1> QED BY <1>2, <1>4, <1>5, <1>6, <1>7, <1>8, <1>9 DEF SkipListStep

\* A node that is deleted is not linked.
LEMMA DeleteCalm ==
  ASSUME IInv, NEW t \in Thread, Creating(t) \/ Erased(t), NEW label, Delete(t, label)
  PROVE  Calm(t)
  <1>1. Owns(t) BY DEF Owns, Erases
  <1>2. F(t).node \in alloc /\ F(t).node \in AllNode BY <1>1, Owned
  <1>3. ~Linked(F(t).node) BY <1>2 DEF IInv, NodesFollow
  <1>4. snode \in [AllNode -> NodeType] BY DEF IInv, Types
  <1>5. \A n \in AllNode \ {F(t).node} : snode'[n] = snode[n] BY <1>4 DEF Delete
  <1>6. alloc' = alloc \ {F(t).node} /\ alloc \subseteq AllNode
    BY Typed DEF Delete, IInv, AllNode
  <1>7. Alone(t) BY GoFrame DEF Delete, IInv
  <1> QED BY <1>3, <1>5, <1>6, <1>7 DEF Calm, Linked

LEMMA MapCalm ==
  ASSUME IInv, NEW t \in Thread, MapWork(t)
  PROVE  Calm(t)
  <1>1. ASSUME UNCHANGED snode \/ \E S : snode' = Grabbed(S) \/ snode' = Dropped(S),
               UNCHANGED alloc, NEW label, NEW f, Go(t, label, f)
        PROVE  Calm(t)
    BY <1>1, GentleRefs, GentleCalm
  <1>2. CASE NewNode(t)
    <2>1. PICK n \in Node \ alloc, top \in Layer :
            /\ alloc' = alloc \cup {n}
            /\ snode' = [snode EXCEPT ![n] = [NewSnode(F(t).key, top) EXCEPT !.writing = TRUE]]
            /\ Go(t, "insert", [F(t) EXCEPT !.node = n])
      BY <1>2 DEF NewNode
    <2>2. snode \in [AllNode -> NodeType] /\ alloc \subseteq AllNode /\ n \in AllNode
      BY Typed DEF IInv, Types, AllNode
    <2>3. \A m \in AllNode \ {n} : snode'[m] = snode[m] BY <2>1, <2>2
    <2>4. ~snode'[n].linked
      <3>1. PICK s : s = NewSnode(F(t).key, top) OBVIOUS
      <3>2. snode'[n] = [s EXCEPT !.writing = TRUE] BY <2>1, <2>2, <3>1
      <3> QED BY <3>1, <3>2 DEF NewSnode
    <2>5. Alone(t) BY <2>1, GoFrame DEF IInv
    <2> QED BY <2>1, <2>2, <2>3, <2>4, <2>5 DEF Calm
  <1>3. CASE InsertGrab(t) BY <1>1, <1>3 DEF InsertGrab
  <1>4. CASE DeleteDuplicate(t)
    <2>1. Creating(t) BY <1>4 DEF DeleteDuplicate, Creating, Where, Calling
    <2> QED BY <1>4, <2>1, DeleteCalm DEF DeleteDuplicate
  <1>5. CASE DeleteErased(t)
    <2>1. Erased(t) BY <1>5 DEF DeleteErased, Erased, Where, Calling
    <2>2. \/ Delete(t, "eraseFound")
          \/ UNCHANGED memory /\ Go(t, "wait", F(t))
      BY <1>5 DEF DeleteErased
    <2> QED BY <1>1, <2>1, <2>2, DeleteCalm DEF memory
  <1>6. CASE InsertAgain(t) \/ WaitForUsers(t) BY <1>1, <1>6 DEF InsertAgain, WaitForUsers, memory
  <1>7. CASE EraseNext(t) BY <1>1, <1>7 DEF EraseNext, CallSuccessor, CallNext, memory
  <1>8. CASE EraseRelease(t) \/ EmptySize(t) BY <1>1, <1>8 DEF EraseRelease, EmptySize
  <1>9. CASE BeginAtHead(t) BY <1>1, <1>9 DEF BeginAtHead, CallNext, memory
  <1>10. CASE FirstEntry(t) \/ NextEntry(t)
    BY <1>1, <1>10 DEF FirstEntry, NextEntry, Visit, CallSuccessor, CallNext, memory
  <1> QED BY <1>2, <1>3, <1>4, <1>5, <1>6, <1>7, <1>8, <1>9, <1>10 DEF MapWork

LEMMA CallCalm ==
  ASSUME IInv, NEW t \in Thread, Begin(t) \/ MapReturn(t)
  PROVE  Calm(t)
  <1>1. CASE Begin(t)
    <2>1. Gentle BY <1>1, GentleRefs DEF Begin, memory
    <2>2. \E l, f : Go(t, l, f) BY <1>1 DEF Begin
    <2> QED BY <2>1, <2>2, GentleCalm
  <1>2. ASSUME NEW answer, NEW n, Finish(t, answer, n) PROVE Calm(t)
    BY <1>2, GentleRefs, GentleCalm DEF Finish
  <1>3. CASE MapReturn(t)
    BY <1>2, <1>3 DEF MapReturn, InsertReturn, InsertFound, EraseReturn, PreviousFound, SumReturn,
       EmptyReturn
  <1> QED BY <1>1, <1>3

\* While the contents stay the same, so do the calls.
LEMMA CallsStay ==
  ASSUME PInv, NEW t \in Thread, Contents' = Contents,
         call' = Index!Seen([call EXCEPT ![t].acted = @ \/ Contents' # Contents], Contents')
  PROVE  call' = call
  <1>1. PICK C : C = Contents OBVIOUS
  <1>2. PICK d : d = [call EXCEPT ![t].acted = @ \/ Contents' # Contents] OBVIOUS
  <1>3. \A u \in Thread : CallIs(u) /\ call[u] = [call[u] EXCEPT !.acted = @]
    <2> SUFFICES ASSUME NEW u \in Thread PROVE CallIs(u) /\ call[u] = [call[u] EXCEPT !.acted = @]
      OBVIOUS
    <2>1. CallIs(u) BY DEF PInv, Knows
    <2>2. PICK c : c = call[u] OBVIOUS
    <2>3. c = [op |-> c.op, key |-> c.key, acted |-> c.acted, always |-> c.always,
               ever |-> c.ever, answer |-> c.answer]
      BY <2>1, <2>2, CallOf
    <2>4. c = [c EXCEPT !.acted = @] BY ONLY <2>3
    <2> QED BY <2>1, <2>2, <2>4
  <1>4. call = [u \in Thread |-> call[u]] BY DEF PInv
  <1>5. d = call
    <2>1. call[t].acted = (call[t].acted \/ Contents' # Contents)
      BY <1>3, CallOf
    <2>2. d = [call EXCEPT ![t] = [call[t] EXCEPT !.acted = call[t].acted]] BY <1>2, <2>1
    <2>3. [call[t] EXCEPT !.acted = call[t].acted] = call[t] BY <1>3
    <2> QED BY <1>4, <2>2, <2>3
  <1>6. call' = [u \in Thread |-> IF call[u].op = "none" THEN call[u]
                                  ELSE [call[u] EXCEPT !.always = @ \cap C, !.ever = @ \cup C]]
    <2>1. PICK e : e = [call EXCEPT ![t].acted = @ \/ Contents' # Contents] OBVIOUS
    <2>2. e = call BY <1>2, <1>5, <2>1
    <2>3. PICK D : D = Contents' OBVIOUS
    <2>4. call' = Index!Seen(e, D) BY <2>1, <2>3
    <2>5. D = C BY <1>1, <2>3
    <2> QED BY <2>2, <2>4, <2>5 DEF Index!Seen
  <1>7. ASSUME NEW u \in Thread, call[u].op # "none"
        PROVE  [call[u] EXCEPT !.always = @ \cap C, !.ever = @ \cup C] = call[u]
    <2>1. PICK c : c = call[u] OBVIOUS
    <2>2. /\ c = [op |-> c.op, key |-> c.key, acted |-> c.acted, always |-> c.always,
                  ever |-> c.ever, answer |-> c.answer]
          /\ c.always \cap C = c.always /\ c.ever \cup C = c.ever
      BY <1>1, <1>3, <1>7, <2>1, CallOf
    <2>3. [c EXCEPT !.always = c.always, !.ever = c.ever] = c BY ONLY <2>2
    <2> QED BY <2>1, <2>2, <2>3
  <1> QED BY <1>4, <1>6, <1>7

-----------------------------------------------------------------------------
(* What a thread knows that works on its node. *)

\* Each has one part, and no other.
RolesApart ==
  \A t \in Thread :
      /\ Owns(t) /\ Where(t) \notin Searching =>
            /\ Where(t) \notin {"idle", "new", "insertFound", "eraseFound", "previousFound",
                                "advance", "begin", "first", "size", "find", "findMove", "successor"}
            /\ pc[t] # "idle" /\ ~Visiting(t)
      /\ Creating(t) \/ Created(t) => ~Erases(t)
      /\ Creating(t) => ~Created(t)
      /\ Unmarked(t) \/ Marked(t) => ~Erased(t)
      /\ Unmarked(t) => ~Marked(t)

LEMMA Roles == RolesApart
  <1> SUFFICES ASSUME NEW t \in Thread
               PROVE  /\ Owns(t) /\ Where(t) \notin Searching =>
                            /\ Where(t) \notin {"idle", "new", "insertFound", "eraseFound",
                                                "previousFound", "advance", "begin", "first",
                                                "size", "find", "findMove", "successor"}
                            /\ pc[t] # "idle" /\ ~Visiting(t)
                      /\ Creating(t) \/ Created(t) => ~Erases(t)
                      /\ Creating(t) => ~Created(t)
                      /\ Unmarked(t) \/ Marked(t) => ~Erased(t)
                      /\ Unmarked(t) => ~Marked(t)
    BY DEF RolesApart
  <1>1. pc[t] = "idle" => Where(t) = "idle" BY DEF Where, Calling
  <1>2. Creating(t) \/ Created(t) \/ Erases(t) => Where(t) # "idle"
    BY DEF Creating, Created, Erases, Unmarked, Marked, Erased, Placing, Updating, Searching
  <1>3. Creating(t) \/ Created(t) \/ (Erases(t) /\ Where(t) \notin Searching) =>
            Where(t) \notin {"idle", "new", "insertFound", "eraseFound", "previousFound",
                             "advance", "begin", "first", "size", "find", "findMove", "successor"}
    BY DEF Creating, Created, Erases, Unmarked, Marked, Erased, Placing, Updating, Searching
  <1>4. Creating(t) \/ Created(t) => ~Erases(t)
    BY DEF Creating, Created, Erases, Unmarked, Marked, Erased, Placing, Updating, Searching
  <1>5. Creating(t) => ~Created(t) BY DEF Creating, Created, Placing, Updating
  <1>6. Unmarked(t) \/ Marked(t) => ~Erased(t)
    BY DEF Unmarked, Marked, Erased, Placing, Updating, Searching
  <1>7. Unmarked(t) => ~Marked(t) BY DEF Unmarked, Marked, Placing, Searching
  <1> QED BY <1>1, <1>2, <1>3, <1>4, <1>5, <1>6, <1>7 DEF Owns, Visiting

KeysStay == \A n \in alloc \cap alloc' : snode'[n].key = snode[n].key

\* t goes on with its node, in the same call.
Works(t) ==
    /\ Owns(t) /\ Where(t) \notin Searching /\ Owns(t)' /\ Where(t)' \notin Searching
    /\ Creating(t)' \/ Created(t)' <=> Creating(t) \/ Created(t)
    /\ F(t)'.key = F(t).key /\ F(t)'.mode = F(t).mode
    /\ F(t)'.cursor = F(t).cursor /\ F(t)'.then = F(t).then

\* What its call has seen, and whether it has had its effect.
Acts(t) ==
    LET c == call[t]
        d == call'[t]
    IN  /\ d = [op |-> c.op, key |-> c.key, acted |-> d.acted, always |-> d.always,
                ever |-> d.ever, answer |-> c.answer]
        /\ d.always \subseteq Contents' /\ Contents' \subseteq d.ever
        /\ d.acted \in BOOLEAN /\ (d.acted <=> Created(t)' \/ Erased(t)')
        /\ d.acted /\ c.op = "erase" => c.key \notin d.always

LEMMA WorkKnows ==
  ASSUME IInv, IInv', NEW t \in Thread, KeysStay, Works(t), Acts(t), Knows(t)
  PROVE  Knows(t)'
  <1>1. PICK f : f = F(t) OBVIOUS
  <1>2. PICK g : g = F(t)' OBVIOUS
  <1>3. g.key = f.key /\ g.mode = f.mode /\ g.cursor = f.cursor /\ g.then = f.then
    BY <1>1, <1>2 DEF Works
  <1>4. PICK c : c = call[t] OBVIOUS
  <1>5. PICK d : d = call'[t] OBVIOUS
  <1>6. /\ d = [op |-> c.op, key |-> c.key, acted |-> d.acted, always |-> d.always,
                ever |-> d.ever, answer |-> c.answer]
        /\ d.always \subseteq Contents' /\ Contents' \subseteq d.ever
        /\ d.acted \in BOOLEAN /\ (d.acted <=> Created(t)' \/ Erased(t)')
        /\ d.acted /\ c.op = "erase" => c.key \notin d.always
    BY <1>4, <1>5 DEF Acts
  <1>7. d.op = c.op /\ d.key = c.key /\ d.answer = c.answer BY <1>6
  <1>8. RolesApart' BY Roles, PTL
  <1>9. /\ Where(t)' \notin {"idle", "new", "insertFound", "eraseFound", "previousFound",
                             "advance", "begin", "first", "size", "find", "findMove", "successor"}
        /\ pc'[t] # "idle" /\ ~Visiting(t)'
        /\ Creating(t)' \/ Created(t)' => ~Erases(t)'
    BY <1>8 DEF RolesApart, Works
  <1>10. /\ pc[t] # "idle" /\ Where(t) \notin {"eraseFound"}
         /\ Creating(t) \/ Created(t) => ~Erases(t)
    BY Roles DEF RolesApart, Works
  <1>11. /\ Creating(t)' \/ Created(t)' <=> Creating(t) \/ Created(t)
         /\ Erases(t)' <=> Erases(t)
    BY <1>9, <1>10 DEF Works, Owns
  <1>12. /\ c.op # "none" /\ c.op \in Operations(f.then)
    BY <1>1, <1>4, <1>10, CallOf DEF Knows
  <1>13. CallIs(t)'
    <2>1. Operations(F(t).then)' = Operations(f.then) BY <1>2, <1>3 DEF Operations
    <2>2. d = [op |-> d.op, key |-> d.key, acted |-> d.acted, always |-> d.always,
               ever |-> d.ever, answer |-> d.answer] BY <1>6, <1>7
    <2> QED BY <1>5, <1>6, <1>7, <1>9, <1>12, <2>1, <2>2 DEF CallIs
  <1>14. ThenIs(t)'
    <2>1. /\ Creating(t) \/ Created(t) => f.then = "insertFound"
          /\ Erases(t) => f.then = "eraseNode"
      BY <1>1 DEF Knows, ThenIs
    <2> QED BY <1>2, <1>3, <1>9, <1>11, <2>1 DEF ThenIs
  <1>15. QueryIs(t)'
    <2>1. /\ f.then \in Queries \cup {"eraseNode"} => f.key = c.key /\ f.key \in Key
          /\ f.then \in {"insertFound", "eraseFound"} => f.mode = "EQ"
          /\ f.then = "previousFound" => f.mode = "SM"
      BY <1>1, <1>4 DEF Knows, QueryIs
    <2> QED BY <1>2, <1>3, <1>5, <1>7, <1>9, <2>1 DEF QueryIs
  <1>16. ActedIs(t)' BY <1>5, <1>6, <1>7, <1>9 DEF ActedIs
  <1>17. WalkIs(t)' BY <1>9 DEF WalkIs, Seeking
  <1>18. CursorIs(t)'
    <2>1. Erases(t) => (f.cursor = Null \/ Below(c.key, snode[f.cursor].key))
      BY <1>1, <1>4 DEF Knows, CursorIs, Works
    <2>2. Erases(t) /\ f.cursor # Null => f.cursor \in alloc /\ f.cursor \in alloc'
      <3>1. (IInv => NodesKnown)' BY KnownNodes, PTL
      <3>2. NodesKnown /\ NodesKnown' BY <3>1, KnownNodes
      <3> QED BY <1>1, <1>2, <1>3, <1>11, <3>2 DEF NodesKnown, Works
    <2>3. Erases(t) => (f.cursor = Null \/ Below(c.key, snode'[f.cursor].key))
      BY <2>1, <2>2 DEF KeysStay
    <2> QED BY <1>2, <1>3, <1>5, <1>7, <1>9, <1>11, <2>3 DEF CursorIs, Works
  <1>19. VisitedIs(t)' BY <1>9 DEF VisitedIs
  <1> QED BY <1>13, <1>14, <1>15, <1>16, <1>17, <1>18, <1>19 DEF Knows

\* A step of its work that neither links the node nor unlinks it.
LEMMA WorkStays ==
  ASSUME IInv, IInv', NEW t \in Thread, Calm(t), Works(t), Knows(t), call'[t] = call[t],
         Created(t)' \/ Erased(t)' <=> Created(t) \/ Erased(t)
  PROVE  Knows(t)'
  <1>1. PICK c : c = call[t] OBVIOUS
  <1>2. /\ c = [op |-> c.op, key |-> c.key, acted |-> c.acted, always |-> c.always,
                ever |-> c.ever, answer |-> c.answer]
        /\ c.acted \in BOOLEAN /\ (c.op = "none" <=> pc[t] = "idle")
        /\ c.op # "none" => c.always \subseteq Contents /\ Contents \subseteq c.ever
    BY <1>1, CallOf DEF Knows
  <1>3. pc[t] # "idle" /\ Where(t) # "eraseFound" BY Roles DEF RolesApart, Works
  <1>4. /\ c.acted <=> Created(t) \/ Erased(t)
        /\ c.acted /\ c.op = "erase" => c.key \notin c.always
    BY <1>1, <1>3 DEF Knows, ActedIs
  <1>5. Contents' = Contents BY CalmTame
  <1>6. Acts(t) BY <1>1, <1>2, <1>3, <1>4, <1>5 DEF Acts
  <1> QED BY <1>6, WorkKnows DEF Calm, KeysStay

\* Where the steps of its work lead to.
LEMMA WorkLeads ==
  ASSUME IInv, NEW t \in Thread, NEW label, NEW g, Go(t, label, g),
         g.key = F(t).key, g.mode = F(t).mode, g.cursor = F(t).cursor, g.then = F(t).then,
         NEW w, w = (IF label \in Calling THEN g.ret ELSE label), w \notin Searching,
         Where(t) \notin Searching,
         \/ Creating(t) /\ \/ w \in {"insert", "insertMove", "link", "linked", "duplicate"}
                           \/ w \in Placing /\ g.find = Null
                           \/ w = "clear" /\ g.resume \in {"insert", "duplicate"}
         \/ Created(t) /\ \/ w \in {"insertCount", "inserted", "held"}
                          \/ w \in Updating /\ g.find = Null
                          \/ w = "clear" /\ g.resume = "inserted"
         \/ /\ Unmarked(t) \/ Marked(t)
            /\ \/ w \in {"eraseNode", "eraseFlagNode", "eraseMark", "erase", "eraseMove", "unlink"}
               \/ w \in Placing /\ g.find # Null
               \/ w = "clear" /\ g.resume = "erase"
         \/ Erased(t) /\ \/ w \in {"bypass", "eraseCount", "eraseUnflag", "erased", "wait", "waitRefs"}
                         \/ w \in Updating /\ g.find # Null
                         \/ w = "clear" /\ g.resume = "eraseUnflag"
  PROVE  Works(t) /\ (Created(t)' \/ Erased(t)' <=> Created(t) \/ Erased(t))
  <1>1. F(t)' = g /\ pc'[t] = label BY GoFrame DEF IInv
  <1>2. Where(t)' = w /\ (Inserts(t)' <=> g.find = Null) BY <1>1 DEF Where, Inserts
  <1>3. /\ (Creating(t) => Creating(t)') /\ (Created(t) => Created(t)')
        /\ Unmarked(t) \/ Marked(t) => Unmarked(t)' \/ Marked(t)'
        /\ Erased(t) => Erased(t)'
    <2>1. RolesApart BY Roles
    <2>2. CASE Creating(t)
      <3>1. Creating(t)' BY <1>1, <1>2, <2>1, <2>2 DEF Creating, RolesApart, Erases
      <3> QED BY <2>1, <2>2, <3>1 DEF RolesApart, Erases
    <2>3. CASE Created(t)
      <3>1. Created(t)' BY <1>1, <1>2, <2>1, <2>3 DEF Created, RolesApart, Erases
      <3> QED BY <2>1, <2>3, <3>1 DEF RolesApart, Erases
    <2>4. CASE Unmarked(t) \/ Marked(t)
      <3>1. Unmarked(t)' \/ Marked(t)'
        BY <1>1, <1>2, <2>1, <2>4 DEF Unmarked, Marked, RolesApart, Erases
      <3> QED BY <2>1, <2>4, <3>1 DEF RolesApart, Erases
    <2>5. CASE Erased(t)
      <3>1. Erased(t)' BY <1>1, <1>2, <2>1, <2>5 DEF Erased, RolesApart, Erases
      <3> QED BY <2>1, <2>5, <3>1 DEF RolesApart, Erases
    <2> QED BY <2>2, <2>3, <2>4, <2>5
  <1>4. RolesApart /\ RolesApart'
    <2>1. RolesApart' BY Roles, PTL
    <2> QED BY <2>1, Roles
  <1>5. /\ Owns(t) /\ Owns(t)'
        /\ Creating(t)' \/ Created(t)' <=> Creating(t) \/ Created(t)
        /\ Created(t)' \/ Erased(t)' <=> Created(t) \/ Erased(t)
    BY <1>3, <1>4 DEF Owns, Erases, RolesApart
  <1> QED BY <1>1, <1>2, <1>5 DEF Works

\* It takes its flags back.
LEMMA ClearsWork ==
  ASSUME IInv, NEW t \in Thread, NEW start, NEW nodes, NEW label,
         ClearFlags(t, start, nodes, label), Where(t) \notin Searching,
         \/ Creating(t) /\ label \in {"insert", "duplicate"}
         \/ Created(t) /\ label = "inserted"
         \/ Marked(t) /\ label = "erase"
         \/ Erased(t) /\ label = "eraseUnflag"
  PROVE  Works(t) /\ (Created(t)' \/ Erased(t)' <=> Created(t) \/ Erased(t))
  <1>1. label \notin Calling /\ label \notin Searching /\ "clear" \notin Calling \cup Searching
    BY DEF Calling, Searching
  <1>2. CASE Go(t, label, F(t))
    <2>1. PICK g : g = F(t) OBVIOUS
    <2>2. PICK w : w = IF label \in Calling THEN g.ret ELSE label OBVIOUS
    <2>3. w = label BY <1>1, <2>2
    <2> QED BY <1>1, <1>2, <2>1, <2>2, <2>3, WorkLeads
  <1>3. CASE \E S : Go(t, "clear", [F(t) EXCEPT !.clearing = S, !.resume = label])
    <2>1. PICK S : Go(t, "clear", [F(t) EXCEPT !.clearing = S, !.resume = label]) BY <1>3
    <2>2. PICK g : g = [F(t) EXCEPT !.clearing = S, !.resume = label] OBVIOUS
    <2>3. /\ g.key = F(t).key /\ g.mode = F(t).mode /\ g.cursor = F(t).cursor
          /\ g.then = F(t).then /\ g.resume = label
      BY <2>2, FrameIs DEF FrameType
    <2>4. PICK w : w = IF "clear" \in Calling THEN g.ret ELSE "clear" OBVIOUS
    <2>5. w = "clear" BY <1>1, <2>4
    <2>6. Go(t, "clear", g) BY <2>1, <2>2
    <2> QED BY ONLY IInv, Where(t) \notin Searching, <1>1, <2>3, <2>4, <2>5, <2>6, WorkLeads,
         \/ Creating(t) /\ label \in {"insert", "duplicate"}
         \/ Created(t) /\ label = "inserted"
         \/ Marked(t) /\ label = "erase"
         \/ Erased(t) /\ label = "eraseUnflag"
  <1> QED BY <1>2, <1>3 DEF ClearFlags

\* It looks for its place.
LEMMA CallWork ==
  ASSUME IInv, NEW t \in Thread, NEW f \in FrameType, NEW ret, CallNext(t, f, ret),
         f.key = F(t).key, f.mode = F(t).mode, f.cursor = F(t).cursor, f.then = F(t).then,
         Where(t) \notin Searching,
         \/ Creating(t) /\ (ret = "insertMove" \/ (ret = "again" /\ f.find = Null))
         \/ Marked(t) /\ (ret = "eraseMove" \/ (ret = "again" /\ f.find # Null))
  PROVE  Works(t) /\ (Created(t)' \/ Erased(t)' <=> Created(t) \/ Erased(t))
  <1>1. PICK g : g = [f EXCEPT !.passed = {}, !.found = FALSE, !.ret = ret, !.next = Null] OBVIOUS
  <1>2. /\ g.key = F(t).key /\ g.mode = F(t).mode /\ g.cursor = F(t).cursor
        /\ g.then = F(t).then /\ g.ret = ret /\ g.find = f.find
    BY <1>1 DEF FrameType
  <1>3. PICK w : w = IF "next" \in Calling THEN g.ret ELSE "next" OBVIOUS
  <1>4. w = ret BY <1>2, <1>3 DEF Calling
  <1>5. Go(t, "next", g) BY <1>1 DEF CallNext
  <1>6. w \notin Searching BY <1>4 DEF Searching
  <1>7. \/ Creating(t) /\ (w = "insertMove" \/ (w \in Placing /\ g.find = Null))
        \/ Marked(t) /\ (w = "eraseMove" \/ (w \in Placing /\ g.find # Null))
    BY <1>2, <1>4 DEF Placing
  <1> QED BY <1>2, <1>3, <1>5, <1>6, <1>7, WorkLeads

\* One that goes to another label with the frame it has, but for "layer" and the like.
LEMMA GoWork ==
  ASSUME IInv, NEW t \in Thread, NEW label, NEW g, Go(t, label, g),
         g.key = F(t).key, g.mode = F(t).mode, g.cursor = F(t).cursor, g.then = F(t).then,
         g.resume = F(t).resume,
         label \notin Calling \cup Searching, Where(t) \notin Searching,
         \/ /\ Creating(t)
            /\ \/ label \in {"insert", "insertMove", "link", "linked", "duplicate"}
               \/ label \in Placing /\ g.find = Null
               \/ label = "clear" /\ g.resume \in {"insert", "duplicate"}
         \/ /\ Created(t)
            /\ \/ label \in {"insertCount", "inserted", "held"}
               \/ label \in Updating /\ g.find = Null
               \/ label = "clear" /\ g.resume = "inserted"
         \/ /\ Unmarked(t) \/ Marked(t)
            /\ \/ label \in {"eraseNode", "eraseFlagNode", "eraseMark", "erase", "eraseMove", "unlink"}
               \/ label \in Placing /\ g.find # Null
               \/ label = "clear" /\ g.resume = "erase"
         \/ /\ Erased(t)
            /\ \/ label \in {"bypass", "eraseCount", "eraseUnflag", "erased", "wait", "waitRefs"}
               \/ label \in Updating /\ g.find # Null
               \/ label = "clear" /\ g.resume = "eraseUnflag"
  PROVE  Works(t) /\ (Created(t)' \/ Erased(t)' <=> Created(t) \/ Erased(t))
  <1>1. PICK w : w = IF label \in Calling THEN g.ret ELSE label OBVIOUS
  <1>2. w = label BY <1>1
  <1> QED BY <1>1, <1>2, WorkLeads

LEMMA PlaceWork ==
  ASSUME IInv, NEW t \in Thread,
         \/ ClearFlag(t) \/ Flag(t) \/ Neighbours(t) \/ Again(t) \/ ScanLayers(t) \/ StoreTop(t),
         pc'[t] # "undefined"
  PROVE  Works(t) /\ (Created(t)' \/ Erased(t)' <=> Created(t) \/ Erased(t))
  <1>0. LocalsFit(t) BY DEF IInv, Fits
  <1>1. CASE ClearFlag(t)
    <2>1. /\ pc[t] = "clear" /\ Where(t) = "clear" /\ F(t).resume \in Resumes
          /\ F(t).find = IF F(t).resume \in {"erase", "eraseUnflag"} THEN F(t).node ELSE Null
      BY <1>0, <1>1 DEF ClearFlag, Where, Calling, LocalsFit
    <2>2. PICK rest : Go(t, IF rest = {} THEN F(t).resume ELSE "clear", [F(t) EXCEPT !.clearing = rest])
      BY <1>1 DEF ClearFlag
    <2>3. PICK g : g = [F(t) EXCEPT !.clearing = rest] OBVIOUS
    <2>4. /\ g.key = F(t).key /\ g.mode = F(t).mode /\ g.cursor = F(t).cursor
          /\ g.then = F(t).then /\ g.resume = F(t).resume /\ g.find = F(t).find
      BY <2>3, FrameIs DEF FrameType
    <2>5. PICK label : label = IF rest = {} THEN F(t).resume ELSE "clear" OBVIOUS
    <2>6. Go(t, label, g) /\ label \in {F(t).resume, "clear"} BY <2>2, <2>3, <2>5
    <2>7. label \notin Calling \cup Searching /\ Where(t) \notin Searching
      BY <2>1, <2>6 DEF Calling, Searching, Resumes
    <2>8. \/ Creating(t) /\ F(t).resume \in {"insert", "duplicate"}
          \/ Created(t) /\ F(t).resume = "inserted"
          \/ Marked(t) /\ F(t).resume = "erase"
          \/ Erased(t) /\ F(t).resume = "eraseUnflag"
      BY <2>1 DEF Resumes, Creating, Created, Marked, Erased
    <2> QED BY <2>4, <2>6, <2>7, <2>8, GoWork
  <1>2. CASE pc[t] \in Placing
    <2>1. /\ Where(t) = pc[t] /\ Where(t) \notin Searching
          /\ F(t).find \in {Null, F(t).node}
      BY <1>0, <1>2 DEF Where, Calling, Placing, Searching, LocalsFit
    <2>2. \/ Creating(t) /\ F(t).find = Null
          \/ Marked(t) /\ F(t).find # Null
      BY <1>2, <2>1 DEF Creating, Marked, Inserts
    <2>3. F(t) \in FrameType BY FrameIs
    <2>4. PICK label : label = Retry(t) OBVIOUS
    <2>5. \/ Creating(t) /\ label = "insert"
          \/ Marked(t) /\ label = "erase"
      BY <2>2, <2>4 DEF Retry
    <2>6. ASSUME NEW start, NEW nodes, ClearFlags(t, start, nodes, Retry(t))
          PROVE  Works(t) /\ (Created(t)' \/ Erased(t)' <=> Created(t) \/ Erased(t))
      <3>1. ClearFlags(t, start, nodes, label) BY <2>4, <2>6
      <3> QED BY <2>1, <2>5, <3>1, ClearsWork
    <2>7. CASE Flag(t)
      <3>1. CASE Go(t, "neighbours", F(t))
        <4>1. PICK g : g = F(t) OBVIOUS
        <4>2. "neighbours" \notin Calling \cup Searching /\ "neighbours" \in Placing
          BY DEF Calling, Searching, Placing
        <4> QED BY <2>1, <2>2, <3>1, <4>1, <4>2, GoWork
      <3> QED BY <2>6, <2>7, <3>1 DEF Flag
    <2>8. CASE Neighbours(t)
      <3>1. CASE CallNext(t, F(t), "again")
        <4>1. PICK f : f = F(t) OBVIOUS
        <4> QED BY <2>1, <2>2, <2>3, <3>1, <4>1, CallWork
      <3>2. CallNext(t, F(t), "again") \/ \E start : ClearFlags(t, start, {}, Retry(t))
        BY <2>8 DEF Neighbours
      <3> QED BY <2>6, <3>1, <3>2
    <2>9. CASE Again(t)
      <3>0. F(t).next # Null
        <4>1. F(t).next = Null => pc'[t] = "undefined"
          BY <2>9, GoFrame DEF Again, Undefined, IInv
        <4> QED BY <4>1, <1>1, <1>2, <2>9
      <3>1. CASE CallNext(t, [F(t) EXCEPT !.layer = F(t).layer - 1],
                          IF F(t).find = Null THEN "insertMove" ELSE "eraseMove") /\ F(t).layer > 0
        <4>1. PICK f : f = [F(t) EXCEPT !.layer = F(t).layer - 1] OBVIOUS
        <4>2. PICK ret : ret = IF F(t).find = Null THEN "insertMove" ELSE "eraseMove" OBVIOUS
        <4>3. F(t).layer - 1 \in Layer BY <3>1, FrameIs, LayerAssumption DEF Layer
        <4>4. /\ f \in FrameType /\ f.key = F(t).key /\ f.mode = F(t).mode
              /\ f.cursor = F(t).cursor /\ f.then = F(t).then
          BY <2>3, <4>1, <4>3 DEF FrameType
        <4>5. CallNext(t, f, ret) BY <3>1, <4>1, <4>2
        <4>6. \/ Creating(t) /\ ret = "insertMove"
              \/ Marked(t) /\ ret = "eraseMove"
          BY <2>2, <4>2
        <4> QED BY <2>1, <4>4, <4>5, <4>6, CallWork
      <3>2. CASE Go(t, IF F(t).find = Null THEN "link" ELSE "unlink", F(t))
        <4>1. PICK g : g = F(t) OBVIOUS
        <4>2. PICK l : l = IF F(t).find = Null THEN "link" ELSE "unlink" OBVIOUS
        <4>3. l \notin Calling \cup Searching BY <4>2 DEF Calling, Searching
        <4>4. Go(t, l, g) BY <3>2, <4>1, <4>2
        <4>5. \/ Creating(t) /\ l = "link"
              \/ Marked(t) /\ l = "unlink"
          BY <2>2, <4>2
        <4> QED BY <2>1, <4>1, <4>3, <4>4, <4>5, GoWork
      <3> QED BY <2>6, <2>9, <3>0, <3>1, <3>2 DEF Again
    <2>10. pc[t] \notin {"clear", "scan", "storeTop"} BY <1>2 DEF Placing
    <2> QED BY <2>7, <2>8, <2>9, <2>10 DEF ClearFlag, ScanLayers, StoreTop
  <1>3. CASE pc[t] \in Updating
    <2>1. /\ Where(t) = pc[t] /\ Where(t) \notin Searching
          /\ F(t).find \in {Null, F(t).node}
      BY <1>0, <1>3 DEF Where, Calling, Updating, Searching, LocalsFit
    <2>2. \/ Created(t) /\ F(t).find = Null
          \/ Erased(t) /\ F(t).find # Null
      BY <1>3, <2>1 DEF Created, Erased, Inserts
    <2>3. F(t) \in FrameType BY FrameIs
    <2>4. PICK label : label = AfterUpdate(t) OBVIOUS
    <2>5. \/ Created(t) /\ label = "inserted"
          \/ Erased(t) /\ label = "eraseUnflag"
      BY <2>2, <2>4 DEF AfterUpdate
    <2>6. CASE ScanLayers(t)
      <3>1. CASE ClearFlags(t, 0, {}, AfterUpdate(t))
        <4>1. ClearFlags(t, 0, {}, label) BY <2>4, <3>1
        <4> QED BY <2>1, <2>5, <4>1, ClearsWork
      <3>2. ASSUME NEW l \in {"scan", "storeTop"}, NEW i, Go(t, l, [F(t) EXCEPT !.layer = i])
            PROVE  Works(t) /\ (Created(t)' \/ Erased(t)' <=> Created(t) \/ Erased(t))
        <4>1. PICK g : g = [F(t) EXCEPT !.layer = i] OBVIOUS
        <4>2. /\ g.key = F(t).key /\ g.mode = F(t).mode /\ g.cursor = F(t).cursor
              /\ g.then = F(t).then /\ g.resume = F(t).resume /\ g.find = F(t).find
          BY <2>3, <4>1 DEF FrameType
        <4>3. l \notin Calling \cup Searching /\ l \in Updating BY DEF Calling, Searching, Updating
        <4> QED BY <2>1, <2>2, <3>2, <4>1, <4>2, <4>3, GoWork
      <3>3. F(t) = [F(t) EXCEPT !.layer = F(t).layer] BY <2>3 DEF FrameType
      <3>4. \/ ClearFlags(t, 0, {}, AfterUpdate(t))
            \/ Go(t, "storeTop", F(t))
            \/ Go(t, "scan", [F(t) EXCEPT !.layer = F(t).layer - 1])
        BY <2>6 DEF ScanLayers
      <3>5. CASE Go(t, "storeTop", F(t))
        <4>1. Go(t, "storeTop", [F(t) EXCEPT !.layer = F(t).layer]) BY <3>3, <3>5
        <4> QED BY <3>2, <4>1
      <3> QED BY <3>1, <3>2, <3>4, <3>5
    <2>7. CASE StoreTop(t)
      <3>1. PICK g : g = [F(t) EXCEPT !.clearing = FlaggedFrom(t, 0), !.resume = AfterUpdate(t)] OBVIOUS
      <3>2. /\ g.key = F(t).key /\ g.mode = F(t).mode /\ g.cursor = F(t).cursor
            /\ g.then = F(t).then /\ g.resume = label
        BY <2>3, <2>4, <3>1 DEF FrameType
      <3>3. Go(t, "clear", g) BY <2>7, <3>1 DEF StoreTop
      <3>4. PICK w : w = IF "clear" \in Calling THEN g.ret ELSE "clear" OBVIOUS
      <3>5. w = "clear" /\ w \notin Searching BY <3>4 DEF Calling, Searching
      <3>6. \/ Created(t) /\ w = "clear" /\ g.resume = "inserted"
            \/ Erased(t) /\ w = "clear" /\ g.resume = "eraseUnflag"
        BY <2>5, <3>2, <3>5
      <3> QED BY ONLY IInv, <2>1, <3>2, <3>3, <3>4, <3>5, <3>6, WorkLeads
    <2>8. pc[t] \notin {"clear", "flag", "neighbours", "again"} BY <1>3 DEF Updating
    <2> QED BY <2>6, <2>7, <2>8 DEF ClearFlag, Flag, Neighbours, Again
  <1> QED BY <1>1, <1>2, <1>3 DEF Flag, Neighbours, Again, ScanLayers, StoreTop, Placing, Updating

\* The searches of an insert and an erase, from start to place.
LEMMA MoveWork ==
  ASSUME IInv, NEW t \in Thread,
         \/ InsertStart(t) \/ InsertRetry(t) \/ InsertRight(t) \/ InsertDuplicate(t)
         \/ InsertDown(t) \/ InsertPlace(t)
         \/ EraseStart(t) \/ EraseRetry(t) \/ EraseRight(t) \/ EraseDown(t) \/ ErasePlace(t),
         pc'[t] # "undefined"
  PROVE  Works(t) /\ (Created(t)' \/ Erased(t)' <=> Created(t) \/ Erased(t))
  <1>0. pc[t] \in {"insert", "insertMove", "erase", "eraseMove"}
    BY DEF InsertStart, InsertRetry, InsertRight, InsertDuplicate, InsertDown, InsertPlace,
           EraseStart, EraseRetry, EraseRight, EraseDown, ErasePlace, At
  <1>1. /\ Where(t) = pc[t] /\ Where(t) \notin Searching
        /\ F(t) \in FrameType
        /\ pc[t] \in {"insert", "insertMove"} <=> Creating(t)
        /\ pc[t] \in {"erase", "eraseMove"} <=> Marked(t)
    <2>1. Where(t) = pc[t] /\ Where(t) \notin Searching BY <1>0 DEF Where, Calling, Searching
    <2> QED BY <1>0, <2>1, FrameIs DEF Creating, Marked, Placing
  <1>2. LocalsFit(t) BY DEF IInv, Fits
  <1>3. /\ pc[t] = "insertMove" => F(t).ret = "insertMove" /\ F(t).find = Null
        /\ pc[t] = "eraseMove" => F(t).ret = "eraseMove" /\ F(t).find # Null
    <2>1. pc[t] = "eraseMove" => F(t).node # Null
      <3>1. Marked(t) => Owns(t) BY DEF Owns, Erases
      <3> QED BY <1>1, <3>1, Owned
    <2> QED BY <1>1, <1>2, <2>1 DEF LocalsFit, Returns, Inserts
  <1>4. ASSUME NEW f, CallNext(t, f, F(t).ret), pc[t] \in {"insertMove", "eraseMove"},
               \/ \E n \in Link : f = [F(t) EXCEPT !.cur = n]
               \/ \E i \in Layer : f = [F(t) EXCEPT !.layer = i]
        PROVE  Works(t) /\ (Created(t)' \/ Erased(t)' <=> Created(t) \/ Erased(t))
    <2>1. /\ f \in FrameType /\ f.key = F(t).key /\ f.mode = F(t).mode
          /\ f.cursor = F(t).cursor /\ f.then = F(t).then
      BY <1>1, <1>4 DEF FrameType
    <2>2. PICK ret : ret = F(t).ret OBVIOUS
    <2>3. CallNext(t, f, ret) BY <1>4, <2>2
    <2>4. \/ Creating(t) /\ ret = "insertMove"
          \/ Marked(t) /\ ret = "eraseMove"
      BY <1>1, <1>3, <1>4, <2>2
    <2> QED BY <1>1, <2>1, <2>3, <2>4, CallWork
  <1>5. ASSUME Right(t), At(t, "insertMove") \/ At(t, "eraseMove")
        PROVE  Works(t) /\ (Created(t)' \/ Erased(t)' <=> Created(t) \/ Erased(t))
    <2>1. F(t).next \in Link BY FrameIs
    <2>2. PICK f : f = [F(t) EXCEPT !.cur = F(t).next] OBVIOUS
    <2> QED BY <1>4, <1>5, <2>1, <2>2 DEF Right, At
  <1>6. ASSUME Down(t), At(t, "insertMove") \/ At(t, "eraseMove"), F(t).layer > Top(t)
        PROVE  Works(t) /\ (Created(t)' \/ Erased(t)' <=> Created(t) \/ Erased(t))
    <2>1. F(t).layer - 1 \in Layer
      <3>1. Owns(t) BY <1>1, <1>6 DEF Owns, Erases, At
      <3>2. Top(t) \in Layer /\ F(t).layer \in Layer BY <3>1, Owned, FrameIs
      <3> QED BY <1>6, <3>2, LayerAssumption DEF Layer
    <2>2. PICK f : f = [F(t) EXCEPT !.layer = F(t).layer - 1] OBVIOUS
    <2> QED BY <1>4, <1>6, <2>1, <2>2 DEF Down, At
  <1>7. ASSUME Place(t), At(t, "insertMove") \/ At(t, "eraseMove")
        PROVE  Works(t) /\ (Created(t)' \/ Erased(t)' <=> Created(t) \/ Erased(t))
    <2>1. PICK l : l = F(t).layer OBVIOUS
    <2>2. PICK g : g = [F(t) EXCEPT !.prevs[l] = F(t).cur, !.nexts[l] = F(t).next] OBVIOUS
    <2>3. Go(t, "flag", g) BY <1>7, <2>1, <2>2 DEF Place
    <2>4. /\ g.key = F(t).key /\ g.mode = F(t).mode /\ g.cursor = F(t).cursor
          /\ g.then = F(t).then /\ g.resume = F(t).resume /\ g.find = F(t).find
      BY <1>1, <2>2 DEF FrameType
    <2>5. "flag" \notin Calling \cup Searching /\ "flag" \in Placing
      BY DEF Calling, Searching, Placing
    <2>6. \/ Creating(t) /\ g.find = Null
          \/ Marked(t) /\ g.find # Null
      BY <1>1, <1>3, <1>7, <2>4 DEF At
    <2> QED BY <1>1, <2>3, <2>4, <2>5, <2>6, GoWork
  <1>8. ASSUME NEW i \in Layer, NEW n \in Node \cup {Null}, NEW ret,
               FromHead(t, i, n, ret),
               \/ Creating(t) /\ ret = "insertMove"
               \/ Marked(t) /\ ret = "eraseMove"
        PROVE  Works(t) /\ (Created(t)' \/ Erased(t)' <=> Created(t) \/ Erased(t))
    <2>1. PICK f : f = [F(t) EXCEPT !.cur = head, !.layer = i, !.find = n,
                                    !.prevs = EmptyFrame.prevs, !.nexts = EmptyFrame.nexts]
      OBVIOUS
    <2>2. EmptyFrame.prevs \in [Layer -> Link] /\ EmptyFrame.nexts \in [Layer -> Link]
          /\ head \in Link
      BY DEF EmptyFrame, Link, AllNode
    <2>3. /\ f \in FrameType /\ f.key = F(t).key /\ f.mode = F(t).mode
          /\ f.cursor = F(t).cursor /\ f.then = F(t).then
      BY <1>1, <2>1, <2>2 DEF FrameType
    <2>4. CallNext(t, f, ret) BY <1>8, <2>1 DEF FromHead
    <2> QED BY <1>1, <1>8, <2>3, <2>4, CallWork
  <1>9. ASSUME NEW start, NEW nodes, NEW label, ClearFlags(t, start, nodes, label),
               \/ Creating(t) /\ label \in {"insert", "duplicate"}
               \/ Marked(t) /\ label = "erase"
        PROVE  Works(t) /\ (Created(t)' \/ Erased(t)' <=> Created(t) \/ Erased(t))
    BY <1>1, <1>9, ClearsWork
  <1>10. CASE InsertStart(t)
    <2>1. PICK i : i = IF Top(t) > slist.top THEN Top(t) ELSE slist.top OBVIOUS
    <2>2. Creating(t) /\ Owns(t) BY <1>1, <1>10 DEF InsertStart, Owns
    <2>3. i \in Layer BY <2>1, <2>2, Owned, Typed DEF IInv, Types
    <2>4. FromHead(t, i, Null, "insertMove") BY <1>10, <2>1 DEF InsertStart
    <2> QED BY <1>8, <2>2, <2>3, <2>4
  <1>11. CASE InsertRetry(t)
    <2>1. ClearFlags(t, F(t).layer + 1, {}, "insert") /\ Creating(t)
      BY <1>1, <1>11 DEF InsertRetry
    <2> QED BY <1>9, <2>1
  <1>12. CASE InsertDuplicate(t)
    <2>1. ClearFlags(t, F(t).layer + 1, {F(t).next}, "duplicate") /\ Creating(t)
      BY <1>1, <1>12 DEF InsertDuplicate, At
    <2> QED BY <1>9, <2>1
  <1>13. CASE EraseStart(t)
    <2>1. Marked(t) /\ Owns(t) BY <1>1, <1>13 DEF EraseStart, Owns, Erases
    <2>2. F(t).node \in alloc /\ F(t).node \in Node
          /\ \A u \in Thread : Owns(u) /\ F(u).node = F(t).node => u = t BY <2>1, Owned
    <2>3. Linked(F(t).node)
      <3>1. \A u \in Thread : Creating(u) \/ Erased(u) => Owns(u) BY DEF Owns, Erases
      <3>2. ~Creating(t) /\ ~Erased(t) BY <2>1, PartsApart
      <3> QED BY <2>2, <3>1, <3>2 DEF IInv, NodesFollow
    <2>4. slist.top \in Layer BY Typed DEF IInv, Types
    <2>5. slist.top < Top(t) => pc'[t] = "undefined"
      <3>1. slist.top < Top(t) => Go(t, "undefined", F(t)) BY <1>13, <2>3 DEF EraseStart, Linked
      <3> QED BY <3>1, GoFrame DEF IInv
    <2>6. FromHead(t, slist.top, F(t).node, "eraseMove")
      BY <1>13, <2>3, <2>5 DEF EraseStart, Linked
    <2> QED BY <1>8, <2>1, <2>2, <2>4, <2>6
  <1>14. CASE EraseRetry(t)
    <2>1. ClearFlags(t, F(t).layer + 1, {}, "erase") /\ Marked(t)
      BY <1>1, <1>14 DEF EraseRetry
    <2> QED BY <1>9, <2>1
  <1> QED BY <1>5, <1>6, <1>7, <1>10, <1>11, <1>12, <1>13, <1>14
          DEF InsertRight, InsertDown, InsertPlace, EraseRight, EraseDown, ErasePlace

\* A step to a label with the frame it has, or with another layer.
LEMMA TurnWork ==
  ASSUME IInv, NEW t \in Thread,
         \/ InsertLink(t) \/ InsertCount(t) \/ InsertGrab(t)
         \/ EraseNode(t) \/ EraseFlagNode(t) \/ EraseMark(t)
         \/ EraseBypass(t) \/ EraseCount(t) \/ EraseUnflag(t) \/ EraseRelease(t)
         \/ WaitForUsers(t) \/ (DeleteErased(t) /\ Go(t, "wait", F(t)))
  PROVE  Works(t) /\ (Created(t)' \/ Erased(t)' <=> Created(t) \/ Erased(t))
  <1>0. pc[t] \in {"link", "insertCount", "inserted", "eraseNode", "eraseFlagNode", "eraseMark",
                   "bypass", "eraseCount", "eraseUnflag", "erased", "wait", "waitRefs"}
    BY DEF InsertLink, InsertCount, InsertGrab, EraseNode, EraseFlagNode, EraseMark,
           EraseBypass, EraseCount, EraseUnflag, EraseRelease, WaitForUsers, DeleteErased
  <1>1. /\ Where(t) = pc[t] /\ Where(t) \notin Searching /\ F(t) \in FrameType
        /\ pc[t] = "link" => Creating(t)
        /\ pc[t] \in {"insertCount", "inserted"} => Created(t)
        /\ pc[t] \in {"eraseNode", "eraseFlagNode", "eraseMark"} => Unmarked(t)
        /\ pc[t] \in {"bypass", "eraseCount", "eraseUnflag", "erased", "wait", "waitRefs"}
              => Erased(t)
    <2>1. Where(t) = pc[t] /\ Where(t) \notin Searching BY <1>0 DEF Where, Calling, Searching
    <2> QED BY <2>1, FrameIs DEF Creating, Created, Unmarked, Erased
  <1>2. LocalsFit(t) BY DEF IInv, Fits
  <1>3. /\ pc[t] = "insertCount" => F(t).find = Null
        /\ pc[t] = "eraseCount" => F(t).find # Null
    <2>1. pc[t] = "eraseCount" => F(t).node # Null
      <3>1. Erased(t) => Owns(t) BY DEF Owns, Erases
      <3> QED BY <1>1, <3>1, Owned
    <2> QED BY <1>1, <1>2, <2>1 DEF LocalsFit, Inserts
  <1>4. ASSUME NEW label \in {"link", "linked", "scan", "held", "eraseFlagNode", "eraseNode",
                              "eraseMark", "erase", "bypass", "eraseCount", "erased", "wait",
                              "waitRefs"},
               NEW i, Go(t, label, [F(t) EXCEPT !.layer = i]) \/ Go(t, label, F(t)),
               \/ pc[t] = "link" /\ label \in {"link", "linked"}
               \/ pc[t] = "insertCount" /\ label = "scan"
               \/ pc[t] = "inserted" /\ label = "held"
               \/ Unmarked(t) /\ label \in {"eraseFlagNode", "eraseNode", "eraseMark", "erase"}
               \/ Erased(t) /\ label \in {"bypass", "eraseCount", "erased", "wait", "waitRefs"}
               \/ pc[t] = "eraseCount" /\ label = "scan"
        PROVE  Works(t) /\ (Created(t)' \/ Erased(t)' <=> Created(t) \/ Erased(t))
    <2>1. PICK g \in FrameType \cup {[F(t) EXCEPT !.layer = i]} :
              /\ Go(t, label, g)
              /\ g = [F(t) EXCEPT !.layer = i] \/ g = F(t)
      BY <1>1, <1>4
    <2>2. /\ g.key = F(t).key /\ g.mode = F(t).mode /\ g.cursor = F(t).cursor
          /\ g.then = F(t).then /\ g.resume = F(t).resume /\ g.find = F(t).find
      BY <1>1, <2>1 DEF FrameType
    <2>3. label \notin Calling \cup Searching /\ (label = "scan" => label \in Updating)
      BY <1>4 DEF Calling, Searching, Updating
    <2>4. \/ Creating(t) /\ label \in {"link", "linked"}
          \/ Created(t) /\ (label = "held" \/ (label \in Updating /\ g.find = Null))
          \/ Unmarked(t) /\ label \in {"eraseFlagNode", "eraseNode", "eraseMark", "erase"}
          \/ Erased(t) /\ \/ label \in {"bypass", "eraseCount", "erased", "wait", "waitRefs"}
                          \/ label \in Updating /\ g.find # Null
      BY <1>1, <1>3, <1>4, <2>2, <2>3
    <2> HIDE <1>4
    <2> QED BY <1>1, <2>1, <2>2, <2>3, <2>4, GoWork
  <1>5. CASE InsertLink(t) \/ EraseBypass(t)
    <2>1. ASSUME NEW label, NextLayerOr(t, label)
          PROVE  \/ \E i : Go(t, pc[t], [F(t) EXCEPT !.layer = i])
                 \/ \E i : Go(t, label, [F(t) EXCEPT !.layer = i])
      BY <2>1 DEF NextLayerOr
    <2>2. CASE InsertLink(t)
      <3>1. PICK i : \/ Go(t, "link", [F(t) EXCEPT !.layer = i])
                     \/ Go(t, "linked", [F(t) EXCEPT !.layer = i])
        BY <2>1, <2>2 DEF InsertLink
      <3> QED BY <1>4, <2>2, <3>1 DEF InsertLink
    <2>3. CASE EraseBypass(t)
      <3>1. PICK i : \/ Go(t, "bypass", [F(t) EXCEPT !.layer = i])
                     \/ Go(t, "eraseCount", [F(t) EXCEPT !.layer = i])
        BY <2>1, <2>3 DEF EraseBypass
      <3> QED BY <1>1, <1>4, <2>3, <3>1 DEF EraseBypass
    <2> QED BY <1>5, <2>2, <2>3
  <1>6. CASE InsertCount(t) \/ EraseCount(t) \/ InsertGrab(t)
    BY <1>4, <1>6 DEF InsertCount, EraseCount, InsertGrab
  <1>7. CASE EraseNode(t)
    <2>1. Unmarked(t) /\ Owns(t) BY <1>1, <1>7 DEF EraseNode, Owns, Erases
    <2>2. F(t).node \in alloc /\ \A u \in Thread : Owns(u) /\ F(u).node = F(t).node => u = t
      BY <2>1, Owned
    <2>3. ~snode[F(t).node].removed
      <3>1. \A u \in Thread : Marked(u) \/ Erased(u) => Owns(u) BY DEF Owns, Erases
      <3>2. ~Marked(t) /\ ~Erased(t) BY <2>1, Roles DEF RolesApart
      <3> QED BY <2>2, <3>1, <3>2 DEF IInv, NodesFollow
    <2>4. Go(t, "eraseFlagNode", F(t)) BY <1>7, <2>3 DEF EraseNode
    <2> QED BY <1>4, <2>1, <2>4
  <1>8. CASE EraseFlagNode(t) \/ EraseMark(t)
    BY <1>1, <1>4, <1>8 DEF EraseFlagNode, EraseMark
  <1>9. CASE EraseUnflag(t) \/ WaitForUsers(t) \/ (DeleteErased(t) /\ Go(t, "wait", F(t)))
    BY <1>1, <1>4, <1>9 DEF EraseUnflag, WaitForUsers, DeleteErased
  <1>10. CASE EraseRelease(t)
    <2>1. PICK g : g = [F(t) EXCEPT !.cur = Null, !.next = Null, !.find = Null, !.at = Null,
                                    !.prevs = EmptyFrame.prevs, !.nexts = EmptyFrame.nexts]
      OBVIOUS
    <2>2. /\ g.key = F(t).key /\ g.mode = F(t).mode /\ g.cursor = F(t).cursor
          /\ g.then = F(t).then /\ g.resume = F(t).resume
      BY <1>1, <2>1 DEF FrameType
    <2>3. Go(t, "wait", g) /\ Erased(t) BY <1>1, <1>10, <2>1 DEF EraseRelease
    <2>4. "wait" \notin Calling \cup Searching BY DEF Calling, Searching
    <2> QED BY <1>1, <2>2, <2>3, <2>4, GoWork
  <1> QED BY <1>5, <1>6, <1>7, <1>8, <1>9, <1>10

-----------------------------------------------------------------------------
(* What a thread knows on the way to the next node. *)

\* In _sl_next only "next" and its like change.
LEMMA CallingKnows ==
  ASSUME IInv, IInv', NEW t \in Thread, Calm(t), Knows(t), call'[t] = call[t],
         pc[t] \in Calling, pc'[t] \in {"grab", "check", "skip", F(t).ret}, SameCall(t),
         F(t)'.visited = F(t).visited, WalkIs(t)'
  PROVE  Knows(t)'
  <1>1. PICK f : f = F(t) OBVIOUS
  <1>2. PICK g : g = F(t)' OBVIOUS
  <1>3. /\ g.key = f.key /\ g.node = f.node /\ g.find = f.find /\ g.mode = f.mode
        /\ g.cursor = f.cursor /\ g.resume = f.resume /\ g.ret = f.ret /\ g.then = f.then
        /\ g.visited = f.visited
    BY <1>1, <1>2 DEF SameCall
  <1>4. PICK c : c = call[t] OBVIOUS
  <1>5. call'[t] = c BY <1>4
  <1>6. f.ret \in Returns BY <1>1 DEF IInv, Fits, LocalsFit
  <1>7. Where(t) = f.ret /\ Where(t)' = f.ret /\ pc[t] # "idle" /\ pc'[t] # "idle"
    BY <1>1, <1>2, <1>3, <1>6 DEF Where, Calling, Returns
  <1>8. Inserts(t)' <=> Inserts(t) BY <1>1, <1>2, <1>3 DEF Inserts
  <1>9. /\ Creating(t)' <=> Creating(t)
        /\ Created(t)' <=> Created(t)
        /\ Erases(t)' <=> Erases(t)
        /\ Erased(t)' <=> Erased(t)
        /\ Visiting(t)' <=> Visiting(t)
    BY <1>1, <1>2, <1>3, <1>7, <1>8
       DEF Creating, Created, Erases, Unmarked, Marked, Erased, Visiting
  <1>10. /\ Visiting(t) /\ f.node # Null => snode'[f.node].key = snode[f.node].key
         /\ Erases(t) /\ Where(t) \notin Searching /\ f.cursor # Null
               => snode'[f.cursor].key = snode[f.cursor].key
    <2>1. (IInv => NodesKnown)' BY KnownNodes, PTL
    <2>2. NodesKnown /\ NodesKnown' BY <2>1, KnownNodes
    <2>3. /\ Visiting(t) /\ f.node # Null => f.node \in alloc \cap alloc'
          /\ Erases(t) /\ Where(t) \notin Searching /\ f.cursor # Null
                => f.cursor \in alloc \cap alloc'
      BY <1>1, <1>2, <1>3, <1>7, <1>9, <2>2 DEF NodesKnown
    <2> QED BY <2>3 DEF Calm
  <1>11. Contents' = Contents BY CalmTame
  <1>12. CallIs(t)'
    <2>1. Operations(F(t).then)' = Operations(f.then) BY <1>2, <1>3 DEF Operations
    <2>2. /\ c = [op |-> c.op, key |-> c.key, acted |-> c.acted, always |-> c.always,
                  ever |-> c.ever, answer |-> c.answer]
          /\ c.acted \in BOOLEAN /\ c.op # "none" /\ c.op \in Operations(f.then)
          /\ c.always \subseteq Contents /\ Contents \subseteq c.ever
      BY <1>1, <1>4, <1>7, CallOf DEF Knows
    <2> QED BY <1>5, <1>7, <1>11, <2>1, <2>2 DEF CallIs
  <1>13. ThenIs(t)'
    <2>1. ThenIs(t) BY DEF Knows
    <2> QED BY <1>1, <1>2, <1>3, <1>5, <1>4, <1>7, <1>9, <2>1 DEF ThenIs
  <1>14. QueryIs(t)'
    <2>1. QueryIs(t) BY DEF Knows
    <2> QED BY <1>1, <1>2, <1>3, <1>4, <1>5, <1>7, <1>9, <1>10, <2>1 DEF QueryIs
  <1>15. ActedIs(t)'
    <2>1. ActedIs(t) BY DEF Knows
    <2> QED BY <1>1, <1>2, <1>3, <1>4, <1>5, <1>7, <1>9, <2>1 DEF ActedIs
  <1>16. CursorIs(t)'
    <2>1. CursorIs(t) BY DEF Knows
    <2>2. f.ret \notin {"insertFound", "eraseFound", "previousFound", "advance"}
      BY <1>6 DEF Returns
    <2> QED BY <1>1, <1>2, <1>3, <1>4, <1>5, <1>7, <1>9, <1>10, <2>1, <2>2 DEF CursorIs
  <1>17. VisitedIs(t)'
    <2>1. VisitedIs(t) BY DEF Knows
    <2> QED BY <1>1, <1>2, <1>3, <1>4, <1>5, <1>7, <1>9, <2>1 DEF VisitedIs
  <1> QED BY <1>12, <1>13, <1>14, <1>15, <1>16, <1>17 DEF Knows

\* Which side of a node a key is on does not change while the nodes keep their keys.
LEMMA SameSides ==
  ASSUME NEW k, NEW m, NEW n,
         m = head \/ snode'[m].key = snode[m].key,
         n = tail \/ snode'[n].key = snode[n].key
  PROVE  /\ IsAfter(k, m)' <=> IsAfter(k, m)
         /\ IsBefore(k, n)' <=> IsBefore(k, n)
  BY DEF IsAfter, IsBefore

\* The search comes to the next node of the bottom layer: it misses none on the way.
LEMMA ComesTo ==
  ASSUME IInv, NEW n \in In(0) \ {head}, NEW k \in Contents, n # tail => snode[n].key = k
  PROVE  Linked(n)
  <1>1. CASE n = tail BY <1>1 DEF IInv, Ends
  <1>2. CASE n # tail
    <2>1. PICK m \in alloc : Linked(m) /\ m \in In(0) /\ snode[m].key = k BY InBottom
    <2>2. m \in In(0) \ {head, tail} /\ n \in In(0) \ {head, tail} BY <1>2, <2>1, KeysOfNodes
    <2>3. m = n BY <1>2, <2>1, <2>2, OneNode
    <2> QED BY <2>1, <2>3
  <1> QED BY <1>1, <1>2

\* A node that was passed over had no key that was there all the time.
LEMMA PassesOver ==
  ASSUME IInv, NEW m, NEW n \in alloc, NEW p, NEW k \in Key \cup {SentinelKey},
         IsAfter(k, m), IsBefore(k, p), k # snode[n].key,
         ~(IsAfter(k, m) /\ IsBefore(k, n)), ~(IsAfter(k, n) /\ IsBefore(k, p))
  PROVE  FALSE
  <1>1. snode[n].key \in Key \cup {SentinelKey} /\ n \notin {head, tail}
    BY KeysOfNodes DEF Listed
  <1>2. Below(k, snode[n].key) \/ Below(snode[n].key, k) BY <1>1, KeyOrder
  <1> QED BY <1>1, <1>2 DEF IsAfter, IsBefore

LEMMA NextWalks ==
  ASSUME IInv, IInv', NEW t \in Thread, Calm(t), Knows(t), call'[t] = call[t],
         NextLoad(t) \/ NextGrab(t) \/ NextCheck(t) \/ NextSkip(t)
  PROVE  /\ pc[t] \in Calling /\ pc'[t] \in {"grab", "check", "skip", F(t).ret} /\ SameCall(t)
         /\ F(t)'.visited = F(t).visited /\ WalkIs(t)'
  <1>1. PICK f : f = F(t) OBVIOUS
  <1>2. PICK g : g = F(t)' OBVIOUS
  <1>3. f \in FrameType BY <1>1, FrameIs
  <1>4. pc[t] \in Calling BY DEF NextLoad, NextGrab, NextCheck, NextSkip, Calling
  <1>5. pc'[t] # "undefined" BY Typed DEF IInv, Types
  <1>6. alloc' = alloc
    BY DEF NextLoad, NextGrab, NextCheck, NextSkip, Undefined, memory
  <1>7. /\ pc[t] = "next" =>
              \/ /\ pc'[t] = "grab" /\ Linked(f.cur)
                 /\ g = [f EXCEPT !.next = snode[f.cur].next[f.layer], !.at = f.cur]
              \/ pc'[t] = f.ret /\ g = f
        /\ pc[t] = "grab" => pc'[t] = "check" /\ g = [f EXCEPT !.at = Null]
        /\ pc[t] = "check" =>
              \/ /\ ~Linked(f.next) \/ f.next = f.find
                 /\ pc'[t] = "skip" /\ g = [f EXCEPT !.found = f.found \/ f.next = f.find]
              \/ Linked(f.next) /\ pc'[t] = f.ret /\ g = [f EXCEPT !.passed = {}]
        /\ pc[t] = "skip" =>
              \/ /\ pc'[t] = "grab" /\ Linked(f.next)
                 /\ g = [f EXCEPT !.next = snode[f.next].next[f.layer], !.at = f.next,
                                  !.passed = f.passed \cup {f.next}]
              \/ pc'[t] = f.ret /\ g = [f EXCEPT !.next = Null, !.passed = {}]
    <2>1. \A label, h : Go(t, label, h) => pc'[t] = label /\ g = h BY <1>2, GoFrame DEF IInv
    <2>2. CASE NextLoad(t) BY <1>1, <2>1, <2>2 DEF NextLoad, Linked
    <2>3. CASE NextGrab(t) BY <1>1, <1>5, <2>1, <2>3 DEF NextGrab, Undefined
    <2>4. CASE NextCheck(t) BY <1>1, <2>1, <2>4 DEF NextCheck, Linked
    <2>5. CASE NextSkip(t) BY <1>1, <2>1, <2>5 DEF NextSkip, Linked
    <2> QED BY <2>2, <2>3, <2>4, <2>5
  <1>8. /\ g.key = f.key /\ g.node = f.node /\ g.cur = f.cur /\ g.layer = f.layer
        /\ g.find = f.find /\ g.mode = f.mode /\ g.cursor = f.cursor /\ g.prevs = f.prevs
        /\ g.nexts = f.nexts /\ g.clearing = f.clearing /\ g.resume = f.resume
        /\ g.ret = f.ret /\ g.then = f.then /\ g.visited = f.visited
    BY <1>3, <1>4, <1>7 DEF FrameType, Calling
  <1>9. pc'[t] \in {"grab", "check", "skip", f.ret} BY <1>4, <1>7 DEF Calling
  <1>10. SameCall(t) BY <1>1, <1>2, <1>8 DEF SameCall
  <1>11. WalkIs(t)'
    <2>1. f.ret \in Returns /\ f.find \in Node \cup {Null}
      BY <1>1, <1>3, <1>4 DEF IInv, Fits, LocalsFit, FrameType
    <2>2. Where(t) = f.ret /\ Where(t)' = f.ret /\ pc[t] # "idle"
      BY <1>1, <1>2, <1>4, <1>8, <1>9, <2>1 DEF Where, Calling, Returns
    <2>3. SUFFICES ASSUME f.ret \in Seeking PROVE WalkIs(t)' BY <2>2 DEF WalkIs
    <2>4. PICK c : c = call[t] OBVIOUS
    <2>5. /\ call'[t] = c /\ c.always \subseteq Contents /\ Contents \subseteq c.ever
          /\ Contents' = Contents
      BY <2>2, <2>4, CallOf, CalmTame DEF Knows
    <2>6. /\ f.cur = head \/ snode[f.cur].key \in c.ever
          /\ f.ret = "findMove" => f.cur = head \/ Below(snode[f.cur].key, f.key)
          /\ f.layer = 0 /\ pc[t] # "next" /\ f.next # Null =>
                \A k \in c.always : ~(IsAfter(k, f.cur) /\ IsBefore(k, f.next))
          /\ f.layer = 0 /\ pc[t] = "check" /\ snode[f.next].key \in c.always => Linked(f.next)
          /\ f.layer = 0 /\ pc[t] = "skip" => snode[f.next].key \notin c.always
      <3>1. WalkIs(t) BY DEF Knows
      <3> QED BY <1>1, <2>2, <2>3, <2>4, <3>1 DEF WalkIs, Missed
    <2>7. \A n \in alloc : snode'[n].key = snode[n].key BY <1>6 DEF Calm
    <2>8. NodesKnown /\ GrabsKnown /\ GrabsKnown'
      <3>1. (IInv => GrabsKnown)' BY GrabKnows, PTL
      <3> QED BY <3>1, KnownNodes, GrabKnows
    <2>9. f.cur = head \/ (f.cur \in alloc /\ snode'[f.cur].key = snode[f.cur].key)
      BY <1>1, <2>2, <2>3, <2>7, <2>8 DEF NodesKnown
    <2>10. f.find = Null /\ (pc[t] = "next" => f.next = Null)
      <3>1. LocalsFit(t) BY DEF IInv, Fits
      <3> QED BY <1>1, <2>2, <2>3, <3>1 DEF LocalsFit, Inserts, Seeking
    <2>11. /\ pc[t] \in {"check", "skip"} =>
                 f.next # head /\ f.next # Null /\ (f.next = tail \/ f.next \in alloc)
           /\ pc[t] = "skip" => f.next \in alloc
      <3>1. pc[t] \in {"check", "skip"} => f.next # head /\ (f.next = tail \/ f.next \in alloc)
        BY <1>1, <2>8 DEF NodesKnown
      <3>2. pc[t] = "skip" => f.next # tail BY <1>1 DEF IInv, Fits, NextFits
      <3> QED BY <3>1, <3>2, NodesAssumption, KeysOfNodes
    <2>12. /\ g.cur = head \/ snode'[g.cur].key \in c.ever
           /\ f.ret = "findMove" => g.cur = head \/ Below(snode'[g.cur].key, g.key)
      BY <1>8, <2>6, <2>9
    <2>13. pc'[t] = "grab" /\ g.layer = 0 =>
              \A k \in c.always : ~(IsAfter(k, g.cur)' /\ IsBefore(k, g.next)')
      <3>1. SUFFICES ASSUME pc'[t] = "grab", g.layer = 0, NEW k \in c.always,
                            IsAfter(k, g.cur)', IsBefore(k, g.next)'
                     PROVE  FALSE
        OBVIOUS
      <3>2. /\ g.next \in Listed' /\ g.next # head /\ k \in Contents'
            /\ ~(IsAfter(k, g.at)' /\ IsBefore(k, g.next)')
        <4>1. k \in Contents' BY <2>5
        <4>2. F(t)'.next \in Listed' /\ F(t)'.next # head
              /\ ~(IsAfter(k, F(t).at) /\ IsBefore(k, F(t).next))'
          BY <1>2, <2>8, <3>1, <4>1 DEF GrabsKnown
        <4> QED BY <1>2, <4>1, <4>2 DEF IsAfter, IsBefore
      <3>3. pc[t] \in {"next", "skip"} BY <1>4, <1>7, <2>1, <3>1 DEF Calling, Returns
      <3>4. CASE pc[t] = "next"
        <4>1. g.at = g.cur BY <1>3, <1>7, <1>8, <2>1, <3>1, <3>4 DEF FrameType, Returns
        <4> QED BY <3>1, <3>2, <4>1
      <3>5. CASE pc[t] = "skip"
        <4>1. PICK n : n = f.next OBVIOUS
        <4>2. PICK p : p = g.next OBVIOUS
        <4>3. g.at = n /\ n \in alloc
          BY <1>3, <1>7, <2>1, <2>11, <3>1, <3>5, <4>1 DEF FrameType, Returns
        <4>4. p = tail \/ p \in alloc BY <1>6, <3>2, <4>2 DEF Listed
        <4>5. /\ IsAfter(k, f.cur) /\ IsBefore(k, p)
              /\ ~(IsAfter(k, n) /\ IsBefore(k, p))
          BY <1>8, <2>7, <2>9, <3>1, <3>2, <4>2, <4>3, <4>4 DEF IsAfter, IsBefore
        <4>6. k # snode[n].key /\ ~(IsAfter(k, f.cur) /\ IsBefore(k, n))
          BY <1>8, <2>6, <2>11, <3>1, <3>5, <4>1
        <4>7. k \in Key \cup {SentinelKey} BY <2>5, KeysOfNodes
        <4> QED BY <4>3, <4>5, <4>6, <4>7, PassesOver
      <3> QED BY <3>3, <3>4, <3>5
    <2>14. pc[t] \in {"grab", "check"} =>
              g.next = f.next /\ f.next # Null /\ (f.next = tail \/ f.next \in alloc)
      <3>1. pc[t] = "grab" => f.next \in Listed /\ f.next # head BY <1>1, <2>8 DEF GrabsKnown
      <3>2. pc[t] = "grab" => f.next # Null /\ (f.next = tail \/ f.next \in alloc)
        BY <3>1, KeysOfNodes, NodesAssumption DEF Listed
      <3> QED BY <1>3, <1>7, <2>11, <3>2 DEF FrameType
    <2>15. pc[t] \in {"grab", "check"} /\ g.layer = 0 =>
              \A k \in c.always : ~(IsAfter(k, g.cur)' /\ IsBefore(k, g.next)')
      <3> SUFFICES ASSUME pc[t] \in {"grab", "check"}, g.layer = 0, NEW k \in c.always,
                          IsAfter(k, g.cur)', IsBefore(k, g.next)'
                   PROVE  FALSE
        OBVIOUS
      <3>1. IsAfter(k, f.cur) /\ IsBefore(k, f.next)
        BY <1>8, <2>7, <2>9, <2>14 DEF IsAfter, IsBefore
      <3> QED BY <1>8, <2>6, <2>14, <3>1
    <2>16. pc[t] = "grab" /\ g.layer = 0 /\ snode'[g.next].key \in c.always => Linked(g.next)'
      <3>1. SUFFICES ASSUME pc[t] = "grab", g.layer = 0, snode'[g.next].key \in c.always
                     PROVE  Linked(g.next)'
        OBVIOUS
      <3>2. PICK n : n = f.next OBVIOUS
      <3>3. n \in In(0) \ {head} BY <1>1, <1>8, <2>8, <3>1, <3>2 DEF GrabsKnown
      <3>4. CASE n = tail
        <4>1. Linked(tail)' BY DEF IInv, Ends
        <4> QED BY <2>14, <3>1, <3>2, <3>4, <4>1 DEF Linked
      <3>5. CASE n # tail
        <4>1. n \in alloc /\ snode'[n].key = snode[n].key BY <2>7, <2>14, <3>1, <3>2, <3>5
        <4>2. PICK k : k = snode[n].key OBVIOUS
        <4>3. k \in Contents BY <2>5, <2>14, <3>1, <3>2, <4>1, <4>2
        <4>4. Linked(n) BY <3>3, <4>2, <4>3, ComesTo
        <4> QED BY <2>14, <3>1, <3>2, <4>1, <4>4, <1>6 DEF Calm, Linked
      <3> QED BY <3>4, <3>5
    <2>17. pc'[t] = "skip" => pc[t] = "check" /\ ~Linked(f.next) /\ g.next = f.next
                                /\ f.next \in alloc
      <3>1. pc'[t] = "skip" => pc[t] = "check" /\ (~Linked(f.next) \/ f.next = f.find)
        BY <1>4, <1>7, <2>1 DEF Calling, Returns
      <3>2. ~Linked(f.next) => f.next # tail BY DEF IInv, Ends
      <3> QED BY <2>10, <2>11, <2>14, <3>1, <3>2
    <2>18. pc'[t] = "skip" /\ g.layer = 0 => snode'[g.next].key \notin c.always
      BY <1>8, <2>6, <2>7, <2>17
    <2>19. pc'[t] = f.ret => \/ g.next = Null
                             \/ pc[t] = "check" /\ Linked(f.next) /\ g.next = f.next
      <3>1. f.ret \notin {"grab", "check", "skip"} BY <2>1 DEF Returns
      <3>2. pc[t] = "skip" /\ pc'[t] = f.ret => g.next = Null
        BY <1>3, <1>7, <3>1 DEF FrameType
      <3>3. pc[t] = "next" /\ pc'[t] = f.ret => g.next = Null BY <1>7, <2>10, <3>1
      <3>4. pc[t] = "check" /\ pc'[t] = f.ret => Linked(f.next) /\ g.next = f.next
        BY <1>7, <2>14, <3>1
      <3> QED BY <1>4, <1>7, <3>1, <3>2, <3>3, <3>4 DEF Calling
    <2>20. pc'[t] = f.ret /\ g.next \notin {Null, tail} => snode'[g.next].key \in c.ever
      <3>1. SUFFICES ASSUME pc'[t] = f.ret, g.next \notin {Null, tail}
                     PROVE  snode'[g.next].key \in c.ever
        OBVIOUS
      <3>2. PICK n : n = f.next OBVIOUS
      <3>3. Linked(n) /\ g.next = n /\ n \in alloc BY <2>14, <2>19, <3>1, <3>2
      <3>4. snode[n].key \in Contents BY <3>3 DEF Contents, Linked
      <3> QED BY <2>5, <2>7, <3>3, <3>4
    <2>21. pc'[t] \in {"grab", "check", "skip", f.ret} /\ pc'[t] # "next"
      BY <1>9, <2>1 DEF Returns
    <2>22. g.layer = 0 /\ g.next # Null =>
              \A k \in c.always : ~(IsAfter(k, g.cur)' /\ IsBefore(k, g.next)')
      <3>1. pc'[t] = "check" => pc[t] = "grab" BY <1>4, <1>7, <2>1 DEF Calling, Returns
      <3> QED BY <2>13, <2>15, <2>17, <2>19, <2>21, <3>1
    <2>23. pc'[t] = "check" => pc[t] = "grab" BY <1>4, <1>7, <2>1 DEF Calling, Returns
    <2>24. pc'[t] \in Returns => pc'[t] = f.ret BY <2>21 DEF Returns
    <2>25. Missed(t, g.cur, g.next)' = {k \in c.always : IsAfter(k, g.cur)' /\ IsBefore(k, g.next)'}
      BY <2>5 DEF Missed
    <2> QED BY <1>2, <2>2, <2>5, <2>12, <2>16, <2>18, <2>20, <2>22, <2>23, <2>24, <2>25 DEF WalkIs
  <1> QED BY <1>1, <1>2, <1>4, <1>8, <1>9, <1>10, <1>11

-----------------------------------------------------------------------------
(* What a thread knows that searches. *)

\* It searches to erase its node, to go on to the next entry, or has none yet.
SearchRoles ==
  \A t \in Thread :
      Where(t) \in Searching \cup {F(t).then} /\ F(t).then \in Thens \ {"idle"} =>
          /\ ~Creating(t) /\ ~Created(t) /\ ~Marked(t) /\ ~Erased(t)
          /\ Erases(t) <=> F(t).then = "eraseNode"
          /\ Visiting(t) <=> F(t).then = "advance"
          /\ pc[t] # "idle" /\ Where(t) \notin {"new", "begin", "first", "size"}

LEMMA SearchesAre == SearchRoles
  <1> SUFFICES ASSUME NEW t \in Thread, Where(t) \in Searching \cup {F(t).then},
                      F(t).then \in Thens \ {"idle"}
               PROVE  /\ ~Creating(t) /\ ~Created(t) /\ ~Marked(t) /\ ~Erased(t)
                      /\ Erases(t) <=> F(t).then = "eraseNode"
                      /\ Visiting(t) <=> F(t).then = "advance"
                      /\ pc[t] # "idle" /\ Where(t) \notin {"new", "begin", "first", "size"}
    BY DEF SearchRoles
  <1>1. /\ Where(t) \in {"successor", "find", "findMove", "insertFound", "eraseFound",
                         "previousFound", "eraseNode", "advance"}
        /\ Where(t) \in Searching \/ Where(t) = F(t).then
    BY DEF Thens, Searching
  <1>2. ~Creating(t) /\ ~Created(t) /\ ~Marked(t) /\ ~Erased(t)
    BY <1>1 DEF Creating, Created, Marked, Erased, Placing, Updating
  <1>3. Unmarked(t) <=> F(t).then = "eraseNode" BY <1>1 DEF Unmarked, Searching
  <1>4. Visiting(t) <=> F(t).then = "advance" BY <1>1 DEF Visiting, Searching
  <1>5. pc[t] = "idle" => Where(t) = "idle" BY DEF Where, Calling
  <1> QED BY <1>1, <1>2, <1>3, <1>4, <1>5 DEF Erases

\* The search goes on or returns.
LEMMA SearchKnows ==
  ASSUME IInv, IInv', NEW t \in Thread, Calm(t), Knows(t), call'[t] = call[t],
         Where(t) \in Searching, Where(t)' \in Searching \cup {F(t).then},
         F(t)'.key = F(t).key, F(t)'.node = F(t).node, F(t)'.then = F(t).then,
         F(t)'.visited = F(t).visited,
         IF Where(t) = "successor" /\ Where(t)' \in Searching THEN F(t)'.mode = "GT"
         ELSE F(t)'.mode = F(t).mode,
         WalkIs(t)', CursorIs(t)'
  PROVE  Knows(t)'
  <1>1. PICK f : f = F(t) OBVIOUS
  <1>2. PICK g : g = F(t)' OBVIOUS
  <1>3. g.key = f.key /\ g.node = f.node /\ g.then = f.then /\ g.visited = f.visited
    BY <1>1, <1>2
  <1>4. PICK c : c = call[t] OBVIOUS
  <1>5. call'[t] = c BY <1>4
  <1>6. f.then \in Thens \ {"idle"}
    BY <1>1, FrameIs DEF IInv, Fits, LocalsFit
  <1>7. Where(t) = "successor" => f.then \in {"eraseNode", "advance"}
    BY <1>1 DEF IInv, Fits, LocalsFit
  <1>8. /\ ~Created(t) /\ ~Erased(t)
        /\ Visiting(t) <=> f.then = "advance"
        /\ pc[t] # "idle" /\ Where(t) # "eraseFound"
    BY <1>1, <1>6, SearchesAre DEF SearchRoles, Searching
  <1>9. /\ ~Creating(t)' /\ ~Created(t)' /\ ~Erased(t)'
        /\ Erases(t)' <=> f.then = "eraseNode"
        /\ Visiting(t)' <=> f.then = "advance"
        /\ pc'[t] # "idle" /\ Where(t)' \notin {"new", "begin", "first", "size"}
        /\ Where(t)' \in Searching \cup {f.then}
    <2>1. SearchRoles' BY SearchesAre, PTL
    <2>2. F(t)'.then \in Thens \ {"idle"} /\ Where(t)' \in Searching \cup {F(t)'.then}
          /\ F(t)'.then = f.then
      BY <1>1, <1>6
    <2> QED BY <2>1, <2>2 DEF SearchRoles
  <1>10. Contents' = Contents BY CalmTame
  <1>11. CallIs(t)'
    <2>1. Operations(F(t).then)' = Operations(f.then) BY <1>2, <1>3 DEF Operations
    <2>2. /\ c = [op |-> c.op, key |-> c.key, acted |-> c.acted, always |-> c.always,
                  ever |-> c.ever, answer |-> c.answer]
          /\ c.acted \in BOOLEAN /\ c.op # "none" /\ c.op \in Operations(f.then)
          /\ c.always \subseteq Contents /\ Contents \subseteq c.ever
      BY <1>1, <1>4, <1>8, CallOf DEF Knows
    <2> QED BY <1>5, <1>9, <1>10, <2>1, <2>2 DEF CallIs
  <1>12. ThenIs(t)' BY <1>2, <1>3, <1>6, <1>9 DEF ThenIs, Thens, Searching
  <1>13. QueryIs(t)'
    <2>1. /\ f.then \in Queries \cup {"eraseNode"} => f.key = c.key /\ f.key \in Key
          /\ f.then = "advance" => f.node # Null /\ f.key = snode[f.node].key
          /\ f.then \in {"insertFound", "eraseFound"} => f.mode = "EQ"
          /\ f.then = "previousFound" => f.mode = "SM"
          /\ Where(t) \in {"find", "findMove"} =>
                  IF f.then \in Queries THEN f.node = Null ELSE f.mode = "GT"
      BY <1>1, <1>4, <1>8 DEF Knows, QueryIs
    <2>2. f.then = "advance" => snode'[f.node].key = snode[f.node].key
      <3>1. (IInv => NodesKnown)' BY KnownNodes, PTL
      <3>2. NodesKnown /\ NodesKnown' BY <3>1, KnownNodes
      <3>3. f.then = "advance" => f.node \in alloc \cap alloc'
        BY <1>1, <1>2, <1>3, <1>8, <1>9, <2>1, <3>2 DEF NodesKnown
      <3> QED BY <3>3 DEF Calm
    <2>3. \/ Where(t) = "successor" /\ Where(t)' \in Searching /\ g.mode = "GT"
          \/ Where(t) \in {"find", "findMove"} /\ g.mode = f.mode
          \/ Where(t) = "successor" /\ Where(t)' \notin Searching /\ g.mode = f.mode
      BY <1>1, <1>2 DEF Searching
    <2>4. f.then \in {"eraseNode", "advance"} =>
              f.then \notin {"insertFound", "eraseFound", "previousFound"} /\ f.then \notin Queries
      BY DEF Queries
    <2> QED BY <1>2, <1>3, <1>5, <1>7, <1>9, <2>1, <2>2, <2>3, <2>4 DEF QueryIs, Searching
  <1>14. ActedIs(t)'
    <2>1. ~c.acted BY <1>1, <1>4, <1>8 DEF Knows, ActedIs
    <2>2. Where(t)' = "eraseFound" => f.then # "eraseNode" BY <1>9 DEF Searching
    <2> QED BY <1>2, <1>3, <1>5, <1>9, <2>1, <2>2 DEF ActedIs
  <1>15. VisitedIs(t)'
    <2>1. VisitedIs(t) BY DEF Knows
    <2> QED BY <1>1, <1>2, <1>3, <1>4, <1>5, <1>8, <1>9, <2>1 DEF VisitedIs
  <1> QED BY <1>11, <1>12, <1>13, <1>14, <1>15 DEF Knows

\* What a search knows at "findMove", of the nodes before and after its place.
LEMMA FindIs ==
  ASSUME IInv, NEW t \in Thread, Knows(t), pc[t] \in {"find", "findMove"},
         NEW f, f = F(t), NEW c, c = call[t]
  PROVE  /\ Where(t) = pc[t] /\ f \in FrameType /\ f.then \in Thens \ {"idle"}
         /\ f.then \in Queries => f.node = Null /\ f.key = c.key /\ f.key # SentinelKey
         /\ f.then \notin Queries => f.mode = "GT" /\ f.then \in {"eraseNode", "advance"}
         /\ f.then \in {"insertFound", "eraseFound"} => f.mode = "EQ"
         /\ f.then = "previousFound" => f.mode = "SM"
         /\ f.key \in Key \cup {SentinelKey}
         /\ f.then = "eraseNode" => f.key = c.key
         /\ c.always \subseteq Contents /\ Contents \subseteq c.ever
         /\ pc[t] = "findMove" =>
              /\ f.cur \in Listed /\ f.cur # tail /\ f.cur \in Node \cup {head}
              /\ f.cur = head \/ (snode[f.cur].key \in c.ever /\ Below(snode[f.cur].key, f.key))
              /\ f.next # Null => /\ f.next \in Listed /\ f.next # head
                                  /\ f.next # tail => snode[f.next].key \in c.ever
                                  /\ f.next # tail => snode[f.next].key \in Key \cup {SentinelKey}
                                  /\ f.layer = 0 => \A k \in c.always :
                                        ~(IsAfter(k, f.cur) /\ IsBefore(k, f.next))
  <1>1. /\ Where(t) = pc[t] /\ Where(t) \in Searching /\ pc[t] # "idle"
        /\ pc[t] = "findMove" => Where(t) \in Seeking /\ pc[t] # "next" /\ pc[t] \in Returns
                                 /\ Where(t) \in Walking
    BY DEF Where, Calling, Searching, Seeking, Returns, Walking, Stepping
  <1>2. f \in FrameType /\ f.then \in Thens \ {"idle"}
    BY <1>1, FrameIs DEF IInv, Fits, LocalsFit
  <1>3. f.then \notin Queries => f.then \in {"eraseNode", "advance"}
    BY <1>2 DEF Thens, Queries
  <1>4. /\ f.then \in Queries \cup {"eraseNode"} => f.key = c.key /\ f.key \in Key
        /\ Visiting(t) => f.node # Null /\ f.key = snode[f.node].key
        /\ f.then \in {"insertFound", "eraseFound"} => f.mode = "EQ"
        /\ f.then = "previousFound" => f.mode = "SM"
        /\ IF f.then \in Queries THEN f.node = Null ELSE f.mode = "GT"
    BY <1>1 DEF Knows, QueryIs
  <1>5. f.then = "advance" => f.key \in Key \cup {SentinelKey}
    <2>1. f.then = "advance" => Visiting(t) BY <1>1 DEF Visiting
    <2>2. f.then = "advance" => f.node \in alloc BY <1>4, <2>1, KnownNodes DEF NodesKnown
    <2>3. f.then = "advance" => f.node \in Listed \ {head, tail}
      BY <2>2, KeysOfNodes DEF Listed
    <2> QED BY <1>4, <2>1, <2>3, KeysOfNodes
  <1>6. f.key \in Key \cup {SentinelKey} BY <1>3, <1>4, <1>5
  <1>7. c.always \subseteq Contents /\ Contents \subseteq c.ever
    BY <1>1, CallOf DEF Knows
  <1>8. pc[t] = "findMove" =>
              /\ f.cur = head \/ (snode[f.cur].key \in c.ever /\ Below(snode[f.cur].key, f.key))
              /\ f.next \notin {Null, tail} => snode[f.next].key \in c.ever
              /\ f.next # Null /\ f.layer = 0 =>
                    \A k \in c.always : ~(IsAfter(k, f.cur) /\ IsBefore(k, f.next))
    <2>1. WalkIs(t) BY DEF Knows
    <2> QED BY <1>1, <2>1 DEF WalkIs, Missed
  <1>9. pc[t] = "findMove" =>
              /\ f.cur \in Listed /\ f.cur # tail /\ f.cur \in Node \cup {head}
              /\ f.next # Null => f.next \in Listed /\ f.next # head
    <2>1. pc[t] = "findMove" => f.cur \in Listed /\ f.cur # tail BY <1>1, CurListed
    <2>2. pc[t] = "findMove" => f.cur \in Node \cup {head} BY AtSeek
    <2>3. pc[t] = "findMove" /\ f.next # Null => f.next \in Listed /\ f.next # head
      BY <1>1, NextListed
    <2> QED BY <2>1, <2>2, <2>3
  <1>10. pc[t] = "findMove" /\ f.next \notin {Null, tail} =>
             snode[f.next].key \in Key \cup {SentinelKey}
    BY <1>9, KeysOfNodes
  <1> QED BY <1>1, <1>2, <1>3, <1>4, <1>6, <1>7, <1>8, <1>9, <1>10, NodesAssumption, KeysAssumption

\* What the comparison says of the keys.
LEMMA CmpSays ==
  ASSUME IInv, NEW t \in Thread, NEW n, F(t).key \in Key \cup {SentinelKey},
         n # tail => snode[n].key \in Key \cup {SentinelKey}
  PROVE  /\ Cmp(t, n) \in {-1, 0, 1}
         /\ Cmp(t, n) > 0 => n # tail /\ Below(snode[n].key, F(t).key)
         /\ F(t).node # n /\ n # tail =>
               /\ Cmp(t, n) = 0 => snode[n].key = F(t).key
               /\ Cmp(t, n) < 0 /\ F(t).key # SentinelKey => Below(F(t).key, snode[n].key)
               /\ Cmp(t, n) <= 0 => F(t).key = snode[n].key \/ Below(F(t).key, snode[n].key)
  <1>1. CASE n = tail \/ F(t).node = n BY <1>1 DEF Cmp
  <1>2. CASE n # tail /\ F(t).node # n
    <2>1. PICK j : j = F(t).key OBVIOUS
    <2>2. PICK k : k = snode[n].key OBVIOUS
    <2>3. j \in Int \cup {SentinelKey} /\ k \in Int \cup {SentinelKey} /\ SentinelKey \notin Int
      BY <1>2, <2>1, <2>2, KeysAssumption
    <2>4. Cmp(t, n) = IF KeyLess(j, k) THEN -1 ELSE IF KeyGreater(j, k) THEN 1 ELSE 0
      BY <1>2, <2>1, <2>2 DEF Cmp
    <2>5. /\ KeyLess(j, k) => j = k \/ Below(j, k)
          /\ ~KeyLess(j, k) /\ KeyGreater(j, k) => Below(k, j)
          /\ ~KeyLess(j, k) /\ ~KeyGreater(j, k) => j = k
          /\ j = k /\ j # SentinelKey => ~KeyLess(j, k)
      BY ONLY <2>3 DEF KeyLess, KeyGreater, Below
    <2> QED BY <1>2, <2>1, <2>2, <2>4, <2>5
  <1> QED BY <1>1, <1>2

\* On its way nothing but the place of the search changes.
LEMMA FindMoves ==
  ASSUME IInv, IInv', NEW t \in Thread, Calm(t), Knows(t), call'[t] = call[t],
         FindStart(t) \/ FindRetry(t) \/ FindRight(t) \/ FindDown(t)
  PROVE  Knows(t)'
  <1>1. PICK f : f = F(t) OBVIOUS
  <1>2. PICK g : g = F(t)' OBVIOUS
  <1>3. PICK c : c = call[t] OBVIOUS
  <1>4. pc[t] \in {"find", "findMove"} /\ alloc' = alloc
    BY DEF FindStart, FindRetry, FindRight, FindDown, FindGoesOn, At, Right, Down, memory
  <1>5. /\ Where(t) = pc[t] /\ f \in FrameType /\ f.then \in Thens \ {"idle"}
        /\ f.key \in Key \cup {SentinelKey}
        /\ pc[t] = "findMove" =>
              /\ f.cur \in Listed /\ f.cur # tail
              /\ f.cur = head \/ (snode[f.cur].key \in c.ever /\ Below(snode[f.cur].key, f.key))
              /\ f.next # Null => /\ f.next \in Listed /\ f.next # head
                                  /\ f.next # tail => snode[f.next].key \in c.ever
                                  /\ f.next # tail => snode[f.next].key \in Key \cup {SentinelKey}
    BY <1>1, <1>3, <1>4, FindIs
  <1>6. ASSUME NEW h, CallNext(t, h, "findMove"), h \in FrameType,
               h.key = f.key, h.node = f.node, h.then = f.then, h.visited = f.visited,
               h.mode = f.mode,
               \/ h.cur = head
               \/ h.cur \in alloc /\ snode[h.cur].key \in c.ever /\ Below(snode[h.cur].key, f.key)
        PROVE  Knows(t)'
    <2>1. /\ pc'[t] = "next"
          /\ g = [h EXCEPT !.passed = {}, !.found = FALSE, !.ret = "findMove", !.next = Null]
      BY <1>2, <1>6, GoFrame DEF CallNext, IInv
    <2>2. /\ g.key = f.key /\ g.node = f.node /\ g.then = f.then /\ g.visited = f.visited
          /\ g.mode = f.mode /\ g.cur = h.cur /\ g.ret = "findMove" /\ g.next = Null
      BY <1>6, <2>1 DEF FrameType
    <2>3. Where(t)' = "findMove" BY <1>2, <2>1, <2>2 DEF Where, Calling
    <2>4. g.cur = head \/ (snode'[g.cur].key \in c.ever /\ Below(snode'[g.cur].key, g.key))
      BY <1>4, <1>6, <2>2 DEF Calm
    <2>5. WalkIs(t)'
      <3>1. pc'[t] \notin Returns BY <2>1 DEF Returns
      <3>2. call'[t] = c BY <1>3
      <3>3. F(t)' = g BY <1>2
      <3> QED BY <2>1, <2>2, <2>3, <2>4, <3>1, <3>2, <3>3 DEF WalkIs
    <2>6. CursorIs(t)' BY <2>3 DEF CursorIs, Searching
    <2>7. Where(t) \in Searching /\ Where(t)' \in Searching /\ Where(t) # "successor"
      BY <1>4, <1>5, <2>3 DEF Searching
    <2> QED BY <1>1, <1>2, <2>2, <2>5, <2>6, <2>7, SearchKnows
  <1>7. EmptyFrame.prevs \in [Layer -> Link] /\ EmptyFrame.nexts \in [Layer -> Link]
        /\ head \in Link
    BY DEF EmptyFrame, Link, AllNode
  <1>8. CASE FindStart(t)
    <2>1. slist.top \in Layer BY Typed DEF IInv, Types
    <2>2. PICK h : h = [F(t) EXCEPT !.cur = head, !.layer = slist.top, !.find = Null,
                                    !.prevs = EmptyFrame.prevs, !.nexts = EmptyFrame.nexts]
      OBVIOUS
    <2>3. /\ h \in FrameType /\ h.key = f.key /\ h.node = f.node /\ h.then = f.then
          /\ h.visited = f.visited /\ h.mode = f.mode /\ h.cur = head
      BY <1>1, <1>5, <1>7, <2>1, <2>2 DEF FrameType
    <2>4. CallNext(t, h, "findMove") BY <1>8, <2>2 DEF FindStart, FromHead
    <2> QED BY <1>6, <2>3, <2>4
  <1>9. CASE FindRetry(t)
    <2>1. pc'[t] = "find" /\ g = f /\ pc[t] = "findMove"
      BY <1>1, <1>2, <1>9, GoFrame DEF FindRetry, IInv
    <2>2. Where(t)' = "find" BY <2>1 DEF Where, Calling
    <2>3. WalkIs(t)' /\ CursorIs(t)' BY <2>2 DEF WalkIs, CursorIs, Seeking, Searching
    <2>4. Where(t) \in Searching /\ Where(t)' \in Searching /\ Where(t) # "successor"
      BY <1>4, <1>5, <2>2 DEF Searching
    <2> QED BY <1>1, <1>2, <2>1, <2>3, <2>4, SearchKnows
  <1>10. CASE FindRight(t) \/ FindDown(t)
    <2>1. pc[t] = "findMove" /\ f.next # Null BY <1>1, <1>10 DEF FindRight, FindDown, FindGoesOn, At
    <2>2. f.ret = "findMove" BY <1>1, <2>1 DEF IInv, Fits, LocalsFit, Returns
    <2>3. CASE FindRight(t)
      <3>1. PICK h : h = [F(t) EXCEPT !.cur = F(t).next] OBVIOUS
      <3>2. Cmp(t, f.next) > 0 BY <1>1, <2>3 DEF FindRight
      <3>3. f.next # tail /\ Below(snode[f.next].key, f.key)
        BY <1>1, <1>5, <2>1, <3>2, CmpSays
      <3>4. f.next \in alloc /\ snode[f.next].key \in c.ever
        BY <1>5, <2>1, <3>3 DEF Listed
      <3>5. f.next \in Link BY <1>5 DEF FrameType
      <3>6. /\ h \in FrameType /\ h.key = f.key /\ h.node = f.node /\ h.then = f.then
            /\ h.visited = f.visited /\ h.mode = f.mode /\ h.cur = f.next
        BY <1>1, <1>5, <3>1, <3>5 DEF FrameType
      <3>7. CallNext(t, h, "findMove") BY <1>1, <2>2, <2>3, <3>1 DEF FindRight, Right
      <3> QED BY <1>6, <3>3, <3>4, <3>6, <3>7
    <2>4. CASE FindDown(t)
      <3>1. PICK h : h = [F(t) EXCEPT !.layer = F(t).layer - 1] OBVIOUS
      <3>2. f.layer - 1 \in Layer
        BY <1>1, <1>5, <2>4, LayerAssumption DEF FindDown, FrameType, Layer
      <3>3. /\ h \in FrameType /\ h.key = f.key /\ h.node = f.node /\ h.then = f.then
            /\ h.visited = f.visited /\ h.mode = f.mode /\ h.cur = f.cur
        BY <1>1, <1>5, <3>1, <3>2 DEF FrameType
      <3>4. CallNext(t, h, "findMove") BY <1>1, <2>2, <2>4, <3>1 DEF FindDown, Down
      <3>5. f.cur = head \/ f.cur \in alloc BY <1>5, <2>1 DEF Listed
      <3> QED BY <1>5, <1>6, <2>1, <3>3, <3>4, <3>5
    <2> QED BY <1>10, <2>3, <2>4
  <1> QED BY <1>8, <1>9, <1>10

\* The search comes back with node n.
LEMMA ComesBack ==
  ASSUME IInv, IInv', NEW t \in Thread, Calm(t), Knows(t), call'[t] = call[t], alloc' = alloc,
         Where(t) \in Searching, NEW f, f = F(t), NEW c, c = call[t], NEW n \in alloc \cup {Null},
         Go(t, f.then, [f EXCEPT !.cursor = n, !.cur = Null, !.next = Null]),
         f.then = "insertFound" /\ n # Null => c.key \in c.ever,
         f.then = "eraseFound" => IF n = Null THEN c.key \notin c.always
                                  ELSE snode[n].key = c.key,
         f.then = "eraseNode" => n = Null \/ Below(c.key, snode[n].key),
         f.then = "previousFound" /\ n # Null =>
                /\ snode[n].key \in c.ever /\ Below(snode[n].key, c.key)
                /\ ~\E k \in c.always : Below(snode[n].key, k) /\ Below(k, c.key),
         f.then = "advance" =>
                /\ n # Null => snode[n].key \in c.ever
                /\ \A k \in c.always : Below(f.key, k) => n # Null /\ ~Below(k, snode[n].key)
  PROVE  Knows(t)'
  <1>1. PICK g : g = F(t)' OBVIOUS
  <1>2. f \in FrameType /\ f.then \in Thens \ {"idle"} BY FrameIs DEF IInv, Fits, LocalsFit
  <1>3. pc'[t] = f.then /\ g = [f EXCEPT !.cursor = n, !.cur = Null, !.next = Null]
    BY <1>1, GoFrame DEF IInv
  <1>4. /\ g.key = f.key /\ g.node = f.node /\ g.then = f.then /\ g.visited = f.visited
        /\ g.mode = f.mode /\ g.cursor = n
    BY <1>2, <1>3 DEF FrameType
  <1>5. Where(t)' = f.then BY <1>1, <1>2, <1>3 DEF Where, Calling, Thens
  <1>6. call'[t] = c OBVIOUS
  <1>7. n # Null => snode'[n].key = snode[n].key BY DEF Calm
  <1>8. WalkIs(t)' BY <1>2, <1>5 DEF WalkIs, Seeking, Thens
  <1>9. CursorIs(t)'
    <2>1. Erases(t)' <=> f.then = "eraseNode"
      <3>1. SearchRoles' BY SearchesAre, PTL
      <3>2. F(t)'.then \in Thens \ {"idle"} /\ Where(t)' \in Searching \cup {F(t)'.then}
            /\ F(t)'.then = f.then
        BY <1>1, <1>2, <1>4, <1>5
      <3> QED BY <3>1, <3>2 DEF SearchRoles
    <2>2. F(t)' = g BY <1>1
    <2>3. n = Null \/ n # Null OBVIOUS
    <2>4. CASE f.then \in {"insertFound", "eraseFound"}
      BY <1>4, <1>5, <1>6, <1>7, <2>1, <2>2, <2>4 DEF CursorIs
    <2>5. CASE f.then \in {"eraseNode", "idle"}
      BY <1>4, <1>5, <1>6, <1>7, <2>1, <2>2, <2>5 DEF CursorIs
    <2>6. CASE f.then = "previousFound"
      BY <1>4, <1>5, <1>6, <1>7, <2>1, <2>2, <2>6 DEF CursorIs
    <2>7. CASE f.then = "advance"
      BY <1>4, <1>5, <1>6, <1>7, <2>1, <2>2, <2>7 DEF CursorIs
    <2> QED BY <1>2, <2>4, <2>5, <2>6, <2>7 DEF Thens
  <1>10. Where(t)' \notin Searching BY <1>2, <1>5 DEF Searching, Thens
  <1> QED BY <1>1, <1>4, <1>5, <1>8, <1>9, <1>10, SearchKnows

\* The one that a thread goes on to comes after the one it goes from.
NextIsGreater(t) ==
    pc'[t] \in {"eraseNode", "advance"} /\ F(t)'.cursor # Null =>
        Below(F(t)'.key, snode'[F(t)'.cursor].key)

LEMMA FindReturns ==
  ASSUME IInv, IInv', NEW t \in Thread, Calm(t), Knows(t), call'[t] = call[t], NextIsGreater(t),
         FindEqual(t) \/ FindBottom(t)
  PROVE  Knows(t)'
  <1>1. PICK f : f = F(t) OBVIOUS
  <1>2. PICK c : c = call[t] OBVIOUS
  <1>3. pc[t] = "findMove" /\ f.next # Null /\ alloc' = alloc
    BY <1>1 DEF FindEqual, FindBottom, FindGoesOn, At, Return
  <1>4. /\ Where(t) = pc[t] /\ f \in FrameType /\ f.then \in Thens \ {"idle"}
        /\ f.then \in Queries => f.node = Null /\ f.key = c.key /\ f.key # SentinelKey
        /\ f.then \notin Queries => f.mode = "GT" /\ f.then \in {"eraseNode", "advance"}
        /\ f.then \in {"insertFound", "eraseFound"} => f.mode = "EQ"
        /\ f.then = "previousFound" => f.mode = "SM"
        /\ f.key \in Key \cup {SentinelKey}
        /\ f.then = "eraseNode" => f.key = c.key
        /\ c.always \subseteq Contents /\ Contents \subseteq c.ever
        /\ f.cur \in Listed /\ f.cur # tail /\ f.cur \in Node \cup {head}
        /\ f.cur = head \/ (snode[f.cur].key \in c.ever /\ Below(snode[f.cur].key, f.key))
        /\ f.next \in Listed /\ f.next # head
        /\ f.next # tail => snode[f.next].key \in c.ever
        /\ f.next # tail => snode[f.next].key \in Key \cup {SentinelKey}
        /\ f.layer = 0 => \A k \in c.always : ~(IsAfter(k, f.cur) /\ IsBefore(k, f.next))
    BY <1>1, <1>2, <1>3, FindIs
  <1>5. Where(t) \in Searching BY <1>3, <1>4 DEF Searching
  <1>6. /\ Cmp(t, f.next) \in {-1, 0, 1}
        /\ f.node # f.next /\ f.next # tail =>
              /\ Cmp(t, f.next) = 0 => snode[f.next].key = f.key
              /\ Cmp(t, f.next) < 0 /\ f.key # SentinelKey => Below(f.key, snode[f.next].key)
              /\ Cmp(t, f.next) <= 0 => f.key = snode[f.next].key \/ Below(f.key, snode[f.next].key)
    BY <1>1, <1>4, CmpSays
  <1>7. f.next # tail => f.next \in alloc BY <1>4 DEF Listed
  <1>8. ASSUME NEW n, Return(t, n)
        PROVE  Go(t, f.then, [f EXCEPT !.cursor = n, !.cur = Null, !.next = Null])
    BY <1>1, <1>8 DEF Return
  <1>9. CASE FindEqual(t)
    <2>1. Cmp(t, f.next) = 0 /\ f.mode = "EQ" /\ Return(t, f.next) BY <1>1, <1>9 DEF FindEqual
    <2>2. f.next # tail
      <3>1. f.next = tail /\ f.node # f.next => Cmp(t, f.next) = -1 BY <1>1 DEF Cmp
      <3>2. f.then \in Queries => f.node # f.next BY <1>3, <1>4
      <3>3. f.then \in Queries BY <1>4, <2>1
      <3> QED BY <2>1, <3>1, <3>2, <3>3
    <2>3. f.then \in {"insertFound", "eraseFound"} BY <1>4, <2>1 DEF Queries, Thens
    <2>4. f.node # f.next BY <1>3, <1>4, <2>3 DEF Queries
    <2>5. snode[f.next].key = c.key BY <1>4, <1>6, <2>1, <2>2, <2>3, <2>4 DEF Queries
    <2>6. PICK n : n = f.next OBVIOUS
    <2>7. n \in alloc /\ n # Null /\ snode[n].key = c.key /\ c.key \in c.ever
      BY <1>3, <1>4, <1>7, <2>2, <2>5, <2>6
    <2>8. Go(t, f.then, [f EXCEPT !.cursor = n, !.cur = Null, !.next = Null])
      BY <1>8, <2>1, <2>6
    <2> QED BY <1>1, <1>2, <1>3, <1>5, <2>3, <2>7, <2>8, ComesBack
  <1>10. CASE FindBottom(t)
    <2>1. PICK n : n = (CASE f.mode = "SM" /\ f.cur # head -> f.cur
                          [] f.mode = "GT" /\ f.next # tail -> f.next
                          [] OTHER -> Null) OBVIOUS
    <2>2. /\ Return(t, n) /\ f.layer = 0
          /\ f.mode = "EQ" => Cmp(t, f.next) = -1
          /\ Cmp(t, f.next) <= 0
      <3>1. Return(t, n) /\ FindGoesOn(t) /\ f.layer = 0
        BY <1>1, <1>10, <2>1 DEF FindBottom
      <3>2. /\ f.mode = "EQ" => Cmp(t, f.next) <= -1
            /\ Cmp(t, f.next) <= 0
        BY <1>1, <1>6, <3>1 DEF FindGoesOn
      <3> QED BY <1>6, <3>1, <3>2
    <2>3. Go(t, f.then, [f EXCEPT !.cursor = n, !.cur = Null, !.next = Null]) BY <1>8, <2>2
    <2>4. \A k \in c.always : ~(IsAfter(k, f.cur) /\ IsBefore(k, f.next)) /\ k \in Key \cup {SentinelKey}
      BY <1>4, <2>2, KeysOfNodes
    <2>5. f.cur = head \/ (f.cur \in alloc /\ snode[f.cur].key \in Key \cup {SentinelKey})
      BY <1>4, KeysOfNodes DEF Listed
    <2>6. CASE f.mode = "EQ"
      <3>1. n = Null BY <2>1, <2>6
      <3>2. f.then \in {"insertFound", "eraseFound"} BY <1>4, <2>6 DEF Queries, Thens
      <3>3. f.key = c.key /\ f.node # f.next /\ f.key # SentinelKey
        BY <1>3, <1>4, <3>2 DEF Queries
      <3>4. IsBefore(f.key, f.next)
        BY <1>4, <1>6, <2>2, <2>6, <3>3 DEF IsBefore
      <3>5. IsAfter(f.key, f.cur) BY <1>4 DEF IsAfter
      <3>6. c.key \notin c.always BY <2>4, <3>3, <3>4, <3>5
      <3> QED BY <1>1, <1>2, <1>3, <1>5, <2>3, <3>1, <3>2, <3>6, ComesBack
    <2>7. CASE f.mode = "SM"
      <3>1. f.then = "previousFound" /\ f.key = c.key /\ f.node # f.next /\ f.key # SentinelKey
        BY <1>3, <1>4, <2>7 DEF Queries, Thens
      <3>2. n = IF f.cur = head THEN Null ELSE f.cur BY <2>1, <2>7
      <3>3. n \in alloc \cup {Null} BY <2>5, <3>2
      <3>4. n # Null => snode[n].key \in c.ever /\ Below(snode[n].key, c.key)
        BY <1>4, <3>1, <3>2
      <3>5. ASSUME n # Null, NEW k \in c.always, Below(snode[n].key, k), Below(k, c.key)
            PROVE  FALSE
        <4>1. n = f.cur BY <3>2, <3>5
        <4>2. IsAfter(k, f.cur) BY <1>4, <3>5, <4>1 DEF IsAfter
        <4>3. f.next # tail => f.key = snode[f.next].key \/ Below(f.key, snode[f.next].key)
          BY <1>6, <2>2, <3>1
        <4>4. f.next # tail => Below(k, snode[f.next].key)
          <5>1. SUFFICES ASSUME f.next # tail PROVE Below(k, snode[f.next].key) OBVIOUS
          <5>2. PICK j : j = snode[f.next].key OBVIOUS
          <5>3. Below(k, f.key) /\ (f.key = j \/ Below(f.key, j)) BY <3>1, <3>5, <4>3, <5>1, <5>2
          <5>4. j \in Key \cup {SentinelKey} /\ k \in Key \cup {SentinelKey}
            BY <1>4, <2>4, <3>5, <5>1, <5>2
          <5>5. Below(k, j) BY <1>4, <5>3, <5>4, KeyOrder
          <5> QED BY <5>2, <5>5
        <4>5. IsBefore(k, f.next) BY <1>4, <4>4 DEF IsBefore
        <4> QED BY <2>4, <3>5, <4>2, <4>5
      <3>6. ~\E k \in c.always : n # Null /\ Below(snode[n].key, k) /\ Below(k, c.key)
        BY <3>5
      <3> QED BY <1>1, <1>2, <1>3, <1>5, <2>3, <3>1, <3>3, <3>4, <3>6, ComesBack
    <2>8. CASE f.mode = "GT"
      <3>1. f.then \in {"eraseNode", "advance"} BY <1>4, <2>8 DEF Queries, Thens
      <3>2. n = IF f.next = tail THEN Null ELSE f.next BY <2>1, <2>8
      <3>3. n \in alloc \cup {Null} BY <1>7, <3>2
      <3>4. n # Null => Below(f.key, snode[n].key)
        <4>1. SUFFICES ASSUME n # Null PROVE Below(f.key, snode[n].key) OBVIOUS
        <4>2. PICK g : g = [f EXCEPT !.cursor = n, !.cur = Null, !.next = Null] OBVIOUS
        <4>3. pc'[t] = f.then /\ F(t)' = g BY <2>3, <4>2, GoFrame DEF IInv
        <4>4. g.cursor = n /\ g.key = f.key BY <1>4, <4>2 DEF FrameType
        <4>5. Below(f.key, snode'[n].key) BY <3>1, <4>1, <4>3, <4>4 DEF NextIsGreater
        <4>6. snode'[n].key = snode[n].key BY <1>3, <3>3, <4>1 DEF Calm
        <4> QED BY <4>5, <4>6
      <3>5. n # Null => snode[n].key \in c.ever BY <1>4, <3>2
      <3>6. ASSUME NEW k \in c.always, Below(f.key, k), n = Null \/ Below(k, snode[n].key)
            PROVE  FALSE
        <4>1. IsAfter(k, f.cur)
          <5>1. f.cur # head => Below(snode[f.cur].key, k)
            BY <1>4, <2>4, <2>5, <3>6, KeyOrder
          <5> QED BY <1>4, <5>1 DEF IsAfter
        <4>2. IsBefore(k, f.next) BY <1>3, <1>4, <3>2, <3>6 DEF IsBefore
        <4> QED BY <2>4, <3>6, <4>1, <4>2
      <3>7. f.then = "eraseNode" => n = Null \/ Below(c.key, snode[n].key) BY <1>4, <3>4
      <3>8. \A k \in c.always : Below(f.key, k) => n # Null /\ ~Below(k, snode[n].key)
        BY <3>6
      <3> QED BY <1>1, <1>2, <1>3, <1>5, <2>3, <3>1, <3>3, <3>5, <3>7, <3>8, ComesBack
    <2> QED BY <1>4, <2>6, <2>7, <2>8 DEF FrameType
  <1> QED BY <1>9, <1>10

LEMMA SuccessorKnows ==
  ASSUME IInv, IInv', NEW t \in Thread, Calm(t), Knows(t), call'[t] = call[t], NextIsGreater(t),
         Successor(t)
  PROVE  Knows(t)'
  <1>1. PICK f : f = F(t) OBVIOUS
  <1>2. PICK c : c = call[t] OBVIOUS
  <1>3. /\ pc[t] = "successor" /\ Where(t) = "successor" /\ Where(t) \in Searching
        /\ Where(t) \in Seeking /\ Where(t) \in Walking /\ pc[t] \in Returns /\ pc[t] # "next"
        /\ pc[t] # "idle" /\ alloc' = alloc
    BY DEF Successor, Where, Calling, Searching, Seeking, Walking, Returns, memory
  <1>4. f \in FrameType /\ f.then \in {"eraseNode", "advance"} /\ f.layer = 0 /\ f.cur = f.node
    BY <1>1, <1>3, FrameIs DEF IInv, Fits, LocalsFit, CurFits
  <1>5. /\ f.then = "eraseNode" => f.key = c.key
        /\ f.then = "advance" => f.key = snode[f.node].key
    <2>1. f.then = "advance" => Visiting(t) BY <1>1, <1>3 DEF Visiting
    <2> QED BY <1>1, <1>2, <2>1 DEF Knows, QueryIs
  <1>6. c.always \subseteq Contents /\ Contents \subseteq c.ever
    BY <1>1, <1>2, <1>3, CallOf DEF Knows
  <1>7. f.next # Null => \A k \in c.always : ~(IsAfter(k, f.cur) /\ IsBefore(k, f.next))
    <2>1. WalkIs(t) BY DEF Knows
    <2> QED BY <1>1, <1>2, <1>3, <1>4, <2>1 DEF WalkIs, Missed
  <1>8. f.next \notin {Null, tail} => snode[f.next].key \in c.ever
    <2>1. WalkIs(t) BY DEF Knows
    <2> QED BY <1>1, <1>2, <1>3, <2>1 DEF WalkIs
  <1>9. f.next # Null => f.next \in Listed /\ f.next # head /\ (f.next # tail => f.next \in alloc)
    <2>1. f.next # Null => f.next \in Listed /\ f.next # head BY <1>1, <1>3, NextListed
    <2> QED BY <2>1 DEF Listed
  <1>10. f.cur \in Listed /\ f.cur # tail BY <1>1, <1>3, CurListed
  <1>11. CASE f.next = Null
    <2>1. PICK g : g = [f EXCEPT !.mode = "GT"] OBVIOUS
    <2>2. pc'[t] = "find" /\ F(t)' = g BY <1>1, <1>11, <2>1, GoFrame DEF Successor, IInv
    <2>3. /\ g.key = f.key /\ g.node = f.node /\ g.then = f.then /\ g.visited = f.visited
          /\ g.mode = "GT"
      BY <1>4, <2>1 DEF FrameType
    <2>4. Where(t)' = "find" BY <2>2 DEF Where, Calling
    <2>5. WalkIs(t)' /\ CursorIs(t)' BY <2>4 DEF WalkIs, CursorIs, Seeking, Searching
    <2>6. Where(t)' \in Searching BY <2>4 DEF Searching
    <2> QED BY <1>1, <1>3, <2>2, <2>3, <2>5, <2>6, SearchKnows
  <1>12. CASE f.next # Null
    <2>1. PICK n : n = IF f.next = tail THEN Null ELSE f.next OBVIOUS
    <2>2. n \in alloc \cup {Null} BY <1>9, <2>1
    <2>3. PICK g : g = [f EXCEPT !.cursor = n, !.cur = Null, !.next = Null] OBVIOUS
    <2>4. g = [f EXCEPT !.cursor = n, !.next = Null, !.cur = Null] BY <1>4, <2>3 DEF FrameType
    <2>5. Go(t, f.then, g) BY <1>1, <1>12, <2>1, <2>4 DEF Successor
    <2>6. pc'[t] = f.then /\ F(t)' = g BY <2>5, GoFrame DEF IInv
    <2>7. g.cursor = n /\ g.key = f.key BY <1>4, <2>3 DEF FrameType
    <2>8. n # Null => Below(f.key, snode[n].key)
      <3>1. n # Null => Below(f.key, snode'[n].key) BY <1>4, <2>6, <2>7 DEF NextIsGreater
      <3> QED BY <1>3, <2>2, <3>1 DEF Calm
    <2>9. n # Null => snode[n].key \in c.ever BY <1>8, <2>1
    <2>10. f.then = "advance" =>
              \A k \in c.always : Below(f.key, k) => n # Null /\ ~Below(k, snode[n].key)
      <3> SUFFICES ASSUME f.then = "advance", NEW k \in c.always, Below(f.key, k),
                          n = Null \/ Below(k, snode[n].key)
                   PROVE  FALSE
        OBVIOUS
      <3>1. IsAfter(k, f.cur) BY <1>4, <1>5, <1>10 DEF IsAfter
      <3>2. IsBefore(k, f.next) BY <1>9, <1>12, <2>1 DEF IsBefore
      <3> QED BY <1>7, <1>12, <3>1, <3>2
    <2>11. f.then = "eraseNode" => n = Null \/ Below(c.key, snode[n].key) BY <1>5, <2>8
    <2>12. Go(t, f.then, [f EXCEPT !.cursor = n, !.cur = Null, !.next = Null]) BY <2>3, <2>5
    <2> QED BY <1>1, <1>2, <1>3, <1>4, <2>2, <2>9, <2>10, <2>11, <2>12, ComesBack
  <1> QED BY <1>11, <1>12

-----------------------------------------------------------------------------
(* What a thread knows at the other labels. *)

\* Where a thread has no node of its own and does not go through the entries.
RestLabels == {"new", "insertFound", "eraseFound", "previousFound", "begin", "first", "size"}

RolesAtRest ==
  \A t \in Thread :
      Where(t) \in RestLabels =>
          /\ ~Creating(t) /\ ~Created(t) /\ ~Erases(t) /\ ~Erased(t) /\ ~Visiting(t)
          /\ pc[t] # "idle"

LEMMA AtRest == RolesAtRest
  <1> SUFFICES ASSUME NEW t \in Thread, Where(t) \in RestLabels
               PROVE  /\ ~Creating(t) /\ ~Created(t) /\ ~Erases(t) /\ ~Erased(t) /\ ~Visiting(t)
                      /\ pc[t] # "idle"
    BY DEF RolesAtRest
  <1>1. pc[t] = "idle" => Where(t) = "idle" BY DEF Where, Calling
  <1>2. Where(t) \notin Placing \cup Updating \cup Searching \cup {"idle", "clear", "advance"}
    BY DEF RestLabels, Placing, Updating, Searching
  <1>3. ~Creating(t) /\ ~Created(t) /\ ~Erased(t) BY <1>2 DEF Creating, Created, Erased, RestLabels
  <1>4. ~Unmarked(t) /\ ~Marked(t) BY <1>2 DEF Unmarked, Marked, RestLabels
  <1> QED BY <1>1, <1>2, <1>3, <1>4 DEF Erases, Visiting

\* The iteration starts at the head.
LEMMA BeginKnows ==
  ASSUME IInv, IInv', NEW t \in Thread, Calm(t), Knows(t), call'[t] = call[t], BeginAtHead(t)
  PROVE  Knows(t)'
  <1>1. PICK f : f = F(t) OBVIOUS
  <1>2. PICK g : g = F(t)' OBVIOUS
  <1>3. PICK c : c = call[t] OBVIOUS
  <1>4. f \in FrameType BY <1>1, FrameIs
  <1>5. PICK h : h = [F(t) EXCEPT !.cur = head, !.layer = 0] OBVIOUS
  <1>6. /\ pc[t] \in {"begin", "first"} /\ Where(t) = pc[t] /\ pc[t] # "idle"
        /\ pc'[t] = "next"
        /\ g = [h EXCEPT !.passed = {}, !.found = FALSE, !.ret = "first", !.next = Null]
    BY <1>2, <1>5, GoFrame DEF BeginAtHead, CallNext, IInv, Where, Calling
  <1>7. /\ g.key = f.key /\ g.then = f.then /\ g.visited = f.visited /\ g.cur = head
        /\ g.ret = "first" /\ g.next = Null /\ g.mode = f.mode
    BY <1>1, <1>4, <1>5, <1>6 DEF FrameType
  <1>8. Where(t)' = "first" BY <1>2, <1>6, <1>7 DEF Where, Calling
  <1>9. ThenIs(t) /\ f.then = "idle" /\ f.visited = <<>>
    BY <1>1, <1>6 DEF Knows, ThenIs, VisitedIs
  <1>10. RolesAtRest /\ RolesAtRest'
    <2>1. RolesAtRest' BY AtRest, PTL
    <2> QED BY <2>1, AtRest
  <1>11. /\ ~Created(t) /\ ~Erased(t) /\ ~Creating(t)' /\ ~Created(t)' /\ ~Erases(t)' /\ ~Erased(t)'
         /\ ~Visiting(t)'
    BY <1>6, <1>8, <1>10 DEF RolesAtRest, RestLabels
  <1>12. call'[t] = c /\ Contents' = Contents BY <1>3, CalmTame
  <1>13. CallIs(t)'
    <2>1. Operations(F(t).then)' = Operations(f.then) BY <1>2, <1>7 DEF Operations
    <2>2. /\ c = [op |-> c.op, key |-> c.key, acted |-> c.acted, always |-> c.always,
                  ever |-> c.ever, answer |-> c.answer]
          /\ c.acted \in BOOLEAN /\ c.op # "none" /\ c.op \in Operations(f.then)
          /\ c.always \subseteq Contents /\ Contents \subseteq c.ever
      BY <1>1, <1>3, <1>6, CallOf DEF Knows
    <2> QED BY <1>6, <1>12, <2>1, <2>2 DEF CallIs
  <1>14. ThenIs(t)' BY <1>2, <1>7, <1>8, <1>9, <1>11 DEF ThenIs
  <1>15. QueryIs(t)' BY <1>2, <1>7, <1>8, <1>9, <1>11 DEF QueryIs, Queries
  <1>16. ActedIs(t)'
    <2>1. ~c.acted BY <1>3, <1>6, <1>11 DEF Knows, ActedIs
    <2> QED BY <1>8, <1>11, <1>12, <2>1 DEF ActedIs
  <1>17. WalkIs(t)'
    <2>1. pc'[t] \notin Returns BY <1>6 DEF Returns
    <2> QED BY <1>2, <1>6, <1>7, <1>8, <2>1 DEF WalkIs
  <1>18. CursorIs(t)' BY <1>8, <1>11 DEF CursorIs
  <1>19. VisitedIs(t)' BY <1>2, <1>7, <1>8, <1>9, <1>11 DEF VisitedIs
  <1> QED BY <1>13, <1>14, <1>15, <1>16, <1>17, <1>18, <1>19 DEF Knows

LEMMA CallStays ==
  ASSUME NEW t \in Thread, Calm(t), Knows(t), call'[t] = call[t], pc[t] # "idle", pc'[t] # "idle",
         call[t].op \in Operations(F(t)'.then)
  PROVE  CallIs(t)'
  <1>1. PICK c : c = call[t] OBVIOUS
  <1>2. /\ c = [op |-> c.op, key |-> c.key, acted |-> c.acted, always |-> c.always,
                ever |-> c.ever, answer |-> c.answer]
        /\ c.acted \in BOOLEAN /\ c.op # "none"
        /\ c.always \subseteq Contents /\ Contents \subseteq c.ever
    BY <1>1, CallOf DEF Knows
  <1>3. Operations(F(t).then)' = Operations(F(t)'.then) BY DEF Operations
  <1>4. call'[t] = c /\ Contents' = Contents BY <1>1, CalmTame
  <1>5. c.op \in Operations(F(t).then)' BY <1>1, <1>3
  <1> QED BY <1>2, <1>4, <1>5 DEF CallIs

\* A new node, after a search for the key or before one.
LEMMA NewKnows ==
  ASSUME IInv, IInv', NEW t \in Thread, Calm(t), Knows(t), call'[t] = call[t],
         NewNode(t) \/ InsertAgain(t)
  PROVE  Knows(t)'
  <1>1. PICK f : f = F(t) OBVIOUS
  <1>2. PICK g : g = F(t)' OBVIOUS
  <1>3. PICK c : c = call[t] OBVIOUS
  <1>4. f \in FrameType BY <1>1, FrameIs
  <1>5. pc[t] \in {"new", "insertFound"} /\ Where(t) = pc[t] /\ Where(t) \in RestLabels
    BY DEF NewNode, InsertAgain, Where, Calling, RestLabels
  <1>6. \/ pc'[t] = "insert" /\ \E n : g = [f EXCEPT !.node = n]
        \/ pc'[t] = "new" /\ g = f
    <2>1. CASE NewNode(t)
      <3>1. PICK n : Go(t, "insert", [F(t) EXCEPT !.node = n]) BY <2>1 DEF NewNode
      <3> QED BY <1>1, <1>2, <3>1, GoFrame DEF IInv
    <2>2. CASE InsertAgain(t) BY <1>1, <1>2, <2>2, GoFrame DEF InsertAgain, IInv
    <2> QED BY <2>1, <2>2
  <1>7. g.key = f.key /\ g.then = f.then /\ g.mode = f.mode BY <1>4, <1>6 DEF FrameType
  <1>8. /\ Where(t)' = pc'[t] /\ pc'[t] \in {"insert", "new"} /\ Where(t)' \notin Searching
    BY <1>6 DEF Where, Calling, Searching
  <1>9. /\ ~Created(t) /\ ~Erased(t) /\ pc[t] # "idle"
    BY <1>5, AtRest DEF RolesAtRest
  <1>10. ~Created(t)' /\ ~Erased(t)' /\ ~Erases(t)' /\ ~Visiting(t)'
    BY <1>8 DEF Created, Erased, Erases, Unmarked, Marked, Visiting, Placing, Updating
  <1>11. f.then = "insertFound" BY <1>1, <1>5 DEF Knows, ThenIs
  <1>12. call'[t] = c BY <1>3
  <1>13. CallIs(t)'
    <2>1. c.op \in Operations(F(t)'.then)
      BY <1>1, <1>2, <1>3, <1>7, <1>9, CallOf DEF Knows
    <2> QED BY <1>3, <1>8, <1>9, <2>1, CallStays
  <1>14. ThenIs(t)' BY <1>2, <1>7, <1>8, <1>10, <1>11 DEF ThenIs
  <1>15. QueryIs(t)'
    <2>1. f.key = c.key /\ f.key \in Key /\ f.mode = "EQ"
      BY <1>1, <1>3, <1>11 DEF Knows, QueryIs, Queries
    <2> QED BY <1>2, <1>7, <1>8, <1>10, <1>11, <1>12, <2>1 DEF QueryIs
  <1>16. ActedIs(t)'
    <2>1. ~c.acted BY <1>3, <1>5, <1>9 DEF Knows, ActedIs
    <2> QED BY <1>8, <1>10, <1>12, <2>1 DEF ActedIs
  <1>17. WalkIs(t)' BY <1>8 DEF WalkIs, Seeking
  <1>18. CursorIs(t)' BY <1>8, <1>10 DEF CursorIs
  <1>19. VisitedIs(t)' BY <1>8, <1>10 DEF VisitedIs
  <1> QED BY <1>13, <1>14, <1>15, <1>16, <1>17, <1>18, <1>19 DEF Knows

\* It deletes the node it could not insert, or has erased.
LEMMA DeleteKnows ==
  ASSUME IInv, IInv', NEW t \in Thread, Calm(t), Knows(t), call'[t] = call[t],
         DeleteDuplicate(t) \/ (DeleteErased(t) /\ Delete(t, "eraseFound"))
  PROVE  Knows(t)'
  <1>1. PICK f : f = F(t) OBVIOUS
  <1>2. PICK g : g = F(t)' OBVIOUS
  <1>3. PICK c : c = call[t] OBVIOUS
  <1>4. f \in FrameType BY <1>1, FrameIs
  <1>5. /\ pc[t] \in {"duplicate", "waitRefs"} /\ Where(t) = pc[t] /\ pc[t] # "idle"
        /\ pc[t] = "duplicate" => Creating(t)
        /\ pc[t] = "waitRefs" => Erased(t)
    BY DEF DeleteDuplicate, DeleteErased, Where, Calling, Creating, Erased
  <1>6. /\ g = [f EXCEPT !.node = Null, !.cur = Null, !.next = Null]
        /\ pc'[t] = IF pc[t] = "duplicate" THEN "find" ELSE "eraseFound"
    <2>1. ASSUME NEW label, Delete(t, label)
          PROVE  /\ g = [f EXCEPT !.node = Null, !.cur = Null, !.next = Null]
                 /\ pc'[t] = label
      BY <1>1, <1>2, <2>1, GoFrame DEF Delete, IInv
    <2>2. CASE DeleteDuplicate(t) BY <2>1, <2>2 DEF DeleteDuplicate
    <2>3. CASE DeleteErased(t) /\ Delete(t, "eraseFound") BY <2>1, <2>3 DEF DeleteErased
    <2> QED BY <2>2, <2>3
  <1>7. g.key = f.key /\ g.then = f.then /\ g.mode = f.mode /\ g.node = Null /\ g.cursor = f.cursor
    BY <1>4, <1>6 DEF FrameType
  <1>8. /\ Where(t)' = pc'[t] /\ pc'[t] \in {"find", "eraseFound"} /\ pc'[t] # "idle"
        /\ pc'[t] = "eraseFound" <=> pc[t] = "waitRefs"
    BY <1>5, <1>6 DEF Where, Calling
  <1>9. /\ Creating(t) => f.then = "insertFound"
        /\ Erased(t) => f.then = "eraseNode"
    BY <1>1 DEF Knows, ThenIs, Erases
  <1>10. /\ ~Creating(t)' /\ ~Created(t)' /\ ~Erased(t)' /\ ~Erases(t)' /\ ~Visiting(t)'
    <2>1. F(t)'.then = f.then /\ f.then \in {"insertFound", "eraseNode"}
      BY <1>2, <1>5, <1>7, <1>9
    <2>2. f.then = "eraseNode" => pc'[t] = "eraseFound" BY <1>5, <1>8, <1>9
    <2> QED BY <1>8, <2>1, <2>2
        DEF Creating, Created, Erased, Erases, Unmarked, Marked, Visiting, Placing, Updating, Searching
  <1>11. call'[t] = c BY <1>3
  <1>12. CallIs(t)'
    <2>1. c.op \in Operations(F(t)'.then)
      BY <1>1, <1>2, <1>3, <1>5, <1>7, CallOf DEF Knows
    <2> QED BY <1>3, <1>5, <1>8, <2>1, CallStays
  <1>13. ThenIs(t)' BY <1>2, <1>5, <1>7, <1>8, <1>9, <1>10 DEF ThenIs
  <1>14. QueryIs(t)'
    <2>1. /\ f.key = c.key /\ f.key \in Key
          /\ f.then \in {"insertFound", "eraseFound"} => f.mode = "EQ"
      BY <1>1, <1>3, <1>5, <1>9 DEF Knows, QueryIs, Queries
    <2>2. pc'[t] = "find" => f.then = "insertFound" BY <1>5, <1>8, <1>9
    <2>3. f.then # "previousFound" BY <1>5, <1>9
    <2> QED BY <1>2, <1>7, <1>8, <1>10, <1>11, <2>1, <2>2, <2>3 DEF QueryIs, Queries
  <1>15. ActedIs(t)'
    <2>1. /\ pc[t] = "waitRefs" => c.acted
          /\ pc[t] = "duplicate" => ~c.acted
          /\ c.acted /\ c.op = "erase" => c.key \notin c.always
      <3>1. Creating(t) => ~Created(t) /\ ~Erased(t) BY PartsApart
      <3> QED BY <1>3, <1>5, <3>1 DEF Knows, ActedIs
    <2> QED BY <1>2, <1>5, <1>7, <1>8, <1>9, <1>10, <1>11, <2>1 DEF ActedIs
  <1>16. WalkIs(t)' BY <1>8 DEF WalkIs, Seeking
  <1>17. CursorIs(t)'
    <2>1. CASE pc'[t] = "find" BY <1>8, <1>10, <2>1 DEF CursorIs
    <2>2. CASE pc'[t] = "eraseFound"
      <3>1. f.then = "eraseNode" /\ Erases(t) /\ Where(t) \notin Searching
        BY <1>5, <1>8, <1>9, <2>2 DEF Erases, Searching
      <3>2. f.cursor = Null \/ Below(c.key, snode[f.cursor].key)
        BY <1>1, <1>3, <3>1 DEF Knows, CursorIs
      <3>3. f.cursor # Null => f.cursor \in alloc /\ f.cursor \in alloc'
        <4>1. (IInv => NodesKnown)' BY KnownNodes, PTL
        <4>2. NodesKnown /\ NodesKnown' BY <4>1, KnownNodes
        <4> QED BY <1>1, <1>2, <1>7, <1>8, <2>2, <3>1, <4>2 DEF NodesKnown
      <3>4. f.cursor = Null \/ Below(c.key, snode'[f.cursor].key) BY <3>2, <3>3 DEF Calm
      <3> QED BY <1>2, <1>7, <1>8, <1>10, <1>11, <2>2, <3>1, <3>4 DEF CursorIs
    <2> QED BY <1>8, <2>1, <2>2
  <1>18. VisitedIs(t)' BY <1>8, <1>10 DEF VisitedIs
  <1> QED BY <1>12, <1>13, <1>14, <1>15, <1>16, <1>17, <1>18 DEF Knows

\* It goes on to the entry after node n.
LEMMA GoesToNext ==
  ASSUME IInv, NEW t \in Thread, NEW h \in FrameType, NEW then \in {"eraseNode", "advance"},
         h.cursor \in alloc, CallSuccessor(t, h, then)
  PROVE  /\ pc'[t] = "next" /\ Where(t)' = "successor" /\ Where(t)' \in Searching \cap Seeking
         /\ F(t)'.node = h.cursor /\ F(t)'.key = snode[h.cursor].key /\ F(t)'.cur = h.cursor
         /\ F(t)'.then = then /\ F(t)'.visited = h.visited /\ F(t)'.mode = h.mode
         /\ F(t)'.next = Null /\ F(t)'.cursor = h.cursor
         /\ ~Creating(t)' /\ ~Created(t)' /\ ~Erased(t)'
         /\ Erases(t)' <=> then = "eraseNode"
         /\ Visiting(t)' <=> then = "advance"
  <1>1. PICK e : e = [h EXCEPT !.node = h.cursor, !.key = snode[h.cursor].key, !.cur = h.cursor,
                               !.layer = 0, !.find = Null, !.then = then]
    OBVIOUS
  <1>2. PICK g : g = [e EXCEPT !.passed = {}, !.found = FALSE, !.ret = "successor", !.next = Null]
    OBVIOUS
  <1>3. F(t)' = g /\ pc'[t] = "next"
    <2>1. Go(t, "next", g) BY <1>1, <1>2 DEF CallSuccessor, CallNext
    <2> QED BY <2>1, GoFrame DEF IInv
  <1>4. /\ g.node = h.cursor /\ g.key = snode[h.cursor].key /\ g.cur = h.cursor
        /\ g.then = then /\ g.visited = h.visited /\ g.mode = h.mode
        /\ g.next = Null /\ g.cursor = h.cursor /\ g.ret = "successor"
    BY <1>1, <1>2 DEF FrameType
  <1>5. Where(t)' = "successor" /\ Where(t)' \in Searching \cap Seeking
    BY <1>3, <1>4 DEF Where, Calling, Searching, Seeking
  <1>6. SearchRoles' BY SearchesAre, PTL
  <1>7. F(t)'.then \in Thens \ {"idle"} /\ Where(t)' \in Searching \cup {F(t)'.then}
        /\ F(t)'.then = then
    BY <1>3, <1>4, <1>5 DEF Thens
  <1>8. /\ ~Creating(t)' /\ ~Created(t)' /\ ~Erased(t)'
        /\ Erases(t)' <=> then = "eraseNode"
        /\ Visiting(t)' <=> then = "advance"
    BY <1>6, <1>7 DEF SearchRoles
  <1> QED BY <1>3, <1>4, <1>5, <1>8

\* What it knows then.
LEMMA GoesKnowing ==
  ASSUME IInv, IInv', NEW t \in Thread, Calm(t), Knows(t), call'[t] = call[t], pc[t] # "idle",
         alloc' = alloc,
         NEW h \in FrameType, NEW then \in {"eraseNode", "advance"},
         h.cursor \in alloc, CallSuccessor(t, h, then),
         NEW c, c = call[t], c.op \in Operations(then), ~c.acted,
         snode[h.cursor].key \in c.ever,
         then = "eraseNode" => snode[h.cursor].key = c.key /\ c.key \in Key,
         VisitedIs(t)'
  PROVE  Knows(t)'
  <1>1. /\ pc'[t] = "next" /\ Where(t)' = "successor" /\ Where(t)' \in Searching \cap Seeking
        /\ F(t)'.node = h.cursor /\ F(t)'.key = snode[h.cursor].key /\ F(t)'.cur = h.cursor
        /\ F(t)'.then = then /\ F(t)'.visited = h.visited /\ F(t)'.mode = h.mode
        /\ F(t)'.next = Null /\ F(t)'.cursor = h.cursor
        /\ ~Creating(t)' /\ ~Created(t)' /\ ~Erased(t)'
        /\ Erases(t)' <=> then = "eraseNode"
        /\ Visiting(t)' <=> then = "advance"
    BY GoesToNext
  <1>2. call'[t] = c OBVIOUS
  <1>3. snode'[h.cursor].key = snode[h.cursor].key /\ h.cursor # Null
    BY KeysOfNodes DEF Calm
  <1>4. CallIs(t)' BY <1>1, CallStays
  <1>5. ThenIs(t)' BY <1>1 DEF ThenIs, Searching
  <1>6. QueryIs(t)' BY <1>1, <1>2, <1>3 DEF QueryIs, Queries
  <1>7. ActedIs(t)' BY <1>1, <1>2 DEF ActedIs
  <1>8. WalkIs(t)'
    <2>1. pc'[t] \notin Returns BY <1>1 DEF Returns
    <2>2. snode'[h.cursor].key \in c.ever BY <1>3
    <2> QED BY <1>1, <1>2, <2>1, <2>2 DEF WalkIs
  <1>9. CursorIs(t)' BY <1>1 DEF CursorIs
  <1> QED BY <1>4, <1>5, <1>6, <1>7, <1>8, <1>9 DEF Knows

\* An erase goes on from the node it has found: it is the node's only owner, so the
\* node is linked, and the key has been there.
LEMMA EraseNextKnows ==
  ASSUME IInv, IInv', NEW t \in Thread, Calm(t), Knows(t), call'[t] = call[t], EraseNext(t)
  PROVE  Knows(t)'
  <1>1. PICK f : f = F(t) OBVIOUS
  <1>2. PICK c : c = call[t] OBVIOUS
  <1>3. /\ pc[t] = "eraseFound" /\ Where(t) = "eraseFound" /\ pc[t] # "idle" /\ alloc' = alloc
        /\ HasKey(t) /\ CallSuccessor(t, f, "eraseNode")
    BY <1>1 DEF EraseNext, Where, Calling, memory
  <1>4. f \in FrameType BY <1>1, FrameIs
  <1>5. f.cursor \in alloc /\ f.cursor # Null /\ snode[f.cursor].key = f.key
    BY <1>1, <1>3, KnownNodes DEF HasKey, NodesKnown
  <1>6. f.then \in {"eraseFound", "eraseNode"} BY <1>1, <1>3 DEF Knows, ThenIs
  <1>7. f.key = c.key /\ f.key \in Key BY <1>1, <1>2, <1>6 DEF Knows, QueryIs, Queries
  <1>8. f.then = "eraseFound"
    <2>1. f.then = "eraseNode" => Below(c.key, snode[f.cursor].key)
      BY <1>1, <1>2, <1>3, <1>5 DEF Knows, CursorIs
    <2>2. ~Below(c.key, c.key) BY DEF Below
    <2> QED BY <1>5, <1>6, <1>7, <2>1, <2>2
  <1>9. ~c.acted
    <2>1. ~Created(t) /\ ~Erased(t) BY <1>3, AtRest DEF RolesAtRest, RestLabels
    <2> QED BY <1>1, <1>2, <1>3, <1>8, <2>1 DEF Knows, ActedIs
  <1>10. c.op \in Operations("eraseNode")
    <2>1. c.op \in Operations(f.then) BY <1>1, <1>2, <1>3, CallOf DEF Knows
    <2> QED BY <1>8, <2>1 DEF Operations
  <1>11. /\ Erases(t)' /\ ~Creating(t)' /\ ~Erased(t)' /\ F(t)'.node = f.cursor /\ ~Visiting(t)'
         /\ Where(t)' = "successor"
    BY <1>3, <1>4, <1>5, GoesToNext
  <1>12. Linked(f.cursor)'
    <2>1. Owns(t)' BY <1>11 DEF Owns
    <2>2. \A u \in Thread : Creating(u)' \/ Erased(u)' => Owns(u)' BY DEF Owns, Erases
    <2>3. \A u \in Thread : Owns(u)' /\ F(u)'.node = f.cursor => u = t
      BY <1>11, <2>1 DEF IInv, Owners
    <2>4. f.cursor \in alloc' BY <1>3, <1>5
    <2> QED BY <1>11, <2>2, <2>3, <2>4 DEF IInv, NodesFollow
  <1>13. snode[f.cursor].key \in c.ever
    <2>1. Linked(f.cursor) BY <1>5, <1>12, <1>3 DEF Calm, Linked
    <2>2. snode[f.cursor].key \in Contents BY <1>5, <2>1 DEF Contents, Linked
    <2> QED BY <1>2, <1>3, <2>2, CallOf DEF Knows
  <1>14. VisitedIs(t)' BY <1>11 DEF VisitedIs
  <1> QED BY <1>1, <1>2, <1>3, <1>4, <1>5, <1>7, <1>9, <1>10, <1>13, <1>14, GoesKnowing

\* A key that is read after all those read before.
LEMMA ReadsOn ==
  ASSUME NEW s \in Seq(Keys), NEW k \in Keys, NEW r, r = Append(s, k),
         Index!Ascending(s), \A i \in 1 .. Len(s) : Below(s[i], k)
  PROVE  /\ r # <<>> /\ r[Len(r)] = k /\ Index!Ascending(r)
         /\ \A i \in 1 .. Len(r) : r[i] = k \/ \E j \in 1 .. Len(s) : r[i] = s[j]
         /\ \A j \in 1 .. Len(s) : \E i \in 1 .. Len(r) : r[i] = s[j]
         /\ \E i \in 1 .. Len(r) : r[i] = k
  <1>1. r # <<>> /\ r[Len(r)] = k /\ Len(r) = Len(s) + 1 /\ Len(s) \in Nat OBVIOUS
  <1>2. \A i \in 1 .. Len(s) : r[i] = s[i] OBVIOUS
  <1>3. \A i \in 1 .. Len(r) : i \in 1 .. Len(s) \/ i = Len(r) BY <1>1
  <1>4. \A i \in 1 .. Len(s) : i \in 1 .. Len(r) BY <1>1
  <1>5. Len(r) \in 1 .. Len(r) BY <1>1
  <1>6. /\ \A i \in 1 .. Len(r) : r[i] = k \/ \E j \in 1 .. Len(s) : r[i] = s[j]
        /\ \A j \in 1 .. Len(s) : \E i \in 1 .. Len(r) : r[i] = s[j]
        /\ \E i \in 1 .. Len(r) : r[i] = k
    BY <1>1, <1>2, <1>3, <1>4, <1>5
  <1>7. ASSUME NEW i \in 1 .. Len(r), NEW j \in 1 .. Len(r), i < j
        PROVE  Below(r[i], r[j])
    <2>1. i \in 1 .. Len(s) BY <1>1, <1>7
    <2>2. CASE j \in 1 .. Len(s) BY <1>2, <1>7, <2>1, <2>2 DEF Index!Ascending
    <2>3. CASE j = Len(r) BY <1>1, <1>2, <1>7, <2>1, <2>3
    <2> QED BY <1>3, <2>2, <2>3
  <1>8. Index!Ascending(r) BY <1>7 DEF Index!Ascending
  <1> QED BY <1>1, <1>6, <1>8

\* The sum reads the key of node n.
LEMMA VisitKnows ==
  ASSUME IInv, IInv', NEW t \in Thread, Calm(t), Knows(t), call'[t] = call[t], pc[t] # "idle",
         alloc' = alloc, NEW n \in alloc, Visit(t, n),
         NEW c, c = call[t], c.op = "sum", ~c.acted, snode[n].key \in c.ever,
         NEW s, s = F(t).visited, Index!Ascending(s),
         \A i \in 1 .. Len(s) : s[i] \in c.ever \cap (Key \cup {SentinelKey}),
         \A i \in 1 .. Len(s) : Below(s[i], snode[n].key),
         \A k \in c.always : \/ \E i \in 1 .. Len(s) : s[i] = k
                             \/ k = snode[n].key \/ Below(snode[n].key, k)
  PROVE  Knows(t)'
  <1>1. PICK k : k = snode[n].key OBVIOUS
  <1>2. k \in Key \cup {SentinelKey} BY <1>1 DEF IInv, NodesFollow
  <1>3. k \in Keys /\ s \in Seq(Keys) /\ F(t) \in FrameType /\ n \in Node
    BY <1>2, FrameIs, Typed DEF Keys, IInv
  <1>4. PICK r : r = Append(s, k) OBVIOUS
  <1>5. r \in Seq(Keys) BY <1>3, <1>4
  <1>6. PICK h : h = [F(t) EXCEPT !.cursor = n, !.visited = Append(@, snode[n].key)] OBVIOUS
  <1>7. h \in FrameType /\ h.cursor = n /\ h.visited = r
    <2>1. h = [F(t) EXCEPT !.cursor = n, !.visited = r] BY <1>1, <1>4, <1>6
    <2> QED BY <1>3, <1>5, <2>1 DEF FrameType
  <1>8. CallSuccessor(t, h, "advance") BY <1>6 DEF Visit
  <1>9. /\ Where(t)' = "successor" /\ F(t)'.key = k /\ F(t)'.visited = r
    BY <1>1, <1>7, <1>8, GoesToNext
  <1>10. VisitedIs(t)'
    <2>1. /\ r # <<>> /\ r[Len(r)] = k /\ Index!Ascending(r)
          /\ \A i \in 1 .. Len(r) : r[i] = k \/ \E j \in 1 .. Len(s) : r[i] = s[j]
          /\ \A j \in 1 .. Len(s) : \E i \in 1 .. Len(r) : r[i] = s[j]
          /\ \E i \in 1 .. Len(r) : r[i] = k
      <3>1. \A i \in 1 .. Len(s) : Below(s[i], k) BY <1>1
      <3>2. s \in Seq(Keys) /\ k \in Keys /\ Index!Ascending(s) BY <1>3
      <3>3. r # <<>> /\ r[Len(r)] = k BY ONLY <1>4, <3>1, <3>2, ReadsOn
      <3>4. Index!Ascending(r) BY ONLY <1>4, <3>1, <3>2, ReadsOn
      <3>5. \A i \in 1 .. Len(r) : r[i] = k \/ \E j \in 1 .. Len(s) : r[i] = s[j]
        BY ONLY <1>4, <3>1, <3>2, ReadsOn
      <3>6. /\ \A j \in 1 .. Len(s) : \E i \in 1 .. Len(r) : r[i] = s[j]
            /\ \E i \in 1 .. Len(r) : r[i] = k
        BY ONLY <1>4, <3>1, <3>2, ReadsOn
      <3> QED BY ONLY <3>3, <3>4, <3>5, <3>6
    <2>2. \A i \in 1 .. Len(r) : r[i] \in c.ever \cap (Key \cup {SentinelKey})
      BY <1>1, <1>2, <2>1
    <2>3. \A j \in c.always : (\E i \in 1 .. Len(r) : r[i] = j) \/ Below(k, j) BY <1>1, <2>1
    <2>4. Where(t)' \notin {"begin", "first"} /\ call'[t] = c BY <1>9
    <2> QED BY ONLY <1>9, <2>1, <2>2, <2>3, <2>4 DEF VisitedIs
  <1>11. c.op \in Operations("advance") BY DEF Operations
  <1> QED BY <1>7, <1>8, <1>10, <1>11, GoesKnowing

\* It starts with the first entry.
LEMMA FirstKnows ==
  ASSUME IInv, IInv', NEW t \in Thread, Calm(t), Knows(t), call'[t] = call[t], FirstEntry(t)
  PROVE  Knows(t)'
  <1>1. PICK f : f = F(t) OBVIOUS
  <1>2. PICK c : c = call[t] OBVIOUS
  <1>3. /\ pc[t] = "first" /\ Where(t) = "first" /\ Where(t) \in Seeking /\ pc[t] \in Returns
        /\ pc[t] # "next" /\ pc[t] # "idle" /\ alloc' = alloc /\ f.next # Null /\ f.next # tail
        /\ c.op = "sum" /\ Visit(t, f.next)
    BY <1>1, <1>2 DEF FirstEntry, At, Where, Calling, Seeking, Returns, memory
  <1>4. f.next \in alloc /\ f.next # head BY <1>1, <1>3, NextListed
  <1>5. f.cur = head /\ f.layer = 0
    BY <1>1, <1>3 DEF IInv, Fits, LocalsFit, CurFits, Walking
  <1>6. ~c.acted
    <2>1. ~Created(t) /\ ~Erased(t) BY <1>3, AtRest DEF RolesAtRest, RestLabels
    <2> QED BY <1>2, <1>3, <2>1 DEF Knows, ActedIs
  <1>7. snode[f.next].key \in c.ever /\ Missed(t, f.cur, f.next) = {}
    BY <1>1, <1>2, <1>3, <1>5 DEF Knows, WalkIs
  <1>8. f.visited = <<>> BY <1>1, <1>3 DEF Knows, VisitedIs
  <1>9. PICK k : k = snode[f.next].key OBVIOUS
  <1>10. k \in Key \cup {SentinelKey} BY <1>4, <1>9 DEF IInv, NodesFollow
  <1>11. ASSUME NEW j \in c.always PROVE j = k \/ Below(k, j)
    <2>1. j \in Key \cup {SentinelKey} BY <1>2, <1>3, <1>11, CallOf, KeysOfNodes DEF Knows
    <2>2. ~IsBefore(j, f.next)
      <3>1. IsAfter(j, f.cur) BY <1>5 DEF IsAfter
      <3> QED BY <1>2, <1>7, <1>11, <3>1 DEF Missed
    <2>3. ~Below(j, k) BY <1>3, <1>4, <1>9, <2>2 DEF IsBefore
    <2> QED BY <1>10, <2>1, <2>3, KeyOrder
  <1>12. PICK s : s = f.visited OBVIOUS
  <1>14. Len(s) = 0 /\ Index!Ascending(s) /\ 1 .. Len(s) = {}
    BY <1>8, <1>12 DEF Index!Ascending
  <1>16. PICK n : n = f.next OBVIOUS
  <1>17. /\ n \in alloc /\ Visit(t, n) /\ snode[n].key \in c.ever /\ s = F(t).visited
         /\ \A i \in 1 .. Len(s) : s[i] \in c.ever \cap (Key \cup {SentinelKey})
         /\ \A i \in 1 .. Len(s) : Below(s[i], snode[n].key)
         /\ \A j \in c.always : \/ \E i \in 1 .. Len(s) : s[i] = j
                                \/ j = snode[n].key \/ Below(snode[n].key, j)
    BY <1>1, <1>3, <1>4, <1>7, <1>9, <1>11, <1>12, <1>14, <1>16
  <1>18. IInv /\ IInv' /\ Calm(t) /\ Knows(t) /\ call'[t] = call[t] OBVIOUS
  <1> QED BY ONLY <1>2, <1>3, <1>6, <1>14, <1>17, <1>18, VisitKnows

\* It goes on to an entry with a greater key.
LEMMA EntryKnows ==
  ASSUME IInv, IInv', NEW t \in Thread, Calm(t), Knows(t), call'[t] = call[t], NextEntry(t),
         SuccessorIsGreater
  PROVE  Knows(t)'
  <1>1. PICK f : f = F(t) OBVIOUS
  <1>2. PICK c : c = call[t] OBVIOUS
  <1>3. /\ pc[t] = "advance" /\ Where(t) = "advance" /\ Visiting(t)
        /\ pc[t] # "idle" /\ alloc' = alloc /\ f.cursor # Null /\ Visit(t, f.cursor)
    BY <1>1 DEF NextEntry, Where, Calling, Visiting
  <1>4. f.cursor \in alloc BY <1>1, <1>3, KnownNodes DEF NodesKnown
  <1>5. f.then = "advance" /\ c.op = "sum"
    <2>1. f.then = "advance" BY <1>1, <1>3 DEF Knows, ThenIs
    <2> QED BY <1>1, <1>2, <1>3, <2>1, CallOf DEF Knows, Operations
  <1>6. ~c.acted
    <2>1. ~Created(t) /\ ~Erased(t)
      BY <1>3 DEF Created, Erased, Updating
    <2> QED BY <1>2, <1>3, <2>1 DEF Knows, ActedIs
  <1>7. PICK k : k = snode[f.cursor].key OBVIOUS
  <1>8. k \in Key \cup {SentinelKey} BY <1>4, <1>7 DEF IInv, NodesFollow
  <1>9. /\ k \in c.ever
        /\ \A j \in c.always : Below(f.key, j) => ~Below(j, k)
    BY <1>1, <1>2, <1>3, <1>7 DEF Knows, CursorIs
  <1>10. PICK s : s = f.visited OBVIOUS
  <1>11. PICK seen : seen = {s[i] : i \in 1 .. Len(s)} OBVIOUS
  <1>12. /\ s # <<>> /\ s[Len(s)] = f.key /\ Index!Ascending(s)
         /\ seen \subseteq c.ever \cap (Key \cup {SentinelKey})
         /\ \A j \in c.always : j \in seen \/ Below(f.key, j)
    BY <1>1, <1>2, <1>3, <1>10, <1>11 DEF Knows, VisitedIs
  <1>13. Below(f.key, k) BY <1>1, <1>3, <1>7 DEF SuccessorIsGreater
  <1>20. \A i \in 1 .. Len(s) : s[i] \in c.ever \cap (Key \cup {SentinelKey}) BY <1>11, <1>12
  <1>14. ASSUME NEW i \in 1 .. Len(s) PROVE Below(s[i], k)
    <2>1. Len(s) \in Nat /\ s \in Seq(Keys) BY <1>1, <1>10, FrameIs
    <2>2. Len(s) \in 1 .. Len(s) BY <1>14, <2>1
    <2>3. s[i] \in Key \cup {SentinelKey} /\ f.key \in Key \cup {SentinelKey}
      BY <1>11, <1>12, <1>14, <2>2
    <2>4. CASE i = Len(s) BY <1>12, <1>13, <2>4
    <2>5. CASE i # Len(s)
      <3>1. i < Len(s) BY <1>14, <2>1, <2>5
      <3>2. Below(s[i], f.key) BY <1>12, <1>14, <2>2, <3>1 DEF Index!Ascending
      <3> QED BY <1>8, <1>13, <2>3, <3>2, KeyOrder
    <2> QED BY <2>4, <2>5
  <1>15. ASSUME NEW j \in c.always PROVE j \in seen \/ j = k \/ Below(k, j)
    <2>1. j \in Key \cup {SentinelKey} BY <1>2, <1>3, <1>15, CallOf, KeysOfNodes DEF Knows
    <2> QED BY <1>8, <1>9, <1>12, <2>1, KeyOrder
  <1>16. PICK n : n = f.cursor OBVIOUS
  <1>17. /\ n \in alloc /\ Visit(t, n) /\ snode[n].key \in c.ever /\ s = F(t).visited
         /\ \A i \in 1 .. Len(s) : Below(s[i], snode[n].key)
         /\ \A j \in c.always : \/ \E i \in 1 .. Len(s) : s[i] = j
                                \/ j = snode[n].key \/ Below(snode[n].key, j)
    BY <1>1, <1>3, <1>4, <1>7, <1>9, <1>10, <1>11, <1>14, <1>15, <1>16
  <1>18. IInv /\ IInv' /\ Calm(t) /\ Knows(t) /\ call'[t] = call[t] OBVIOUS
  <1> QED BY ONLY <1>2, <1>3, <1>5, <1>6, <1>12, <1>17, <1>18, <1>20, VisitKnows

\* Whether the index is empty.
LEMMA SizeKnows ==
  ASSUME IInv, IInv', NEW t \in Thread, Calm(t), Knows(t), call'[t] = call[t], EmptySize(t)
  PROVE  Knows(t)'
  <1>1. PICK f : f = F(t) OBVIOUS
  <1>2. PICK c : c = call[t] OBVIOUS
  <1>3. /\ pc[t] = "first" /\ Where(t) = "first" /\ pc[t] # "idle" /\ c.op = "empty"
        /\ pc'[t] = "size" /\ F(t)' = f
    BY <1>1, <1>2, GoFrame DEF EmptySize, At, Where, Calling, IInv
  <1>4. Where(t)' = "size" BY <1>3 DEF Where, Calling
  <1>5. /\ ~Created(t) /\ ~Erased(t) /\ ~Creating(t)' /\ ~Created(t)' /\ ~Erases(t)' /\ ~Erased(t)'
        /\ ~Visiting(t)'
    <2>1. RolesAtRest' BY AtRest, PTL
    <2> QED BY <1>3, <1>4, <2>1, AtRest DEF RolesAtRest, RestLabels
  <1>6. f.then = "idle" BY <1>1, <1>3 DEF Knows, ThenIs
  <1>7. call'[t] = c BY <1>2
  <1>8. CallIs(t)'
    <2>1. c.op \in Operations(F(t)'.then)
      BY <1>1, <1>2, <1>3, CallOf DEF Knows
    <2> QED BY <1>2, <1>3, <2>1, CallStays
  <1>9. ThenIs(t)' BY <1>3, <1>4, <1>5, <1>6, <1>7 DEF ThenIs
  <1>10. QueryIs(t)' BY <1>3, <1>4, <1>5, <1>6 DEF QueryIs, Queries
  <1>11. ActedIs(t)'
    <2>1. ~c.acted BY <1>2, <1>3, <1>5 DEF Knows, ActedIs
    <2> QED BY <1>4, <1>5, <1>7, <2>1 DEF ActedIs
  <1>12. WalkIs(t)' /\ CursorIs(t)' /\ VisitedIs(t)'
    BY <1>4, <1>5 DEF WalkIs, CursorIs, VisitedIs, Seeking
  <1> QED BY <1>8, <1>9, <1>10, <1>11, <1>12 DEF Knows

-----------------------------------------------------------------------------
(* The two steps that change the contents. *)

\* What the calls have seen after one of t's that takes effect.
LEMMA SeenGoes ==
  ASSUME PInv, NEW t \in Thread, Contents' # Contents,
         call' = Index!Seen([call EXCEPT ![t].acted = @ \/ Contents' # Contents], Contents')
  PROVE  /\ call' = Index!Seen([call EXCEPT ![t].acted = TRUE], Contents')
         /\ call' = [u \in Thread |-> call'[u]]
         /\ \A u \in Thread \ {t} : GoesOn(u)
         /\ call[t].op # "none" =>
                LET c == call[t]
                    d == call'[t]
                IN  /\ d = [op |-> c.op, key |-> c.key, acted |-> d.acted, always |-> d.always,
                            ever |-> d.ever, answer |-> c.answer]
                    /\ d.acted = TRUE
                    /\ d.always = c.always \cap Contents' /\ d.ever = c.ever \cup Contents'
  <1>1. PICK D : D = Contents' OBVIOUS
  <1>2. PICK e : e = [call EXCEPT ![t].acted = TRUE] OBVIOUS
  <1>3. call = [u \in Thread |-> call[u]] BY DEF PInv
  <1>4. e = [call EXCEPT ![t].acted = @ \/ Contents' # Contents]
    <2>1. (call[t].acted \/ Contents' # Contents) = TRUE OBVIOUS
    <2>2. PICK b : b = (call[t].acted \/ Contents' # Contents) OBVIOUS
    <2>3. b = TRUE BY <2>1, <2>2
    <2>4. [call EXCEPT ![t].acted = @ \/ Contents' # Contents] = [call EXCEPT ![t].acted = b]
      BY <2>2
    <2> QED BY <1>2, <2>3, <2>4
  <1>5. call' = Index!Seen(e, D)
    <2>1. PICK x : x = [call EXCEPT ![t].acted = @ \/ Contents' # Contents] OBVIOUS
    <2>2. call' = Index!Seen(x, D) BY <1>1, <2>1
    <2>3. x = e BY <1>4, <2>1
    <2> QED BY <2>2, <2>3
  <1>6. call' = [u \in Thread |-> IF e[u].op = "none" THEN e[u]
                                  ELSE [e[u] EXCEPT !.always = @ \cap D, !.ever = @ \cup D]]
    BY <1>5 DEF Index!Seen
  <1>7. call' = [u \in Thread |-> call'[u]] BY <1>6
  <1>8. \A u \in Thread \ {t} : e[u] = call[u] BY <1>2, <1>3
  <1>9. e[t] = [call[t] EXCEPT !.acted = TRUE] BY <1>2, <1>3
  <1>10. ASSUME NEW u \in Thread \ {t} PROVE GoesOn(u)
    <2>1. PICK c : c = call[u] OBVIOUS
    <2>2. PICK d : d = call'[u] OBVIOUS
    <2>3. c = [op |-> c.op, key |-> c.key, acted |-> c.acted, always |-> c.always,
               ever |-> c.ever, answer |-> c.answer]
      BY <2>1, CallOf DEF PInv, Knows
    <2>4. d = IF c.op = "none" THEN c ELSE [c EXCEPT !.always = @ \cap D, !.ever = @ \cup D]
      BY <1>6, <1>8, <2>1, <2>2
    <2>5. /\ d = [op |-> c.op, key |-> c.key, acted |-> c.acted, always |-> d.always,
                  ever |-> d.ever, answer |-> c.answer]
          /\ d.always \subseteq c.always /\ c.ever \subseteq d.ever
          /\ c.op # "none" => d.always \subseteq D /\ D \subseteq d.ever
      <3>1. CASE c.op = "none" BY ONLY <2>3, <2>4, <3>1
      <3>2. CASE c.op # "none"
        <4>1. d = [c EXCEPT !.always = c.always \cap D, !.ever = c.ever \cup D] BY <2>4, <3>2
        <4>2. d = [op |-> c.op, key |-> c.key, acted |-> c.acted, always |-> c.always \cap D,
                   ever |-> c.ever \cup D, answer |-> c.answer] BY ONLY <2>3, <4>1
        <4>3. d.always = c.always \cap D /\ d.ever = c.ever \cup D BY ONLY <4>2
        <4> QED BY ONLY <4>2, <4>3
      <3> QED BY <3>1, <3>2
    <2> QED BY <1>1, <2>1, <2>2, <2>5 DEF GoesOn
  <1>11. ASSUME call[t].op # "none"
         PROVE  LET c == call[t]
                    d == call'[t]
                IN  /\ d = [op |-> c.op, key |-> c.key, acted |-> d.acted, always |-> d.always,
                            ever |-> d.ever, answer |-> c.answer]
                    /\ d.acted = TRUE
                    /\ d.always = c.always \cap D /\ d.ever = c.ever \cup D
    <2>1. PICK c : c = call[t] OBVIOUS
    <2>2. PICK d : d = call'[t] OBVIOUS
    <2>3. c = [op |-> c.op, key |-> c.key, acted |-> c.acted, always |-> c.always,
               ever |-> c.ever, answer |-> c.answer]
      BY <2>1, CallOf DEF PInv, Knows
    <2>4. PICK b : b = [c EXCEPT !.acted = TRUE] OBVIOUS
    <2>5. b = [op |-> c.op, key |-> c.key, acted |-> TRUE, always |-> c.always,
               ever |-> c.ever, answer |-> c.answer] BY ONLY <2>3, <2>4
    <2>6. b.op = c.op /\ b.always = c.always /\ b.ever = c.ever BY ONLY <2>5
    <2>7. d = IF b.op = "none" THEN b ELSE [b EXCEPT !.always = @ \cap D, !.ever = @ \cup D]
      BY <1>6, <1>9, <2>1, <2>2, <2>4
    <2>8. d = [b EXCEPT !.always = c.always \cap D, !.ever = c.ever \cup D]
      BY <1>11, <2>1, <2>6, <2>7
    <2>9. d = [op |-> c.op, key |-> c.key, acted |-> TRUE, always |-> c.always \cap D,
               ever |-> c.ever \cup D, answer |-> c.answer] BY ONLY <2>5, <2>8
    <2>10. d.acted = TRUE /\ d.always = c.always \cap D /\ d.ever = c.ever \cup D BY ONLY <2>9
    <2>11. d = [op |-> c.op, key |-> c.key, acted |-> d.acted, always |-> d.always,
                ever |-> d.ever, answer |-> c.answer] BY ONLY <2>9, <2>10
    <2> QED BY <2>1, <2>2, <2>10, <2>11
  <1>12. call' = Index!Seen([call EXCEPT ![t].acted = TRUE], Contents') BY <1>1, <1>2, <1>5
  <1> QED BY <1>1, <1>7, <1>10, <1>11, <1>12

\* The node that is linked is the only one in the bottom layer with its key.
LEMMA LinkAdds ==
  ASSUME IInv, NEW t \in Thread, InsertLinked(t)
  PROVE  /\ Tame(t) /\ KeysStay /\ Works(t) /\ Creating(t) /\ Created(t)'
         /\ F(t).key \in Key /\ F(t).key \notin Contents /\ Contents' = Contents \cup {F(t).key}
  <1>1. /\ pc[t] = "linked" /\ Where(t) = "linked" /\ Where(t) \notin Searching /\ Creating(t)
        /\ Owns(t) /\ alloc' = alloc /\ Half(t, 0)
    BY DEF InsertLinked, Where, Calling, Searching, Creating, Owns, Half
  <1>2. PICK n : n = F(t).node OBVIOUS
  <1>3. /\ n \in alloc /\ n \in AllNode /\ n \in Listed /\ snode[n].key = F(t).key
        /\ F(t).key \in Key
    BY <1>1, <1>2, Owned DEF IInv, Owners
  <1>4. ~Linked(n) BY <1>1, <1>2, <1>3 DEF IInv, NodesFollow
  <1>5. n \in In(0) \ {head, tail}
    <2>1. snode[n].top >= 0 BY <1>3, Typed DEF IInv, NodeType, Layer
    <2> QED BY <1>1, <1>2, <1>3, <2>1, KeysOfNodes DEF In
  <1>6. F(t).key \notin Contents
    <2>1. SUFFICES ASSUME F(t).key \in Contents PROVE FALSE OBVIOUS
    <2>2. PICK m \in alloc : Linked(m) /\ m \in In(0) /\ snode[m].key = F(t).key
      BY <2>1, InBottom
    <2>3. m \in In(0) \ {head, tail} BY <2>2, KeysOfNodes
    <2>4. m = n BY <1>3, <1>5, <2>2, <2>3, OneNode
    <2> QED BY <1>4, <2>2, <2>4
  <1>7. /\ \A m \in alloc : snode'[m].key = snode[m].key
        /\ \A m \in alloc \ {n} : snode'[m].linked = snode[m].linked
        /\ snode'[n].linked
    <2>1. snode' = [snode EXCEPT ![n].linked = TRUE, ![n].writing = FALSE]
      BY <1>2 DEF InsertLinked
    <2>2. snode \in [AllNode -> NodeType] /\ alloc \subseteq AllNode
      BY Typed DEF IInv, AllNode, Types
    <2> QED BY <1>3, <2>1, <2>2 DEF NodeType
  <1>8. Contents' = Contents \cup {F(t).key}
    <2>1. \A k : k \in Contents' <=> k \in Contents \/ k = F(t).key
      BY <1>1, <1>3, <1>7 DEF Contents
    <2> QED BY <2>1
  <1>9. Go(t, "insertCount", F(t)) BY DEF InsertLinked
  <1>10. Alone(t) /\ F(t)' = F(t) /\ pc'[t] = "insertCount" BY <1>9, GoFrame DEF IInv
  <1>11. Tame(t) /\ KeysStay BY <1>1, <1>7, <1>10 DEF Tame, KeysStay, Linked
  <1>12. Created(t)' /\ Where(t)' = "insertCount" BY <1>10 DEF Created, Where, Calling
  <1>13. Works(t) BY <1>1, <1>10, <1>12 DEF Works, Owns, Searching
  <1> QED BY <1>1, <1>3, <1>6, <1>8, <1>11, <1>12, <1>13

LEMMA UnlinkTakes ==
  ASSUME IInv, NEW t \in Thread, EraseUnlink(t)
  PROVE  /\ Tame(t) /\ KeysStay /\ Works(t) /\ Marked(t) /\ Erased(t)'
         /\ F(t).key \in Key /\ F(t).key \in Contents /\ Contents' = Contents \ {F(t).key}
  <1>1. /\ pc[t] = "unlink" /\ Where(t) = "unlink" /\ Where(t) \notin Searching /\ Marked(t)
        /\ Owns(t) /\ alloc' = alloc
    BY DEF EraseUnlink, Where, Calling, Searching, Marked, Owns, Erases
  <1>2. PICK n : n = F(t).node OBVIOUS
  <1>3. /\ n \in alloc /\ n \in AllNode /\ n \in Listed /\ snode[n].key = F(t).key
        /\ F(t).key \in Key /\ \A u \in Thread : Owns(u) /\ F(u).node = n => u = t
    BY <1>1, <1>2, Owned DEF IInv, Owners
  <1>4. Linked(n)
    <2>1. ~Creating(t) /\ ~Erased(t) BY <1>1, PartsApart
    <2>2. \A u \in Thread : Creating(u) \/ Erased(u) => Owns(u) BY DEF Owns, Erases
    <2> QED BY <1>3, <2>1, <2>2 DEF IInv, NodesFollow
  <1>5. n \in In(0) \ {head, tail} /\ F(t).key \in Contents
    BY <1>3, <1>4, InBottom, KeysOfNodes DEF Contents, Linked
  <1>6. \A m \in alloc : Linked(m) /\ snode[m].key = F(t).key => m = n
    <2> SUFFICES ASSUME NEW m \in alloc, Linked(m), snode[m].key = F(t).key PROVE m = n
      OBVIOUS
    <2>1. m \in In(0) \ {head, tail} BY InBottom, KeysOfNodes DEF Listed
    <2> QED BY <1>3, <1>5, <2>1, OneNode
  <1>7. /\ \A m \in alloc : snode'[m].key = snode[m].key
        /\ \A m \in alloc \ {n} : snode'[m].linked = snode[m].linked
        /\ ~snode'[n].linked
    <2>1. snode' = [snode EXCEPT ![n].linked = FALSE]
      BY <1>2 DEF EraseUnlink
    <2>2. snode \in [AllNode -> NodeType] /\ alloc \subseteq AllNode
      BY Typed DEF IInv, AllNode, Types
    <2> QED BY <1>3, <2>1, <2>2 DEF NodeType
  <1>8. Contents' = Contents \ {F(t).key}
    <2>1. \A k : k \in Contents' <=> k \in Contents /\ k # F(t).key
      BY <1>1, <1>3, <1>6, <1>7 DEF Contents, Linked
    <2> QED BY <2>1
  <1>9. Go(t, "bypass", F(t)) BY DEF EraseUnlink
  <1>10. Alone(t) /\ F(t)' = F(t) /\ pc'[t] = "bypass" BY <1>9, GoFrame DEF IInv
  <1>11. Tame(t) /\ KeysStay BY <1>1, <1>7, <1>10 DEF Tame, KeysStay, Linked
  <1>12. Erased(t)' /\ Where(t)' = "bypass" BY <1>10 DEF Erased, Where, Calling
  <1>13. ~(Creating(t) \/ Created(t)) /\ ~(Creating(t)' \/ Created(t)')
    BY <1>1, <1>12, PartsApart
  <1>14. Works(t) BY <1>1, <1>10, <1>12, <1>13 DEF Works, Owns, Erases, Searching
  <1> QED BY <1>1, <1>3, <1>5, <1>8, <1>11, <1>12, <1>14

LEMMA EffectKnows ==
  ASSUME IInv, IInv', PInv, NEW t \in Thread, Tame(t), KeysStay, Works(t),
         Created(t)' \/ Erased(t)', Contents' # Contents, call[t].op # "none",
         call[t].op = "erase" => call[t].key \notin Contents',
         call' = Index!Seen([call EXCEPT ![t].acted = @ \/ Contents' # Contents], Contents')
  PROVE  PInv'
  <1>1. PICK c : c = call[t] OBVIOUS
  <1>2. PICK d : d = call'[t] OBVIOUS
  <1>3. /\ call' = [u \in Thread |-> call'[u]]
        /\ \A u \in Thread \ {t} : GoesOn(u)
        /\ d = [op |-> c.op, key |-> c.key, acted |-> d.acted, always |-> d.always,
                ever |-> d.ever, answer |-> c.answer]
        /\ d.acted = TRUE
        /\ d.always = c.always \cap Contents' /\ d.ever = c.ever \cup Contents'
    <2> HIDE DEF GoesOn
    <2> QED BY <1>1, <1>2, SeenGoes
  <1>4. Acts(t) BY <1>1, <1>2, <1>3 DEF Acts
  <1>5. Knows(t)' BY <1>4, WorkKnows DEF PInv
  <1>6. ASSUME NEW u \in Thread \ {t} PROVE Knows(u)'
    <2>1. Knows(u) /\ GoesOn(u) BY <1>3 DEF PInv
    <2> QED BY <2>1, OtherKnows
  <1> QED BY <1>3, <1>5, <1>6 DEF PInv

\* An insert takes effect when it links its node.
LEMMA InsertActs ==
  ASSUME IInv, IInv', PInv, NEW t \in Thread, InsertLinked(t),
         call' = Index!Seen([call EXCEPT ![t].acted = @ \/ Contents' # Contents], Contents')
  PROVE  PInv' /\ Index!Insert(t)
  <1>1. PICK c : c = call[t] OBVIOUS
  <1>2. /\ Tame(t) /\ KeysStay /\ Works(t) /\ Creating(t) /\ Created(t)'
        /\ F(t).key \notin Contents /\ Contents' = Contents \cup {F(t).key}
    BY LinkAdds
  <1>3. pc[t] = "linked" /\ Where(t) = "linked" /\ pc[t] # "idle"
    BY DEF InsertLinked, Where, Calling
  <1>4. F(t).then = "insertFound" BY <1>2 DEF PInv, Knows, ThenIs
  <1>5. c.op = "insert"
    <2>1. c.op # "none" /\ c.op \in Operations(F(t).then) BY <1>1, <1>3, CallOf DEF PInv, Knows
    <2> QED BY <1>4, <2>1 DEF Operations
  <1>6. c.key = F(t).key BY <1>1, <1>4 DEF PInv, Knows, QueryIs, Queries
  <1>7. ~c.acted
    <2>1. ~Created(t) /\ ~Erased(t) BY <1>2, PartsApart
    <2> QED BY <1>1, <1>3, <2>1 DEF PInv, Knows, ActedIs
  <1>8. Contents' # Contents BY <1>2
  <1>9. PInv' BY <1>1, <1>2, <1>5, <1>8, EffectKnows
  <1>10. call' = Index!Seen([call EXCEPT ![t].acted = TRUE], Contents') BY <1>8, SeenGoes
  <1> QED BY <1>1, <1>2, <1>5, <1>6, <1>7, <1>9, <1>10 DEF Index!Insert

\* An erase takes effect when it marks its node as not linked.
LEMMA EraseActs ==
  ASSUME IInv, IInv', PInv, NEW t \in Thread, EraseUnlink(t),
         call' = Index!Seen([call EXCEPT ![t].acted = @ \/ Contents' # Contents], Contents')
  PROVE  PInv' /\ Index!Erase(t)
  <1>1. PICK c : c = call[t] OBVIOUS
  <1>2. /\ Tame(t) /\ KeysStay /\ Works(t) /\ Marked(t) /\ Erased(t)'
        /\ F(t).key \in Contents /\ Contents' = Contents \ {F(t).key}
    BY UnlinkTakes
  <1>3. pc[t] = "unlink" /\ Where(t) = "unlink" /\ pc[t] # "idle"
    BY DEF EraseUnlink, Where, Calling
  <1>4. F(t).then = "eraseNode" BY <1>2 DEF PInv, Knows, ThenIs, Erases
  <1>5. c.op = "erase"
    <2>1. c.op # "none" /\ c.op \in Operations(F(t).then) BY <1>1, <1>3, CallOf DEF PInv, Knows
    <2> QED BY <1>4, <2>1 DEF Operations
  <1>6. c.key = F(t).key BY <1>1, <1>4 DEF PInv, Knows, QueryIs
  <1>7. ~c.acted
    <2>1. ~Created(t) /\ ~Erased(t) BY <1>2, PartsApart
    <2> QED BY <1>1, <1>3, <2>1 DEF PInv, Knows, ActedIs
  <1>8. Contents' # Contents /\ c.key \notin Contents' BY <1>2, <1>6
  <1>9. PInv' BY <1>1, <1>2, <1>5, <1>8, EffectKnows
  <1>10. call' = Index!Seen([call EXCEPT ![t].acted = TRUE], Contents') BY <1>8, SeenGoes
  <1> QED BY <1>1, <1>2, <1>5, <1>6, <1>7, <1>9, <1>10 DEF Index!Erase

-----------------------------------------------------------------------------
(* A call begins and ends. *)

\* The others go on when the contents and their calls are what they were.
LEMMA OthersKnow ==
  ASSUME IInv, IInv', PInv, NEW t \in Thread, Calm(t), NEW u \in Thread \ {t}, call'[u] = call[u]
  PROVE  Knows(u)'
  <1>1. Tame(t) /\ Contents' = Contents /\ Knows(u) BY CalmTame DEF PInv
  <1>2. PICK c : c = call[u] OBVIOUS
  <1>3. /\ c = [op |-> c.op, key |-> c.key, acted |-> c.acted, always |-> c.always,
                ever |-> c.ever, answer |-> c.answer]
        /\ c.op # "none" => c.always \subseteq Contents /\ Contents \subseteq c.ever
    BY <1>1, <1>2, CallOf DEF Knows
  <1>4. GoesOn(u) BY <1>1, <1>2, <1>3 DEF GoesOn
  <1> QED BY <1>1, <1>4, OtherKnows

\* A thread that is in no call.
Rests(t) ==
    /\ pc[t] = "idle" /\ F(t) = EmptyFrame
    /\ \E answer : call[t] = [op |-> "none", key |-> Null, acted |-> FALSE, always |-> {},
                              ever |-> {}, answer |-> answer]

RestsKnowing == \A t \in Thread : Rests(t) => Knows(t)

LEMMA RestKnows == RestsKnowing
  <1> SUFFICES ASSUME NEW t \in Thread, Rests(t) PROVE Knows(t) BY DEF RestsKnowing
  <1>1. PICK d : d = call[t] OBVIOUS
  <1>2. /\ d.op = "none" /\ d.acted = FALSE
        /\ d = [op |-> d.op, key |-> d.key, acted |-> d.acted, always |-> d.always,
                ever |-> d.ever, answer |-> d.answer]
    BY <1>1 DEF Rests
  <1>3. pc[t] = "idle" /\ Where(t) = "idle" BY DEF Rests, Where, Calling
  <1>4. PICK g : g = F(t) OBVIOUS
  <1>5. g.then = "idle" BY <1>4 DEF Rests, EmptyFrame
  <1>6. ~Creating(t) /\ ~Created(t) /\ ~Erased(t) /\ ~Erases(t) /\ ~Visiting(t)
    BY <1>3 DEF Creating, Created, Erased, Erases, Unmarked, Marked, Visiting, Placing, Updating,
                Searching
  <1>7. CallIs(t) BY <1>1, <1>2, <1>3 DEF CallIs
  <1>8. ThenIs(t) BY <1>3, <1>6 DEF ThenIs
  <1>9. QueryIs(t) BY <1>3, <1>4, <1>5, <1>6 DEF QueryIs, Queries
  <1>10. ActedIs(t) BY <1>1, <1>2, <1>3, <1>6 DEF ActedIs
  <1>11. WalkIs(t) /\ VisitedIs(t) BY <1>3, <1>6 DEF WalkIs, VisitedIs, Seeking
  <1>12. CursorIs(t) BY <1>3, <1>6 DEF CursorIs
  <1> QED BY <1>7, <1>8, <1>9, <1>10, <1>11, <1>12 DEF Knows

\* What a thread knows at the first step of a call.
LEMMA StartKnows ==
  ASSUME IInv', NEW t \in Thread, NEW op, NEW key, NEW label, NEW mode, NEW then,
         \/ /\ op = "insert" /\ label = "new" /\ mode = "EQ" /\ then = "insertFound" /\ key \in Key
         \/ /\ op = "erase" /\ label = "find" /\ mode = "EQ" /\ then = "eraseFound" /\ key \in Key
         \/ /\ op = "previous" /\ label = "find" /\ mode = "SM" /\ then = "previousFound"
            /\ key \in Key
         \/ /\ op \in {"sum", "empty"} /\ label = "begin" /\ then = "idle",
         pc'[t] = label,
         NEW g, F(t)' = g, g.key = key, g.mode = mode, g.then = then, g.visited = <<>>,
         g.node = Null,
         NEW C, C = Contents',
         NEW d, d = [op |-> op, key |-> key, acted |-> FALSE, always |-> C, ever |-> C,
                     answer |-> Null],
         call'[t] = d
  PROVE  Knows(t)'
  <1>1. /\ d.op = op /\ d.key = key /\ d.acted = FALSE /\ d.always = C /\ d.ever = C
        /\ d = [op |-> d.op, key |-> d.key, acted |-> d.acted, always |-> d.always,
                ever |-> d.ever, answer |-> d.answer]
    OBVIOUS
  <1>2. g.key = key /\ g.mode = mode /\ g.then = then /\ g.visited = <<>> /\ g.node = Null
    OBVIOUS
  <1>3. /\ Where(t)' = label /\ label \in {"new", "find", "begin"} /\ label # "idle"
        /\ then \in {"insertFound", "eraseFound", "previousFound", "idle"}
    BY DEF Where, Calling
  <1>4. F(t)'.then = then BY <1>2
  <1>5. ~Creating(t)' /\ ~Created(t)' /\ ~Erased(t)' /\ ~Erases(t)' /\ ~Visiting(t)'
    BY <1>3, <1>4
       DEF Creating, Created, Erased, Erases, Unmarked, Marked, Visiting, Placing, Updating, Searching
  <1>6. CallIs(t)'
    <2>1. op \in Operations(then) /\ op # "none" BY DEF Operations
    <2>2. Operations(F(t).then)' = Operations(then) BY <1>4 DEF Operations
    <2>3. d.always \subseteq Contents' /\ Contents' \subseteq d.ever BY <1>1
    <2> QED BY <1>1, <1>3, <2>1, <2>2, <2>3 DEF CallIs
  <1>7. ThenIs(t)' BY <1>2, <1>3, <1>5 DEF ThenIs
  <1>8. QueryIs(t)' BY <1>1, <1>2, <1>3, <1>5 DEF QueryIs, Queries
  <1>9. ActedIs(t)' BY <1>1, <1>3, <1>5 DEF ActedIs
  <1>10. WalkIs(t)' BY <1>3 DEF WalkIs, Seeking
  <1>11. CursorIs(t)' BY <1>3, <1>5 DEF CursorIs
  <1>12. VisitedIs(t)' BY <1>2, <1>3, <1>5 DEF VisitedIs
  <1> QED BY <1>6, <1>7, <1>8, <1>9, <1>10, <1>11, <1>12 DEF Knows

LEMMA BeginPromised ==
  ASSUME IInv, IInv', PInv, NEW t \in Thread, Begin(t)
  PROVE  PInv' /\ Index!Begin(t) /\ Contents' = Contents
  <1>1. Calm(t) /\ Contents' = Contents BY CallCalm, CalmTame
  <1>2. PICK job : job = Head(jobs[t]) OBVIOUS
  <1>3. job \in AnyJob BY <1>2 DEF Begin, IInv, Types
  <1>4. PICK op, key : op = job.op /\ key = job.key OBVIOUS
  <1>5. \/ op \in {"insert", "erase", "previous"} /\ key \in Key
        \/ op \in {"sum", "empty"} /\ key = SentinelKey
    BY <1>3, <1>4 DEF AnyJob
  <1>6. PICK C : C = Contents OBVIOUS
  <1>7. PICK d : d = [Index!NoCall EXCEPT !.op = op, !.key = key, !.always = C, !.ever = C] OBVIOUS
  <1>8. d = [op |-> op, key |-> key, acted |-> FALSE, always |-> C, ever |-> C, answer |-> Null]
    BY <1>7 DEF Index!NoCall
  <1>9. pc[t] = "idle" /\ call' = [call EXCEPT ![t] = d]
    BY <1>2, <1>4, <1>6, <1>7 DEF Begin
  <1>10. call = [u \in Thread |-> call[u]] BY DEF PInv
  <1>11. /\ call' = [u \in Thread |-> call'[u]] /\ call'[t] = d
         /\ \A u \in Thread \ {t} : call'[u] = call[u]
    BY <1>9, <1>10
  <1>12. PICK start : start = Start(op) OBVIOUS
  <1>13. PICK g : g = [EmptyFrame EXCEPT !.key = key, !.mode = start.mode, !.then = start.then]
    OBVIOUS
  <1>14. Go(t, start.pc, g) BY <1>2, <1>4, <1>12, <1>13 DEF Begin
  <1>15. pc'[t] = start.pc /\ F(t)' = g BY <1>14, GoFrame DEF IInv
  <1>16. PICK label, mode, then : label = start.pc /\ mode = start.mode /\ then = start.then
    OBVIOUS
  <1>17. \/ /\ op = "insert" /\ label = "new" /\ mode = "EQ" /\ then = "insertFound" /\ key \in Key
         \/ /\ op = "erase" /\ label = "find" /\ mode = "EQ" /\ then = "eraseFound" /\ key \in Key
         \/ /\ op = "previous" /\ label = "find" /\ mode = "SM" /\ then = "previousFound"
            /\ key \in Key
         \/ /\ op \in {"sum", "empty"} /\ label = "begin" /\ then = "idle"
    BY <1>5, <1>12, <1>16 DEF Start
  <1>18. Knows(t)'
    <2>1. /\ pc'[t] = label /\ F(t)' = g /\ call'[t] = d /\ C = Contents'
          /\ g = [EmptyFrame EXCEPT !.key = key, !.mode = mode, !.then = then]
      BY <1>1, <1>6, <1>11, <1>13, <1>15, <1>16
    <2>2. g.key = key /\ g.mode = mode /\ g.then = then /\ g.visited = <<>> /\ g.node = Null
      BY ONLY <2>1 DEF EmptyFrame
    <2>3. pc'[t] = label /\ F(t)' = g /\ call'[t] = d /\ C = Contents' BY <2>1
    <2>4. IInv' OBVIOUS
    <2> QED BY ONLY <1>8, <1>17, <2>2, <2>3, <2>4, StartKnows
  <1>19. \A u \in Thread \ {t} : Knows(u)' BY <1>1, <1>11, OthersKnow
  <1>20. PInv' BY <1>11, <1>18, <1>19 DEF PInv
  <1>21. Index!Begin(t)
    <2>1. call[t].op = "none" BY <1>9, CallOf DEF PInv, Knows
    <2>2. op \in Index!Operation /\ key \in Key \cup {SentinelKey} BY <1>5 DEF Index!Operation
    <2>3. call' = [call EXCEPT ![t] = [Index!NoCall EXCEPT !.op = op, !.key = key,
                                                       !.always = Contents, !.ever = Contents]]
      BY <1>6, <1>7, <1>9
    <2>4. \E o \in Index!Operation, k \in Key \cup {SentinelKey} :
            call' = [call EXCEPT ![t] = [Index!NoCall EXCEPT !.op = o, !.key = k,
                                                      !.always = Contents, !.ever = Contents]]
      BY <2>2, <2>3
    <2> QED BY <1>1, <2>1, <2>4 DEF Index!Begin
  <1> QED BY <1>1, <1>20, <1>21

LEMMA FinishPromised ==
  ASSUME IInv, IInv', PInv, NEW t \in Thread, Calm(t), pc[t] # "idle",
         NEW answer, NEW n, Finish(t, answer, n), Index!Fits(call[t], answer)
  PROVE  PInv' /\ Index!End(t) /\ Contents' = Contents
  <1>1. Contents' = Contents BY CalmTame
  <1>2. PICK d : d = [Index!NoCall EXCEPT !.answer = answer] OBVIOUS
  <1>3. d = [op |-> "none", key |-> Null, acted |-> FALSE, always |-> {}, ever |-> {},
             answer |-> answer]
    BY <1>2 DEF Index!NoCall
  <1>4. d.answer = answer BY <1>3
  <1>5. call' = [call EXCEPT ![t] = d] BY <1>2 DEF Finish
  <1>6. call = [u \in Thread |-> call[u]] BY DEF PInv
  <1>7. /\ call' = [u \in Thread |-> call'[u]] /\ call'[t] = d
        /\ \A u \in Thread \ {t} : call'[u] = call[u]
    BY <1>5, <1>6
  <1>8. pc'[t] = "idle" /\ F(t)' = EmptyFrame BY GoFrame DEF Finish, IInv
  <1>9. Knows(t)'
    <2>1. RestsKnowing' BY RestKnows, PTL
    <2>2. Rests(t)' BY <1>3, <1>7, <1>8 DEF Rests
    <2> QED BY <2>1, <2>2 DEF RestsKnowing
  <1>10. \A u \in Thread \ {t} : Knows(u)' BY <1>7, OthersKnow
  <1>11. PInv' BY <1>7, <1>9, <1>10 DEF PInv
  <1>12. Index!End(t)
    <2>1. call[t].op # "none" BY CallOf DEF PInv, Knows
    <2>2. call' = [call EXCEPT ![t] = [Index!NoCall EXCEPT !.answer = call'[t].answer]]
      BY <1>2, <1>4, <1>5, <1>7
    <2>3. Index!Fits(call[t], call'[t].answer)
      <3>1. PICK a : a = call'[t].answer OBVIOUS
      <3>2. a = answer BY <1>4, <1>7, <3>1
      <3> QED BY <3>1, <3>2
    <2> QED BY <1>1, <2>1, <2>2, <2>3 DEF Index!End
  <1> QED BY <1>1, <1>11, <1>12

\* The answers.
LEMMA ReturnPromised ==
  ASSUME IInv, IInv', PInv, NEW t \in Thread, MapReturn(t)
  PROVE  PInv' /\ Index!End(t) /\ Contents' = Contents
  <1>1. Calm(t) BY CallCalm
  <1>2. PICK f : f = F(t) OBVIOUS
  <1>3. PICK c : c = call[t] OBVIOUS
  <1>4. Knows(t) BY DEF PInv
  <1>5. c.op \in Operations(f.then) \cup {"none"} /\ (c.op = "none" <=> pc[t] = "idle")
    BY <1>2, <1>3, <1>4, CallOf DEF Knows
  <1>6. ASSUME NEW answer, NEW n, Finish(t, answer, n), pc[t] # "idle", Index!Fits(c, answer)
        PROVE  PInv' /\ Index!End(t) /\ Contents' = Contents
    BY <1>1, <1>3, <1>6, FinishPromised
  <1>7. CASE InsertReturn(t)
    <2>1. pc[t] = "held" /\ Finish(t, Null, f.node) /\ Where(t) = "held" /\ Created(t)
      BY <1>2, <1>7 DEF InsertReturn, Where, Calling, Created
    <2>2. f.then = "insertFound" /\ c.acted BY <1>2, <1>3, <1>4, <2>1 DEF Knows, ThenIs, ActedIs
    <2>3. c.op = "insert" BY <1>5, <2>1, <2>2 DEF Operations
    <2>4. Index!Fits(c, Null) BY <2>2, <2>3 DEF Index!Fits
    <2> QED BY <1>6, <2>1, <2>4
  <1>8. CASE InsertFound(t)
    <2>1. pc[t] = "insertFound" /\ Finish(t, Null, f.cursor) /\ Where(t) = "insertFound"
          /\ f.cursor # Null
      BY <1>2, <1>8 DEF InsertFound, Where, Calling
    <2>2. f.then = "insertFound" /\ c.key \in c.ever
      BY <1>2, <1>3, <1>4, <2>1 DEF Knows, ThenIs, CursorIs
    <2>3. c.op = "insert" BY <1>5, <2>1, <2>2 DEF Operations
    <2>4. Index!Fits(c, Null) BY <2>2, <2>3 DEF Index!Fits
    <2> QED BY <1>6, <2>1, <2>4
  <1>9. CASE EraseReturn(t)
    <2>1. pc[t] = "eraseFound" /\ Finish(t, Null, f.cursor) /\ Where(t) = "eraseFound"
          /\ (f.cursor = Null \/ snode[f.cursor].key # f.key)
      BY <1>2, <1>9 DEF EraseReturn, HasKey, Where, Calling
    <2>2. f.then \in {"eraseFound", "eraseNode"} BY <1>2, <1>4, <2>1 DEF Knows, ThenIs
    <2>3. c.op = "erase" /\ f.key = c.key
      BY <1>2, <1>3, <1>4, <1>5, <2>1, <2>2 DEF Operations, Knows, QueryIs, Queries
    <2>4. c.key \notin c.always
      <3>1. CASE f.then = "eraseFound"
        BY <1>2, <1>3, <1>4, <2>1, <2>3, <3>1 DEF Knows, CursorIs
      <3>2. CASE f.then = "eraseNode"
        BY <1>2, <1>3, <1>4, <2>1, <2>3, <3>2 DEF Knows, ActedIs
      <3> QED BY <2>2, <3>1, <3>2
    <2>5. Index!Fits(c, Null) BY <2>3, <2>4 DEF Index!Fits
    <2> QED BY <1>6, <2>1, <2>5
  <1>10. CASE PreviousFound(t)
    <2>1. /\ pc[t] = "previousFound" /\ Where(t) = "previousFound" /\ f.cursor # Null
          /\ Finish(t, snode[f.cursor].key, f.cursor)
      BY <1>2, <1>10 DEF PreviousFound, Where, Calling
    <2>2. f.then = "previousFound" BY <1>2, <1>4, <2>1 DEF Knows, ThenIs
    <2>3. c.op = "previous" BY <1>5, <2>1, <2>2 DEF Operations
    <2>4. PICK k : k = snode[f.cursor].key OBVIOUS
    <2>5. /\ k \in c.ever /\ Below(k, c.key)
          /\ ~\E j \in c.always : Below(k, j) /\ Below(j, c.key)
      BY <1>2, <1>3, <1>4, <2>1, <2>4 DEF Knows, CursorIs
    <2>6. Index!Fits(c, k) BY <2>3, <2>5 DEF Index!Fits
    <2> QED BY <1>6, <2>1, <2>4, <2>6
  <1>11. CASE SumReturn(t)
    <2>1. /\ pc[t] = "advance" /\ Where(t) = "advance" /\ f.cursor = Null /\ Visiting(t)
          /\ Finish(t, f.visited, f.node)
      BY <1>2, <1>11 DEF SumReturn, Where, Calling, Visiting
    <2>2. f.then = "advance" BY <1>2, <1>4, <2>1 DEF Knows, ThenIs
    <2>3. c.op = "sum" BY <1>5, <2>1, <2>2 DEF Operations
    <2>4. PICK s : s = f.visited OBVIOUS
    <2>5. /\ Index!Ascending(s) /\ {s[i] : i \in 1 .. Len(s)} \subseteq c.ever
          /\ \A k \in c.always : k \in {s[i] : i \in 1 .. Len(s)} \/ Below(f.key, k)
      BY <1>2, <1>3, <1>4, <2>1, <2>4 DEF Knows, VisitedIs
    <2>6. \A k \in c.always : ~Below(f.key, k)
      BY <1>2, <1>3, <1>4, <2>1 DEF Knows, CursorIs
    <2>7. Index!Fits(c, s)
      <3>1. c.always \subseteq {s[i] : i \in 1 .. Len(s)} BY <2>5, <2>6
      <3> QED BY <2>3, <2>5, <3>1 DEF Index!Fits
    <2> QED BY <1>6, <2>1, <2>4, <2>7
  <1>12. CASE EmptyReturn(t)
    <2>1. pc[t] = "size" /\ Where(t) = "size" /\ Finish(t, slist.entries = 1, Null)
      BY <1>12 DEF EmptyReturn, Where, Calling
    <2>2. c.op = "empty" BY <1>3, <1>4, <2>1 DEF Knows, ThenIs
    <2>3. PICK b \in BOOLEAN : b = (slist.entries = 1) OBVIOUS
    <2>4. Finish(t, b, Null) BY <2>1, <2>3
    <2>5. Index!Fits(c, b) BY <2>2 DEF Index!Fits
    <2> QED BY <1>6, <2>1, <2>4, <2>5
  <1> QED BY <1>7, <1>8, <1>9, <1>10, <1>11, <1>12 DEF MapReturn

-----------------------------------------------------------------------------
(* The steps of a call. *)

\* Of those that leave the contents alone each keeps what its thread knows.
LEMMA CalmKnows ==
  ASSUME IInv, IInv', NEW t \in Thread, Calm(t), Knows(t), call'[t] = call[t],
         SuccessorIsGreater, NextIsGreater(t),
         SkipListStep(t) \/ MapWork(t), ~InsertLinked(t), ~EraseUnlink(t)
  PROVE  Knows(t)'
  <1>1. pc'[t] # "undefined" BY DEF IInv, Types
  <1>2. ASSUME Works(t) /\ (Created(t)' \/ Erased(t)' <=> Created(t) \/ Erased(t))
        PROVE  Knows(t)'
    BY <1>2, WorkStays
  <1>3. CASE NextLoad(t) \/ NextGrab(t) \/ NextCheck(t) \/ NextSkip(t)
    <2>1. /\ pc[t] \in Calling /\ pc'[t] \in {"grab", "check", "skip", F(t).ret} /\ SameCall(t)
          /\ F(t)'.visited = F(t).visited /\ WalkIs(t)'
      BY <1>3, NextWalks
    <2> QED BY <2>1, CallingKnows
  <1>4. CASE \/ ClearFlag(t) \/ Flag(t) \/ Neighbours(t) \/ Again(t) \/ ScanLayers(t)
             \/ StoreTop(t)
    BY <1>1, <1>2, <1>4, PlaceWork
  <1>5. CASE \/ InsertStart(t) \/ InsertRetry(t) \/ InsertRight(t) \/ InsertDuplicate(t)
             \/ InsertDown(t) \/ InsertPlace(t)
             \/ EraseStart(t) \/ EraseRetry(t) \/ EraseRight(t) \/ EraseDown(t) \/ ErasePlace(t)
    BY <1>1, <1>2, <1>5, MoveWork
  <1>6. CASE \/ InsertLink(t) \/ InsertCount(t) \/ InsertGrab(t)
             \/ EraseNode(t) \/ EraseFlagNode(t) \/ EraseMark(t)
             \/ EraseBypass(t) \/ EraseCount(t) \/ EraseUnflag(t) \/ EraseRelease(t)
             \/ WaitForUsers(t)
    BY <1>2, <1>6, TurnWork
  <1>7. CASE FindStart(t) \/ FindRetry(t) \/ FindRight(t) \/ FindDown(t) BY <1>7, FindMoves
  <1>8. CASE FindEqual(t) \/ FindBottom(t) BY <1>8, FindReturns
  <1>9. CASE Successor(t) BY <1>9, SuccessorKnows
  <1>10. CASE NewNode(t) \/ InsertAgain(t) BY <1>10, NewKnows
  <1>11. CASE DeleteDuplicate(t) BY <1>11, DeleteKnows
  <1>12. CASE DeleteErased(t)
    <2>1. Delete(t, "eraseFound") \/ Go(t, "wait", F(t)) BY <1>12 DEF DeleteErased
    <2>2. CASE Delete(t, "eraseFound") BY <1>12, <2>2, DeleteKnows
    <2>3. CASE Go(t, "wait", F(t)) BY <1>2, <1>12, <2>3, TurnWork
    <2> QED BY <2>1, <2>2, <2>3
  <1>13. CASE EraseNext(t) BY <1>13, EraseNextKnows
  <1>14. CASE BeginAtHead(t) BY <1>14, BeginKnows
  <1>15. CASE FirstEntry(t) BY <1>15, FirstKnows
  <1>16. CASE NextEntry(t) BY <1>16, EntryKnows
  <1>17. CASE EmptySize(t) BY <1>17, SizeKnows
  <1>18. CASE SkipListStep(t) BY <1>3, <1>4, <1>5, <1>6, <1>7, <1>8, <1>9, <1>18 DEF SkipListStep
  <1>19. CASE MapWork(t)
    BY <1>6, <1>10, <1>11, <1>12, <1>13, <1>14, <1>15, <1>16, <1>17, <1>19 DEF MapWork
  <1> QED BY <1>18, <1>19

LEMMA WorkPromised ==
  ASSUME IInv, IInv', PInv, SuccessorIsGreater, SuccessorIsGreater', NEW t \in Thread, Work(t)
  PROVE  /\ PInv'
         /\ Index!Insert(t) \/ Index!Erase(t) \/ (Contents' = Contents /\ call' = call)
  <1>1. call' = Index!Seen([call EXCEPT ![t].acted = @ \/ Contents' # Contents], Contents')
    BY DEF Work
  <1>2. SkipListStep(t) \/ MapWork(t) BY DEF Work
  <1>3. CASE InsertLinked(t) BY <1>1, <1>3, InsertActs
  <1>4. CASE EraseUnlink(t) BY <1>1, <1>4, EraseActs
  <1>5. CASE ~InsertLinked(t) /\ ~EraseUnlink(t)
    <2>1. Calm(t) BY <1>2, <1>5, SkipListCalm, MapCalm
    <2>2. Contents' = Contents BY <2>1, CalmTame
    <2>3. call' = call BY <1>1, <2>2, CallsStay
    <2>4. NextIsGreater(t) BY DEF SuccessorIsGreater, NextIsGreater
    <2>5. Knows(t) /\ call'[t] = call[t] BY <2>3 DEF PInv
    <2>6. Knows(t)' BY <1>2, <1>5, <2>1, <2>4, <2>5, CalmKnows
    <2>7. \A u \in Thread \ {t} : Knows(u)' BY <2>1, <2>3, OthersKnow
    <2>8. call' = [u \in Thread |-> call'[u]]
      <3>1. call = [u \in Thread |-> call[u]] BY DEF PInv
      <3> QED BY <2>3, <3>1
    <2>9. PInv' BY <2>6, <2>7, <2>8 DEF PInv
    <2> QED BY <2>2, <2>3, <2>9
  <1> QED BY <1>3, <1>4, <1>5

-----------------------------------------------------------------------------

LEMMA PromiseStarts ==
  ASSUME SentinelStays, Init
  PROVE  PInv /\ Index!Init
  <1>1. IInv BY Initially
  <1>2. /\ frame = [t \in Thread |-> EmptyFrame] /\ pc = [t \in Thread |-> "idle"]
        /\ call = [t \in Thread |-> Index!NoCall]
    BY DEF Init
  <1>3. Index!NoCall = [op |-> "none", key |-> Null, acted |-> FALSE, always |-> {}, ever |-> {},
                        answer |-> Null]
    BY DEF Index!NoCall
  <1>4. ASSUME NEW t \in Thread PROVE Knows(t)
    <2>1. Rests(t) BY <1>2, <1>3 DEF Rests, F
    <2> QED BY <2>1, RestKnows DEF RestsKnowing
  <1>5. call = [t \in Thread |-> call[t]] BY <1>2
  <1>6. Contents \subseteq Key \cup {SentinelKey} BY <1>1, KeysOfNodes
  <1> QED BY <1>2, <1>4, <1>5, <1>6 DEF PInv, Index!Init

LEMMA PromiseGoesOn ==
  ASSUME IInv, IInv', PInv, SuccessorIsGreater, SuccessorIsGreater', [Next]_vars
  PROVE  PInv' /\ [Index!Next]_<<Contents, call>>
  <1>1. CASE UNCHANGED vars
    <2>1. Contents' = Contents BY <1>1 DEF Contents, vars
    <2>2. PInv'
      BY <1>1, <2>1
         DEF vars, PInv, Knows, CallIs, ThenIs, QueryIs, ActedIs, WalkIs, CursorIs, VisitedIs,
             Where, F, Creating, Created, Erased, Erases, Unmarked, Marked, Visiting, Inserts,
             IsAfter, IsBefore, Missed, Linked, Operations
    <2> QED BY <1>1, <2>1, <2>2 DEF vars
  <1>2. CASE Next /\ ~UNCHANGED vars
    <2>1. PICK t \in Thread : Step(t) BY <1>2 DEF Next, Finished
    <2>2. CASE Begin(t) BY <2>2, BeginPromised DEF Index!Next
    <2>3. CASE Work(t)
      <3>1. /\ PInv'
            /\ Index!Insert(t) \/ Index!Erase(t) \/ (Contents' = Contents /\ call' = call)
        BY <2>3, WorkPromised
      <3> QED BY <3>1 DEF Index!Next
    <2>4. CASE MapReturn(t) BY <2>4, ReturnPromised DEF Index!Next
    <2> QED BY <2>1, <2>2, <2>3, <2>4 DEF Step
  <1> QED BY <1>1, <1>2

\* What each call knows, at each place of the code: SkipListPromise's invariant.
THEOREM CallsKnow ==
  ASSUME SentinelStays
  PROVE  Spec /\ CallsApart /\ []SuccessorIsGreater => []PInv
  <1>1. Init => PInv BY PromiseStarts
  <1>2. IInv /\ IInv' /\ PInv /\ SuccessorIsGreater /\ SuccessorIsGreater' /\ [Next]_vars => PInv'
    BY PromiseGoesOn
  <1> QED BY <1>1, <1>2, Invariance, PTL DEF Spec

\* The map over the skip list implements OrderedIndex: each insert and erase takes
\* effect at one instant, and no search or iteration misses a key that was there all
\* the time, as long as the search for a greater node finds one (SuccessorIsGreater).
THEOREM MapKeepsPromise ==
  ASSUME SentinelStays
  PROVE  Spec /\ CallsApart /\ []SuccessorIsGreater => KeepsPromise
  <1>1. Init => Index!Init BY PromiseStarts
  <1>2. IInv /\ IInv' /\ PInv /\ SuccessorIsGreater /\ SuccessorIsGreater' /\ [Next]_vars
            => [Index!Next]_<<Contents, call>>
    BY PromiseGoesOn
  <1> QED BY <1>1, <1>2, Invariance, CallsKnow, PTL DEF Spec, KeepsPromise, Index!Spec
=============================================================================
