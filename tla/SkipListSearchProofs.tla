------------------------- MODULE SkipListSearchProofs -------------------------
(***************************************************************************)
(* What keeps the invariant of the skip list, and that the steps keep it   *)
(* which write no more than reference counts and flags that were theirs:   *)
(* those of a search, and of starting over.                                *)
(*                                                                         *)
(* First come the nodes, the layers and what a step of one thread leaves   *)
(* alone of what another one relies on; then each part of the invariant,   *)
(* one lemma that says which steps keep it.  With these, the steps.        *)
(***************************************************************************)
EXTENDS SkipListInvariant, FiniteSetTheorems, WellFoundedInduction, TLAPS

-----------------------------------------------------------------------------
(* Numbers: a least one, induction on a set of them, and that a function can *)
(* be applied again and again, which is what a recursive function that       *)
(* follows the pointers of a list comes to.                                  *)

\* A set of numbers has a least one.
LEMMA LeastNumber ==
  ASSUME NEW S, S \subseteq Nat, S # {}
  PROVE  \E x \in S : \A y \in S : x <= y
  <1> DEFINE R == {p \in Nat \X Nat : p[1] < p[2]}
  <1>1. IsWellFoundedOn(R, Nat) BY NatLessThanWellFounded DEF OpToRel
  <1>2. PICK x \in S : \A y \in S : ~(<<y, x>> \in R)
    <2> HIDE DEF R
    <2> QED BY <1>1, WFMin
  <1>3. ASSUME NEW y \in S PROVE x <= y
    <2>1. y \in Nat /\ x \in Nat OBVIOUS
    <2>2. ~(y < x) => x <= y BY <2>1
    <2>3. y < x => <<y, x>> \in R
      <3>1. <<y, x>> \in Nat \X Nat /\ <<y, x>>[1] = y /\ <<y, x>>[2] = x BY <2>1
      <3> QED BY <3>1
    <2> QED BY <1>2, <2>2, <2>3
  <1> QED BY <1>3

\* Induction, on a set of numbers.
LEMMA NatSets ==
  ASSUME NEW S, 0 \in S, \A n \in Nat : n \in S => n + 1 \in S
  PROVE  Nat \subseteq S
  <1> DEFINE T == Nat \ S
             R == {p \in Nat \X Nat : p[1] < p[2]}
  <1>1. IsWellFoundedOn(R, Nat)
    BY NatLessThanWellFounded DEF OpToRel
  <1>2. SUFFICES ASSUME T # {} PROVE FALSE OBVIOUS
  <1>3. T \subseteq Nat OBVIOUS
  <1>4. PICK x \in T : \A y \in T : ~(<<y, x>> \in R)
    <2> HIDE DEF T, R
    <2> QED BY <1>1, <1>2, <1>3, WFMin
  <1>5. x \in Nat /\ x # 0 /\ x - 1 \in Nat BY <1>4
  <1>6. x - 1 \in T BY <1>4, <1>5
  <1>7. <<x - 1, x>> \in Nat \X Nat /\ x - 1 < x BY <1>5
  <1>8. <<x - 1, x>>[1] < <<x - 1, x>>[2] BY <1>7
  <1>9. <<x - 1, x>> \in R BY <1>7, <1>8
  <1> HIDE DEF R, T
  <1> QED BY <1>4, <1>6, <1>9

\* g is the first n + 1 of a, G[a], G[G[a]] ...
Iterated(g, n, a, G, D) ==
    g \in [0 .. n -> D] /\ g[0] = a /\ \A i \in 0 .. n : i # n => g[i + 1] = G[g[i]]

\* f is a, G[a], G[G[a]] ...
Iteration(f, a, G, D) == f \in [Nat -> D] /\ f[0] = a /\ \A i \in Nat : f[i + 1] = G[f[i]]

\* A function can be applied again and again.
LEMMA Iterates ==
  ASSUME NEW D, NEW a \in D, NEW G, \A x \in D : G[x] \in D
  PROVE  \E f : Iteration(f, a, G, D)
  <1> DEFINE S == {n \in Nat : \E g : Iterated(g, n, a, G, D)}
  <1>1. 0 \in S
    <2> DEFINE g == [i \in 0 .. 0 |-> a]
    <2>1. g \in [0 .. 0 -> D] /\ g[0] = a OBVIOUS
    <2>2. \A i \in 0 .. 0 : i = 0 OBVIOUS
    <2>3. Iterated(g, 0, a, G, D)
      <3> HIDE DEF g
      <3> QED BY <2>1, <2>2 DEF Iterated
    <2> QED BY <2>3
  <1>2. ASSUME NEW n \in Nat, n \in S PROVE n + 1 \in S
    <2>1. PICK g : Iterated(g, n, a, G, D) BY <1>2
    <2> DEFINE h == [i \in 0 .. n + 1 |-> IF i = n + 1 THEN G[g[n]] ELSE g[i]]
    <2>2. \A i \in 0 .. n + 1 : i # n + 1 => i \in 0 .. n OBVIOUS
    <2>3. g[n] \in D /\ \A i \in 0 .. n : g[i] \in D /\ i \in 0 .. n + 1 /\ i # n + 1
      BY <2>1 DEF Iterated
    <2>4. h \in [0 .. n + 1 -> D] BY <2>2, <2>3
    <2>5. \A i \in 0 .. n : h[i] = g[i] BY <2>3
    <2>6. h[n + 1] = G[g[n]] OBVIOUS
    <2>7. h[0] = a BY <2>1, <2>5 DEF Iterated
    <2>8. ASSUME NEW i \in 0 .. n + 1, i # n + 1 PROVE h[i + 1] = G[h[i]]
      <3>1. i \in 0 .. n BY <2>2, <2>8
      <3>2. CASE i = n BY <2>5, <2>6, <3>1, <3>2
      <3>3. CASE i # n
        <4>1. i + 1 \in 0 .. n BY <3>1, <3>3
        <4>2. g[i + 1] = G[g[i]] BY <2>1, <3>1, <3>3 DEF Iterated
        <4> QED BY <2>5, <3>1, <4>1, <4>2
      <3> QED BY <3>2, <3>3
    <2>9. Iterated(h, n + 1, a, G, D)
      <3> HIDE DEF h
      <3> QED BY <2>4, <2>7, <2>8 DEF Iterated
    <2> QED BY <2>9
  <1>3. \A n \in Nat : \E g : Iterated(g, n, a, G, D)
    <2>1. Nat \subseteq S
      <3> HIDE DEF S
      <3> QED BY <1>1, <1>2, NatSets
    <2> QED BY <2>1
  <1>4. ASSUME NEW m \in Nat, NEW n \in Nat, m <= n, NEW g, Iterated(g, m, a, G, D),
               NEW h, Iterated(h, n, a, G, D)
        PROVE  g[m] = h[m]
    <2> DEFINE E == {i \in Nat : i <= m => g[i] = h[i]}
    <2>1. 0 \in E BY <1>4 DEF Iterated
    <2>2. ASSUME NEW i \in Nat, i \in E PROVE i + 1 \in E
      <3>1. SUFFICES ASSUME i + 1 <= m PROVE g[i + 1] = h[i + 1] OBVIOUS
      <3>2. i \in 0 .. m /\ i # m /\ i \in 0 .. n /\ i # n BY <1>4, <3>1
      <3>3. g[i] = h[i] BY <2>2, <3>1
      <3>4. g[i + 1] = G[g[i]] /\ h[i + 1] = G[h[i]] BY <1>4, <3>2 DEF Iterated
      <3> QED BY <3>3, <3>4
    <2>3. Nat \subseteq E
      <3> HIDE DEF E
      <3> QED BY <2>1, <2>2, NatSets
    <2> QED BY <2>3
  <1> DEFINE first(n) == CHOOSE g : Iterated(g, n, a, G, D)
             f == [n \in Nat |-> first(n)[n]]
  <1>5. \A n \in Nat : Iterated(first(n), n, a, G, D) BY <1>3
  <1>6. ASSUME NEW n \in Nat PROVE first(n)[n] \in D /\ first(n + 1)[n + 1] = G[first(n)[n]]
    <2>1. n + 1 \in Nat /\ n <= n + 1 /\ n \in 0 .. n /\ n \in 0 .. n + 1 /\ n # n + 1 OBVIOUS
    <2>2. Iterated(first(n), n, a, G, D) /\ Iterated(first(n + 1), n + 1, a, G, D)
      BY <1>5, <2>1
    <2> HIDE DEF first
    <2>3. first(n)[n] = first(n + 1)[n] BY <1>4, <2>1, <2>2
    <2>4. first(n)[n] \in D BY <2>1, <2>2 DEF Iterated
    <2>5. first(n + 1)[n + 1] = G[first(n + 1)[n]] BY <2>1, <2>2 DEF Iterated
    <2> QED BY <2>3, <2>4, <2>5
  <1>7. first(0)[0] = a
    <2> HIDE DEF first
    <2> QED BY <1>5 DEF Iterated
  <1> HIDE DEF first
  <1>8. f \in [Nat -> D] BY <1>6
  <1>9. f[0] = a BY <1>7
  <1>10. \A i \in Nat : f[i + 1] = G[f[i]] BY <1>6
  <1> QED BY <1>8, <1>9, <1>10 DEF Iteration

Listed == alloc \cup {head, tail}

-----------------------------------------------------------------------------
(* The order of the nodes. *)

LEMMA Typed ==
  ASSUME Types
  PROVE  /\ \A n \in AllNode : snode[n] \in NodeType
         /\ \A t \in Thread : frame[t] \in FrameType
         /\ alloc \subseteq Node /\ Listed \subseteq AllNode
         /\ alloc \cap {head, tail, Null} = {} /\ head # tail
         /\ Null \notin Node
         /\ Layer \subseteq Nat /\ MaxLayer \in Layer
  BY NodesAssumption, LayerAssumption DEF Types, Listed, AllNode, Layer

LEMMA KeyOrder ==
  ASSUME NEW j \in Key \cup {SentinelKey}, NEW k \in Key \cup {SentinelKey},
         NEW i \in Key \cup {SentinelKey}
  PROVE  /\ ~Below(j, j)
         /\ Below(j, k) => ~Below(k, j)
         /\ Below(i, j) /\ Below(j, k) => Below(i, k)
         /\ j # k => Below(j, k) \/ Below(k, j)
  BY KeysAssumption DEF Below, KeyLess

LEMMA KeyCompare ==
  ASSUME NEW j \in Key, NEW k \in Key \cup {SentinelKey}
  PROVE  /\ KeyLess(j, k) <=> Below(j, k)
         /\ KeyGreater(j, k) <=> Below(k, j)
  <1>1. j \in Int /\ j # SentinelKey BY KeysAssumption
  <1>2. CASE k = SentinelKey BY <1>1, <1>2 DEF Below, KeyLess, KeyGreater
  <1>3. CASE k # SentinelKey
    <2>1. k \in Int BY <1>3, KeysAssumption
    <2>2. j # k /\ j < k <=> j < k BY <1>1, <2>1
    <2>3. k # j /\ k < j <=> j > k BY <1>1, <2>1
    <2> QED BY <1>1, <1>3, <2>2, <2>3 DEF Below, KeyLess, KeyGreater
  <1> QED BY <1>2, <1>3

LEMMA LessOrder ==
  ASSUME IInv, NEW a \in Listed, NEW b \in Listed, NEW c \in Listed
  PROVE  /\ ~Less(a, a) /\ (Less(a, b) => ~Less(b, a) /\ a # tail /\ b # head)
         /\ Less(a, b) /\ Less(b, c) => Less(a, c)
  <1>1. \A n \in Listed \ {head, tail} : snode[n].key \in Key \cup {SentinelKey}
    BY DEF IInv, NodesFollow, Listed
  <1>2. head # tail BY NodesAssumption
  <1> QED BY <1>1, <1>2, KeyOrder DEF Less

\* The comparison of a search with its node says on which side of it n is.
LEMMA CmpLess ==
  ASSUME IInv, NEW t \in Thread, Owns(t), NEW n \in Listed \ {head}, n # F(t).node
  PROVE  /\ Cmp(t, n) > 0 => Less(n, F(t).node)
         /\ Cmp(t, n) < 0 => Less(F(t).node, n)
         /\ Cmp(t, n) = 0 => n # tail
         /\ Cmp(t, n) \in {-1, 0, 1}
  <1>1. /\ F(t).node \in alloc /\ snode[F(t).node].key = F(t).key /\ F(t).key \in Key
    BY DEF IInv, Owners
  <1>2. F(t).node \notin {head, tail} /\ n # head
    BY <1>1, Typed DEF IInv
  <1>3. n # tail => snode[n].key \in Key \cup {SentinelKey}
    BY DEF IInv, NodesFollow, Listed
  <1>4. CASE n = tail
    <2>1. Cmp(t, n) = -1 /\ Less(F(t).node, n) BY <1>2, <1>4 DEF Cmp, Less
    <2> QED BY <2>1, <1>4
  <1>5. CASE n # tail
    <2>1. /\ Less(n, F(t).node) <=> Below(snode[n].key, F(t).key)
          /\ Less(F(t).node, n) <=> Below(F(t).key, snode[n].key)
      BY <1>1, <1>2, <1>5 DEF Less
    <2>2. Cmp(t, n) = IF KeyLess(F(t).key, snode[n].key) THEN -1
                      ELSE IF KeyGreater(F(t).key, snode[n].key) THEN 1 ELSE 0
      BY <1>5 DEF Cmp
    <2>3. /\ KeyLess(F(t).key, snode[n].key) <=> Below(F(t).key, snode[n].key)
          /\ KeyGreater(F(t).key, snode[n].key) <=> Below(snode[n].key, F(t).key)
      BY <1>1, <1>3, <1>5, KeyCompare
    <2> QED BY <1>5, <2>1, <2>2, <2>3
  <1> QED BY <1>4, <1>5

-----------------------------------------------------------------------------
(* The layers. *)

LEMMA InListed ==
  ASSUME IInv, NEW l \in Layer
  PROVE  /\ In(l) \subseteq Listed /\ head \in In(l) /\ tail \in In(l)
         /\ \A n \in In(l) : snode[n].top >= l /\ Visible(n)
         /\ \A n \in Listed : Linked(n) /\ snode[n].top >= l => n \in In(l)
         /\ \A n \in Listed : Linked(n) => Visible(n)
  <1>1. \A n \in {head, tail} : snode[n].top >= l
    BY LayerAssumption DEF IInv, Ends, Layer
  <1>2. ASSUME NEW n \in alloc, Hidden(n) PROVE ~Linked(n) /\ \A u \in Thread : F(u).node = n => ~Half(u, l)
    <2>1. PICK t \in Thread : Creating(t) /\ Where(t) \notin {"link", "linked"} /\ F(t).node = n
      BY <1>2 DEF Hidden
    <2>2. ~Linked(n) BY <2>1 DEF IInv, NodesFollow
    <2>3. ASSUME NEW u \in Thread, F(u).node = n, Half(u, l) PROVE FALSE
      <3>1. Owns(u) /\ Where(u) \in {"link", "linked", "bypass"}
        BY <2>3 DEF Owns, Creating, Erases, Erased, Half, Where, Calling
      <3>2. u = t BY <2>1, <2>3, <3>1 DEF IInv, Owners, Owns
      <3> QED BY <2>1, <3>1, <3>2 DEF Creating, Placing
    <2> QED BY <2>2, <2>3
  <1> QED BY <1>1, <1>2 DEF In, Listed, Visible

LEMMA InOrder ==
  ASSUME IInv, NEW l \in Layer, NEW m \in In(l), m # tail, NEW n \in In(l)
  PROVE  /\ NextIn(m, l) \in In(l) /\ Less(m, NextIn(m, l))
         /\ m # n => Less(m, n) \/ Less(n, m)
         /\ Less(m, n) => NextIn(m, l) = n \/ Less(NextIn(m, l), n)
  BY DEF IInv, Sorted

\* Two nodes of a layer do not lead to the same one.
LEMMA OnePrevious ==
  ASSUME IInv, NEW l \in Layer, NEW a \in In(l), a # tail, NEW b \in In(l), b # tail,
         NextIn(a, l) = NextIn(b, l)
  PROVE  a = b
  <1>1. SUFFICES ASSUME a # b PROVE FALSE OBVIOUS
  <1> DEFINE n == NextIn(a, l)
  <1>2. a \in Listed /\ b \in Listed /\ n \in Listed BY InOrder, InListed
  <1>3. Less(a, n) /\ Less(b, n) BY InOrder
  <1>4. CASE Less(a, b)
    <2>1. n = b \/ Less(n, b) BY <1>4, InOrder
    <2> QED BY <1>2, <1>3, <2>1, LessOrder
  <1>5. CASE Less(b, a)
    <2>1. n = a \/ Less(n, a) BY <1>5, InOrder
    <2> QED BY <1>2, <1>3, <2>1, LessOrder
  <1> QED BY <1>1, <1>4, <1>5, InOrder

-----------------------------------------------------------------------------
(* Where a thread is. *)

LEMMA WhereIs ==
  ASSUME IInv, NEW t \in Thread
  PROVE  /\ pc[t] \in Calling => Where(t) = F(t).ret /\ Where(t) \in Returns
         /\ pc[t] \notin Calling => Where(t) = pc[t]
         /\ pc[t] \in Returns => F(t).ret = pc[t]
  BY DEF IInv, Fits, LocalsFit, Where

LEMMA Owned ==
  ASSUME IInv, NEW t \in Thread, Owns(t)
  PROVE  /\ F(t).node \in alloc /\ F(t).node \in Node /\ F(t).node \in Listed
         /\ F(t).node \notin {head, tail, Null} /\ F(t).node \in AllNode
         /\ Top(t) \in Layer /\ Top(t) \in Nat
         /\ \A u \in Thread : Owns(u) /\ F(u).node = F(t).node => u = t
  <1>1. F(t).node \in alloc BY DEF IInv, Owners
  <1>2. snode[F(t).node] \in NodeType BY <1>1, Typed DEF IInv, Listed
  <1>3. Top(t) \in Layer BY <1>2 DEF Top, NodeType
  <1> QED BY <1>1, <1>3, Typed DEF IInv, Owners, Listed

LEMMA FlagLayer ==
  ASSUME IInv, NEW t \in Thread, NEW l \in FlagLayers(t)
  PROVE  Owns(t) /\ l \in Layer /\ l <= Top(t) /\ l \in Nat /\ l \in 0 .. Top(t)
  <1>2. Owns(t)
    BY WhereIs DEF FlagLayers, Owns, Erases, Creating, Created, Marked, Erased, Placing, Updating,
       IInv, Fits, LocalsFit, Resumes, Calling, Returns
  <1>3. Top(t) \in Layer /\ F(t).layer \in Layer /\ Top(t) \in Int
    BY <1>2, Owned, Typed DEF IInv, FrameType, F, Layer
  <1>4. l \in 0 .. Top(t)
    BY <1>3, WhereIs DEF FlagLayers, IInv, Fits, FlagsFit, Layer, Calling, Returns
  <1> QED BY <1>2, <1>3, <1>4, LayerAssumption DEF Layer

\* A node with t's flag belongs to the layer, once it has been found linked.
LEMMA FlaggedIn ==
  ASSUME IInv, NEW t \in Thread, NEW l \in FlagLayers(t),
         pc[t] # "clear", pc[t] = "neighbours" => l # F(t).layer
  PROVE  /\ F(t).prevs[l] \in In(l) /\ F(t).prevs[l] \in Listed /\ F(t).prevs[l] # tail
         /\ Linked(F(t).prevs[l]) /\ Flags(t, F(t).prevs[l])
         /\ Less(F(t).prevs[l], F(t).node)
  <1>1. /\ F(t).prevs[l] \in alloc \cup {head} /\ snode[F(t).prevs[l]].top >= l
        /\ Less(F(t).prevs[l], F(t).node) /\ Linked(F(t).prevs[l])
    BY DEF IInv, Fits, FlagsFit
  <1>2. F(t).prevs[l] # tail BY <1>1, Typed DEF IInv
  <1> QED BY <1>1, <1>2, FlagLayer, InListed DEF Flags, Listed

\* A thread whose node is in a layer without being fully linked has the flag of the node
\* before it there.
LEMMA HalfPlace ==
  ASSUME IInv, NEW t \in Thread, NEW l \in Layer, Half(t, l), l <= Top(t)
  PROVE  /\ l \in FlagLayers(t) /\ l \in Settled(t) /\ Owns(t)
         /\ NextIn(F(t).prevs[l], l) = F(t).node
         /\ NextIn(F(t).node, l) = F(t).nexts[l] /\ Less(F(t).node, F(t).nexts[l])
  <1>1. pc[t] \in {"link", "linked", "bypass"} /\ Where(t) = pc[t]
    BY DEF Half, Where, Calling
  <1>2. Owns(t) BY <1>1 DEF Owns, Creating, Erases, Erased
  <1>3. l \in 0 .. Top(t) BY <1>2, Owned DEF Layer
  <1>4. l \in FlagLayers(t) /\ l \in Settled(t)
    BY <1>1, <1>3 DEF FlagLayers, Settled, Placing
  <1> QED BY <1>2, <1>4 DEF IInv, Fits, SettledFits

\* What comes after a node with t's flag is linked, unless t itself is changing that.
LEMMA FlaggedNext ==
  ASSUME IInv, NEW t \in Thread, NEW l \in Layer, NEW p \in In(l), p # tail,
         Flags(t, p), ~Half(t, l)
  PROVE  Linked(NextIn(p, l))
  <1> DEFINE n == NextIn(p, l)
  <1>1. SUFFICES ASSUME ~Linked(n) PROVE FALSE OBVIOUS
  <1>2. n \in In(l) BY InOrder
  <1>3. n \in alloc /\ snode[n].top >= l /\ \E t1 \in Thread : Half(t1, l) /\ F(t1).node = n
    BY <1>1, <1>2 DEF In, IInv, Ends
  <1>4. PICK u \in Thread : Half(u, l) /\ F(u).node = n BY <1>3
  <1>5. l <= Top(u) BY <1>3, <1>4, Typed DEF Top, IInv, NodeType, Listed
  <1>6. NextIn(F(u).prevs[l], l) = n /\ l \in FlagLayers(u) BY <1>4, <1>5, HalfPlace
  <1>7. pc[u] \notin {"neighbours", "clear"} BY <1>4 DEF Half
  <1>8. F(u).prevs[l] = p BY <1>6, <1>7, FlaggedIn, OnePrevious
  <1>9. Flags(u, p) BY <1>6, <1>7, <1>8, FlaggedIn
  <1>10. t = u BY <1>9, InListed DEF IInv, FlagsFollow, Listed, AllNode, Types
  <1> QED BY <1>4, <1>10

-----------------------------------------------------------------------------
(* What a step of t leaves alone. *)

\* The other threads stay where they are.
Alone(t) == \A u \in Thread \ {t} : F(u)' = F(u) /\ pc'[u] = pc[u]

Keeps(n) == n \in Listed' /\ snode'[n].key = snode[n].key /\ snode'[n].top = snode[n].top

\* The nodes D are deleted; the others keep what other threads count on.
Spares(t, D) ==
    /\ Alone(t)
    /\ \A n \in Listed \ D : Keeps(n)
    /\ \A n \in D : /\ n \in alloc /\ n \notin alloc' /\ \A l \in Layer : n \notin In(l)
                    /\ \A u \in Thread \ {t} :
                            ~Holds(u, n) /\ ~Flags(u, n) /\ ~(Owns(u) /\ F(u).node = n)
    /\ \A u \in Thread \ {t}, l \in Layer : F(u).nexts[l] \notin alloc' \ alloc
    /\ \A u \in Thread \ {t}, n \in Listed :
            \/ Flags(u, n)
            \/ Creating(u) /\ F(u).node = n
            \/ pc[u] = "grab" /\ F(u).at = n
            => snode'[n].next = snode[n].next /\ (snode[n].linked => snode'[n].linked)

LEMMA GoFrame ==
  ASSUME Types, NEW t \in Thread, NEW label, NEW f, Go(t, label, f)
  PROVE  Alone(t) /\ F(t)' = f /\ frame'[t] = f /\ pc'[t] = label
  BY DEF Types, Go, Alone, F

LEMMA GoTypes ==
  ASSUME Types, NEW t \in Thread, NEW label \in LabelNames \ {"undefined"}, NEW f \in FrameType,
         Go(t, label, f)
  PROVE  frame' \in [Thread -> FrameType] /\ pc' \in [Thread -> LabelNames \ {"undefined"}]
  BY DEF Types, Go

LEMMA OtherThread ==
  ASSUME NEW t \in Thread, Alone(t), NEW u \in Thread \ {t}
  PROVE  /\ Where(u)' = Where(u) /\ (Inserts(u)' <=> Inserts(u))
         /\ (Creating(u)' <=> Creating(u)) /\ (Created(u)' <=> Created(u))
         /\ (Unmarked(u)' <=> Unmarked(u)) /\ (Marked(u)' <=> Marked(u))
         /\ (Erased(u)' <=> Erased(u)) /\ (Erases(u)' <=> Erases(u)) /\ (Owns(u)' <=> Owns(u))
         /\ (Visiting(u)' <=> Visiting(u)) /\ (FlagsOwn(u)' <=> FlagsOwn(u))
         /\ \A l : Half(u, l)' <=> Half(u, l)
  <1>1. F(u)' = F(u) /\ pc'[u] = pc[u] BY DEF Alone
  <1>2. Where(u)' = Where(u) BY <1>1 DEF Where
  <1>3. Inserts(u)' <=> Inserts(u) BY <1>1 DEF Inserts
  <1>4. /\ (Creating(u)' <=> Creating(u)) /\ (Created(u)' <=> Created(u))
        /\ (Unmarked(u)' <=> Unmarked(u)) /\ (Marked(u)' <=> Marked(u))
        /\ (Erased(u)' <=> Erased(u)) /\ (Visiting(u)' <=> Visiting(u))
    BY <1>1, <1>2, <1>3 DEF Creating, Created, Unmarked, Marked, Erased, Visiting
  <1>5. \A l : Half(u, l)' <=> Half(u, l) BY <1>1 DEF Half
  <1>6. FlagsOwn(u)' <=> FlagsOwn(u) BY <1>2, <1>4 DEF FlagsOwn
  <1> QED BY <1>2, <1>3, <1>4, <1>5, <1>6 DEF Erases, Owns

LEMMA OtherHolds ==
  ASSUME NEW t \in Thread, Alone(t), NEW u \in Thread \ {t}, NEW n
  PROVE  /\ HoldsCur(u, n)' <=> HoldsCur(u, n)
         /\ HoldsNext(u, n)' <=> HoldsNext(u, n)
         /\ HoldsPassed(u, n)' <=> HoldsPassed(u, n)
         /\ HoldsNode(u, n)' <=> HoldsNode(u, n)
         /\ HoldsCursor(u, n)' <=> HoldsCursor(u, n)
         /\ Holds(u, n)' <=> Holds(u, n)
  <1>1. F(u)' = F(u) /\ pc'[u] = pc[u] BY DEF Alone
  <1>2. /\ HoldsCur(u, n)' <=> HoldsCur(u, n)
        /\ HoldsNext(u, n)' <=> HoldsNext(u, n)
        /\ HoldsPassed(u, n)' <=> HoldsPassed(u, n)
        /\ HoldsNode(u, n)' <=> HoldsNode(u, n)
        /\ HoldsCursor(u, n)' <=> HoldsCursor(u, n)
    BY <1>1, OtherThread DEF HoldsCur, HoldsNext, HoldsPassed, HoldsNode, HoldsCursor
  <1> QED BY <1>2 DEF Holds

LEMMA OtherFlags ==
  ASSUME IInv, NEW t \in Thread, NEW D, Spares(t, D), NEW u \in Thread \ {t}
  PROVE  /\ Owns(u) => Keeps(F(u).node) /\ Top(u)' = Top(u)
         /\ FlagLayers(u)' = FlagLayers(u)
         /\ \A n : Flags(u, n)' <=> Flags(u, n)
  <1>1. Alone(t) /\ F(u)' = F(u) /\ pc'[u] = pc[u] BY DEF Spares, Alone
  <1>2. Owns(u) => Keeps(F(u).node) /\ Top(u)' = Top(u)
    BY <1>1, Owned DEF Spares, Keeps, Top, Listed
  <1>3. FlagLayers(u)' = FlagLayers(u)
    <2>1. CASE Owns(u) BY <1>1, <1>2, <2>1, OtherThread DEF FlagLayers
    <2>2. CASE ~Owns(u)
      <3>1. FlagLayers(u) = {} BY <2>2, FlagLayer
      <3>2. Where(u) \notin {"insertMove", "eraseMove", "flag", "neighbours", "again", "link",
                "linked", "insertCount", "unlink", "bypass", "eraseCount", "scan", "storeTop",
                "clear"}
        BY <2>2, WhereIs DEF Owns, Erases, Creating, Created, Marked, Erased, Placing, Updating,
           IInv, Fits, LocalsFit, Resumes, Calling, Returns
      <3>3. Where(u)' = Where(u) BY <1>1, OtherThread
      <3>4. FlagLayers(u)' = {} BY <3>2, <3>3 DEF FlagLayers, Updating
      <3> QED BY <3>1, <3>4
    <2> QED BY <2>1, <2>2
  <1>4. ASSUME NEW n PROVE Flags(u, n)' <=> Flags(u, n)
    BY <1>1, <1>3, OtherThread DEF Flags
  <1> QED BY <1>2, <1>3, <1>4

-----------------------------------------------------------------------------
(* The nodes that a thread has come to. *)

LEMMA HeldListed ==
  ASSUME IInv, NEW t \in Thread, NEW n \in Node, Holds(t, n)
  PROVE  n \in alloc /\ n \in Listed /\ Visible(n) /\ n \notin {head, tail}
  BY NodesAssumption DEF IInv, HeldStay, Visible, Listed

LEMMA CurListed ==
  ASSUME IInv, NEW t \in Thread, Where(t) \in Walking
  PROVE  /\ F(t).cur \in Listed /\ F(t).cur # tail /\ F(t).cur \in AllNode
         /\ F(t).cur # head => Holds(t, F(t).cur) /\ F(t).cur \in alloc
         /\ F(t).layer \in Layer
  <1>1. /\ F(t).cur \in Node \cup {head}
        /\ Where(t) = "successor" => F(t).cur = F(t).node /\ F(t).then \in {"eraseNode", "advance"}
        /\ Where(t) = "first" => F(t).cur = head
    BY DEF IInv, Fits, CurFits, LocalsFit
  <1>2. F(t).cur # head => Holds(t, F(t).cur)
    <2>1. CASE Where(t) \in Stepping BY <2>1 DEF Holds, HoldsCur, Held
    <2>2. CASE Where(t) = "successor"
      BY <1>1, <2>2 DEF Holds, HoldsNode, Unmarked, Visiting, Searching
    <2> QED BY <1>1, <2>1, <2>2 DEF Walking
  <1>3. F(t).cur # head => F(t).cur \in alloc
    BY <1>1, <1>2, HeldListed
  <1>4. F(t).layer \in Layer BY Typed DEF IInv, FrameType, F
  <1> QED BY <1>1, <1>2, <1>3, <1>4, Typed DEF IInv, Listed, AllNode

LEMMA NextListed ==
  ASSUME IInv, NEW t \in Thread,
         pc[t] \in {"check", "skip"} \/ (pc[t] \in Returns /\ F(t).next # Null)
  PROVE  /\ F(t).next \in Listed /\ F(t).next # head /\ F(t).next \in AllNode
         /\ F(t).next # tail => Holds(t, F(t).next) /\ F(t).next \in alloc
  <1>1. F(t).next \in Node \cup {tail} BY DEF IInv, Fits, NextFits
  <1>2. F(t).next # tail => Holds(t, F(t).next) BY DEF Holds, HoldsNext
  <1> QED BY <1>1, <1>2, HeldListed, NodesAssumption DEF Listed, AllNode

LEMMA PassedListed ==
  ASSUME IInv, NEW t \in Thread, NEW p \in F(t).passed
  PROVE  /\ p \in Listed /\ p \in alloc /\ p \in Node /\ Holds(t, p) /\ p \notin {head, tail}
         /\ pc[t] \in {"grab", "check", "skip"} /\ Where(t) \in Returns
  <1>1. p \in Node BY Typed DEF IInv, FrameType, F
  <1>2. Holds(t, p) BY DEF Holds, HoldsPassed
  <1>3. pc[t] \in {"grab", "check", "skip"} BY DEF IInv, Fits, LocalsFit
  <1> QED BY <1>1, <1>2, <1>3, HeldListed, WhereIs DEF Calling

LEMMA GrabIn ==
  ASSUME IInv, NEW t \in Thread, pc[t] = "grab"
  PROVE  /\ F(t).at \in In(F(t).layer) /\ F(t).at # tail /\ F(t).at \in Listed
         /\ F(t).next = NextIn(F(t).at, F(t).layer) /\ F(t).next \in In(F(t).layer)
         /\ F(t).next \in Listed /\ F(t).next # head /\ Less(F(t).cur, F(t).next)
         /\ F(t).at \in {F(t).cur} \cup F(t).passed /\ Less(F(t).at, F(t).next)
         /\ F(t).layer \in Layer
  <1>1. Where(t) \in Walking BY WhereIs DEF Calling, Returns, Walking, Stepping, Placing
  <1>2. /\ F(t).at \in {F(t).cur} \cup F(t).passed /\ Linked(F(t).at)
        /\ NextIn(F(t).at, F(t).layer) = F(t).next
        /\ \A p \in F(t).passed : /\ snode[p].top >= F(t).layer
                                  /\ Less(F(t).cur, p) /\ Less(p, F(t).next)
        /\ snode[F(t).cur].top >= F(t).layer
    BY <1>1 DEF IInv, Fits, NextFits, CurFits
  <1>3. F(t).at \in Listed /\ F(t).at # tail /\ snode[F(t).at].top >= F(t).layer
    BY <1>1, <1>2, CurListed, PassedListed, Typed DEF IInv
  <1>4. F(t).layer \in Layer BY <1>1, CurListed
  <1>5. F(t).at \in In(F(t).layer) BY <1>2, <1>3, <1>4, InListed
  <1>6. F(t).next \in In(F(t).layer) /\ Less(F(t).at, F(t).next)
    BY <1>2, <1>3, <1>4, <1>5, InOrder
  <1>7. F(t).next \in Listed BY <1>4, <1>6, InListed
  <1>8. Less(F(t).cur, F(t).next)
    <2>1. CASE F(t).at = F(t).cur BY <1>6, <2>1
    <2>2. CASE F(t).at \in F(t).passed
      <3>1. Less(F(t).cur, F(t).at) BY <1>2, <2>2
      <3> QED BY <1>1, <1>3, <1>6, <1>7, <3>1, CurListed, LessOrder
    <2> QED BY <1>2, <2>1, <2>2
  <1>9. F(t).next # head BY <1>3, <1>6, <1>7, LessOrder
  <1> QED BY <1>2, <1>3, <1>4, <1>5, <1>6, <1>7, <1>8, <1>9

LEMMA SettledFlags ==
  ASSUME IInv, NEW t \in Thread, NEW l \in Settled(t)
  PROVE  /\ l \in FlagLayers(t) /\ Owns(t) /\ pc[t] # "clear" /\ l \in Layer
         /\ pc[t] = "neighbours" => l # F(t).layer
  <1>1. F(t).layer \in Layer BY Typed DEF IInv, FrameType, F
  <1>2. l \in FlagLayers(t) /\ pc[t] # "clear" /\ (pc[t] = "neighbours" => l # F(t).layer)
    BY <1>1, LayerAssumption, WhereIs
    DEF Settled, FlagLayers, Where, Placing, Layer, Calling, Returns
  <1> QED BY <1>2, FlagLayer

LEMMA SettledIn ==
  ASSUME IInv, NEW t \in Thread, NEW l \in Settled(t)
  PROVE  /\ F(t).prevs[l] \in In(l) /\ F(t).prevs[l] # tail /\ Flags(t, F(t).prevs[l])
         /\ F(t).nexts[l] \in In(l) /\ F(t).nexts[l] \in Listed /\ F(t).nexts[l] # head
         /\ Less(F(t).node, F(t).nexts[l]) /\ NextIn(F(t).node, l) = F(t).nexts[l]
         /\ Less(F(t).prevs[l], F(t).node)
         /\ (~Inserts(t) /\ pc[t] # "bypass") \/ Half(t, l) => F(t).node \in In(l)
  <1>1. /\ F(t).nexts[l] \in Node \cup {tail} /\ Less(F(t).node, F(t).nexts[l])
        /\ NextIn(F(t).node, l) = F(t).nexts[l]
        /\ NextIn(F(t).prevs[l], l) =
              IF Half(t, l) \/ (~Inserts(t) /\ pc[t] # "bypass") THEN F(t).node
              ELSE F(t).nexts[l]
    BY DEF IInv, Fits, SettledFits
  <1>2. l \in Layer /\ F(t).prevs[l] \in In(l) /\ F(t).prevs[l] # tail
        /\ Flags(t, F(t).prevs[l]) /\ Less(F(t).prevs[l], F(t).node)
    BY SettledFlags, FlaggedIn
  <1>3. Owns(t) /\ F(t).node # tail BY SettledFlags, Owned
  <1>4. NextIn(F(t).prevs[l], l) \in In(l) BY <1>2, InOrder
  <1>5. F(t).nexts[l] \in In(l) BY <1>1, <1>2, <1>3, <1>4, InOrder
  <1> QED BY <1>1, <1>2, <1>4, <1>5, InListed, NodesAssumption
-----------------------------------------------------------------------------
(* What a thread has come to stays when another one steps. *)

LEMMA LessKept ==
  ASSUME NEW a, NEW b, Keeps(a), Keeps(b)
  PROVE  Less(a, b)' <=> Less(a, b)
  BY DEF Less, Keeps, Below, KeyLess

\* The nodes that u has come to are not deleted.
LEMMA OtherKept ==
  ASSUME IInv, NEW t \in Thread, NEW D, Spares(t, D), NEW u \in Thread \ {t}
  PROVE  /\ \A n \in Listed : Holds(u, n) \/ Flags(u, n) \/ n \in {head, tail} => Keeps(n)
         /\ \A l \in Layer : \A n \in In(l) : Keeps(n)
         /\ Where(u) \in Walking => Keeps(F(u).cur)
         /\ pc[u] \in {"check", "skip"} \/ (pc[u] \in Returns /\ F(u).next # Null)
                => Keeps(F(u).next)
         /\ pc[u] = "grab" => Keeps(F(u).next) /\ Keeps(F(u).at)
         /\ \A p \in F(u).passed : Keeps(p)
         /\ \A l \in FlagLayers(u) : Keeps(F(u).prevs[l])
         /\ \A l \in Settled(u) : Keeps(F(u).nexts[l]) /\ Keeps(F(u).prevs[l])
         /\ Owns(u) => Keeps(F(u).node)
  <1>1. ASSUME NEW n \in Listed, Holds(u, n) \/ Flags(u, n) \/ n \in {head, tail}
        PROVE  Keeps(n)
    BY <1>1, Typed DEF Spares, IInv
  <1>2. ASSUME NEW l \in Layer, NEW n \in In(l) PROVE Keeps(n)
    BY <1>2, InListed DEF Spares
  <1>3. Where(u) \in Walking => Keeps(F(u).cur) BY <1>1, CurListed
  <1>4. pc[u] \in {"check", "skip"} \/ (pc[u] \in Returns /\ F(u).next # Null)
            => Keeps(F(u).next)
    BY <1>1, NextListed
  <1>5. pc[u] = "grab" => Keeps(F(u).next) /\ Keeps(F(u).at) BY <1>2, GrabIn
  <1>6. \A p \in F(u).passed : Keeps(p) BY <1>1, PassedListed
  <1>7. ASSUME NEW l \in FlagLayers(u) PROVE Keeps(F(u).prevs[l])
    <2>1. F(u).prevs[l] \in Listed BY DEF IInv, Fits, FlagsFit, Listed
    <2> QED BY <1>1, <2>1 DEF Flags
  <1>8. ASSUME NEW l \in Settled(u) PROVE Keeps(F(u).nexts[l]) /\ Keeps(F(u).prevs[l])
    BY <1>2, <1>7, SettledIn, SettledFlags
  <1>9. Owns(u) => Keeps(F(u).node) BY OtherFlags
  <1> QED BY <1>1, <1>2, <1>3, <1>4, <1>5, <1>6, <1>7, <1>8, <1>9

LEMMA OtherLocals ==
  ASSUME IInv, NEW t \in Thread, NEW D, Spares(t, D), NEW u \in Thread \ {t}
  PROVE  LocalsFit(u)' /\ CurFits(u)'
  <1>1. Alone(t) /\ F(u)' = F(u) /\ pc'[u] = pc[u] /\ Where(u)' = Where(u)
    BY OtherThread DEF Spares, Alone
  <1>2. /\ Creating(u)' <=> Creating(u)
        /\ Inserts(u)' <=> Inserts(u)
    BY <1>1, OtherThread
  <1>3. LocalsFit(u) /\ CurFits(u) BY DEF IInv, Fits
  <1>4. Where(u) \in Placing \cup {"link", "bypass"} => Owns(u)
    BY <1>3 DEF LocalsFit, Owns, Erases, Creating, Erased, Marked
  <1>5. Where(u) \in Placing \cup {"link", "bypass"} => Top(u)' = Top(u)
    BY <1>4, OtherFlags
  <1>6. LocalsFit(u)' BY <1>1, <1>2, <1>3, <1>5 DEF LocalsFit
  <1>7. Where(u) \in Walking => Keeps(F(u).cur) BY OtherKept
  <1>8. Where(u) \in Stepping \ {"findMove"} => Owns(u)
    BY <1>3 DEF Stepping, LocalsFit, Owns, Erases, Creating, Erased, Marked
  <1>9. Where(u) \in Stepping \ {"findMove"} => Keeps(F(u).node) BY <1>8, OtherFlags
  <1>10. Where(u) \in Stepping \ {"findMove"} =>
            (Less(F(u).cur, F(u).node)' <=> Less(F(u).cur, F(u).node))
    <2>1. SUFFICES ASSUME Where(u) \in Stepping \ {"findMove"}
                   PROVE  Less(F(u).cur, F(u).node)' <=> Less(F(u).cur, F(u).node)
      OBVIOUS
    <2>2. Keeps(F(u).cur) /\ Keeps(F(u).node) BY <2>1, <1>7, <1>9 DEF Walking
    <2> QED BY <1>1, <2>2, LessKept DEF Less, Keeps
  <1>11. CurFits(u)' BY <1>1, <1>3, <1>7, <1>10 DEF CurFits, Keeps
  <1> QED BY <1>6, <1>11
LEMMA OtherNext ==
  ASSUME IInv, NEW t \in Thread, NEW D, Spares(t, D), NEW u \in Thread \ {t}
  PROVE  NextFits(u)' /\ FoundFits(u)'
  <1>1. Alone(t) /\ F(u)' = F(u) /\ pc'[u] = pc[u] /\ Where(u)' = Where(u)
    BY OtherThread DEF Spares, Alone
  <1>2. NextFits(u) /\ FoundFits(u) BY DEF IInv, Fits
  <1>3. ASSUME NEW a, NEW b, Keeps(a), Keeps(b) PROVE Less(a, b)' <=> Less(a, b)
    BY <1>3, LessKept
  <1>4. pc[u] \in {"grab", "check", "skip"} \cup Returns => Where(u) \in Walking
    BY WhereIs DEF Calling, Returns, Walking, Stepping, Placing
  <1>5. NextFits(u)'
    <2>1. ASSUME pc[u] \in {"check", "skip"} \/ (pc[u] \in Returns /\ F(u).next # Null)
          PROVE  /\ F(u).next \in Node \cup {tail} /\ snode'[F(u).next].top >= F(u).layer
                 /\ Less(F(u).cur, F(u).next)'
      <3>1. Keeps(F(u).cur) /\ Keeps(F(u).next) BY <1>4, <2>1, OtherKept
      <3> QED BY <1>1, <1>2, <2>1, <3>1, <1>3 DEF NextFits, Keeps, Less
    <2>2. ASSUME pc[u] \in {"grab", "check", "skip"}, NEW p \in F(u).passed
          PROVE  /\ snode'[p].top >= F(u).layer
                 /\ Less(F(u).cur, p)' /\ Less(p, F(u).next)'
      <3>1. Keeps(F(u).cur) /\ Keeps(p) /\ Keeps(F(u).next) BY <1>4, <2>2, OtherKept
      <3> QED BY <1>1, <1>2, <2>2, <3>1, <1>3 DEF NextFits, Keeps, Less
    <2>3. ASSUME pc[u] = "grab"
          PROVE  /\ F(u).at \in {F(u).cur} \cup F(u).passed
                 /\ Linked(F(u).at)' /\ NextIn(F(u).at, F(u).layer)' = F(u).next
      <3>1. F(u).at \in Listed BY <2>3, GrabIn
      <3>2. snode'[F(u).at].next = snode[F(u).at].next
              /\ (snode[F(u).at].linked => snode'[F(u).at].linked)
        BY <2>3, <3>1 DEF Spares
      <3> QED BY <1>1, <1>2, <2>3, <3>2 DEF NextFits, Linked, NextIn
    <2> QED BY <1>1, <1>2, <2>1, <2>2, <2>3 DEF NextFits
  <1>6. FoundFits(u)'
    <2>1. SUFFICES ASSUME F(u).ret = "eraseMove" /\ F(u).layer <= Top(u)'
                   PROVE FoundFits(u)'
      BY <1>1 DEF FoundFits
    <2>2. CASE pc[u] \in {"grab", "check", "skip"} \/ (pc[u] = "eraseMove" /\ F(u).next # Null)
      <3>1. Where(u) = "eraseMove" BY <2>1, <2>2 DEF Where, Calling
      <3>2. Owns(u) BY <3>1 DEF Owns, Erases, Marked
      <3>3. Keeps(F(u).node) /\ Top(u)' = Top(u) BY <3>2, OtherFlags
      <3>4. Keeps(F(u).next) BY <2>2, OtherKept DEF Returns
      <3> QED BY <1>1, <1>2, <1>3, <2>1, <3>3, <3>4 DEF FoundFits, Less
    <2>3. CASE pc[u] \notin {"grab", "check", "skip"} /\ ~(pc[u] = "eraseMove" /\ F(u).next # Null)
      <3>1. ASSUME pc[u] = "eraseMove" PROVE F(u).next # F(u).node
        <4>1. Where(u) = "eraseMove" BY <3>1 DEF Where, Calling
        <4>2. Owns(u) BY <4>1 DEF Owns, Erases, Marked
        <4> QED BY <2>3, <3>1, <4>2, Owned
      <3> QED BY <1>1, <2>3, <3>1 DEF FoundFits
    <2> QED BY <2>2, <2>3
  <1> QED BY <1>5, <1>6

LEMMA OtherAgain ==
  ASSUME IInv, NEW t \in Thread, NEW D, Spares(t, D), NEW u \in Thread \ {t}
  PROVE  AgainFits(u)'
  <1>1. Alone(t) /\ F(u)' = F(u) /\ pc'[u] = pc[u] /\ Where(u)' = Where(u)
    BY OtherThread DEF Spares, Alone
  <1>2. SUFFICES ASSUME Where(u) = "again", pc[u] # "next" PROVE AgainFits(u)'
    BY <1>1 DEF AgainFits
  <1>3. AgainFits(u) /\ LocalsFit(u) /\ CurFits(u) BY DEF IInv, Fits
  <1>4. Owns(u) /\ F(u).layer \in Layer /\ F(u).layer <= Top(u) /\ Top(u) \in Layer
    BY <1>2, <1>3, Owned, CurListed
    DEF LocalsFit, Placing, Owns, Creating, Erases, Marked, Walking, Stepping
  <1>5. F(u).layer \in FlagLayers(u) BY <1>2, <1>4, LayerAssumption DEF FlagLayers, Layer
  <1>6. Flags(u, F(u).cur) /\ F(u).cur \in Listed
    BY <1>2, <1>3, <1>5, CurListed DEF Flags, CurFits, Walking, Stepping, Placing
  <1>7. snode'[F(u).cur].next = snode[F(u).cur].next BY <1>6 DEF Spares
  <1>8. F(u).find = F(u).node => snode'[F(u).node].next = snode[F(u).node].next
    <2>1. F(u).find = F(u).node => Flags(u, F(u).node)
      BY <1>2, <1>4, Owned DEF Flags, FlagsOwn, Marked, Inserts, Placing
    <2> QED BY <1>4, <2>1, Owned DEF Spares
  <1> QED BY <1>1, <1>3, <1>7, <1>8 DEF AgainFits, NextIn

LEMMA OtherPlace ==
  ASSUME IInv, NEW t \in Thread, NEW D, Spares(t, D), NEW u \in Thread \ {t}
  PROVE  PlaceFits(u)'
  <1>1. Alone(t) /\ F(u)' = F(u) /\ pc'[u] = pc[u] /\ Where(u)' = Where(u)
    BY OtherThread DEF Spares, Alone
  <1>2. SUFFICES ASSUME Where(u) \in Placing PROVE PlaceFits(u)'
    BY <1>1 DEF PlaceFits
  <1> DEFINE next == F(u).nexts[F(u).layer]
  <1>3. PlaceFits(u) /\ LocalsFit(u) BY DEF IInv, Fits
  <1>4. Owns(u) /\ F(u).layer \in Layer /\ F(u).node \in Listed
    BY <1>2, <1>3, Owned, CurListed
    DEF LocalsFit, Placing, Owns, Creating, Erases, Marked, Walking, Stepping
  <1>5. ASSUME next \in alloc' \cup {tail} PROVE Less(F(u).node, next)'
    <2>1. next \in alloc \cup {tail} BY <1>4, <1>5 DEF Spares
    <2>2. Keeps(next) BY <1>5, <2>1, Typed DEF Spares, Listed, IInv
    <2>3. Keeps(F(u).node) BY <1>4, OtherFlags
    <2>4. Less(F(u).node, next) BY <1>2, <1>3, <2>1 DEF PlaceFits
    <2> QED BY <1>1, <2>2, <2>3, <2>4, LessKept DEF Less
  <1>6. ASSUME Where(u) = "again", Inserts(u)
        PROVE  NextIn(F(u).node, F(u).layer)' = next
    <2>1. Creating(u) BY <1>6 DEF Creating, Placing
    <2>2. snode'[F(u).node].next = snode[F(u).node].next BY <1>4, <2>1 DEF Spares
    <2> QED BY <1>1, <1>3, <1>6, <2>2 DEF PlaceFits, NextIn, Placing
  <1>7. Inserts(u)' <=> Inserts(u) BY <1>1, OtherThread
  <1> QED BY <1>1, <1>2, <1>3, <1>5, <1>6, <1>7 DEF PlaceFits

LEMMA OtherSettled ==
  ASSUME IInv, NEW t \in Thread, NEW D, Spares(t, D), NEW u \in Thread \ {t}
  PROVE  SettledFits(u)'
  <1>1. Alone(t) /\ F(u)' = F(u) /\ pc'[u] = pc[u] /\ Where(u)' = Where(u)
    BY OtherThread DEF Spares, Alone
  <1>2. SettledFits(u) BY DEF IInv, Fits
  <1>3. Settled(u)' = Settled(u)
    <2>1. CASE Owns(u) BY <1>1, <2>1, OtherFlags DEF Settled
    <2>2. CASE ~Owns(u)
      <3>1. Where(u) \notin {"insertMove", "eraseMove", "link", "linked", "unlink", "bypass"} \cup Placing
        BY <2>2 DEF Owns, Erases, Creating, Marked, Erased
      <3> QED BY <1>1, <3>1 DEF Settled
    <2> QED BY <2>1, <2>2
  <1>4. ASSUME NEW l \in Settled(u)
        PROVE  /\ F(u).nexts[l] \in Node \cup {tail} /\ Less(F(u).node, F(u).nexts[l])'
               /\ NextIn(F(u).node, l)' = NextIn(F(u).node, l)
               /\ NextIn(F(u).prevs[l], l)' = NextIn(F(u).prevs[l], l)
    <2>1. F(u).nexts[l] \in Node \cup {tail} /\ Less(F(u).node, F(u).nexts[l])
      BY <1>2 DEF SettledFits
    <2>2. Keeps(F(u).node) /\ Keeps(F(u).nexts[l]) BY SettledFlags, OtherKept
    <2>3. Less(F(u).node, F(u).nexts[l])' BY <1>1, <2>1, <2>2, LessKept DEF Less
    <2>4. Flags(u, F(u).node) \/ Creating(u)
      <3>1. Where(u) \in {"insertMove", "eraseMove", "link", "linked", "unlink", "bypass"} \cup Placing
        BY DEF Settled
      <3> QED BY <3>1 DEF Flags, FlagsOwn, Creating, Erased, Marked
    <2>5. snode'[F(u).node].next = snode[F(u).node].next
      BY <2>4, SettledFlags, Owned DEF Spares
    <2>6. snode'[F(u).prevs[l]].next = snode[F(u).prevs[l]].next
      BY SettledIn, SettledFlags, InListed DEF Spares
    <2> QED BY <1>1, <2>1, <2>3, <2>5, <2>6 DEF NextIn
  <1>5. \A l : (Half(u, l)' <=> Half(u, l)) /\ (Inserts(u)' <=> Inserts(u))
    BY <1>1, OtherThread
  <1> QED BY <1>1, <1>2, <1>3, <1>4, <1>5 DEF SettledFits

LEMMA OtherFlagsFit ==
  ASSUME IInv, NEW t \in Thread, NEW D, Spares(t, D), NEW u \in Thread \ {t}
  PROVE  FlagsFit(u)'
  <1>1. Alone(t) /\ F(u)' = F(u) /\ pc'[u] = pc[u] /\ Where(u)' = Where(u)
    BY OtherThread DEF Spares, Alone
  <1>2. FlagsFit(u) BY DEF IInv, Fits
  <1>3. FlagLayers(u)' = FlagLayers(u) BY OtherFlags
  <1>4. ASSUME NEW l \in FlagLayers(u)
        PROVE  /\ F(u).prevs[l] \in alloc' \cup {head}
               /\ snode'[F(u).prevs[l]].top = snode[F(u).prevs[l]].top
               /\ Less(F(u).prevs[l], F(u).node)' /\ Keeps(F(u).prevs[l])
               /\ (snode[F(u).prevs[l]].linked => snode'[F(u).prevs[l]].linked)
    <2>1. F(u).prevs[l] \in alloc \cup {head} /\ Less(F(u).prevs[l], F(u).node)
      BY <1>2 DEF FlagsFit
    <2>2. Keeps(F(u).prevs[l]) /\ Keeps(F(u).node) BY FlagLayer, OtherKept
    <2>3. Less(F(u).prevs[l], F(u).node)' BY <1>1, <2>1, <2>2, LessKept DEF Less
    <2>4. F(u).prevs[l] # tail BY <2>1, Typed DEF IInv
    <2>5. snode[F(u).prevs[l]].linked => snode'[F(u).prevs[l]].linked
      BY <2>1 DEF Spares, Flags, Listed
    <2> QED BY <2>1, <2>2, <2>3, <2>4, <2>5 DEF Keeps, Listed
  <1>5. ASSUME NEW l \in FlagLayers(u), NEW m \in FlagLayers(u), Less(F(u).prevs[m], F(u).prevs[l])
        PROVE  Less(F(u).prevs[m], F(u).prevs[l])'
    BY <1>1, <1>4, <1>5, LessKept DEF Less
  <1>6. ASSUME Where(u) \in {"insertMove", "eraseMove", "flag"}, F(u).layer < Top(u)'
        PROVE  LET above == F(u).prevs[F(u).layer + 1]
               IN  above = F(u).cur \/ Less(above, F(u).cur)'
    <2>1. Owns(u) BY <1>6 DEF Owns, Creating, Erases, Marked, Placing
    <2>2. Top(u)' = Top(u) /\ Top(u) \in Layer BY <2>1, OtherFlags, Owned
    <2>3. F(u).layer \in Layer /\ Keeps(F(u).cur)
      BY <1>6, CurListed, OtherKept DEF Walking, Stepping, Placing
    <2>4. F(u).layer + 1 \in FlagLayers(u)
      BY <1>6, <2>2, <2>3, LayerAssumption DEF FlagLayers, Layer
    <2>5. Keeps(F(u).prevs[F(u).layer + 1]) BY <1>4, <2>4
    <2> QED BY <1>1, <1>2, <1>6, <2>2, <2>3, <2>5, LessKept DEF FlagsFit, Less
  <1>7. pc[u] = "clear" => Top(u)' = Top(u)
    <2>1. pc[u] = "clear" => F(u).clearing # {} /\ FlagLayers(u) = F(u).clearing
      BY <1>2 DEF FlagsFit, FlagLayers, Where, Calling, Updating
    <2> QED BY <2>1, FlagLayer, OtherFlags
  <1> QED BY <1>1, <1>2, <1>3, <1>4, <1>5, <1>6, <1>7 DEF FlagsFit, Linked

LEMMA OtherFits ==
  ASSUME IInv, NEW t \in Thread, NEW D, Spares(t, D), NEW u \in Thread \ {t}
  PROVE  Fits(u)'
  BY OtherLocals, OtherNext, OtherAgain, OtherPlace, OtherSettled, OtherFlagsFit DEF Fits
-----------------------------------------------------------------------------
(* The parts of the invariant that speak of all threads. *)

One(p) == IF p THEN 1 ELSE 0

\* The references that t has on n.
Mine(t, n) == One(HoldsCur(t, n)) + One(HoldsNext(t, n)) + One(HoldsPassed(t, n))
                + One(HoldsNode(t, n)) + One(HoldsCursor(t, n))

LEMMA CountMoved ==
  ASSUME NEW P \in SUBSET Thread, NEW Q \in SUBSET Thread, NEW t \in Thread, P \ {t} = Q \ {t}
  PROVE  /\ Cardinality(Q) = Cardinality(P) + One(t \in Q) - One(t \in P)
         /\ Cardinality(P) \in Nat /\ Cardinality(Q) \in Nat
  <1>1. IsFiniteSet(P) /\ IsFiniteSet(Q) BY ThreadsFinite, FS_Subset
  <1>2. Cardinality(P) \in Nat /\ Cardinality(Q) \in Nat BY <1>1, FS_CardinalityType
  <1>3. CASE t \in P /\ t \in Q
    <2>1. P = Q BY <1>3
    <2> QED BY <1>2, <1>3, <2>1 DEF One
  <1>4. CASE t \notin P /\ t \notin Q
    <2>1. P = Q BY <1>4
    <2> QED BY <1>2, <1>4, <2>1 DEF One
  <1>5. CASE t \in P /\ t \notin Q
    <2>1. Q = P \ {t} BY <1>5
    <2>2. Cardinality(Q) = Cardinality(P) - 1 BY <1>1, <1>5, <2>1, FS_RemoveElement
    <2> QED BY <1>2, <1>5, <2>2 DEF One
  <1>6. CASE t \notin P /\ t \in Q
    <2>1. Q = P \cup {t} BY <1>6
    <2>2. Cardinality(Q) = Cardinality(P) + 1 BY <1>1, <1>6, <2>1, FS_AddElement
    <2> QED BY <1>2, <1>6, <2>2 DEF One
  <1> QED BY <1>3, <1>4, <1>5, <1>6

LEMMA RefsStep ==
  ASSUME IInv, NEW t \in Thread, Alone(t),
         \A n \in Node : snode'[n].refs = snode[n].refs + Mine(t, n)' - Mine(t, n)
  PROVE  RefsFollow'
  <1>1. SUFFICES ASSUME NEW n \in Node
                 PROVE  snode'[n].refs = Cardinality({u \in Thread : HoldsCur(u, n)})'
                      + Cardinality({u \in Thread : HoldsNext(u, n)})'
                      + Cardinality({u \in Thread : HoldsPassed(u, n)})'
                      + Cardinality({u \in Thread : HoldsNode(u, n)})'
                      + Cardinality({u \in Thread : HoldsCursor(u, n)})'
    BY DEF RefsFollow
  <1>2. PICK A, B, C, D, E : /\ A = {u \in Thread : HoldsCur(u, n)}
                             /\ B = {u \in Thread : HoldsNext(u, n)}
                             /\ C = {u \in Thread : HoldsPassed(u, n)}
                             /\ D = {u \in Thread : HoldsNode(u, n)}
                             /\ E = {u \in Thread : HoldsCursor(u, n)}
    OBVIOUS
  <1>3. PICK A1, B1, C1, D1, E1 : /\ A1 = {u \in Thread : HoldsCur(u, n)}'
                             /\ B1 = {u \in Thread : HoldsNext(u, n)}'
                             /\ C1 = {u \in Thread : HoldsPassed(u, n)}'
                             /\ D1 = {u \in Thread : HoldsNode(u, n)}'
                             /\ E1 = {u \in Thread : HoldsCursor(u, n)}'
    OBVIOUS
  <1>4. /\ A \in SUBSET Thread /\ B \in SUBSET Thread /\ C \in SUBSET Thread
        /\ D \in SUBSET Thread /\ E \in SUBSET Thread
        /\ A1 \in SUBSET Thread /\ B1 \in SUBSET Thread /\ C1 \in SUBSET Thread
        /\ D1 \in SUBSET Thread /\ E1 \in SUBSET Thread
    BY <1>2, <1>3
  <1>5. /\ A \ {t} = A1 \ {t} /\ B \ {t} = B1 \ {t} /\ C \ {t} = C1 \ {t}
        /\ D \ {t} = D1 \ {t} /\ E \ {t} = E1 \ {t}
    BY <1>2, <1>3, OtherHolds
  <1>6. /\ One(t \in A) = One(HoldsCur(t, n)) /\ One(t \in A1) = One(HoldsCur(t, n))'
        /\ One(t \in B) = One(HoldsNext(t, n)) /\ One(t \in B1) = One(HoldsNext(t, n))'
        /\ One(t \in C) = One(HoldsPassed(t, n)) /\ One(t \in C1) = One(HoldsPassed(t, n))'
        /\ One(t \in D) = One(HoldsNode(t, n)) /\ One(t \in D1) = One(HoldsNode(t, n))'
        /\ One(t \in E) = One(HoldsCursor(t, n)) /\ One(t \in E1) = One(HoldsCursor(t, n))'
    BY <1>2, <1>3 DEF One
  <1>7. \A p : One(p) \in Int BY DEF One
  <1>8. /\ Cardinality(A1) = Cardinality(A) + One(t \in A1) - One(t \in A)
        /\ Cardinality(B1) = Cardinality(B) + One(t \in B1) - One(t \in B)
        /\ Cardinality(C1) = Cardinality(C) + One(t \in C1) - One(t \in C)
        /\ Cardinality(D1) = Cardinality(D) + One(t \in D1) - One(t \in D)
        /\ Cardinality(E1) = Cardinality(E) + One(t \in E1) - One(t \in E)
        /\ Cardinality(A) \in Nat /\ Cardinality(B) \in Nat /\ Cardinality(C) \in Nat
        /\ Cardinality(D) \in Nat /\ Cardinality(E) \in Nat
    BY <1>4, <1>5, CountMoved
  <1>9. snode[n].refs = Cardinality(A) + Cardinality(B) + Cardinality(C) + Cardinality(D)
                          + Cardinality(E)
    BY <1>2 DEF IInv, RefsFollow
  <1>10. snode'[n].refs = snode[n].refs
            + (One(t \in A1) + One(t \in B1) + One(t \in C1) + One(t \in D1) + One(t \in E1))
            - (One(t \in A) + One(t \in B) + One(t \in C) + One(t \in D) + One(t \in E))
    BY <1>6 DEF Mine
  <1>11. snode'[n].refs = Cardinality(A1) + Cardinality(B1) + Cardinality(C1) + Cardinality(D1)
                            + Cardinality(E1)
    BY <1>7, <1>8, <1>9, <1>10
  <1> QED BY <1>3, <1>11

\* No reference, no holder.
LEMMA NoRefs ==
  ASSUME IInv, NEW n \in Node
  PROVE  /\ snode[n].refs = 0 => \A t \in Thread : ~Holds(t, n)
         /\ (\A t \in Thread : ~Holds(t, n)) => snode[n].refs = 0
         /\ snode[n].refs \in Nat
  <1>1. PICK A, B, C, D, E : /\ A = {u \in Thread : HoldsCur(u, n)}
                             /\ B = {u \in Thread : HoldsNext(u, n)}
                             /\ C = {u \in Thread : HoldsPassed(u, n)}
                             /\ D = {u \in Thread : HoldsNode(u, n)}
                             /\ E = {u \in Thread : HoldsCursor(u, n)}
    OBVIOUS
  <1>2. /\ IsFiniteSet(A) /\ IsFiniteSet(B) /\ IsFiniteSet(C) /\ IsFiniteSet(D)
        /\ IsFiniteSet(E)
    BY <1>1, ThreadsFinite, FS_Subset
  <1>3. /\ Cardinality(A) \in Nat /\ Cardinality(B) \in Nat /\ Cardinality(C) \in Nat
        /\ Cardinality(D) \in Nat /\ Cardinality(E) \in Nat
    BY <1>2, FS_CardinalityType
  <1>4. /\ (Cardinality(A) = 0 <=> A = {}) /\ (Cardinality(B) = 0 <=> B = {})
        /\ (Cardinality(C) = 0 <=> C = {}) /\ (Cardinality(D) = 0 <=> D = {})
        /\ (Cardinality(E) = 0 <=> E = {})
    BY <1>2, FS_EmptySet
  <1>5. snode[n].refs = Cardinality(A) + Cardinality(B) + Cardinality(C) + Cardinality(D)
                          + Cardinality(E)
    BY <1>1 DEF IInv, RefsFollow
  <1>6. snode[n].refs = 0 <=> A = {} /\ B = {} /\ C = {} /\ D = {} /\ E = {}
    <2>1. snode[n].refs = 0 <=> /\ Cardinality(A) = 0 /\ Cardinality(B) = 0
                                /\ Cardinality(C) = 0 /\ Cardinality(D) = 0
                                /\ Cardinality(E) = 0
      BY ONLY <1>3, <1>5
    <2> QED BY ONLY <2>1, <1>4
  <1> QED BY <1>1, <1>3, <1>5, <1>6 DEF Holds

\* Of the nodes, only the one of t gets or loses an owner.
LEMMA OwnersStep ==
  ASSUME IInv, NEW t \in Thread, NEW D, Spares(t, D),
         Owns(t)' => /\ F(t)'.node \in alloc' /\ F(t)'.key \in Key
                     /\ snode'[F(t)'.node].key = F(t)'.key,
         Owns(t)' => \A u \in Thread \ {t} : Owns(u) => F(u).node # F(t)'.node
  PROVE  Owners'
  <1>1. Alone(t) BY DEF Spares
  <1>2. \A u \in Thread \ {t} : F(u)' = F(u) /\ (Owns(u)' <=> Owns(u))
    BY <1>1, OtherThread DEF Alone
  <1>3. ASSUME NEW u \in Thread \ {t}, Owns(u)
        PROVE  /\ F(u).node \in alloc' /\ F(u).key \in Key
               /\ snode'[F(u).node].key = F(u).key
    BY <1>3, OtherFlags, Owned DEF Keeps, Listed, IInv, Owners
  <1>4. \A u \in Thread, v \in Thread : Owns(u)' /\ Owns(v)' /\ F(u)'.node = F(v)'.node => u = v
    BY <1>2 DEF IInv, Owners
  <1>5. \A u \in Thread : Owns(u)' => /\ F(u)'.node \in alloc' /\ F(u)'.key \in Key
                                     /\ snode'[F(u)'.node].key = F(u)'.key
    BY <1>2, <1>3
  <1> QED BY <1>4, <1>5 DEF Owners

\* What the fields of the node of t say follows what t does with it.
Says(t, n) ==
    /\ snode[n].writing <=> Creating(t)
    /\ ~Linked(n) <=> Creating(t) \/ Erased(t)
    /\ snode[n].removed <=> Marked(t) \/ Erased(t)

LEMMA OwnSays ==
  ASSUME IInv, NEW t \in Thread, Owns(t)
  PROVE  Says(t, F(t).node)
  <1>1. F(t).node \in alloc /\ \A u \in Thread : Owns(u) /\ F(u).node = F(t).node => u = t
    BY Owned
  <1>2. \A u \in Thread : Creating(u) \/ Erased(u) \/ Marked(u) => Owns(u) BY DEF Owns, Erases
  <1> QED BY <1>1, <1>2 DEF IInv, NodesFollow, Says

LEMMA NobodySays ==
  ASSUME IInv, NEW n \in alloc, \A u \in Thread : Owns(u) => F(u).node # n
  PROVE  ~snode[n].writing /\ Linked(n) /\ ~snode[n].removed
  <1>1. \A u \in Thread : Creating(u) \/ Erased(u) \/ Marked(u) => Owns(u) BY DEF Owns, Erases
  <1> QED BY <1>1 DEF IInv, NodesFollow

LEMMA NodesStep ==
  ASSUME IInv, NEW t \in Thread, NEW D, Spares(t, D),
         Owns(t)' => Says(t, F(t).node)' /\ snode'[F(t)'.node].key \in Key,
         Owns(t)' => \A u \in Thread \ {t} : Owns(u) => F(u).node # F(t)'.node,
         \A n \in alloc' : ~(Owns(t)' /\ F(t)'.node = n) =>
            /\ n \in alloc /\ snode'[n].writing = snode[n].writing
            /\ snode'[n].linked = snode[n].linked /\ snode'[n].removed = snode[n].removed
            /\ F(t).node = n => ~Creating(t) /\ ~Marked(t) /\ ~Erased(t)
  PROVE  NodesFollow'
  <1>1. Alone(t) BY DEF Spares
  <1>2. \A u \in Thread \ {t} : /\ F(u)' = F(u) /\ (Creating(u)' <=> Creating(u))
                               /\ (Erased(u)' <=> Erased(u)) /\ (Marked(u)' <=> Marked(u))
    BY <1>1, OtherThread DEF Alone
  <1>3. \A u : Creating(u)' \/ Erased(u)' \/ Marked(u)' => Owns(u)' BY DEF Owns, Erases
  <1>4. \A u \in Thread : Creating(u) \/ Erased(u) \/ Marked(u) => Owns(u) BY DEF Owns, Erases
  <1>5. SUFFICES ASSUME NEW n \in alloc'
                 PROVE  /\ snode'[n].key \in Key \cup {SentinelKey}
                        /\ snode'[n].writing <=> \E u \in Thread : Creating(u)' /\ F(u)'.node = n
                        /\ ~snode'[n].linked <=>
                                \E u \in Thread : (Creating(u)' \/ Erased(u)') /\ F(u)'.node = n
                        /\ snode'[n].removed <=>
                                \E u \in Thread : (Marked(u)' \/ Erased(u)') /\ F(u)'.node = n
    BY DEF NodesFollow, Linked
  <1>6. CASE Owns(t)' /\ F(t)'.node = n
    <2>1. Says(t, F(t).node)' /\ snode'[n].key \in Key BY <1>6
    <2>2. /\ snode'[n].writing <=> Creating(t)'
          /\ ~snode'[n].linked <=> Creating(t)' \/ Erased(t)'
          /\ snode'[n].removed <=> Marked(t)' \/ Erased(t)'
      BY <1>6, <2>1 DEF Says, Linked
    <2>3. \A u \in Thread \ {t} : F(u)'.node = n => ~Creating(u)' /\ ~Erased(u)' /\ ~Marked(u)'
      BY <1>2, <1>4, <1>6
    <2> QED BY <1>6, <2>1, <2>2, <2>3
  <1>7. CASE ~(Owns(t)' /\ F(t)'.node = n)
    <2>1. /\ n \in alloc /\ snode'[n].writing = snode[n].writing
          /\ snode'[n].linked = snode[n].linked /\ snode'[n].removed = snode[n].removed
          /\ F(t).node = n => ~Creating(t) /\ ~Marked(t) /\ ~Erased(t)
      BY <1>7
    <2>2. n \notin D BY <1>5 DEF Spares
    <2>3. snode'[n].key = snode[n].key BY <2>1, <2>2 DEF Spares, Keeps, Listed
    <2>4. F(t)'.node = n => ~Creating(t)' /\ ~Erased(t)' /\ ~Marked(t)' BY <1>3, <1>7
    <2> QED BY <1>2, <2>1, <2>3, <2>4 DEF IInv, NodesFollow, Linked
  <1> QED BY <1>6, <1>7
LEMMA HeldStep ==
  ASSUME IInv, NEW t \in Thread, NEW D, Spares(t, D),
         \A n \in Node : Holds(t, n)' => n \in alloc' /\ Visible(n),
         Creating(t)' /\ Where(t)' \notin {"link", "linked"} =>
            \/ F(t)'.node \notin alloc
            \/ Creating(t) /\ Where(t) \notin {"link", "linked"} /\ F(t)'.node = F(t).node
  PROVE  /\ HeldStay'
         /\ \A n : Visible(n) /\ n \in Listed' => Visible(n)'
  <1>1. Alone(t) BY DEF Spares
  <1>2. \A u \in Thread \ {t} : /\ F(u)' = F(u) /\ (Creating(u)' <=> Creating(u))
                               /\ Where(u)' = Where(u)
    BY <1>1, OtherThread DEF Alone
  <1>3. ASSUME NEW n, Visible(n), n \in Listed' PROVE Visible(n)'
    <2>1. SUFFICES ASSUME n \notin {head, tail} PROVE n \in alloc' /\ ~Hidden(n)'
      BY DEF Visible
    <2>2. n \in alloc' /\ n \in alloc /\ ~Hidden(n) BY <1>3, <2>1 DEF Visible, Listed
    <2>3. SUFFICES ASSUME NEW u \in Thread, Creating(u)', Where(u)' \notin {"link", "linked"},
                          F(u)'.node = n
                   PROVE  FALSE
      BY <2>2 DEF Hidden
    <2>4. CASE u = t BY <2>2, <2>3, <2>4 DEF Hidden
    <2>5. CASE u # t BY <1>2, <2>2, <2>3, <2>5 DEF Hidden
    <2> QED BY <2>4, <2>5
  <1>4. ASSUME NEW u \in Thread, NEW n \in Node, Holds(u, n)' PROVE Visible(n)'
    <2>1. CASE u = t BY <1>3, <1>4, <2>1 DEF Listed
    <2>2. CASE u # t
      <3>1. Holds(u, n) BY <1>1, <1>4, <2>2, OtherHolds
      <3>2. Visible(n) /\ n \in Listed BY <3>1, HeldListed
      <3>3. Keeps(n) BY <2>2, <3>1, <3>2, OtherKept
      <3> QED BY <1>3, <3>2, <3>3 DEF Keeps
    <2> QED BY <2>1, <2>2
  <1> QED BY <1>3, <1>4 DEF HeldStay

LEMMA FlagsListed ==
  ASSUME IInv, NEW t \in Thread, NEW n, Flags(t, n)
  PROVE  n \in Listed /\ n \in AllNode /\ n # tail
  <1>1. CASE \E l \in FlagLayers(t) : F(t).prevs[l] = n
    BY <1>1, Typed DEF IInv, Fits, FlagsFit, Listed
  <1>2. CASE FlagsOwn(t) /\ F(t).node = n
    <2>1. Owns(t)
      BY <1>2, WhereIs DEF FlagsOwn, Owns, Erases, Unmarked
    <2> QED BY <1>2, <2>1, Owned, Typed DEF IInv
  <1> QED BY <1>1, <1>2 DEF Flags

LEMMA FlagsStep ==
  ASSUME IInv, NEW t \in Thread, NEW D, Spares(t, D),
         \A n \in Listed' :
            \/ /\ n \in Listed /\ snode'[n].modified = snode[n].modified
               /\ Flags(t, n)' <=> Flags(t, n)
            \/ /\ \A u \in Thread \ {t} : ~Flags(u, n)
               /\ snode'[n].modified <=> Flags(t, n)',
         \A n \in AllNode : Flags(t, n)' => \A u \in Thread \ {t} : ~Flags(u, n)
  PROVE  FlagsFollow'
  <1>1. \A u \in Thread \ {t} : \A n : Flags(u, n)' <=> Flags(u, n) BY OtherFlags
  <1>2. ASSUME NEW n \in Listed' PROVE snode'[n].modified <=> \E u \in Thread : Flags(u, n)'
    <2>1. CASE /\ n \in Listed /\ snode'[n].modified = snode[n].modified
               /\ Flags(t, n)' <=> Flags(t, n)
      <3>1. snode[n].modified <=> \E u \in Thread : Flags(u, n)
        BY <2>1 DEF IInv, FlagsFollow, Listed
      <3> QED BY <1>1, <2>1, <3>1
    <2>2. CASE /\ \A u \in Thread \ {t} : ~Flags(u, n)
               /\ snode'[n].modified <=> Flags(t, n)'
      BY <1>1, <2>2
    <2> QED BY <2>1, <2>2
  <1>3. ASSUME NEW u \in Thread, NEW v \in Thread, NEW n \in AllNode, Flags(u, n)', Flags(v, n)'
        PROVE  u = v
    BY <1>1, <1>3 DEF IInv, FlagsFollow
  <1> QED BY <1>2, <1>3 DEF FlagsFollow, Listed

LEMMA SortedStep ==
  ASSUME IInv, \A l \in Layer : In(l)' = In(l),
         \A l \in Layer : \A n \in In(l) : Keeps(n) /\ snode'[n].next = snode[n].next
  PROVE  Sorted'
  <1>1. SUFFICES ASSUME NEW l \in Layer
                 PROVE  /\ \A n \in In(l) \ {tail} : NextIn(n, l)' \in In(l) /\ Less(n, NextIn(n, l))'
                        /\ \A m, n \in In(l) : m # n => Less(m, n)' \/ Less(n, m)'
                        /\ \A m \in In(l) \ {tail}, n \in In(l) :
                            Less(m, n)' => NextIn(m, l)' = n \/ Less(NextIn(m, l), n)'
    BY DEF Sorted
  <1>2. \A n \in In(l) : NextIn(n, l)' = NextIn(n, l) /\ Keeps(n) BY DEF NextIn
  <1>3. \A m, n \in In(l) : Less(m, n)' <=> Less(m, n) BY <1>2, LessKept
  <1>4. \A n \in In(l) \ {tail} : NextIn(n, l) \in In(l) BY InOrder
  <1>5. \A n \in In(l) \ {tail}, m \in In(l) :
            /\ Less(n, NextIn(n, l))' <=> Less(n, NextIn(n, l))
            /\ Less(NextIn(n, l), m)' <=> Less(NextIn(n, l), m)
    BY <1>2, <1>3, <1>4 DEF Less
  <1> QED BY <1>2, <1>3, <1>4, <1>5, InOrder
\* The nodes that are linked are the same, and nobody comes to or leaves a place in
\* between.
SameLinks(t) ==
    /\ \A n \in alloc' : snode'[n].linked = (n \in alloc /\ snode[n].linked)
    /\ \A l \in Layer : Half(t, l)' <=> Half(t, l)
    /\ (\E l \in Layer : Half(t, l)) => F(t)'.node = F(t).node

LEMMA HalfOwns ==
  ASSUME NEW t \in Thread, NEW l, Half(t, l)
  PROVE  Owns(t)
  BY DEF Half, Owns, Creating, Erases, Erased, Where, Calling

LEMMA InStep ==
  ASSUME IInv, NEW t \in Thread, NEW D, Spares(t, D), SameLinks(t), NEW l \in Layer
  PROVE  In(l)' = In(l)
  <1>1. Alone(t) BY DEF Spares
  <1>2. \A u \in Thread \ {t} : F(u)' = F(u) /\ (Half(u, l)' <=> Half(u, l))
    BY <1>1, OtherThread DEF Alone
  <1>3. ASSUME NEW n, n \in alloc', n \in alloc
        PROVE  n \in In(l)' <=> n \in In(l)
    <2>1. n \in Listed \ D BY <1>3 DEF Spares, Listed
    <2>2. snode'[n].top = snode[n].top BY <2>1 DEF Spares, Keeps
    <2>3. snode'[n].linked = snode[n].linked
      BY <1>3, Typed DEF SameLinks, IInv, NodeType, Listed
    <2>4. (\E u \in Thread : Half(u, l)' /\ F(u)'.node = n)
            <=> (\E u \in Thread : Half(u, l) /\ F(u).node = n)
      BY <1>2 DEF SameLinks
    <2> QED BY <1>3, <2>2, <2>3, <2>4 DEF In, Linked
  <1>4. ASSUME NEW n, n \in alloc', n \notin alloc PROVE n \notin In(l)' \/ n \in {head, tail}
    <2>1. ~snode'[n].linked BY <1>4 DEF SameLinks
    <2>2. \A u \in Thread : Half(u, l) => F(u).node # n BY <1>4, HalfOwns, Owned
    <2>3. \A u \in Thread : Half(u, l)' => F(u)'.node # n
      BY <1>2, <2>2 DEF SameLinks
    <2> QED BY <2>1, <2>3 DEF In, Linked
  <1>5. \A n \in alloc \ alloc' : n \notin In(l)
    <2>1. \A n \in alloc \ alloc' : n \in D BY Typed DEF Spares, Keeps, Listed, IInv
    <2> QED BY <2>1 DEF Spares
  <1> QED BY <1>3, <1>4, <1>5 DEF In

\* The nodes that the counters count.
Counted == {n \in alloc : \/ snode[n].linked /\ ~Uncounted({"insertCount"}, n)
                          \/ Uncounted({"bypass", "eraseCount"}, n)}

LEMMA CountersAre ==
  CountersFollow <=> /\ slist.entries = Cardinality(Counted)
                     /\ \A l \in Layer :
                            slist.layers[l] = Cardinality({n \in Counted : snode[n].top = l})
  BY DEF CountersFollow, Counted

LEMMA CountersStep ==
  ASSUME IInv, Counted' = Counted, slist'.entries = slist.entries, slist'.layers = slist.layers,
         \A n \in Counted : snode'[n].top = snode[n].top
  PROVE  CountersFollow'
  <1>1. \A l : {n \in Counted : snode[n].top = l}' = {n \in Counted : snode[n].top = l}
    OBVIOUS
  <1>2. /\ slist.entries = Cardinality(Counted)
        /\ \A l \in Layer : slist.layers[l] = Cardinality({n \in Counted : snode[n].top = l})
    BY CountersAre DEF IInv
  <1>3. /\ slist'.entries = Cardinality(Counted')
        /\ \A l \in Layer : slist'.layers[l] = Cardinality({n \in Counted : snode[n].top = l})'
    BY <1>1, <1>2
  <1> QED BY <1>3 DEF CountersFollow, Counted

\* Counting is as it was.
SameCounts(t) ==
    /\ pc[t] = "insertCount" <=> pc'[t] = "insertCount"
    /\ pc[t] \in {"bypass", "eraseCount"} <=> pc'[t] \in {"bypass", "eraseCount"}
    /\ pc[t] \in {"insertCount", "bypass", "eraseCount"} => F(t)'.node = F(t).node
    /\ slist'.entries = slist.entries /\ slist'.layers = slist.layers

LEMMA UncountedOwns ==
  ASSUME IInv, NEW n, Uncounted({"insertCount"}, n) \/ Uncounted({"bypass", "eraseCount"}, n)
  PROVE  n \in alloc /\ \E t \in Thread : Owns(t) /\ F(t).node = n
  <1>1. PICK t \in Thread : pc[t] \in {"insertCount", "bypass", "eraseCount"} /\ F(t).node = n
    BY DEF Uncounted
  <1>2. Owns(t) BY <1>1 DEF Owns, Created, Erases, Erased, Where, Calling
  <1> QED BY <1>1, <1>2, Owned

LEMMA CountedStep ==
  ASSUME IInv, NEW t \in Thread, NEW D, Spares(t, D), SameLinks(t), SameCounts(t),
         \A n \in D : n \notin Counted
  PROVE  CountersFollow'
  <1>1. Alone(t) BY DEF Spares
  <1>2. \A u \in Thread \ {t} : F(u)' = F(u) /\ pc'[u] = pc[u] BY <1>1 DEF Alone
  <1>3. \A n : /\ Uncounted({"insertCount"}, n)' <=> Uncounted({"insertCount"}, n)
               /\ Uncounted({"bypass", "eraseCount"}, n)' <=> Uncounted({"bypass", "eraseCount"}, n)
    BY <1>2 DEF SameCounts, Uncounted
  <1>4. ASSUME NEW n \in alloc \ alloc' PROVE n \notin Counted
    <2>1. n \in D BY Typed DEF Spares, Keeps, Listed, IInv
    <2> QED BY <2>1
  <1>5. ASSUME NEW n \in alloc' \ alloc PROVE n \notin Counted'
    <2>1. ~snode'[n].linked BY DEF SameLinks
    <2>2. ~Uncounted({"bypass", "eraseCount"}, n)' BY <1>3, UncountedOwns
    <2> QED BY <2>1, <2>2 DEF Counted
  <1>6. \A n \in alloc \cap alloc' : snode'[n].linked = snode[n].linked
    BY Typed DEF SameLinks, IInv, NodeType, Listed
  <1>7. Counted' = Counted BY <1>3, <1>4, <1>5, <1>6 DEF Counted
  <1>8. \A n \in Counted : snode'[n].top = snode[n].top
    BY <1>7 DEF Spares, Keeps, Listed, Counted
  <1> QED BY <1>7, <1>8, CountersStep DEF SameCounts

LEMMA SentinelStep ==
  ASSUME IInv, NEW t \in Thread, NEW D, Spares(t, D), \A n \in D : ~Linked(n),
         \A n \in Listed : Linked(n) /\ snode[n].key = SentinelKey => snode'[n].linked
  PROVE  Sentinel'
  <1>1. PICK n \in alloc : snode[n].key = SentinelKey /\ Linked(n) /\ snode[n].top = MaxLayer
    BY DEF IInv, Sentinel
  <1>2. Keeps(n) BY <1>1 DEF Spares, Listed
  <1>3. n \in alloc' /\ snode'[n].linked BY <1>1, <1>2, Typed DEF Keeps, Listed, IInv
  <1> QED BY <1>1, <1>2, <1>3 DEF Sentinel, Linked, Keeps

-----------------------------------------------------------------------------
(* Steps that write no more than reference counts. *)

Same(n) ==
    /\ snode'[n].key = snode[n].key /\ snode'[n].top = snode[n].top
    /\ snode'[n].next = snode[n].next /\ snode'[n].linked = snode[n].linked
    /\ snode'[n].modified = snode[n].modified /\ snode'[n].removed = snode[n].removed
    /\ snode'[n].writing = snode[n].writing

\* The references on the nodes "more" are taken, those on "less" are dropped.
Takes(more, less) ==
    /\ snode' \in [AllNode -> NodeType]
    /\ \A n \in AllNode : Same(n)
    /\ \A n \in Node : snode'[n].refs = snode[n].refs + One(n \in more) - One(n \in less)
    /\ \A n \in {head, tail} : snode'[n].refs = snode[n].refs

LEMMA GrabbedTakes ==
  ASSUME Types, NEW S, snode' = Grabbed(S)
  PROVE  Takes(S, {})
  <1>1. ASSUME NEW n \in AllNode
        PROVE  /\ snode'[n] \in NodeType /\ Same(n)
               /\ snode'[n].refs = snode[n].refs + One(n \in S \cap Node)
    <2>1. snode[n] \in NodeType BY Typed
    <2>2. snode'[n] = IF n \in S \cap Node THEN [snode[n] EXCEPT !.refs = @ + 1] ELSE snode[n]
      BY DEF Grabbed
    <2>3. CASE n \in S \cap Node
      <3>1. snode'[n] = [snode[n] EXCEPT !.refs = @ + 1] BY <2>2, <2>3
      <3> QED BY <2>1, <2>3, <3>1 DEF Same, One, NodeType
    <2>4. CASE n \notin S \cap Node BY <2>1, <2>2, <2>4 DEF Same, One, NodeType
    <2> QED BY <2>3, <2>4
  <1>2. snode' \in [AllNode -> NodeType] BY <1>1 DEF Grabbed
  <1>3. \A n \in Node : snode'[n].refs = snode[n].refs + One(n \in S) - One(n \in {})
    BY <1>1, Typed DEF One, AllNode, NodeType
  <1>4. \A n \in {head, tail} : snode'[n].refs = snode[n].refs
    BY <1>1, Typed, NodesAssumption DEF One, AllNode, NodeType
  <1> QED BY <1>1, <1>2, <1>3, <1>4 DEF Takes

LEMMA DroppedTakes ==
  ASSUME Types, NEW S, snode' = Dropped(S)
  PROVE  Takes({}, S)
  <1>1. ASSUME NEW n \in AllNode
        PROVE  /\ snode'[n] \in NodeType /\ Same(n)
               /\ snode'[n].refs = snode[n].refs - One(n \in S \cap Node)
    <2>1. snode[n] \in NodeType BY Typed
    <2>2. snode'[n] = IF n \in S \cap Node THEN [snode[n] EXCEPT !.refs = @ - 1] ELSE snode[n]
      BY DEF Dropped
    <2>3. CASE n \in S \cap Node
      <3>1. snode'[n] = [snode[n] EXCEPT !.refs = @ - 1] BY <2>2, <2>3
      <3> QED BY <2>1, <2>3, <3>1 DEF Same, One, NodeType
    <2>4. CASE n \notin S \cap Node BY <2>1, <2>2, <2>4 DEF Same, One, NodeType
    <2> QED BY <2>3, <2>4
  <1>2. snode' \in [AllNode -> NodeType] BY <1>1 DEF Dropped
  <1>3. \A n \in Node : snode'[n].refs = snode[n].refs + One(n \in {}) - One(n \in S)
    BY <1>1, Typed DEF One, AllNode, NodeType
  <1>4. \A n \in {head, tail} : snode'[n].refs = snode[n].refs
    BY <1>1, Typed, NodesAssumption DEF One, AllNode, NodeType
  <1> QED BY <1>1, <1>2, <1>3, <1>4 DEF Takes

LEMMA NothingTaken ==
  ASSUME Types, UNCHANGED snode
  PROVE  Takes({}, {})
  <1>1. snode' \in [AllNode -> NodeType] BY DEF Types
  <1>2. \A n \in AllNode : Same(n) BY DEF Same
  <1>3. \A n \in Node : snode'[n].refs = snode[n].refs + One(n \in {}) - One(n \in {})
    BY Typed DEF One, AllNode, NodeType
  <1> QED BY <1>1, <1>2, <1>3 DEF Takes

\* A step of t that takes and drops references and changes t's own variables.
Quiet(t, more, less) ==
    /\ Takes(more, less) /\ UNCHANGED <<alloc, slist>> /\ Alone(t)
    /\ F(t)' \in FrameType /\ Types'

\* What t is doing to its node stays the same.
SameWork(t) ==
    /\ Creating(t)' <=> Creating(t)
    /\ Marked(t)' <=> Marked(t)
    /\ Erased(t)' <=> Erased(t)
    /\ Creating(t) \/ Marked(t) \/ Erased(t) => F(t)'.node = F(t).node
    /\ Creating(t) /\ Where(t)' \notin {"link", "linked"} => Where(t) \notin {"link", "linked"}
    /\ \A l \in Layer : Half(t, l)' <=> Half(t, l)
    /\ pc[t] = "insertCount" <=> pc'[t] = "insertCount"
    /\ pc[t] \in {"bypass", "eraseCount"} <=> pc'[t] \in {"bypass", "eraseCount"}
    /\ pc[t] = "insertCount" => F(t)'.node = F(t).node
    /\ \A n : Flags(t, n)' <=> Flags(t, n)

\* It has its node still, or one that is nobody's.
OwnsRightly(t) ==
    Owns(t)' => \/ Owns(t) /\ F(t)'.node = F(t).node /\ F(t)'.key = F(t).key
                \/ /\ F(t)'.node \in alloc /\ F(t)'.key \in Key
                   /\ snode[F(t)'.node].key = F(t)'.key
                   /\ \A u \in Thread \ {t} : Owns(u) => F(u).node # F(t)'.node

LEMMA QuietStep ==
  ASSUME IInv, NEW t \in Thread, NEW more, NEW less, Quiet(t, more, less),
         SameWork(t), OwnsRightly(t),
         \A n \in Node : One(n \in more) - One(n \in less) = Mine(t, n)' - Mine(t, n),
         \A n \in Node : Holds(t, n)' => Holds(t, n) \/ (n \in alloc /\ Visible(n)),
         Fits(t)'
  PROVE  IInv'
  <1>0. Types /\ Types' /\ Alone(t) /\ alloc' = alloc /\ slist' = slist BY DEF IInv, Quiet
  <1>1. \A n \in AllNode : Same(n) BY DEF Quiet, Takes
  <1>2. Listed' = Listed BY <1>0 DEF Listed
  <1>3. \A n \in Listed : Same(n) /\ n \in AllNode BY <1>0, <1>1, Typed
  <1>4. Spares(t, {}) BY <1>0, <1>2, <1>3 DEF Spares, Keeps, Same
  <1>5. \A n : Flags(t, n)' <=> Flags(t, n) BY DEF SameWork
  <1>6. Owns(t)' => /\ F(t)'.node \in alloc /\ F(t)'.key \in Key
                    /\ snode'[F(t)'.node].key = F(t)'.key
                    /\ \A u \in Thread \ {t} : Owns(u) => F(u).node # F(t)'.node
    <2>1. Owns(t)' => /\ F(t)'.node \in alloc /\ F(t)'.key \in Key
                      /\ snode[F(t)'.node].key = F(t)'.key
                      /\ \A u \in Thread \ {t} : Owns(u) => F(u).node # F(t)'.node
      BY Owned DEF OwnsRightly, IInv, Owners
    <2> QED BY <2>1, <1>3 DEF Same, Listed
  <1>7. Owners' BY <1>0, <1>4, <1>6, OwnersStep
  <1>8. NodesFollow'
    <2>1. Owns(t)' => Says(t, F(t).node)' /\ snode'[F(t)'.node].key \in Key
      <3>1. SUFFICES ASSUME Owns(t)' PROVE Says(t, F(t).node)'
        BY <1>6
      <3>2. F(t)'.node \in Listed BY <1>6, <3>1 DEF Listed
      <3>3. Same(F(t)'.node) BY <1>3, <3>2
      <3>4. CASE Owns(t) /\ F(t)'.node = F(t).node
        <4>1. Says(t, F(t).node) BY <3>4, OwnSays
        <4> QED BY <3>3, <3>4, <4>1 DEF Says, Same, SameWork, Linked
      <3>5. CASE ~(Owns(t) /\ F(t)'.node = F(t).node)
        <4>1. ~Creating(t) /\ ~Marked(t) /\ ~Erased(t)
          BY <3>5 DEF SameWork, Owns, Erases
        <4>2. \A u \in Thread : Owns(u) => F(u).node # F(t)'.node
          BY <1>6, <3>1, <3>5 DEF OwnsRightly
        <4>3. ~snode[F(t)'.node].writing /\ Linked(F(t)'.node) /\ ~snode[F(t)'.node].removed
          BY <1>6, <3>1, <4>2, NobodySays
        <4> QED BY <3>3, <4>1, <4>3 DEF Says, Same, SameWork, Linked
      <3> QED BY <3>4, <3>5
    <2>2. \A n \in alloc' : ~(Owns(t)' /\ F(t)'.node = n) =>
            /\ n \in alloc /\ snode'[n].writing = snode[n].writing
            /\ snode'[n].linked = snode[n].linked /\ snode'[n].removed = snode[n].removed
            /\ F(t).node = n => ~Creating(t) /\ ~Marked(t) /\ ~Erased(t)
      BY <1>0, <1>3 DEF Same, Listed, SameWork, Owns, Erases
    <2> QED BY <1>4, <1>6, <2>1, <2>2, NodesStep
  <1>9. Ends' BY <1>1, <1>0 DEF IInv, Ends, Quiet, Takes, Same, Linked, AllNode
  <1>10. RefsFollow'
    <2>1. \A n \in Node : snode[n].refs \in Int /\ snode'[n].refs = snode[n].refs + One(n \in more) - One(n \in less)
      BY <1>0, Typed DEF Quiet, Takes, AllNode, NodeType
    <2>2. \A n \in Node : One(n \in more) \in Int /\ One(n \in less) \in Int
              /\ Mine(t, n)' \in Int /\ Mine(t, n) \in Int
      BY DEF One, Mine
    <2>3. \A n \in Node : snode'[n].refs = snode[n].refs + Mine(t, n)' - Mine(t, n)
      BY <2>1, <2>2
    <2> QED BY <1>0, <2>3, RefsStep
  <1>11. HeldStay'
    <2>1. \A n \in Node : Holds(t, n)' => n \in alloc' /\ Visible(n) BY <1>0, HeldListed
    <2>2. Creating(t)' /\ Where(t)' \notin {"link", "linked"} =>
            \/ F(t)'.node \notin alloc
            \/ Creating(t) /\ Where(t) \notin {"link", "linked"} /\ F(t)'.node = F(t).node
      BY DEF SameWork
    <2> QED BY <1>4, <2>1, <2>2, HeldStep
  <1>12. FlagsFollow'
    <2>1. \A n \in Listed' : /\ n \in Listed /\ snode'[n].modified = snode[n].modified
                             /\ Flags(t, n)' <=> Flags(t, n)
      BY <1>2, <1>3, <1>5 DEF Same
    <2>2. \A n \in AllNode : Flags(t, n)' => \A u \in Thread \ {t} : ~Flags(u, n)
      BY <1>5 DEF IInv, FlagsFollow
    <2> QED BY <1>4, <2>1, <2>2, FlagsStep
  <1>13. SameLinks(t)
    <2>1. \A n \in alloc' : snode'[n].linked = (n \in alloc /\ snode[n].linked)
      BY <1>0, <1>3, Typed DEF Same, Listed, NodeType
    <2>2. (\E l \in Layer : Half(t, l)) => F(t)'.node = F(t).node
      <3>1. (\E l \in Layer : Half(t, l)) => Creating(t) \/ Erased(t)
        BY DEF Half, Creating, Erased, Where, Calling
      <3> QED BY <3>1 DEF SameWork
    <2> QED BY <2>1, <2>2 DEF SameLinks, SameWork
  <1>14. Sorted'
    <2>1. \A l \in Layer : In(l)' = In(l) BY <1>4, <1>13, InStep
    <2>2. \A l \in Layer : \A n \in In(l) : Keeps(n) /\ snode'[n].next = snode[n].next
      BY <1>2, <1>3, InListed DEF Keeps, Same
    <2> QED BY <2>1, <2>2, SortedStep
  <1>15. CountersFollow'
    <2>1. SameCounts(t)
      <3>1. pc[t] \in {"bypass", "eraseCount"} => F(t)'.node = F(t).node
        <4>1. pc[t] \in {"bypass", "eraseCount"} => Erased(t) BY DEF Erased, Where, Calling
        <4> QED BY <4>1 DEF SameWork
      <3> QED BY <1>0, <3>1 DEF SameCounts, SameWork
    <2> QED BY <1>4, <1>13, <2>1, CountedStep
  <1>16. Sentinel'
    <2>1. \A n \in Listed : Linked(n) /\ snode[n].key = SentinelKey => snode'[n].linked
      BY <1>3 DEF Same, Linked
    <2> QED BY <1>4, <2>1, SentinelStep
  <1>17. \A u \in Thread : Fits(u)' BY <1>4, OtherFits
  <1> QED BY <1>0, <1>7, <1>8, <1>9, <1>10, <1>11, <1>12, <1>14, <1>15, <1>16, <1>17 DEF IInv

LEMMA QuietGo ==
  ASSUME IInv, NEW t \in Thread, NEW label \in LabelNames \ {"undefined"}, NEW f \in FrameType,
         Go(t, label, f), NEW more, NEW less, Takes(more, less), UNCHANGED <<alloc, slist>>,
         jobs' \in [Thread -> Seq(AnyJob)]
  PROVE  Quiet(t, more, less) /\ F(t)' = f /\ pc'[t] = label
  <1>1. Types BY DEF IInv
  <1>2. Alone(t) /\ F(t)' = f /\ pc'[t] = label BY <1>1, GoFrame
  <1>3. frame' \in [Thread -> FrameType] /\ pc' \in [Thread -> LabelNames \ {"undefined"}]
    BY <1>1, GoTypes
  <1>4. Types' BY <1>1, <1>3 DEF Types, Takes
  <1> QED BY <1>2, <1>4 DEF Quiet

\* What such a step does not change about the nodes.
LEMMA QuietNodes ==
  ASSUME IInv, NEW t \in Thread, NEW more, NEW less, Quiet(t, more, less)
  PROVE  /\ Listed' = Listed /\ alloc' = alloc
         /\ \A n \in Listed : /\ n \in AllNode /\ Keeps(n) /\ (Linked(n)' <=> Linked(n))
                              /\ snode'[n].top = snode[n].top /\ snode'[n].next = snode[n].next
                              /\ snode'[n].key = snode[n].key
         /\ \A a, b \in Listed : Less(a, b)' <=> Less(a, b)
  <1>0. Types BY DEF IInv
  <1>1. alloc' = alloc /\ Listed' = Listed BY DEF Quiet, Listed
  <1>2. \A n \in Listed : n \in AllNode /\ Same(n) BY <1>0, Typed DEF Quiet, Takes
  <1>3. \A n \in Listed : Keeps(n) BY <1>1, <1>2 DEF Keeps, Same
  <1>4. \A a, b \in Listed : Less(a, b)' <=> Less(a, b) BY <1>3, LessKept
  <1> QED BY <1>1, <1>2, <1>3, <1>4 DEF Same, Linked

-----------------------------------------------------------------------------
(* Inside _sl_next. *)

SameCall(t) ==
    LET f == F(t)'
        g == F(t)
    IN  /\ f.key = g.key /\ f.node = g.node /\ f.cur = g.cur /\ f.layer = g.layer
        /\ f.find = g.find /\ f.mode = g.mode /\ f.cursor = g.cursor /\ f.prevs = g.prevs
        /\ f.nexts = g.nexts /\ f.clearing = g.clearing /\ f.resume = g.resume
        /\ f.ret = g.ret /\ f.then = g.then

LEMMA CallStep ==
  ASSUME IInv, NEW t \in Thread, NEW more, NEW less, Quiet(t, more, less),
         pc[t] \in Calling, pc'[t] \in {"grab", "check", "skip", F(t).ret}, SameCall(t),
         F(t)'.passed # {} => pc'[t] \in {"grab", "check", "skip"},
         \A n \in Node : One(n \in more) - One(n \in less) =
                            One(HoldsNext(t, n))' + One(HoldsPassed(t, n))'
                                - One(HoldsNext(t, n)) - One(HoldsPassed(t, n)),
         \A n \in Node : HoldsNext(t, n)' \/ HoldsPassed(t, n)' =>
                            Holds(t, n) \/ (n \in alloc /\ Visible(n)),
         NextFits(t)', FoundFits(t)', AgainFits(t)'
  PROVE  IInv'
  <1>1. Where(t)' = Where(t) /\ Where(t) = F(t).ret /\ F(t).ret \in Returns
    BY WhereIs DEF SameCall, Where, Calling
  <1>2. Inserts(t)' <=> Inserts(t) BY DEF SameCall, Inserts
  <1>3. pc'[t] \notin {"clear", "link", "linked", "bypass", "insertCount", "eraseCount", "eraseMark",
                       "flag", "neighbours"}
    BY <1>1 DEF Calling, Returns
  <1>3a. pc[t] \notin {"clear", "link", "linked", "bypass", "insertCount", "eraseCount", "eraseMark",
                       "flag", "neighbours"}
    BY <1>1 DEF Calling, Returns
  <1>4. /\ (Creating(t)' <=> Creating(t)) /\ (Created(t)' <=> Created(t))
        /\ (Unmarked(t)' <=> Unmarked(t)) /\ (Marked(t)' <=> Marked(t))
        /\ (Erased(t)' <=> Erased(t)) /\ (Visiting(t)' <=> Visiting(t))
    BY <1>1, <1>2 DEF Creating, Created, Unmarked, Marked, Erased, Visiting, SameCall
  <1>5. (Owns(t)' <=> Owns(t)) /\ (Erases(t)' <=> Erases(t)) BY <1>4 DEF Owns, Erases
  <1>6. Owns(t) => F(t).node \in Listed /\ Top(t)' = Top(t)
    BY QuietNodes, Owned DEF SameCall, Top
  <1>7. FlagsOwn(t)' <=> FlagsOwn(t) BY <1>1, <1>4 DEF FlagsOwn
  <1>8. Where(t) \in {"insertMove", "eraseMove"} \cup Placing => Owns(t)
    BY <1>1 DEF Owns, Creating, Erases, Marked, Placing
  <1>9. FlagLayers(t)' = FlagLayers(t) /\ Settled(t)' = Settled(t)
    <2>1. CASE Owns(t) BY <1>1, <1>6, <2>1 DEF FlagLayers, SameCall, Settled
    <2>2. CASE ~Owns(t)
      <3>1. Where(t) \in {"findMove", "successor", "first"}
        BY <1>1, <1>8, <2>2 DEF Returns, Placing
      <3> QED BY <1>1, <3>1 DEF FlagLayers, Settled, Placing, Updating
    <2> QED BY <2>1, <2>2
  <1>10. \A n : Flags(t, n)' <=> Flags(t, n) BY <1>7, <1>9 DEF Flags, SameCall
  <1>11. \A l : ~Half(t, l)' /\ ~Half(t, l) BY <1>3, <1>3a DEF Half
  <1>12. SameWork(t)
    BY <1>1, <1>3, <1>3a, <1>4, <1>10, <1>11 DEF SameWork, SameCall, Calling, Returns
  <1>13. OwnsRightly(t) BY <1>5 DEF OwnsRightly, SameCall
  <1>14. \A n : /\ HoldsCur(t, n)' <=> HoldsCur(t, n)
                /\ HoldsNode(t, n)' <=> HoldsNode(t, n)
                /\ HoldsCursor(t, n)' <=> HoldsCursor(t, n)
    BY <1>1, <1>4, <1>5 DEF HoldsCur, HoldsNode, HoldsCursor, SameCall
  <1>15. \A n \in Node : One(n \in more) - One(n \in less) = Mine(t, n)' - Mine(t, n)
    <2>1. \A n : One(HoldsCur(t, n))' = One(HoldsCur(t, n))
                 /\ One(HoldsNode(t, n))' = One(HoldsNode(t, n))
                 /\ One(HoldsCursor(t, n))' = One(HoldsCursor(t, n))
      BY <1>14 DEF One
    <2>2. \A p : One(p) \in Int BY DEF One
    <2>3. \A n : /\ One(HoldsNext(t, n))' \in Int /\ One(HoldsPassed(t, n))' \in Int
                 /\ One(HoldsNext(t, n)) \in Int /\ One(HoldsPassed(t, n)) \in Int
                 /\ One(HoldsCur(t, n)) \in Int /\ One(HoldsNode(t, n)) \in Int
                 /\ One(HoldsCursor(t, n)) \in Int
      BY DEF One
    <2> QED BY <2>1, <2>3 DEF Mine
  <1>16. \A n \in Node : Holds(t, n)' => Holds(t, n) \/ (n \in alloc /\ Visible(n))
    BY <1>14 DEF Holds
  <1>17. Fits(t)'
    <2>1. LocalsFit(t) /\ CurFits(t) /\ PlaceFits(t) /\ SettledFits(t) /\ FlagsFit(t)
      BY DEF IInv, Fits
    <2>2. Where(t) \in Walking BY <1>1 DEF Returns, Walking, Stepping, Placing
    <2>3. F(t).cur \in Listed /\ F(t).layer \in Layer BY <2>2, CurListed
    <2>4. LocalsFit(t)'
      <3>1. Where(t) \in Placing \cup {"link", "bypass"} => F(t).layer <= Top(t)'
        BY <1>1, <1>6, <1>8, <2>1 DEF LocalsFit, Returns
      <3>2. pc'[t] \in Returns => F(t)'.ret = pc'[t]
        BY <1>1 DEF SameCall, Calling, Returns
      <3>3. /\ pc'[t] # "next" /\ (pc'[t] \in Calling => F(t)'.ret \in Returns)
            /\ pc'[t] # "clear" /\ Where(t) # "clear"
            /\ Where(t) \notin {"link", "linked", "insertCount", "unlink", "bypass", "eraseCount"}
        BY <1>1, <1>3 DEF SameCall, Returns, Calling
      <3> QED
        BY ONLY <1>1, <1>2, <1>4, <2>1, <3>1, <3>2, <3>3, SameCall(t),
                F(t)'.passed # {} => pc'[t] \in {"grab", "check", "skip"}
        DEF LocalsFit, SameCall
    <2>5. CurFits(t)'
      <3>1. Where(t) \in Stepping \ {"findMove"} =>
                (Less(F(t).cur, F(t).node)' <=> Less(F(t).cur, F(t).node))
        <4>1. Where(t) \in Stepping \ {"findMove"} => F(t).node \in Listed
          BY <1>6, <1>8 DEF Stepping
        <4> QED BY <2>3, <4>1, QuietNodes DEF SameCall
      <3> QED BY <1>1, <2>1, <2>3, <3>1, QuietNodes DEF CurFits, SameCall
    <2>6. PlaceFits(t)'
      <3>1. SUFFICES ASSUME Where(t) \in Placing PROVE PlaceFits(t)'
        BY <1>1 DEF PlaceFits
      <3>2. F(t).node \in Listed BY <1>6, <1>8, <3>1
      <3> QED BY <1>1, <1>2, <2>1, <3>1, <3>2, QuietNodes DEF PlaceFits, SameCall, NextIn, Listed
    <2>7. SettledFits(t)'
      <3>1. ASSUME NEW l \in Settled(t)
            PROVE  /\ F(t).nexts[l] \in Node \cup {tail} /\ Less(F(t).node, F(t).nexts[l])'
                   /\ NextIn(F(t).node, l)' = F(t).nexts[l]
                   /\ NextIn(F(t).prevs[l], l)' = NextIn(F(t).prevs[l], l)
        <4>1. F(t).node \in Listed /\ F(t).nexts[l] \in Listed /\ F(t).prevs[l] \in Listed
          BY SettledIn, SettledFlags, Owned, InListed
        <4> QED BY <2>1, <4>1, QuietNodes DEF SettledFits, NextIn, SameCall
      <3> QED BY <1>2, <1>3, <1>3a, <1>9, <1>11, <2>1, <3>1 DEF SettledFits, SameCall
    <2>8. FlagsFit(t)'
      <3>1. ASSUME NEW l \in FlagLayers(t)
            PROVE  /\ F(t).prevs[l] \in Listed /\ F(t).node \in Listed
                   /\ (Less(F(t).prevs[l], F(t).node)' <=> Less(F(t).prevs[l], F(t).node))
        BY <1>6, FlagLayer, QuietNodes, <2>1 DEF FlagsFit, SameCall, Listed
      <3>2. ASSUME Where(t) \in {"insertMove", "eraseMove"}, F(t).layer < Top(t)
            PROVE  F(t).layer + 1 \in FlagLayers(t)
        BY <2>3, <3>2, <1>8, Owned, LayerAssumption DEF FlagLayers, Layer
      <3>3. \A l \in FlagLayers(t) :
            /\ F(t)'.prevs[l] \in alloc' \cup {head} /\ snode'[F(t)'.prevs[l]].top >= l
            /\ Less(F(t).prevs[l], F(t).node)'
            /\ Linked(F(t).prevs[l])'
        BY <1>3a, <2>1, <3>1, QuietNodes DEF FlagsFit, SameCall
      <3>4. \A l, m \in FlagLayers(t) :
                l < m => \/ Less(F(t).prevs[m], F(t).prevs[l])'
                         \/ F(t)'.prevs[m] = F(t)'.prevs[l]
        BY <2>1, <3>1, QuietNodes DEF FlagsFit, SameCall
      <3>5. Where(t) \in {"insertMove", "eraseMove", "flag"} /\ F(t).layer < Top(t) =>
                \/ F(t).prevs[F(t).layer + 1] = F(t).cur
                \/ Less(F(t).prevs[F(t).layer + 1], F(t).cur)'
        BY <1>1, <2>1, <2>3, <3>1, <3>2, QuietNodes DEF FlagsFit, SameCall, Returns
      <3>6. Where(t) \in {"insertMove", "eraseMove", "flag"} => Top(t)' = Top(t)
        BY <1>6, <1>8 DEF Placing
      <3> QED
        BY ONLY <1>1, <1>3, <1>9, <3>3, <3>4, <3>5, <3>6, SameCall(t) DEF FlagsFit, SameCall
    <2> QED BY <2>4, <2>5, <2>6, <2>7, <2>8 DEF Fits
  <1> QED BY <1>12, <1>13, <1>15, <1>16, <1>17, QuietStep

\* A node that is being erased is in its layers until it is unlinked.
LEMMA MarkedIn ==
  ASSUME IInv, NEW t \in Thread, Marked(t)
  PROVE  /\ Owns(t) /\ F(t).node \in Listed /\ Linked(F(t).node) /\ ~Creating(t) /\ ~Erased(t)
         /\ Flags(t, F(t).node)
         /\ \A l \in Layer : l <= Top(t) => F(t).node \in In(l)
  <1>1. Owns(t) BY DEF Owns, Erases
  <1>2. F(t).node \in Listed /\ ~Creating(t) /\ ~Erased(t)
    BY <1>1, Owned DEF Creating, Erased, Marked, Placing, Updating
  <1>3. Linked(F(t).node) BY <1>1, <1>2, OwnSays DEF Says
  <1>4. \A l \in Layer : l <= Top(t) => snode[F(t).node].top >= l
    BY <1>1, Owned DEF Top, Layer
  <1> QED BY <1>1, <1>2, <1>3, <1>4, InListed DEF Flags, FlagsOwn

LEMMA NextLoadStep ==
  ASSUME IInv, NEW t \in Thread, NextLoad(t), UNCHANGED jobs
  PROVE  IInv'
  <1> DEFINE f == F(t)
             l == f.layer
  <1>1. /\ pc[t] = "next" /\ pc[t] \in Calling /\ Where(t) = f.ret /\ f.ret \in Returns
        /\ Where(t) \in Walking /\ f \in FrameType /\ Types
        /\ f.next = Null /\ ~f.found /\ f.passed = {}
    BY WhereIs, Typed DEF NextLoad, Calling, Returns, Walking, Stepping, Placing, IInv, Fits,
       LocalsFit, F
  <1>2. f.cur \in Listed /\ f.cur # tail /\ l \in Layer /\ snode[f.cur].top >= l
    BY <1>1, CurListed DEF IInv, Fits, CurFits
  <1>3. Takes({}, {}) /\ UNCHANGED <<alloc, slist>>
    BY <1>1, NothingTaken DEF NextLoad, memory
  <1>4. jobs' \in [Thread -> Seq(AnyJob)] BY DEF IInv, Types
  <1>5. CASE Linked(f.cur)
    <2> DEFINE n == NextIn(f.cur, l)
               g == [f EXCEPT !.next = n, !.at = f.cur]
    <2>1. f.cur \in In(l) /\ n \in In(l) /\ n \in Listed /\ Less(f.cur, n)
      BY <1>2, <1>5, InListed, InOrder
    <2>2. n \in Link /\ f.cur \in Link BY <1>1, <1>2, <2>1, Typed DEF Link
    <2>3. g \in FrameType BY <1>1, <2>2 DEF FrameType
    <2>4. Go(t, "grab", g) BY <1>5 DEF NextLoad, NextIn, Linked
    <2>5. Quiet(t, {}, {}) /\ F(t)' = g /\ pc'[t] = "grab"
      BY <1>3, <1>4, <2>3, <2>4, QuietGo DEF LabelNames
    <2>6. SameCall(t) /\ F(t)'.next = n /\ F(t)'.at = f.cur /\ F(t)'.passed = {} /\ ~F(t)'.found
      BY <1>1, <2>5 DEF SameCall, FrameType
    <2>7. \A m : ~HoldsNext(t, m)' /\ ~HoldsPassed(t, m)' /\ ~HoldsNext(t, m) /\ ~HoldsPassed(t, m)
      BY <1>1, <2>5, <2>6 DEF HoldsNext, HoldsPassed, Returns
    <2>8. NextFits(t)'
      BY <1>2, <1>5, <2>1, <2>5, <2>6, QuietNodes DEF NextFits, SameCall, Returns, NextIn
    <2>9. FoundFits(t)'
      <3>1. SUFFICES ASSUME f.ret = "eraseMove", F(t)'.layer <= Top(t)'
                     PROVE  F(t)'.next = F(t)'.node \/ Less(F(t).next, F(t).node)'
        BY <2>5, <2>6 DEF FoundFits, SameCall
      <3>2. Marked(t) BY <1>1, <3>1 DEF Marked
      <3>3. l <= Top(t) /\ f.node \in Listed
        BY <2>5, <2>6, <3>1, <3>2, MarkedIn, QuietNodes DEF Top, SameCall
      <3>4. f.node \in In(l) BY <1>2, <3>2, <3>3, MarkedIn
      <3>5. Less(f.cur, f.node)
        BY <1>1, <3>1 DEF IInv, Fits, CurFits, Stepping, Placing
      <3>6. n = f.node \/ Less(n, f.node) BY <1>2, <2>1, <3>4, <3>5, InOrder
      <3> QED BY <2>1, <2>5, <2>6, <3>3, <3>6, QuietNodes DEF SameCall
    <2>10. AgainFits(t)'
      BY <1>2, <2>5, <2>6, QuietNodes DEF AgainFits, NextIn, SameCall
    <2>11. \A m \in Node : One(m \in {}) - One(m \in {}) =
                            One(HoldsNext(t, m))' + One(HoldsPassed(t, m))'
                                - One(HoldsNext(t, m)) - One(HoldsPassed(t, m))
      BY <2>7 DEF One
    <2> QED BY <1>1, <2>5, <2>6, <2>7, <2>8, <2>9, <2>10, <2>11, CallStep
  <1>6. CASE ~Linked(f.cur)
    <2>1. Go(t, f.ret, f) BY <1>6 DEF NextLoad, Linked
    <2>2. f.ret \in LabelNames \ {"undefined"} BY <1>1 DEF Returns, LabelNames
    <2>3. Quiet(t, {}, {}) /\ F(t)' = f /\ pc'[t] = f.ret
      BY <1>1, <1>3, <1>4, <2>1, <2>2, QuietGo
    <2>4. SameCall(t) /\ F(t)'.next = Null /\ F(t)'.passed = {}
      BY <1>1, <2>3 DEF SameCall
    <2>5. pc'[t] \notin {"next", "grab", "check", "skip"} BY <1>1, <2>3 DEF Returns
    <2>6. \A m \in Node : ~HoldsNext(t, m)' /\ ~HoldsPassed(t, m)' /\ ~HoldsNext(t, m)
                          /\ ~HoldsPassed(t, m)
      BY <1>1, <2>3, <2>4, Typed DEF HoldsNext, HoldsPassed, Returns
    <2>7. NextFits(t)' BY <2>4, <2>5 DEF NextFits
    <2>8. FoundFits(t)'
      <3>1. f.ret = "eraseMove" => f.node # Null
        <4>1. f.ret = "eraseMove" => Owns(t) BY <1>1 DEF Owns, Erases, Marked
        <4> QED BY <4>1, Owned
      <3> QED BY <2>3, <2>4, <2>5, <3>1 DEF FoundFits
    <2>9. f.ret # "again"
      <3>1. SUFFICES ASSUME Where(t) = "again" PROVE FALSE BY <1>1
      <3>2. /\ Owns(t) /\ l <= Top(t) /\ f.prevs[l] = f.cur
        BY <3>1 DEF IInv, Fits, LocalsFit, CurFits, Owns, Creating, Erases, Marked, Placing,
           Walking, Stepping
      <3>3. l \in FlagLayers(t)
        BY <1>2, <3>1, <3>2, Owned, LayerAssumption DEF FlagLayers, Layer
      <3> QED BY <1>1, <1>6, <3>2, <3>3, FlaggedIn
    <2>10. AgainFits(t)'
      BY <2>3, <2>4, <2>5, <2>9 DEF AgainFits, Where, Calling
    <2>11. \A m \in Node : One(m \in {}) - One(m \in {}) =
                            One(HoldsNext(t, m))' + One(HoldsPassed(t, m))'
                                - One(HoldsNext(t, m)) - One(HoldsPassed(t, m))
      BY <2>6 DEF One
    <2> QED BY <1>1, <2>3, <2>4, <2>6, <2>7, <2>8, <2>10, <2>11, CallStep
  <1> QED BY <1>5, <1>6

LEMMA NextGrabStep ==
  ASSUME IInv, NEW t \in Thread, NextGrab(t), UNCHANGED jobs
  PROVE  IInv'
  <1> DEFINE f == F(t)
             g == [f EXCEPT !.at = Null]
  <1>1. /\ pc[t] = "grab" /\ pc[t] \in Calling /\ Where(t) = f.ret /\ f.ret \in Returns
        /\ f \in FrameType /\ Types
    BY WhereIs, Typed DEF NextGrab, Calling, Returns, IInv, F
  <1>2. /\ f.next \in In(f.layer) /\ f.next \in Listed /\ f.next # head
        /\ Less(f.cur, f.next) /\ f.layer \in Layer
    BY <1>1, GrabIn
  <1>3. f.next \in Node \cup {tail} /\ f.next # Null /\ snode[f.next].top >= f.layer
        /\ Visible(f.next)
    <2>1. f.next \in Node \cup {tail} BY <1>1, <1>2, Typed DEF Listed
    <2>2. snode[f.next].top >= f.layer /\ Visible(f.next) BY <1>2, InListed
    <2> QED BY <2>1, <2>2, NodesAssumption
  <1>4. Takes({f.next}, {}) /\ UNCHANGED <<alloc, slist>> /\ Go(t, "check", g)
    BY <1>1, <1>3, GrabbedTakes DEF NextGrab
  <1>5. jobs' \in [Thread -> Seq(AnyJob)] /\ g \in FrameType
    BY <1>1 DEF IInv, Types, FrameType, Link
  <1>6. Quiet(t, {f.next}, {}) /\ F(t)' = g /\ pc'[t] = "check"
    BY <1>4, <1>5, QuietGo DEF LabelNames
  <1>7. /\ SameCall(t) /\ F(t)'.next = f.next /\ F(t)'.passed = f.passed
        /\ F(t)'.found = f.found
    BY <1>1, <1>6 DEF SameCall, FrameType
  <1>8. \A m : /\ HoldsNext(t, m)' <=> m = f.next
               /\ HoldsPassed(t, m)' <=> HoldsPassed(t, m)
               /\ ~HoldsNext(t, m)
    BY <1>1, <1>6, <1>7 DEF HoldsNext, HoldsPassed, Returns
  <1>9. \A m \in Node : One(m \in {f.next}) - One(m \in {}) =
                            One(HoldsNext(t, m))' + One(HoldsPassed(t, m))'
                                - One(HoldsNext(t, m)) - One(HoldsPassed(t, m))
    BY <1>8 DEF One
  <1>10. \A m \in Node : HoldsNext(t, m)' \/ HoldsPassed(t, m)' =>
                            Holds(t, m) \/ (m \in alloc /\ Visible(m))
    BY <1>2, <1>3, <1>8, NodesAssumption DEF Holds, Listed
  <1>11. NextFits(t)'
    <2>1. Where(t) \in Walking BY <1>1 DEF Returns, Walking, Stepping, Placing
    <2>2. f.cur \in Listed /\ \A p \in f.passed : p \in Listed
      BY <2>1, CurListed, PassedListed
    <2>3. NextFits(t) BY DEF IInv, Fits
    <2> QED BY <1>1, <1>2, <1>3, <1>6, <1>7, <2>2, <2>3, QuietNodes DEF NextFits, SameCall, Returns
  <1>12. FoundFits(t)'
    <2>1. SUFFICES ASSUME f.ret = "eraseMove", F(t)'.layer <= Top(t)'
                   PROVE  \/ F(t)'.next = F(t)'.node
                          \/ IF F(t)'.found THEN Less(F(t).node, F(t).next)'
                             ELSE Less(F(t).next, F(t).node)'
      BY <1>6, <1>7 DEF FoundFits, SameCall
    <2>2. Marked(t) BY <1>1, <2>1 DEF Marked
    <2>3. f.layer <= Top(t) /\ f.node \in Listed
      BY <1>6, <1>7, <2>1, <2>2, MarkedIn, QuietNodes DEF Top, SameCall
    <2>4. FoundFits(t) BY DEF IInv, Fits
    <2> QED BY <1>1, <1>2, <1>6, <1>7, <2>1, <2>3, <2>4, QuietNodes DEF FoundFits, SameCall
  <1>13. AgainFits(t)'
    <2>1. AgainFits(t) BY DEF IInv, Fits
    <2>2. Where(t) = "again" => f.cur \in Listed
      BY CurListed DEF Walking, Stepping, Placing
    <2>3. Where(t) = "again" => f.node \in Listed
      BY Owned DEF Placing, Owns, Creating, Erases, Marked
    <2>4. Where(t)' = Where(t) BY <1>1, <1>6, <1>7 DEF Where, SameCall, Calling
    <2> QED BY <1>1, <1>6, <1>7, <2>1, <2>2, <2>3, <2>4, QuietNodes
            DEF AgainFits, NextIn, SameCall
  <1>14. F(t)'.passed # {} => pc'[t] \in {"grab", "check", "skip"} BY <1>6
  <1> QED BY <1>1, <1>6, <1>7, <1>9, <1>10, <1>11, <1>12, <1>13, <1>14, CallStep

\* In the last search of a layer the next node is linked: it follows the node with
\* t's flag, or t's own.
LEMMA AgainNext ==
  ASSUME IInv, NEW t \in Thread, Where(t) = "again", pc[t] \in {"check", "skip", "again"}
  PROVE  /\ Linked(F(t).next) /\ F(t).cur \in In(F(t).layer) /\ F(t).layer \in Layer
         /\ F(t).cur # tail /\ Owns(t) /\ F(t).layer \in FlagLayers(t)
         /\ pc[t] = "skip" => NextIn(F(t).cur, F(t).layer) = F(t).node /\ Marked(t)
  <1> DEFINE f == F(t)
             l == f.layer
  <1>1. /\ Owns(t) /\ l <= Top(t) /\ f.prevs[l] = f.cur /\ l \in Layer
        /\ f.find \in {Null, f.node} /\ (f.find = f.node => Marked(t))
    <2>1. Owns(t) /\ l <= Top(t) /\ f.prevs[l] = f.cur /\ f.find \in {Null, f.node}
      BY DEF IInv, Fits, LocalsFit, CurFits, Owns, Creating, Erases, Marked, Placing,
         Walking, Stepping
    <2>2. l \in Layer BY CurListed DEF Walking, Stepping, Placing
    <2>3. f.find = f.node => Marked(t)
      BY <2>1, Owned DEF Marked, Placing, Inserts
    <2> QED BY <2>1, <2>2, <2>3
  <1>2. l \in FlagLayers(t)
    BY <1>1, Owned, LayerAssumption DEF FlagLayers, Layer
  <1>3. pc[t] \notin {"neighbours", "clear"} /\ ~Half(t, l) BY DEF Half
  <1>4. f.cur \in In(l) /\ f.cur # tail /\ Flags(t, f.cur)
    BY <1>1, <1>2, <1>3, FlaggedIn
  <1>5. Linked(NextIn(f.cur, l)) BY <1>1, <1>3, <1>4, FlaggedNext
  <1>6. /\ \/ f.next = NextIn(f.cur, l)
           \/ f.find = f.node /\ NextIn(f.cur, l) = f.node /\ f.next = NextIn(f.node, l)
        /\ pc[t] = "skip" => f.next = f.node /\ f.find = f.node
    BY DEF IInv, Fits, AgainFits
  <1>7. Marked(t) =>
            /\ f.node \in In(l) /\ f.node # tail /\ Linked(NextIn(f.node, l))
            /\ Less(f.node, NextIn(f.node, l)) /\ f.node \in Listed
    <2>1. SUFFICES ASSUME Marked(t) PROVE /\ f.node \in In(l) /\ f.node # tail
            /\ Linked(NextIn(f.node, l)) /\ Less(f.node, NextIn(f.node, l)) /\ f.node \in Listed
      OBVIOUS
    <2>2. f.node \in In(l) /\ f.node # tail /\ Flags(t, f.node) /\ f.node \in Listed
      BY <1>1, <2>1, MarkedIn, Owned
    <2>3. Linked(NextIn(f.node, l)) BY <1>1, <1>3, <2>2, FlaggedNext
    <2>4. Less(f.node, NextIn(f.node, l)) BY <1>1, <2>2, InOrder
    <2> QED BY <2>2, <2>3, <2>4
  <1>8. Linked(f.next) BY <1>1, <1>5, <1>6, <1>7
  <1>9. pc[t] = "skip" => NextIn(f.cur, l) = f.node /\ Marked(t)
    BY <1>1, <1>6, <1>7, LessOrder
  <1> QED BY <1>1, <1>2, <1>4, <1>8, <1>9

LEMMA NextCheckStep ==
  ASSUME IInv, NEW t \in Thread, NextCheck(t), UNCHANGED jobs
  PROVE  IInv'
  <1> DEFINE f == F(t)
             n == f.next
  <1>1. /\ pc[t] = "check" /\ pc[t] \in Calling /\ Where(t) = f.ret /\ f.ret \in Returns
        /\ f \in FrameType /\ Types
    BY WhereIs, Typed DEF NextCheck, Calling, Returns, IInv, F
  <1>2. Where(t) \in Walking BY <1>1 DEF Returns, Walking, Stepping, Placing
  <1>3. /\ n \in Listed /\ n # head /\ n # Null /\ f.cur \in Listed
        /\ \A p \in f.passed : p \in Listed
    BY <1>1, <1>2, NextListed, CurListed, PassedListed, Typed, NodesAssumption DEF Listed
  <1>4. NextFits(t) /\ FoundFits(t) /\ AgainFits(t) /\ LocalsFit(t) BY DEF IInv, Fits
  <1>5. jobs' \in [Thread -> Seq(AnyJob)] BY DEF IInv, Types
  <1>6. Marked(t) => f.node \in Listed BY MarkedIn
  <1>7. CASE ~snode[n].linked \/ n = f.find
    <2> DEFINE g == [f EXCEPT !.found = @ \/ n = f.find]
    <2>1. Takes({}, {}) /\ UNCHANGED <<alloc, slist>> /\ Go(t, "skip", g)
      BY <1>1, <1>7, NothingTaken DEF NextCheck
    <2>2. g \in FrameType BY <1>1 DEF FrameType
    <2>3. Quiet(t, {}, {}) /\ F(t)' = g /\ pc'[t] = "skip"
      BY <1>5, <2>1, <2>2, QuietGo DEF LabelNames
    <2>4. /\ SameCall(t) /\ F(t)'.next = n /\ F(t)'.passed = f.passed
          /\ F(t)'.found = (f.found \/ n = f.find)
      BY <1>1, <2>3 DEF SameCall, FrameType
    <2>5. \A m : /\ HoldsNext(t, m)' <=> HoldsNext(t, m)
                 /\ HoldsPassed(t, m)' <=> HoldsPassed(t, m)
      BY <1>1, <2>3, <2>4 DEF HoldsNext, HoldsPassed, Returns
    <2>6. \A m \in Node : One(m \in {}) - One(m \in {}) =
                            One(HoldsNext(t, m))' + One(HoldsPassed(t, m))'
                                - One(HoldsNext(t, m)) - One(HoldsPassed(t, m))
      BY <2>5 DEF One
    <2>7. \A m \in Node : HoldsNext(t, m)' \/ HoldsPassed(t, m)' =>
                            Holds(t, m) \/ (m \in alloc /\ Visible(m))
      BY <2>5 DEF Holds
    <2>8. n # tail
      <3>1. f.find \in Node \cup {Null} BY <1>1 DEF FrameType
      <3> QED BY <1>7, <3>1, NodesAssumption DEF IInv, Ends, Linked
    <2>9. NextFits(t)'
      BY <1>1, <1>3, <1>4, <2>3, <2>4, <2>8, QuietNodes DEF NextFits, SameCall, Returns
    <2>10. FoundFits(t)'
      <3>1. SUFFICES ASSUME f.ret = "eraseMove", F(t)'.layer <= Top(t)'
                     PROVE  /\ \/ F(t)'.next = F(t)'.node
                               \/ IF F(t)'.found THEN Less(F(t).node, F(t).next)'
                                  ELSE Less(F(t).next, F(t).node)'
                            /\ F(t)'.next = F(t)'.node => F(t)'.found
        BY <2>3, <2>4 DEF FoundFits, SameCall
      <3>2. Marked(t) /\ f.find = f.node BY <1>1, <1>4, <3>1 DEF Marked, LocalsFit
      <3>3. f.layer <= Top(t)
        BY <1>6, <2>3, <2>4, <3>1, <3>2, QuietNodes DEF Top, SameCall
      <3> QED BY <1>1, <1>3, <1>4, <1>6, <2>3, <2>4, <3>1, <3>2, <3>3, QuietNodes
              DEF FoundFits, SameCall
    <2>11. AgainFits(t)'
      <3>1. SUFFICES ASSUME Where(t) = "again" PROVE AgainFits(t)'
        BY <1>1, <2>3, <2>4 DEF AgainFits, Where, SameCall, Calling
      <3>2. Linked(n) /\ Owns(t) /\ f.node \in Listed BY <1>1, <3>1, AgainNext, Owned
      <3>3. f.find \in {Null, f.node} BY <1>4, <3>1 DEF LocalsFit, Placing
      <3>4. n = f.find /\ n = f.node BY <1>3, <1>7, <3>2, <3>3 DEF Linked
      <3> QED BY <1>1, <1>3, <1>4, <2>3, <2>4, <3>1, <3>2, <3>4, QuietNodes
              DEF AgainFits, NextIn, SameCall
    <2>12. F(t)'.passed # {} => pc'[t] \in {"grab", "check", "skip"} BY <2>3
    <2> QED BY <1>1, <2>3, <2>4, <2>6, <2>7, <2>9, <2>10, <2>11, <2>12, CallStep
  <1>8. CASE ~(~snode[n].linked \/ n = f.find)
    <2>0. PICK D : D = f.passed OBVIOUS
    <2> DEFINE g == [f EXCEPT !.passed = {}]
    <2>1. Takes({}, D) /\ UNCHANGED <<alloc, slist>> /\ Go(t, f.ret, g)
      BY <1>1, <1>8, <2>0, DroppedTakes DEF NextCheck
    <2>2. g \in FrameType /\ f.ret \in LabelNames \ {"undefined"}
      BY <1>1 DEF FrameType, Returns, LabelNames
    <2>3. Quiet(t, {}, D) /\ F(t)' = g /\ pc'[t] = f.ret
      BY <1>5, <2>1, <2>2, QuietGo
    <2>4. SameCall(t) /\ F(t)'.next = n /\ F(t)'.passed = {} /\ F(t)'.found = f.found
      BY <1>1, <2>3 DEF SameCall, FrameType
    <2>5. \A m : /\ HoldsNext(t, m)' <=> HoldsNext(t, m)
                 /\ ~HoldsPassed(t, m)' /\ (HoldsPassed(t, m) <=> m \in f.passed)
      BY <1>1, <2>3, <2>4 DEF HoldsNext, HoldsPassed, Returns
    <2>6. \A m \in Node : One(m \in {}) - One(m \in D) =
                            One(HoldsNext(t, m))' + One(HoldsPassed(t, m))'
                                - One(HoldsNext(t, m)) - One(HoldsPassed(t, m))
      BY <2>0, <2>5 DEF One
    <2>7. \A m \in Node : HoldsNext(t, m)' \/ HoldsPassed(t, m)' =>
                            Holds(t, m) \/ (m \in alloc /\ Visible(m))
      BY <2>5 DEF Holds
    <2>8. pc'[t] \notin Calling BY <1>1, <2>3 DEF Returns, Calling
    <2>9. NextFits(t)'
      BY <1>1, <1>3, <1>4, <2>3, <2>4, <2>8, QuietNodes DEF NextFits, SameCall, Returns, Calling
    <2>10. FoundFits(t)'
      <3>1. SUFFICES ASSUME f.ret = "eraseMove", F(t)'.layer <= Top(t)'
                     PROVE  /\ \/ F(t)'.next = F(t)'.node
                               \/ IF F(t)'.found THEN Less(F(t).node, F(t).next)'
                                  ELSE Less(F(t).next, F(t).node)'
                            /\ F(t)'.next # F(t)'.node
        BY <2>3, <2>4 DEF FoundFits, SameCall
      <3>2. Marked(t) /\ f.find = f.node BY <1>1, <1>4, <3>1 DEF Marked, LocalsFit
      <3>3. f.layer <= Top(t)
        BY <1>6, <2>3, <2>4, <3>1, <3>2, QuietNodes DEF Top, SameCall
      <3> QED BY <1>1, <1>3, <1>4, <1>6, <1>8, <2>3, <2>4, <3>1, <3>2, <3>3, QuietNodes
              DEF FoundFits, SameCall
    <2>11. AgainFits(t)'
      <3>1. SUFFICES ASSUME Where(t) = "again" PROVE AgainFits(t)'
        BY <1>1, <2>3, <2>4, <2>8 DEF AgainFits, Where, SameCall, Calling
      <3>2. Owns(t) /\ f.node \in Listed BY <1>1, <3>1, AgainNext, Owned
      <3> QED BY <1>1, <1>3, <1>4, <1>8, <2>3, <2>4, <2>8, <3>1, <3>2, QuietNodes
              DEF AgainFits, NextIn, SameCall, Calling
    <2>12. F(t)'.passed # {} => pc'[t] \in {"grab", "check", "skip"} BY <2>4
    <2>13. pc'[t] \in {"grab", "check", "skip", f.ret} BY <2>3
    <2>14. Quiet(t, {}, D) /\ SameCall(t) BY <2>3, <2>4
    <2>15. pc[t] \in Calling BY <1>1
    <2>16. IInv /\ t \in Thread OBVIOUS
    <2> QED BY ONLY <2>6, <2>7, <2>9, <2>10, <2>11, <2>12, <2>13, <2>14, <2>15, <2>16, CallStep
  <1> QED BY <1>7, <1>8

LEMMA NextSkipStep ==
  ASSUME IInv, NEW t \in Thread, NextSkip(t), UNCHANGED jobs
  PROVE  IInv'
  <1> DEFINE f == F(t)
             n == f.next
             l == f.layer
  <1>1. /\ pc[t] = "skip" /\ pc[t] \in Calling /\ Where(t) = f.ret /\ f.ret \in Returns
        /\ f \in FrameType /\ Types
    BY WhereIs, Typed DEF NextSkip, Calling, Returns, IInv, F
  <1>2. Where(t) \in Walking BY <1>1 DEF Returns, Walking, Stepping, Placing
  <1>3. NextFits(t) /\ FoundFits(t) /\ AgainFits(t) /\ LocalsFit(t) BY DEF IInv, Fits
  <1>4. /\ n \in Listed /\ n # head /\ n # Null /\ n # tail /\ n \in Node /\ f.cur \in Listed
        /\ \A p \in f.passed : p \in Listed /\ Less(p, n)
        /\ snode[n].top >= l /\ l \in Layer /\ Less(f.cur, n)
    <2>1. n \in Listed /\ n # head /\ f.cur \in Listed /\ l \in Layer
            /\ \A p \in f.passed : p \in Listed
      BY <1>1, <1>2, NextListed, CurListed, PassedListed
    <2>2. n # tail /\ n \in Node \cup {tail} /\ snode[n].top >= l /\ Less(f.cur, n)
            /\ \A p \in f.passed : Less(p, n)
      BY <1>1, <1>3 DEF NextFits
    <2> QED BY <2>1, <2>2, NodesAssumption
  <1>5. jobs' \in [Thread -> Seq(AnyJob)] BY DEF IInv, Types
  <1>6. Marked(t) => f.node \in Listed BY MarkedIn
  <1>7. n \notin f.passed BY <1>4, LessOrder
  <1>8. CASE snode[n].linked
    <2> DEFINE m == NextIn(n, l)
               g == [f EXCEPT !.next = m, !.at = n, !.passed = @ \cup {n}]
    <2>1. n \in In(l) /\ m \in In(l) /\ m \in Listed /\ Less(n, m)
      BY <1>4, <1>8, InListed, InOrder DEF Linked
    <2>2. Takes({}, {}) /\ UNCHANGED <<alloc, slist>> /\ Go(t, "grab", g)
      BY <1>1, <1>8, NothingTaken DEF NextSkip, NextIn
    <2>3. g \in FrameType
      <3>1. m \in Link /\ n \in Link BY <1>1, <1>4, <2>1, Typed DEF Link
      <3>2. f.passed \cup {n} \in SUBSET Node BY <1>1, <1>4 DEF FrameType
      <3> QED BY <1>1, <3>1, <3>2 DEF FrameType
    <2>4. Quiet(t, {}, {}) /\ F(t)' = g /\ pc'[t] = "grab"
      BY <1>5, <2>2, <2>3, QuietGo DEF LabelNames
    <2>5. /\ SameCall(t) /\ F(t)'.next = m /\ F(t)'.passed = f.passed \cup {n}
          /\ F(t)'.found = f.found /\ F(t)'.at = n
      BY <1>1, <2>4 DEF SameCall, FrameType
    <2>6. \A k : /\ ~HoldsNext(t, k)' /\ (HoldsNext(t, k) <=> k = n)
                 /\ (HoldsPassed(t, k)' <=> HoldsPassed(t, k) \/ k = n)
                 /\ (HoldsPassed(t, k) => k # n)
      BY <1>1, <1>7, <2>4, <2>5 DEF HoldsNext, HoldsPassed, Returns
    <2>7. \A k \in Node : One(k \in {}) - One(k \in {}) =
                            One(HoldsNext(t, k))' + One(HoldsPassed(t, k))'
                                - One(HoldsNext(t, k)) - One(HoldsPassed(t, k))
      BY <2>6 DEF One
    <2>8. \A k \in Node : HoldsNext(t, k)' \/ HoldsPassed(t, k)' =>
                            Holds(t, k) \/ (k \in alloc /\ Visible(k))
      BY <2>6 DEF Holds
    <2>9. NextFits(t)'
      <3>1. \A p \in f.passed \cup {n} : /\ p \in Listed /\ snode[p].top >= l
                                        /\ Less(f.cur, p) /\ Less(p, m)
        <4>1. \A p \in f.passed : snode[p].top >= l /\ Less(f.cur, p) /\ Less(p, n)
          BY <1>1, <1>3 DEF NextFits
        <4>2. \A p \in f.passed : Less(p, m) BY <1>4, <2>1, <4>1, LessOrder
        <4> QED BY <1>4, <2>1, <4>1, <4>2
      <3>2. \A p \in f.passed \cup {n} : /\ snode'[p].top >= F(t)'.layer
                                        /\ Less(F(t).cur, p)' /\ Less(p, F(t).next)'
        BY <1>4, <2>1, <2>4, <2>5, <3>1, QuietNodes DEF SameCall
      <3>3. Linked(F(t).at)' /\ NextIn(F(t).at, F(t).layer)' = F(t)'.next
        BY <1>4, <1>8, <2>4, <2>5, QuietNodes DEF SameCall, Linked, NextIn
      <3> QED BY <2>4, <2>5, <3>2, <3>3 DEF NextFits, SameCall, Returns
    <2>10. FoundFits(t)'
      <3>1. SUFFICES ASSUME f.ret = "eraseMove", F(t)'.layer <= Top(t)'
                     PROVE  \/ F(t)'.next = F(t)'.node
                            \/ IF F(t)'.found THEN Less(F(t).node, F(t).next)'
                               ELSE Less(F(t).next, F(t).node)'
        BY <2>4, <2>5 DEF FoundFits, SameCall
      <3>2. Marked(t) /\ f.find = f.node BY <1>1, <1>3, <3>1 DEF Marked, LocalsFit
      <3>3. l <= Top(t)
        BY <1>6, <2>4, <2>5, <3>1, <3>2, QuietNodes DEF Top, SameCall
      <3>4. f.node \in In(l) /\ f.node \in Listed BY <1>4, <3>2, <3>3, MarkedIn
      <3>5. \/ m = f.node
            \/ IF f.found THEN Less(f.node, m) ELSE Less(m, f.node)
        <4>1. \/ n = f.node /\ f.found
              \/ f.found /\ Less(f.node, n)
              \/ ~f.found /\ Less(n, f.node)
          BY <1>1, <1>3, <3>1, <3>3 DEF FoundFits
        <4>2. CASE n = f.node /\ f.found BY <2>1, <4>2
        <4>3. CASE f.found /\ Less(f.node, n) BY <1>4, <2>1, <3>4, <4>3, LessOrder
        <4>4. CASE ~f.found /\ Less(n, f.node) BY <1>4, <2>1, <3>4, <4>4, InOrder
        <4> QED BY <4>1, <4>2, <4>3, <4>4
      <3> QED BY <2>1, <2>4, <2>5, <3>4, <3>5, QuietNodes DEF SameCall
    <2>11. AgainFits(t)'
      <3>1. SUFFICES ASSUME Where(t) = "again" PROVE AgainFits(t)'
        BY <1>1, <2>4, <2>5 DEF AgainFits, Where, SameCall, Calling
      <3>2. NextIn(f.cur, l) = f.node /\ Owns(t) BY <1>1, <3>1, AgainNext
      <3>3. n = f.node /\ f.find = f.node BY <1>1, <1>3, <3>1 DEF AgainFits
      <3> QED BY <1>4, <2>4, <2>5, <3>2, <3>3, QuietNodes DEF AgainFits, NextIn, SameCall
    <2>12. F(t)'.passed # {} => pc'[t] \in {"grab", "check", "skip"} BY <2>4
    <2> QED BY <1>1, <2>4, <2>5, <2>7, <2>8, <2>9, <2>10, <2>11, <2>12, CallStep
  <1>9. CASE ~snode[n].linked
    <2> DEFINE g == [f EXCEPT !.next = Null, !.passed = {}]
    <2>0. PICK D : D = f.passed \cup {n} OBVIOUS
    <2>1. Takes({}, D) /\ UNCHANGED <<alloc, slist>> /\ Go(t, f.ret, g)
      BY <1>1, <1>9, <2>0, DroppedTakes DEF NextSkip
    <2>2. g \in FrameType /\ f.ret \in LabelNames \ {"undefined"}
      <3>1. g \in FrameType BY <1>1 DEF FrameType, Link
      <3>2. f.ret \in LabelNames \ {"undefined"} BY <1>1 DEF Returns, LabelNames
      <3> QED BY <3>1, <3>2
    <2>3. Quiet(t, {}, D) /\ F(t)' = g /\ pc'[t] = f.ret
      BY <1>5, <2>1, <2>2, QuietGo
    <2>4. SameCall(t) /\ F(t)'.next = Null /\ F(t)'.passed = {} /\ F(t)'.found = f.found
      BY <1>1, <2>3 DEF SameCall, FrameType
    <2>5. \A k : /\ (HoldsNext(t, k)' => k = Null) /\ (HoldsNext(t, k) <=> k = n)
                 /\ ~HoldsPassed(t, k)' /\ (HoldsPassed(t, k) <=> k \in f.passed)
      BY <1>1, <2>3, <2>4 DEF HoldsNext, HoldsPassed, Returns
    <2>6. \A k \in Node : One(k \in {}) - One(k \in D) =
                            One(HoldsNext(t, k))' + One(HoldsPassed(t, k))'
                                - One(HoldsNext(t, k)) - One(HoldsPassed(t, k))
      BY <1>7, <2>0, <2>5, NodesAssumption DEF One
    <2>7. \A k \in Node : HoldsNext(t, k)' \/ HoldsPassed(t, k)' =>
                            Holds(t, k) \/ (k \in alloc /\ Visible(k))
      BY <2>5, NodesAssumption
    <2>8. pc'[t] \notin Calling BY <1>1, <2>3 DEF Returns, Calling
    <2>9. NextFits(t)' BY <2>4, <2>8 DEF NextFits, Calling
    <2>10. FoundFits(t)'
      <3>1. f.ret = "eraseMove" => f.node # Null
        <4>1. f.ret = "eraseMove" => Marked(t) BY <1>1 DEF Marked
        <4> QED BY <4>1, MarkedIn, Owned
      <3> QED BY <2>4, <2>8, <3>1 DEF FoundFits, SameCall, Calling
    <2>11. f.ret # "again" BY <1>1, <1>9, AgainNext DEF Linked
    <2>12. AgainFits(t)'
      BY <2>3, <2>4, <2>8, <2>11 DEF AgainFits, Where, Calling
    <2>13. F(t)'.passed # {} => pc'[t] \in {"grab", "check", "skip"} BY <2>4
    <2>14. pc'[t] \in {"grab", "check", "skip", f.ret} BY <2>3
    <2>15. Quiet(t, {}, D) /\ SameCall(t) BY <2>3, <2>4
    <2>16. pc[t] \in Calling BY <1>1
    <2>17. IInv /\ t \in Thread OBVIOUS
    <2> QED
      BY ONLY <2>6, <2>7, <2>9, <2>10, <2>12, <2>13, <2>14, <2>15, <2>16, <2>17, CallStep
  <1> QED BY <1>8, <1>9

-----------------------------------------------------------------------------
(* To places where a thread has no way through a layer to keep.              *)

Rest == {"idle", "new", "insert", "duplicate", "inserted", "held", "insertFound", "find",
         "eraseFound", "eraseNode", "eraseFlagNode", "eraseMark", "erase", "eraseUnflag",
         "erased", "wait", "waitRefs", "previousFound", "begin", "advance", "size"}

RestFits(t) ==
    /\ pc[t] \in Rest /\ F(t).passed = {}
    /\ pc[t] = "find" => F(t).then # "idle"
    /\ pc[t] \in {"new", "insert", "duplicate", "insertFound"} => F(t).then = "insertFound"
    /\ pc[t] \in {"new", "eraseFound"} \/ F(t).then \in {"insertFound", "eraseFound"}
            => F(t).key \in Key
    /\ pc[t] = "begin" => Inserts(t)

LEMMA Resting ==
  ASSUME NEW t \in Thread, RestFits(t)'
  PROVE  Fits(t)' /\ FlagLayers(t)' = {} /\ Where(t)' = pc'[t]
  <1>1. Where(t)' = pc'[t] BY DEF RestFits, Rest, Where, Calling
  <1>2. FlagLayers(t)' = {} BY <1>1 DEF RestFits, Rest, FlagLayers, Updating
  <1>3. Settled(t)' = {} BY <1>1 DEF RestFits, Rest, Settled, Placing
  <1>4. Where(t)' \notin Walking \cup Placing /\ pc'[t] \notin Calling \cup Returns
    BY <1>1 DEF RestFits, Rest, Walking, Stepping, Placing, Calling, Returns
  <1>5. LocalsFit(t)'
    <2>1. Creating(t)' => pc'[t] \in {"insert", "duplicate"}
      BY <1>1 DEF RestFits, Rest, Creating, Placing
    <2> QED BY <1>1, <1>4, <2>1
        DEF LocalsFit, RestFits, Rest, Placing, Updating, Searching, Calling
  <1>6. CurFits(t)' BY <1>4 DEF CurFits
  <1>7. NextFits(t)' BY <1>4 DEF NextFits, Calling
  <1>8. FoundFits(t)' BY <1>4 DEF FoundFits, Calling, Returns
  <1>9. AgainFits(t)' BY <1>4 DEF AgainFits, Placing
  <1>10. PlaceFits(t)' BY <1>4 DEF PlaceFits
  <1>11. SettledFits(t)' BY <1>3 DEF SettledFits
  <1>12. FlagsFit(t)'
    BY <1>1, <1>2 DEF FlagsFit, RestFits, Rest
  <1> QED BY <1>1, <1>2, <1>5, <1>6, <1>7, <1>8, <1>9, <1>10, <1>11, <1>12 DEF Fits

LEMMA NoFlagLayers ==
  ASSUME IInv, NEW t \in Thread, pc[t] \in Rest \cup {"successor", "findMove", "first"}
  PROVE  FlagLayers(t) = {} /\ Where(t) = pc[t] /\ F(t).passed = {}
  <1>1. Where(t) = pc[t] BY DEF Rest, Where, Calling
  <1>2. FlagLayers(t) = {} BY <1>1 DEF Rest, FlagLayers, Updating
  <1>3. F(t).passed = {} BY DEF IInv, Fits, LocalsFit, Rest
  <1> QED BY <1>1, <1>2, <1>3

LEMMA RestStep ==
  ASSUME IInv, NEW t \in Thread, NEW more, NEW less, Quiet(t, more, less),
         pc[t] \in Rest \cup {"successor", "findMove", "first"}, RestFits(t)',
         Creating(t)' <=> Creating(t), Marked(t)' <=> Marked(t), Erased(t)' <=> Erased(t),
         FlagsOwn(t)' <=> FlagsOwn(t),
         Creating(t) \/ Marked(t) \/ Erased(t) \/ FlagsOwn(t) => F(t)'.node = F(t).node,
         OwnsRightly(t),
         \A n \in Node : One(n \in more) - One(n \in less) = Mine(t, n)' - Mine(t, n),
         \A n \in Node : Holds(t, n)' => Holds(t, n) \/ (n \in alloc /\ Visible(n))
  PROVE  IInv'
  <1>1. Fits(t)' /\ FlagLayers(t)' = {} /\ Where(t)' = pc'[t] BY Resting
  <1>2. FlagLayers(t) = {} /\ Where(t) = pc[t] BY NoFlagLayers
  <1>3. \A n : Flags(t, n)' <=> Flags(t, n) BY <1>1, <1>2 DEF Flags
  <1>4. pc[t] \notin {"link", "linked", "bypass", "insertCount", "eraseCount"}
        /\ pc'[t] \notin {"link", "linked", "bypass", "insertCount", "eraseCount"}
    BY DEF Rest, RestFits
  <1>5. \A l : ~Half(t, l)' /\ ~Half(t, l) BY <1>4 DEF Half
  <1>6. SameWork(t) BY <1>1, <1>2, <1>3, <1>4, <1>5 DEF SameWork
  <1> QED BY <1>1, <1>6, QuietStep

LEMMA FrameIs ==
  ASSUME IInv, NEW t \in Thread
  PROVE  /\ F(t) \in FrameType /\ Types /\ F(t) = frame[t]
         /\ F(t).key \in Keys /\ F(t).node \in Node \cup {Null} /\ F(t).cur \in Link
         /\ F(t).layer \in Layer /\ F(t).next \in Link /\ F(t).passed \in SUBSET Node
         /\ F(t).find \in Node \cup {Null} /\ F(t).cursor \in Node \cup {Null}
         /\ F(t).prevs \in [Layer -> Link] /\ F(t).nexts \in [Layer -> Link]
         /\ F(t).clearing \in SUBSET Layer /\ F(t).then \in Thens /\ F(t).visited \in Seq(Keys)
         /\ Null \notin Node /\ (UNCHANGED jobs => jobs' \in [Thread -> Seq(AnyJob)])
  <1>1. F(t) \in FrameType /\ Types BY Typed DEF IInv, F
  <1>2. UNCHANGED jobs => jobs' \in [Thread -> Seq(AnyJob)] BY <1>1 DEF Types
  <1> QED BY <1>1, <1>2, NodesAssumption DEF FrameType, F

\* What the label of a thread says there.
RestRoles(t) ==
    LET f == F(t)
        seeks == pc[t] \in {"find", "findMove", "successor"}
        holder == \/ pc[t] \in {"held", "eraseNode", "eraseFlagNode", "eraseMark", "erase",
                                "eraseUnflag", "erased", "advance"}
                  \/ seeks /\ f.then \in {"eraseNode", "advance"}
        keeper == pc[t] \in {"insertFound", "previousFound", "eraseFound", "advance",
                             "eraseNode", "eraseFlagNode", "eraseMark", "erase",
                             "eraseUnflag", "erased", "wait", "waitRefs"}
    IN  /\ Creating(t) <=> pc[t] \in {"insert", "duplicate"}
        /\ Created(t) <=> pc[t] \in {"inserted", "held"}
        /\ Unmarked(t) <=> (pc[t] \in {"eraseNode", "eraseFlagNode", "eraseMark"}
                              \/ (seeks /\ f.then = "eraseNode"))
        /\ Visiting(t) <=> (pc[t] = "advance" \/ (seeks /\ f.then = "advance"))
        /\ Marked(t) <=> pc[t] = "erase"
        /\ Erased(t) <=> pc[t] \in {"eraseUnflag", "erased", "wait", "waitRefs"}
        /\ FlagsOwn(t) <=> pc[t] \in {"eraseMark", "erase", "eraseUnflag"}
        /\ \A n : HoldsCur(t, n) <=> pc[t] = "findMove" /\ f.cur = n
        /\ \A n : HoldsNext(t, n) <=> pc[t] \in {"findMove", "successor", "first"} /\ f.next = n
        /\ \A n : ~HoldsPassed(t, n)
        /\ \A n : HoldsNode(t, n) <=> holder /\ f.node = n
        /\ \A n : HoldsCursor(t, n) <=> keeper /\ f.cursor = n

LEMMA RestRole ==
  ASSUME NEW t \in Thread
  PROVE  /\ pc[t] \in Rest \cup {"successor", "findMove", "first"} /\ F(t).passed = {}
                => RestRoles(t)
         /\ pc'[t] \in Rest /\ F(t)'.passed = {} => RestRoles(t)'
  <1>1. ASSUME pc[t] \in Rest \cup {"successor", "findMove", "first"}, F(t).passed = {}
        PROVE  RestRoles(t)
    <2>1. Where(t) = pc[t] BY <1>1 DEF Rest, Where, Calling
    <2>2. Creating(t) <=> pc[t] \in {"insert", "duplicate"}
      BY <1>1, <2>1 DEF Rest, Creating, Placing
    <2>3. Created(t) <=> pc[t] \in {"inserted", "held"}
      BY <1>1, <2>1 DEF Rest, Created, Updating
    <2>4. Marked(t) <=> pc[t] = "erase"
      BY <1>1, <2>1 DEF Rest, Marked, Placing
    <2>5. Erased(t) <=> pc[t] \in {"eraseUnflag", "erased", "wait", "waitRefs"}
      BY <1>1, <2>1 DEF Rest, Erased, Updating
    <2>6. Unmarked(t) <=>
            \/ pc[t] \in {"eraseNode", "eraseFlagNode", "eraseMark"}
            \/ pc[t] \in {"find", "findMove", "successor"} /\ F(t).then = "eraseNode"
      BY <1>1, <2>1 DEF Rest, Unmarked, Searching
    <2>7. Visiting(t) <=>
            \/ pc[t] = "advance"
            \/ pc[t] \in {"find", "findMove", "successor"} /\ F(t).then = "advance"
      BY <1>1, <2>1 DEF Rest, Visiting, Searching
    <2>8. FlagsOwn(t) <=> pc[t] \in {"eraseMark", "erase", "eraseUnflag"}
      BY <2>1, <2>4, <2>5 DEF FlagsOwn
    <2>9. ASSUME NEW n
          PROVE  /\ HoldsCur(t, n) <=> pc[t] = "findMove" /\ F(t).cur = n
                 /\ HoldsNext(t, n) <=>
                        pc[t] \in {"findMove", "successor", "first"} /\ F(t).next = n
                 /\ ~HoldsPassed(t, n)
      BY <1>1, <2>1 DEF Rest, HoldsCur, HoldsNext, HoldsPassed, Held, Stepping, Placing,
         Updating, Returns
    <2>10. ASSUME NEW n
           PROVE  HoldsNode(t, n) <=>
                    /\ \/ pc[t] \in {"held", "eraseNode", "eraseFlagNode", "eraseMark",
                                      "erase", "eraseUnflag", "erased", "advance"}
                       \/ /\ pc[t] \in {"find", "findMove", "successor"}
                          /\ F(t).then \in {"eraseNode", "advance"}
                    /\ F(t).node = n
      BY <2>1, <2>4, <2>5, <2>6, <2>7 DEF HoldsNode
    <2>11. ASSUME NEW n
           PROVE  HoldsCursor(t, n) <=>
                    /\ pc[t] \in {"insertFound", "previousFound", "eraseFound", "advance",
                                   "eraseNode", "eraseFlagNode", "eraseMark", "erase",
                                   "eraseUnflag", "erased", "wait", "waitRefs"}
                    /\ F(t).cursor = n
      BY <1>1, <2>1, <2>4, <2>5, <2>6 DEF HoldsCursor, Erases, Searching, Rest
    <2> QED
      BY <2>2, <2>3, <2>4, <2>5, <2>6, <2>7, <2>8, <2>9, <2>10, <2>11 DEF RestRoles
  <1>2. ASSUME pc'[t] \in Rest, F(t)'.passed = {}
        PROVE  RestRoles(t)'
    <2>1. Where(t)' = pc'[t] BY <1>2 DEF Rest, Where, Calling
    <2>2. Creating(t)' <=> pc'[t] \in {"insert", "duplicate"}
      BY <1>2, <2>1 DEF Rest, Creating, Placing
    <2>3. Created(t)' <=> pc'[t] \in {"inserted", "held"}
      BY <1>2, <2>1 DEF Rest, Created, Updating
    <2>4. Marked(t)' <=> pc'[t] = "erase"
      BY <1>2, <2>1 DEF Rest, Marked, Placing
    <2>5. Erased(t)' <=> pc'[t] \in {"eraseUnflag", "erased", "wait", "waitRefs"}
      BY <1>2, <2>1 DEF Rest, Erased, Updating
    <2>6. Unmarked(t)' <=>
            \/ pc'[t] \in {"eraseNode", "eraseFlagNode", "eraseMark"}
            \/ pc'[t] \in {"find", "findMove", "successor"} /\ F(t)'.then = "eraseNode"
      BY <1>2, <2>1 DEF Rest, Unmarked, Searching
    <2>7. Visiting(t)' <=>
            \/ pc'[t] = "advance"
            \/ pc'[t] \in {"find", "findMove", "successor"} /\ F(t)'.then = "advance"
      BY <1>2, <2>1 DEF Rest, Visiting, Searching
    <2>8. FlagsOwn(t)' <=> pc'[t] \in {"eraseMark", "erase", "eraseUnflag"}
      BY <2>1, <2>4, <2>5 DEF FlagsOwn
    <2>9. ASSUME NEW n
          PROVE  /\ HoldsCur(t, n)' <=> pc'[t] = "findMove" /\ F(t)'.cur = n
                 /\ HoldsNext(t, n)' <=>
                        pc'[t] \in {"findMove", "successor", "first"} /\ F(t)'.next = n
                 /\ ~HoldsPassed(t, n)'
      BY <1>2, <2>1 DEF Rest, HoldsCur, HoldsNext, HoldsPassed, Held, Stepping, Placing,
         Updating, Returns
    <2>10. ASSUME NEW n
           PROVE  HoldsNode(t, n)' <=>
                    /\ \/ pc'[t] \in {"held", "eraseNode", "eraseFlagNode", "eraseMark",
                                      "erase", "eraseUnflag", "erased", "advance"}
                       \/ /\ pc'[t] \in {"find", "findMove", "successor"}
                          /\ F(t)'.then \in {"eraseNode", "advance"}
                    /\ F(t)'.node = n
      BY <2>1, <2>4, <2>5, <2>6, <2>7 DEF HoldsNode
    <2>11. ASSUME NEW n
           PROVE  HoldsCursor(t, n)' <=>
                    /\ pc'[t] \in {"insertFound", "previousFound", "eraseFound", "advance",
                                   "eraseNode", "eraseFlagNode", "eraseMark", "erase",
                                   "eraseUnflag", "erased", "wait", "waitRefs"}
                    /\ F(t)'.cursor = n
      BY <1>2, <2>1, <2>4, <2>5, <2>6 DEF HoldsCursor, Erases, Searching, Rest
    <2> QED
      BY <2>2, <2>3, <2>4, <2>5, <2>6, <2>7, <2>8, <2>9, <2>10, <2>11 DEF RestRoles
  <1> QED BY <1>1, <1>2

\* From one such place to another: the label says what is held there.
LEMMA RestMove ==
  ASSUME IInv, NEW t \in Thread, NEW more, NEW less, Quiet(t, more, less),
         pc[t] \in Rest \cup {"successor", "findMove", "first"}, RestFits(t)',
         RestRoles(t) /\ RestRoles(t)' =>
            /\ Creating(t)' <=> Creating(t)
            /\ Marked(t)' <=> Marked(t)
            /\ Erased(t)' <=> Erased(t)
            /\ FlagsOwn(t)' <=> FlagsOwn(t)
            /\ Creating(t) \/ Marked(t) \/ Erased(t) \/ FlagsOwn(t) => F(t)'.node = F(t).node
            /\ Owns(t)' => Owns(t) /\ F(t)'.node = F(t).node /\ F(t)'.key = F(t).key,
         RestRoles(t) /\ RestRoles(t)' =>
            \A n \in Node : One(n \in more) - One(n \in less) = Mine(t, n)' - Mine(t, n),
         RestRoles(t) /\ RestRoles(t)' =>
            \A n \in Node : Holds(t, n)' => Holds(t, n) \/ (n \in alloc /\ Visible(n))
  PROVE  IInv'
  <1>1. RestRoles(t)
    <2>1. F(t).passed = {} BY NoFlagLayers
    <2> QED BY <2>1, RestRole
  <1>2. RestRoles(t)' BY RestRole DEF RestFits
  <1>3. OwnsRightly(t) BY <1>1, <1>2 DEF OwnsRightly
  <1> QED BY <1>1, <1>2, <1>3, RestStep

LEMMA InsertGrabStep ==
  ASSUME IInv, NEW t \in Thread, InsertGrab(t), UNCHANGED jobs
  PROVE  IInv'
  <1>1. pc[t] = "inserted" BY DEF InsertGrab
  <1>2. PICK m : m = F(t).node OBVIOUS
  <1>3. Takes({m}, {}) BY <1>2, FrameIs, GrabbedTakes DEF InsertGrab
  <1>4. Quiet(t, {m}, {}) /\ F(t)' = F(t) /\ pc'[t] = "held"
    BY <1>3, FrameIs, QuietGo DEF InsertGrab, LabelNames
  <1>5. RestFits(t)'
    BY <1>1, <1>4, NoFlagLayers DEF RestFits, Rest, IInv, Fits, LocalsFit
  <1>6. RestRoles(t) /\ RestRoles(t)' =>
            /\ Creating(t)' <=> Creating(t)
            /\ Marked(t)' <=> Marked(t)
            /\ Erased(t)' <=> Erased(t)
            /\ FlagsOwn(t)' <=> FlagsOwn(t)
            /\ Creating(t) \/ Marked(t) \/ Erased(t) \/ FlagsOwn(t) => F(t)'.node = F(t).node
            /\ Owns(t)' => Owns(t) /\ F(t)'.node = F(t).node /\ F(t)'.key = F(t).key
    BY <1>1, <1>4 DEF RestRoles, Owns
  <1>7. RestRoles(t) => m \in alloc /\ Visible(m)
    <2>1. SUFFICES ASSUME RestRoles(t) PROVE m \in alloc /\ Visible(m) OBVIOUS
    <2>2. Owns(t) /\ ~Creating(t) BY <1>1, <2>1 DEF RestRoles, Owns
    <2>3. m \in alloc /\ \A u \in Thread : Owns(u) /\ F(u).node = m => u = t
      BY <1>2, <2>2, Owned
    <2>4. ~Hidden(m) BY <2>2, <2>3 DEF Hidden, Owns
    <2> QED BY <2>3, <2>4 DEF Visible
  <1>8. RestRoles(t) /\ RestRoles(t)' =>
            \A n \in Node : One(n \in {m}) - One(n \in {}) = Mine(t, n)' - Mine(t, n)
    BY <1>1, <1>2, <1>4 DEF RestRoles, One, Mine
  <1>9. RestRoles(t) /\ RestRoles(t)' =>
            \A n \in Node : Holds(t, n)' => Holds(t, n) \/ (n \in alloc /\ Visible(n))
    BY <1>1, <1>2, <1>4, <1>7 DEF RestRoles, Holds
  <1>10. pc[t] \in Rest BY <1>1 DEF Rest
  <1> QED BY <1>4, <1>5, <1>6, <1>8, <1>9, <1>10, RestMove

LEMMA EmptyFrameType ==
  /\ EmptyFrame \in FrameType
  /\ EmptyFrame.passed = {} /\ EmptyFrame.then = "idle"
  /\ EmptyFrame.prevs = [l \in Layer |-> Null] /\ EmptyFrame.nexts = [l \in Layer |-> Null]
  <1>1. 0 \in Layer /\ Null \in Link /\ Null \in Keys /\ <<>> \in Seq(Keys)
    BY LayerAssumption DEF Layer, Link, Keys
  <1>2. [l \in Layer |-> Null] \in [Layer -> Link] BY <1>1
  <1> QED BY <1>1, <1>2 DEF EmptyFrame, FrameType, Thens, Returns, Resumes

\* A call returns, and drops the one reference it has left.
LEMMA FinishStep ==
  ASSUME IInv, NEW t \in Thread, NEW answer, NEW m, Finish(t, answer, m),
         pc[t] \in {"held", "insertFound", "eraseFound", "previousFound", "advance", "size"},
         RestRoles(t) => \A n \in Node : Mine(t, n) = One(n = m)
  PROVE  IInv'
  <1>1. Takes({}, {m}) BY FrameIs, DroppedTakes DEF Finish
  <1>2. Quiet(t, {}, {m}) /\ F(t)' = EmptyFrame /\ pc'[t] = "idle"
    BY <1>1, FrameIs, EmptyFrameType, QuietGo DEF Finish, LabelNames
  <1>3. RestFits(t)' BY <1>2, EmptyFrameType DEF RestFits, Rest
  <1>4. RestRoles(t) /\ RestRoles(t)' =>
            /\ Creating(t)' <=> Creating(t)
            /\ Marked(t)' <=> Marked(t)
            /\ Erased(t)' <=> Erased(t)
            /\ FlagsOwn(t)' <=> FlagsOwn(t)
            /\ Creating(t) \/ Marked(t) \/ Erased(t) \/ FlagsOwn(t) => F(t)'.node = F(t).node
            /\ Owns(t)' => Owns(t) /\ F(t)'.node = F(t).node /\ F(t)'.key = F(t).key
    BY <1>2 DEF RestRoles, Owns, Erases
  <1>5. RestRoles(t)' => \A n : ~Holds(t, n)' /\ Mine(t, n)' = 0
    BY <1>2 DEF RestRoles, Holds, Mine, One
  <1>6. RestRoles(t) /\ RestRoles(t)' =>
            \A n \in Node : One(n \in {}) - One(n \in {m}) = Mine(t, n)' - Mine(t, n)
    BY <1>5 DEF One
  <1>7. pc[t] \in Rest BY DEF Rest
  <1> QED BY <1>2, <1>3, <1>4, <1>5, <1>6, <1>7, RestMove

LEMMA InsertReturnStep ==
  ASSUME IInv, NEW t \in Thread, InsertReturn(t)
  PROVE  IInv'
  <1>1. PICK m : m = F(t).node OBVIOUS
  <1>2. pc[t] = "held" /\ Finish(t, Null, m) BY <1>1 DEF InsertReturn
  <1>3. RestRoles(t) => \A n \in Node : Mine(t, n) = One(n = m)
    BY <1>1, <1>2 DEF RestRoles, Mine, One
  <1> QED BY <1>2, <1>3, FinishStep

LEMMA InsertFoundStep ==
  ASSUME IInv, NEW t \in Thread, InsertFound(t)
  PROVE  IInv'
  <1>1. PICK m : m = F(t).cursor OBVIOUS
  <1>2. pc[t] = "insertFound" /\ Finish(t, Null, m) BY <1>1 DEF InsertFound
  <1>3. RestRoles(t) => \A n \in Node : Mine(t, n) = One(n = m)
    BY <1>1, <1>2 DEF RestRoles, Mine, One
  <1> QED BY <1>2, <1>3, FinishStep

LEMMA EraseReturnStep ==
  ASSUME IInv, NEW t \in Thread, EraseReturn(t)
  PROVE  IInv'
  <1>1. PICK m : m = F(t).cursor OBVIOUS
  <1>2. pc[t] = "eraseFound" /\ Finish(t, Null, m) BY <1>1 DEF EraseReturn
  <1>3. RestRoles(t) => \A n \in Node : Mine(t, n) = One(n = m)
    BY <1>1, <1>2 DEF RestRoles, Mine, One
  <1> QED BY <1>2, <1>3, FinishStep

LEMMA PreviousFoundStep ==
  ASSUME IInv, NEW t \in Thread, PreviousFound(t)
  PROVE  IInv'
  <1>1. PICK m : m = F(t).cursor OBVIOUS
  <1>2. PICK answer : answer = snode[F(t).cursor].key OBVIOUS
  <1>3. pc[t] = "previousFound" /\ Finish(t, answer, m)
    BY <1>1, <1>2 DEF PreviousFound
  <1>4. RestRoles(t) => \A n \in Node : Mine(t, n) = One(n = m)
    BY <1>1, <1>3 DEF RestRoles, Mine, One
  <1> QED BY <1>3, <1>4, FinishStep

LEMMA SumReturnStep ==
  ASSUME IInv, NEW t \in Thread, SumReturn(t)
  PROVE  IInv'
  <1>1. PICK m : m = F(t).node OBVIOUS
  <1>2. PICK answer : answer = F(t).visited OBVIOUS
  <1>3. pc[t] = "advance" /\ F(t).cursor = Null /\ Finish(t, answer, m)
    BY <1>1, <1>2 DEF SumReturn
  <1>4. RestRoles(t) => \A n \in Node : Mine(t, n) = One(n = m)
    BY <1>1, <1>3, NodesAssumption DEF RestRoles, Mine, One
  <1> QED BY <1>3, <1>4, FinishStep

LEMMA EmptyReturnStep ==
  ASSUME IInv, NEW t \in Thread, EmptyReturn(t)
  PROVE  IInv'
  <1>1. PICK answer : answer = (slist.entries = 1) OBVIOUS
  <1>2. pc[t] = "size" /\ Finish(t, answer, Null) BY <1>1 DEF EmptyReturn
  <1>3. RestRoles(t) => \A n \in Node : Mine(t, n) = One(n = Null)
    BY <1>2, NodesAssumption DEF RestRoles, Mine, One
  <1> QED BY <1>2, <1>3, FinishStep

LEMMA BeginStep ==
  ASSUME IInv, NEW t \in Thread, Begin(t)
  PROVE  IInv'
  <1> DEFINE job == Head(jobs[t])
             start == Start(job.op)
             f == [EmptyFrame EXCEPT !.key = job.key, !.mode = start.mode, !.then = start.then]
  <1>1. /\ pc[t] = "idle" /\ jobs[t] # <<>> /\ Go(t, start.pc, f) /\ UNCHANGED memory
        /\ jobs' = [jobs EXCEPT ![t] = Tail(@)]
    BY DEF Begin
  <1>2. jobs \in [Thread -> Seq(AnyJob)] BY DEF IInv, Types
  <1>3. job \in AnyJob /\ Tail(jobs[t]) \in Seq(AnyJob) BY <1>1, <1>2
  <1>4. jobs' \in [Thread -> Seq(AnyJob)] BY <1>1, <1>2, <1>3
  <1>5. /\ start.pc \in {"new", "find", "begin"} /\ start.mode \in {"EQ", "SM"}
        /\ start.then \in {"insertFound", "eraseFound", "previousFound", "idle"}
        /\ start.pc = "new" => start.then = "insertFound"
        /\ start.pc = "find" => start.then # "idle"
        /\ start.then \in {"insertFound", "eraseFound"} => job.op \in {"insert", "erase"}
    BY DEF Start
  <1>6. job.key \in Keys /\ (job.op \in {"insert", "erase"} => job.key \in Key)
    BY <1>3 DEF AnyJob, Keys
  <1>7. f \in FrameType
    BY <1>5, <1>6, EmptyFrameType DEF FrameType, Thens
  <1>8. Takes({}, {}) BY <1>1, FrameIs, NothingTaken DEF memory
  <1>9. Quiet(t, {}, {}) /\ F(t)' = f /\ pc'[t] = start.pc
    <2>1. start.pc \in LabelNames \ {"undefined"} BY <1>5 DEF LabelNames
    <2>2. Go(t, start.pc, f) /\ UNCHANGED <<alloc, slist>> BY <1>1 DEF memory
    <2>3. IInv /\ t \in Thread OBVIOUS
    <2> QED BY ONLY <1>4, <1>7, <1>8, <2>1, <2>2, <2>3, QuietGo
  <1>10. F(t)'.passed = {} /\ F(t)'.then = start.then /\ F(t)'.key = job.key /\ F(t)'.find = Null
    BY <1>9, EmptyFrameType DEF EmptyFrame
  <1>11. RestFits(t)'
    <2>1. pc'[t] \in {"new", "find", "begin"} BY <1>5, <1>9
    <2> QED BY <1>5, <1>6, <1>9, <1>10, <2>1 DEF RestFits, Rest, Inserts
  <1>12. RestRoles(t) /\ RestRoles(t)' =>
            /\ Creating(t)' <=> Creating(t)
            /\ Marked(t)' <=> Marked(t)
            /\ Erased(t)' <=> Erased(t)
            /\ FlagsOwn(t)' <=> FlagsOwn(t)
            /\ Creating(t) \/ Marked(t) \/ Erased(t) \/ FlagsOwn(t) => F(t)'.node = F(t).node
            /\ Owns(t)' => Owns(t) /\ F(t)'.node = F(t).node /\ F(t)'.key = F(t).key
    BY <1>1, <1>5, <1>9, <1>10 DEF RestRoles, Owns, Erases
  <1>13. RestRoles(t) /\ RestRoles(t)' =>
            \A n : ~Holds(t, n)' /\ Mine(t, n)' = 0 /\ Mine(t, n) = 0
    <2>1. RestRoles(t) => \A n : /\ ~HoldsCur(t, n) /\ ~HoldsNext(t, n) /\ ~HoldsPassed(t, n)
                                 /\ ~HoldsNode(t, n) /\ ~HoldsCursor(t, n)
      BY <1>1 DEF RestRoles
    <2>2. RestRoles(t)' => \A n : /\ ~HoldsCur(t, n)' /\ ~HoldsNext(t, n)' /\ ~HoldsPassed(t, n)'
                                  /\ ~HoldsNode(t, n)' /\ ~HoldsCursor(t, n)'
      BY <1>5, <1>9, <1>10 DEF RestRoles
    <2> QED BY <2>1, <2>2 DEF Holds, Mine, One
  <1>14. RestRoles(t) /\ RestRoles(t)' =>
            \A n \in Node : One(n \in {}) - One(n \in {}) = Mine(t, n)' - Mine(t, n)
    BY <1>13 DEF One
  <1>15. pc[t] \in Rest BY <1>1 DEF Rest
  <1> QED BY <1>9, <1>11, <1>12, <1>13, <1>14, <1>15, RestMove

\* Nothing is taken or dropped, and nothing changes hands.
LEMMA RestOn ==
  ASSUME IInv, NEW t \in Thread, NEW label \in Rest, Go(t, label, F(t)), UNCHANGED memory,
         UNCHANGED jobs, pc[t] \in Rest, RestFits(t)',
         RestRoles(t) /\ RestRoles(t)' =>
            /\ Creating(t)' <=> Creating(t)
            /\ Marked(t)' <=> Marked(t)
            /\ Erased(t)' <=> Erased(t)
            /\ FlagsOwn(t)' <=> FlagsOwn(t)
            /\ Owns(t)' <=> Owns(t)
            /\ \A n \in Node : /\ HoldsNode(t, n)' <=> HoldsNode(t, n)
                               /\ HoldsCursor(t, n)' <=> HoldsCursor(t, n)
  PROVE  IInv'
  <1>1. label \in LabelNames \ {"undefined"} BY DEF Rest, LabelNames
  <1>2. Takes({}, {}) BY FrameIs, NothingTaken DEF memory
  <1>3. Quiet(t, {}, {}) /\ F(t)' = F(t) /\ pc'[t] = label
    BY <1>1, <1>2, FrameIs, QuietGo DEF memory
  <1>4. RestRoles(t) /\ RestRoles(t)' =>
            /\ Creating(t)' <=> Creating(t)
            /\ Marked(t)' <=> Marked(t)
            /\ Erased(t)' <=> Erased(t)
            /\ FlagsOwn(t)' <=> FlagsOwn(t)
            /\ Creating(t) \/ Marked(t) \/ Erased(t) \/ FlagsOwn(t) => F(t)'.node = F(t).node
            /\ Owns(t)' => Owns(t) /\ F(t)'.node = F(t).node /\ F(t)'.key = F(t).key
    BY <1>3
  <1>5. RestRoles(t) /\ RestRoles(t)' =>
            \A n \in Node : /\ HoldsCur(t, n)' <=> HoldsCur(t, n)
                            /\ HoldsNext(t, n)' <=> HoldsNext(t, n)
                            /\ HoldsPassed(t, n)' <=> HoldsPassed(t, n)
                            /\ HoldsNode(t, n)' <=> HoldsNode(t, n)
                            /\ HoldsCursor(t, n)' <=> HoldsCursor(t, n)
    BY <1>3 DEF RestRoles, Rest
  <1>6. RestRoles(t) /\ RestRoles(t)' =>
            \A n \in Node : One(n \in {}) - One(n \in {}) = Mine(t, n)' - Mine(t, n)
    <2>1. RestRoles(t) /\ RestRoles(t)' =>
            \A n \in Node : Mine(t, n)' = Mine(t, n) /\ Mine(t, n) \in Int
      BY <1>5 DEF Mine, One
    <2> QED BY <2>1 DEF One
  <1>7. RestRoles(t) /\ RestRoles(t)' =>
            \A n \in Node : Holds(t, n)' => Holds(t, n) \/ (n \in alloc /\ Visible(n))
    BY <1>5 DEF Holds
  <1> QED BY <1>3, <1>4, <1>6, <1>7, RestMove

LEMMA InsertAgainStep ==
  ASSUME IInv, NEW t \in Thread, InsertAgain(t), UNCHANGED jobs
  PROVE  IInv'
  <1>1. /\ pc[t] = "insertFound" /\ F(t).cursor = Null /\ Go(t, "new", F(t)) /\ UNCHANGED memory
    BY DEF InsertAgain
  <1>2. F(t)' = F(t) /\ pc'[t] = "new" BY <1>1, FrameIs, GoFrame
  <1>3. pc[t] \in Rest /\ "new" \in Rest BY <1>1 DEF Rest
  <1>4. F(t).passed = {} /\ LocalsFit(t) BY <1>3, NoFlagLayers DEF IInv, Fits
  <1>5. RestFits(t)' BY <1>1, <1>2, <1>3, <1>4 DEF RestFits, LocalsFit, Where, Calling
  <1>6. RestRoles(t) /\ RestRoles(t)' =>
            /\ Creating(t)' <=> Creating(t)
            /\ Marked(t)' <=> Marked(t)
            /\ Erased(t)' <=> Erased(t)
            /\ FlagsOwn(t)' <=> FlagsOwn(t)
            /\ Owns(t)' <=> Owns(t)
            /\ \A n \in Node : /\ HoldsNode(t, n)' <=> HoldsNode(t, n)
                               /\ HoldsCursor(t, n)' <=> HoldsCursor(t, n)
    BY <1>1, <1>2, FrameIs DEF RestRoles, Owns, Erases
  <1> QED BY <1>1, <1>3, <1>5, <1>6, RestOn

LEMMA EraseNodeStep ==
  ASSUME IInv, NEW t \in Thread, EraseNode(t), UNCHANGED jobs
  PROVE  IInv'
  <1>1. pc[t] = "eraseNode" /\ UNCHANGED memory BY DEF EraseNode
  <1>2. pc[t] \in Rest /\ "eraseFlagNode" \in Rest BY <1>1 DEF Rest
  <1>3. F(t).passed = {} /\ LocalsFit(t) BY <1>2, NoFlagLayers DEF IInv, Fits
  <1>4. RestRoles(t) BY <1>2, <1>3, RestRole
  <1>5. Owns(t) /\ ~Marked(t) /\ ~Erased(t) BY <1>1, <1>4 DEF RestRoles, Owns, Erases
  <1>6. ~snode[F(t).node].removed BY <1>5, OwnSays DEF Says
  <1>7. Go(t, "eraseFlagNode", F(t)) BY <1>6 DEF EraseNode
  <1>8. F(t)' = F(t) /\ pc'[t] = "eraseFlagNode" BY <1>7, FrameIs, GoFrame
  <1>9. RestFits(t)' BY <1>2, <1>3, <1>8 DEF RestFits, LocalsFit
  <1>10. RestRoles(t) /\ RestRoles(t)' =>
            /\ Creating(t)' <=> Creating(t)
            /\ Marked(t)' <=> Marked(t)
            /\ Erased(t)' <=> Erased(t)
            /\ FlagsOwn(t)' <=> FlagsOwn(t)
            /\ Owns(t)' <=> Owns(t)
            /\ \A n \in Node : /\ HoldsNode(t, n)' <=> HoldsNode(t, n)
                               /\ HoldsCursor(t, n)' <=> HoldsCursor(t, n)
    BY <1>1, <1>8 DEF RestRoles, Owns, Erases
  <1> QED BY <1>1, <1>2, <1>7, <1>9, <1>10, RestOn

LEMMA WaitForUsersStep ==
  ASSUME IInv, NEW t \in Thread, WaitForUsers(t), UNCHANGED jobs
  PROVE  IInv'
  <1>1. pc[t] = "wait" /\ UNCHANGED memory /\ Go(t, "waitRefs", F(t)) BY DEF WaitForUsers
  <1>2. pc[t] \in Rest /\ "waitRefs" \in Rest BY <1>1 DEF Rest
  <1>3. F(t).passed = {} /\ LocalsFit(t) BY <1>2, NoFlagLayers DEF IInv, Fits
  <1>4. F(t)' = F(t) /\ pc'[t] = "waitRefs" BY <1>1, FrameIs, GoFrame
  <1>5. RestFits(t)' BY <1>2, <1>3, <1>4 DEF RestFits, LocalsFit
  <1>6. RestRoles(t) /\ RestRoles(t)' =>
            /\ Creating(t)' <=> Creating(t)
            /\ Marked(t)' <=> Marked(t)
            /\ Erased(t)' <=> Erased(t)
            /\ FlagsOwn(t)' <=> FlagsOwn(t)
            /\ Owns(t)' <=> Owns(t)
            /\ \A n \in Node : /\ HoldsNode(t, n)' <=> HoldsNode(t, n)
                               /\ HoldsCursor(t, n)' <=> HoldsCursor(t, n)
    BY <1>1, <1>4 DEF RestRoles, Owns, Erases
  <1> QED BY <1>1, <1>2, <1>5, <1>6, RestOn

LEMMA WaitOnStep ==
  ASSUME IInv, NEW t \in Thread, DeleteErased(t), UNCHANGED jobs, snode[F(t).node].refs # 0
  PROVE  IInv'
  <1>1. pc[t] = "waitRefs" /\ UNCHANGED memory /\ Go(t, "wait", F(t)) BY DEF DeleteErased
  <1>2. pc[t] \in Rest /\ "wait" \in Rest BY <1>1 DEF Rest
  <1>3. F(t).passed = {} /\ LocalsFit(t) BY <1>2, NoFlagLayers DEF IInv, Fits
  <1>4. F(t)' = F(t) /\ pc'[t] = "wait" BY <1>1, FrameIs, GoFrame
  <1>5. RestFits(t)' BY <1>2, <1>3, <1>4 DEF RestFits, LocalsFit
  <1>6. RestRoles(t) /\ RestRoles(t)' =>
            /\ Creating(t)' <=> Creating(t)
            /\ Marked(t)' <=> Marked(t)
            /\ Erased(t)' <=> Erased(t)
            /\ FlagsOwn(t)' <=> FlagsOwn(t)
            /\ Owns(t)' <=> Owns(t)
            /\ \A n \in Node : /\ HoldsNode(t, n)' <=> HoldsNode(t, n)
                               /\ HoldsCursor(t, n)' <=> HoldsCursor(t, n)
    BY <1>1, <1>4 DEF RestRoles, Owns, Erases
  <1> QED BY <1>1, <1>2, <1>5, <1>6, RestOn

LEMMA EraseReleaseStep ==
  ASSUME IInv, NEW t \in Thread, EraseRelease(t), UNCHANGED jobs
  PROVE  IInv'
  <1> DEFINE f == [F(t) EXCEPT !.cur = Null, !.next = Null, !.find = Null, !.at = Null,
                               !.prevs = EmptyFrame.prevs, !.nexts = EmptyFrame.nexts]
  <1>1. /\ pc[t] = "erased" /\ snode' = Dropped({F(t).node}) /\ Go(t, "wait", f)
        /\ UNCHANGED <<alloc, slist>>
    BY DEF EraseRelease
  <1>2. PICK m : m = F(t).node OBVIOUS
  <1>3. Takes({}, {m}) BY <1>1, <1>2, FrameIs, DroppedTakes
  <1>4. f \in FrameType
    <2>1. [l \in Layer |-> Null] \in [Layer -> Link] /\ Null \in Link BY DEF Link
    <2>2. EmptyFrame.prevs \in [Layer -> Link] /\ EmptyFrame.nexts \in [Layer -> Link]
      BY <2>1, EmptyFrameType
    <2>3. F(t) \in FrameType BY FrameIs
    <2> QED BY ONLY <2>1, <2>2, <2>3 DEF FrameType
  <1>5. Quiet(t, {}, {m}) /\ F(t)' = f /\ pc'[t] = "wait"
    BY <1>1, <1>3, <1>4, FrameIs, QuietGo DEF LabelNames
  <1>6. pc[t] \in Rest /\ "wait" \in Rest BY <1>1 DEF Rest
  <1>7. F(t).passed = {} /\ LocalsFit(t) BY <1>6, NoFlagLayers DEF IInv, Fits
  <1>8. /\ F(t)'.node = F(t).node /\ F(t)'.key = F(t).key /\ F(t)'.cursor = F(t).cursor
        /\ F(t)'.then = F(t).then /\ F(t)'.passed = F(t).passed
    BY <1>5, FrameIs DEF FrameType
  <1>9. RestFits(t)' BY <1>5, <1>6, <1>7, <1>8 DEF RestFits, LocalsFit
  <1>10. RestRoles(t) /\ RestRoles(t)' =>
            /\ Creating(t)' <=> Creating(t)
            /\ Marked(t)' <=> Marked(t)
            /\ Erased(t)' <=> Erased(t)
            /\ FlagsOwn(t)' <=> FlagsOwn(t)
            /\ Creating(t) \/ Marked(t) \/ Erased(t) \/ FlagsOwn(t) => F(t)'.node = F(t).node
            /\ Owns(t)' => Owns(t) /\ F(t)'.node = F(t).node /\ F(t)'.key = F(t).key
    BY <1>1, <1>5, <1>8 DEF RestRoles, Owns, Erases
  <1>11. RestRoles(t) /\ RestRoles(t)' =>
            \A n : /\ ~HoldsCur(t, n) /\ ~HoldsNext(t, n) /\ ~HoldsPassed(t, n)
                   /\ ~HoldsCur(t, n)' /\ ~HoldsNext(t, n)' /\ ~HoldsPassed(t, n)'
                   /\ HoldsNode(t, n) <=> n = m
                   /\ ~HoldsNode(t, n)' /\ (HoldsCursor(t, n)' <=> HoldsCursor(t, n))
    BY <1>1, <1>2, <1>5, <1>8 DEF RestRoles
  <1>12. RestRoles(t) /\ RestRoles(t)' =>
            \A n \in Node : One(n \in {}) - One(n \in {m}) = Mine(t, n)' - Mine(t, n)
    <2>1. RestRoles(t) /\ RestRoles(t)' =>
            \A n : Mine(t, n) = One(n = m) + One(HoldsCursor(t, n))
                    /\ Mine(t, n)' = One(HoldsCursor(t, n))
      BY <1>11 DEF One, Mine
    <2> QED BY <2>1 DEF One
  <1>13. RestRoles(t) /\ RestRoles(t)' =>
            \A n \in Node : Holds(t, n)' => Holds(t, n) \/ (n \in alloc /\ Visible(n))
    BY <1>11 DEF Holds
  <1> QED BY <1>5, <1>6, <1>9, <1>10, <1>12, <1>13, RestMove

LEMMA EmptySizeStep ==
  ASSUME IInv, NEW t \in Thread, EmptySize(t), UNCHANGED jobs
  PROVE  IInv'
  <1>1. PICK m : m = F(t).next OBVIOUS
  <1>2. /\ pc[t] = "first" /\ snode' = Dropped({m}) /\ Go(t, "size", F(t))
        /\ UNCHANGED <<alloc, slist>>
    BY <1>1 DEF EmptySize, At
  <1>3. Takes({}, {m}) BY <1>2, FrameIs, DroppedTakes
  <1>4. Quiet(t, {}, {m}) /\ F(t)' = F(t) /\ pc'[t] = "size"
    BY <1>2, <1>3, FrameIs, QuietGo DEF LabelNames
  <1>5. F(t).passed = {} /\ LocalsFit(t) BY <1>2, NoFlagLayers DEF IInv, Fits
  <1>6. RestFits(t)' BY <1>4, <1>5 DEF RestFits, LocalsFit, Rest
  <1>7. RestRoles(t) /\ RestRoles(t)' =>
            /\ Creating(t)' <=> Creating(t)
            /\ Marked(t)' <=> Marked(t)
            /\ Erased(t)' <=> Erased(t)
            /\ FlagsOwn(t)' <=> FlagsOwn(t)
            /\ Creating(t) \/ Marked(t) \/ Erased(t) \/ FlagsOwn(t) => F(t)'.node = F(t).node
            /\ Owns(t)' => Owns(t) /\ F(t)'.node = F(t).node /\ F(t)'.key = F(t).key
    BY <1>2, <1>4 DEF RestRoles, Owns, Erases
  <1>8. RestRoles(t) /\ RestRoles(t)' =>
            \A n : /\ ~HoldsCur(t, n) /\ (HoldsNext(t, n) <=> n = m) /\ ~HoldsPassed(t, n)
                   /\ ~HoldsNode(t, n) /\ ~HoldsCursor(t, n)
                   /\ ~HoldsCur(t, n)' /\ ~HoldsNext(t, n)' /\ ~HoldsPassed(t, n)'
                   /\ ~HoldsNode(t, n)' /\ ~HoldsCursor(t, n)'
    BY <1>1, <1>2, <1>4 DEF RestRoles
  <1>9. RestRoles(t) /\ RestRoles(t)' =>
            \A n \in Node : One(n \in {}) - One(n \in {m}) = Mine(t, n)' - Mine(t, n)
    BY <1>8 DEF One, Mine
  <1>10. RestRoles(t) /\ RestRoles(t)' =>
            \A n \in Node : Holds(t, n)' => Holds(t, n) \/ (n \in alloc /\ Visible(n))
    BY <1>8 DEF Holds
  <1> QED BY <1>2, <1>4, <1>6, <1>7, <1>9, <1>10, RestMove

LEMMA FindRetryStep ==
  ASSUME IInv, NEW t \in Thread, FindRetry(t), UNCHANGED jobs
  PROVE  IInv'
  <1>1. PICK m : m = F(t).cur OBVIOUS
  <1>2. /\ pc[t] = "findMove" /\ F(t).next = Null /\ snode' = Dropped({m})
        /\ Go(t, "find", F(t)) /\ UNCHANGED <<alloc, slist>>
    BY <1>1 DEF FindRetry
  <1>3. Takes({}, {m}) BY <1>2, FrameIs, DroppedTakes
  <1>4. Quiet(t, {}, {m}) /\ F(t)' = F(t) /\ pc'[t] = "find"
    BY <1>2, <1>3, FrameIs, QuietGo DEF LabelNames
  <1>5. F(t).passed = {} /\ LocalsFit(t) /\ Where(t) = "findMove"
    BY <1>2, NoFlagLayers DEF IInv, Fits
  <1>6. RestFits(t)' BY <1>4, <1>5 DEF RestFits, LocalsFit, Rest, Searching
  <1>7. RestRoles(t) /\ RestRoles(t)' =>
            /\ Creating(t)' <=> Creating(t)
            /\ Marked(t)' <=> Marked(t)
            /\ Erased(t)' <=> Erased(t)
            /\ FlagsOwn(t)' <=> FlagsOwn(t)
            /\ Creating(t) \/ Marked(t) \/ Erased(t) \/ FlagsOwn(t) => F(t)'.node = F(t).node
            /\ Owns(t)' => Owns(t) /\ F(t)'.node = F(t).node /\ F(t)'.key = F(t).key
    BY <1>2, <1>4 DEF RestRoles, Owns, Erases
  <1>8. RestRoles(t) /\ RestRoles(t)' =>
            \A n \in Node : /\ HoldsCur(t, n) <=> n = m
                            /\ ~HoldsNext(t, n) /\ ~HoldsPassed(t, n) /\ ~HoldsCursor(t, n)
                            /\ ~HoldsCur(t, n)' /\ ~HoldsNext(t, n)' /\ ~HoldsPassed(t, n)'
                            /\ ~HoldsCursor(t, n)'
                            /\ HoldsNode(t, n)' <=> HoldsNode(t, n)
    BY <1>1, <1>2, <1>4, NodesAssumption DEF RestRoles
  <1>9. RestRoles(t) /\ RestRoles(t)' =>
            \A n \in Node : One(n \in {}) - One(n \in {m}) = Mine(t, n)' - Mine(t, n)
    <2>1. RestRoles(t) /\ RestRoles(t)' =>
            \A n \in Node : Mine(t, n) = One(n = m) + One(HoldsNode(t, n))
                    /\ Mine(t, n)' = One(HoldsNode(t, n))
      BY <1>8 DEF One, Mine
    <2> QED BY <2>1 DEF One
  <1>10. RestRoles(t) /\ RestRoles(t)' =>
            \A n \in Node : Holds(t, n)' => Holds(t, n) \/ (n \in alloc /\ Visible(n))
    BY <1>8 DEF Holds
  <1> QED BY <1>2, <1>4, <1>6, <1>7, <1>9, <1>10, RestMove

LEMMA SuccessorStep ==
  ASSUME IInv, NEW t \in Thread, Successor(t), UNCHANGED jobs
  PROVE  IInv'
  <1> DEFINE n == F(t).next
             c == IF n = tail THEN Null ELSE n
             f == IF n = Null THEN [F(t) EXCEPT !.mode = "GT"]
                  ELSE [F(t) EXCEPT !.cursor = c, !.next = Null, !.cur = Null]
             label == IF n = Null THEN "find" ELSE F(t).then
  <1>1. pc[t] = "successor" /\ Go(t, label, f) /\ UNCHANGED memory BY DEF Successor
  <1>2. F(t).passed = {} /\ LocalsFit(t) /\ NextFits(t) /\ Where(t) = "successor"
    BY <1>1, NoFlagLayers DEF IInv, Fits
  <1>3. F(t).then \in {"eraseNode", "advance"} BY <1>2 DEF LocalsFit
  <1>4. n # Null => n \in Node \cup {tail} BY <1>1, <1>2 DEF NextFits, Returns
  <1>5. n # Null => c \in Node \cup {Null} BY <1>4
  <1>6. f \in FrameType
    <2>1. F(t) \in FrameType /\ Null \in Link BY FrameIs DEF Link
    <2>2. CASE n = Null BY ONLY <2>1, <2>2 DEF FrameType
    <2>3. CASE n # Null
      <3>1. f = [F(t) EXCEPT !.cursor = c, !.next = Null, !.cur = Null] BY <2>3
      <3>2. c \in Node \cup {Null} BY <1>5, <2>3
      <3> HIDE DEF c
      <3> QED BY ONLY <2>1, <3>1, <3>2 DEF FrameType
    <2> QED BY <2>2, <2>3
  <1>7. label \in LabelNames \ {"undefined"} BY <1>3 DEF LabelNames
  <1>8. Takes({}, {}) /\ UNCHANGED <<alloc, slist>> BY <1>1, FrameIs, NothingTaken DEF memory
  <1>9. Quiet(t, {}, {}) /\ F(t)' = f /\ pc'[t] = label
    <2>1. IInv /\ t \in Thread /\ Go(t, label, f) /\ jobs' \in [Thread -> Seq(AnyJob)]
      BY <1>1, FrameIs
    <2> QED BY ONLY <1>6, <1>7, <1>8, <2>1, QuietGo
  <1>10. /\ F(t)'.node = F(t).node /\ F(t)'.key = F(t).key /\ F(t)'.then = F(t).then
         /\ F(t)'.passed = {} /\ (n # Null => F(t)'.cursor = c /\ F(t)'.next = Null)
         /\ (n = Null => F(t)'.next = Null)
    BY <1>2, <1>9, FrameIs DEF FrameType
  <1>11. RestFits(t)' BY <1>3, <1>9, <1>10, <1>2 DEF RestFits, LocalsFit, Rest
  <1>12. RestRoles(t) /\ RestRoles(t)' =>
            /\ Creating(t)' <=> Creating(t)
            /\ Marked(t)' <=> Marked(t)
            /\ Erased(t)' <=> Erased(t)
            /\ FlagsOwn(t)' <=> FlagsOwn(t)
            /\ Creating(t) \/ Marked(t) \/ Erased(t) \/ FlagsOwn(t) => F(t)'.node = F(t).node
            /\ Owns(t)' => Owns(t) /\ F(t)'.node = F(t).node /\ F(t)'.key = F(t).key
    BY <1>1, <1>3, <1>9, <1>10 DEF RestRoles, Owns, Erases
  <1>13. RestRoles(t) /\ RestRoles(t)' =>
            \A k \in Node : /\ ~HoldsCur(t, k) /\ ~HoldsCur(t, k)'
                            /\ HoldsNext(t, k) <=> k = n
                            /\ ~HoldsNext(t, k)' /\ ~HoldsPassed(t, k)' /\ ~HoldsPassed(t, k)
                            /\ HoldsNode(t, k)' <=> HoldsNode(t, k)
                            /\ ~HoldsCursor(t, k)
                            /\ HoldsCursor(t, k)' <=> k = n
    BY <1>1, <1>3, <1>9, <1>10, NodesAssumption DEF RestRoles
  <1>14. RestRoles(t) /\ RestRoles(t)' =>
            \A k \in Node : One(k \in {}) - One(k \in {}) = Mine(t, k)' - Mine(t, k)
    <2>1. RestRoles(t) /\ RestRoles(t)' =>
            \A k \in Node : Mine(t, k) = One(k = n) + One(HoldsNode(t, k))
                    /\ Mine(t, k)' = One(k = n) + One(HoldsNode(t, k))
      BY <1>13 DEF One, Mine
    <2> QED BY <2>1 DEF One
  <1>15. RestRoles(t) /\ RestRoles(t)' =>
            \A k \in Node : Holds(t, k)' => Holds(t, k) \/ (k \in alloc /\ Visible(k))
    BY <1>13 DEF Holds
  <1> QED BY <1>1, <1>9, <1>11, <1>12, <1>14, <1>15, RestMove

LEMMA ReturnStep ==
  ASSUME IInv, NEW t \in Thread, pc[t] = "findMove", F(t).next # Null,
         NEW m \in {F(t).cur, F(t).next, Null}, m \in Node \cup {Null}, Return(t, m),
         UNCHANGED jobs
  PROVE  IInv'
  <1> DEFINE f == [F(t) EXCEPT !.cursor = m, !.cur = Null, !.next = Null]
  <1>1. PICK D : D = {F(t).cur, F(t).next} \ {m} OBVIOUS
  <1>2. PICK label : label = F(t).then OBVIOUS
  <1>3. snode' = Dropped(D) /\ Go(t, label, f) /\ UNCHANGED <<alloc, slist>>
    BY <1>1, <1>2 DEF Return
  <1>4. F(t).passed = {} /\ LocalsFit(t) /\ NextFits(t) /\ Where(t) = "findMove"
    BY NoFlagLayers DEF IInv, Fits
  <1>5. label \in {"insertFound", "eraseFound", "previousFound", "eraseNode", "advance"}
    BY <1>2, <1>4, FrameIs DEF LocalsFit, Searching, Thens
  <1>6. F(t).cur \in Listed /\ F(t).next \in Listed /\ Less(F(t).cur, F(t).next)
    <2>1. F(t).cur \in Listed BY <1>4, CurListed DEF Walking, Stepping
    <2>2. F(t).next \in Listed BY NextListed DEF Returns
    <2> QED BY <1>4, <2>1, <2>2 DEF NextFits, Returns
  <1>7. F(t).cur # F(t).next BY <1>6, LessOrder
  <1>8. f \in FrameType
    <2>1. F(t) \in FrameType /\ Null \in Link BY FrameIs DEF Link
    <2>2. m \in Node \cup {Null} OBVIOUS
    <2> QED BY ONLY <2>1, <2>2 DEF FrameType
  <1>9. Takes({}, D) BY <1>3, FrameIs, DroppedTakes
  <1>10. Quiet(t, {}, D) /\ F(t)' = f /\ pc'[t] = label
    <2>1. label \in LabelNames \ {"undefined"} BY <1>5 DEF LabelNames
    <2> QED BY <1>3, <1>8, <1>9, <2>1, FrameIs, QuietGo
  <1>11. /\ F(t)'.node = F(t).node /\ F(t)'.key = F(t).key /\ F(t)'.then = F(t).then
         /\ F(t)'.passed = {} /\ F(t)'.cursor = m
    BY <1>4, <1>10, FrameIs DEF FrameType
  <1>12. RestFits(t)' BY <1>2, <1>4, <1>5, <1>10, <1>11 DEF RestFits, LocalsFit, Rest
  <1>13. RestRoles(t) /\ RestRoles(t)' =>
            /\ Creating(t)' <=> Creating(t)
            /\ Marked(t)' <=> Marked(t)
            /\ Erased(t)' <=> Erased(t)
            /\ FlagsOwn(t)' <=> FlagsOwn(t)
            /\ Creating(t) \/ Marked(t) \/ Erased(t) \/ FlagsOwn(t) => F(t)'.node = F(t).node
            /\ Owns(t)' => Owns(t) /\ F(t)'.node = F(t).node /\ F(t)'.key = F(t).key
    BY <1>2, <1>5, <1>10, <1>11 DEF RestRoles, Owns, Erases
  <1>14. RestRoles(t) /\ RestRoles(t)' =>
            \A k \in Node : /\ HoldsCur(t, k) <=> k = F(t).cur
                            /\ HoldsNext(t, k) <=> k = F(t).next
                            /\ ~HoldsCur(t, k)' /\ ~HoldsNext(t, k)'
                            /\ ~HoldsPassed(t, k)' /\ ~HoldsPassed(t, k)
                            /\ HoldsNode(t, k)' <=> HoldsNode(t, k)
                            /\ ~HoldsCursor(t, k)
                            /\ HoldsCursor(t, k)' <=> k = m
    BY <1>2, <1>5, <1>10, <1>11 DEF RestRoles
  <1>15. RestRoles(t) /\ RestRoles(t)' =>
            \A k \in Node : One(k \in {}) - One(k \in D) = Mine(t, k)' - Mine(t, k)
    <2>1. RestRoles(t) /\ RestRoles(t)' =>
            \A k \in Node :
                /\ Mine(t, k) = One(k = F(t).cur) + One(k = F(t).next) + One(HoldsNode(t, k))
                /\ Mine(t, k)' = One(k = m) + One(HoldsNode(t, k))
      BY <1>14 DEF One, Mine
    <2>2. \A k \in Node : One(k \in D) = One(k = F(t).cur) + One(k = F(t).next) - One(k = m)
      BY <1>1, <1>7, NodesAssumption DEF One
    <2>3. \A k : /\ One(HoldsNode(t, k)) \in Int /\ One(k = m) \in Int
                 /\ One(k = F(t).cur) \in Int /\ One(k = F(t).next) \in Int
                 /\ One(k \in {}) = 0
      BY DEF One
    <2> QED BY <2>1, <2>2, <2>3
  <1>16. RestRoles(t) /\ RestRoles(t)' =>
            \A k \in Node : Holds(t, k)' => Holds(t, k) \/ (k \in alloc /\ Visible(k))
    BY <1>14, NodesAssumption DEF Holds
  <1> QED BY <1>10, <1>12, <1>13, <1>15, <1>16, RestMove

LEMMA FindEqualStep ==
  ASSUME IInv, NEW t \in Thread, FindEqual(t), UNCHANGED jobs
  PROVE  IInv'
  <1>1. PICK m : m = F(t).next OBVIOUS
  <1>2. pc[t] = "findMove" /\ F(t).next # Null /\ Return(t, m) /\ Cmp(t, m) = 0
    BY <1>1 DEF FindEqual, At
  <1>3. m \in Node \cup {tail} BY <1>1, <1>2 DEF IInv, Fits, NextFits, Returns
  <1>4. m # tail
    <2>1. F(t).node # tail BY FrameIs, NodesAssumption
    <2> QED BY <1>2, <2>1 DEF Cmp
  <1> QED BY <1>1, <1>2, <1>3, <1>4, ReturnStep

LEMMA FindBottomStep ==
  ASSUME IInv, NEW t \in Thread, FindBottom(t), UNCHANGED jobs
  PROVE  IInv'
  <1>1. PICK m : m = CASE F(t).mode = "SM" /\ F(t).cur # head -> F(t).cur
                       [] F(t).mode = "GT" /\ F(t).next # tail -> F(t).next
                       [] OTHER -> Null
    OBVIOUS
  <1>2. pc[t] = "findMove" /\ F(t).next # Null /\ Return(t, m)
    BY <1>1 DEF FindBottom, FindGoesOn, At
  <1>3. F(t).next \in Node \cup {tail} BY <1>2 DEF IInv, Fits, NextFits, Returns
  <1>4. F(t).cur \in Node \cup {head}
    <2>1. Where(t) = "findMove" BY <1>2 DEF Where, Calling
    <2> QED BY <2>1 DEF IInv, Fits, CurFits, Walking, Stepping
  <1>5. m \in {F(t).cur, F(t).next, Null} /\ m \in Node \cup {Null}
    BY <1>1, <1>3, <1>4
  <1> QED BY <1>2, <1>5, ReturnStep

-----------------------------------------------------------------------------
(* While it works on its node, a thread moves its own variables.             *)

WorkLabels == Placing \cup Updating \cup
    {"insert", "duplicate", "insertMove", "link", "linked", "insertCount", "inserted",
     "erase", "eraseMove", "unlink", "bypass", "eraseCount", "eraseUnflag", "clear"}

\* Here a thread that erases has a reference on its node and on the one after it.
LEMMA WorkHolds ==
  ASSUME NEW t \in Thread
  PROVE  /\ Where(t) \in WorkLabels =>
                /\ Owns(t) <=> Creating(t) \/ Created(t) \/ Marked(t) \/ Erased(t)
                /\ \A n : HoldsNode(t, n) <=> (Marked(t) \/ Erased(t)) /\ F(t).node = n
                /\ \A n : HoldsCursor(t, n) <=> (Marked(t) \/ Erased(t)) /\ F(t).cursor = n
                /\ FlagsOwn(t) <=> Marked(t) \/ Erased(t)
         /\ Where(t)' \in WorkLabels =>
                /\ Owns(t)' <=> Creating(t)' \/ Created(t)' \/ Marked(t)' \/ Erased(t)'
                /\ \A n : HoldsNode(t, n)' <=> (Marked(t)' \/ Erased(t)') /\ F(t)'.node = n
                /\ \A n : HoldsCursor(t, n)' <=> (Marked(t)' \/ Erased(t)') /\ F(t)'.cursor = n
                /\ FlagsOwn(t)' <=> Marked(t)' \/ Erased(t)'
  <1>1. Where(t) \in WorkLabels =>
            /\ Where(t) \notin {"held", "eraseNode", "eraseFlagNode", "eraseMark", "advance",
                                "wait", "waitRefs", "erased", "insertFound", "previousFound",
                                "eraseFound"}
            /\ Where(t) \notin Searching
    BY DEF WorkLabels, Placing, Updating, Searching
  <1>2. Where(t)' \in WorkLabels =>
            /\ Where(t)' \notin {"held", "eraseNode", "eraseFlagNode", "eraseMark", "advance",
                                "wait", "waitRefs", "erased", "insertFound", "previousFound",
                                "eraseFound"}
            /\ Where(t)' \notin Searching
    BY DEF WorkLabels, Placing, Updating, Searching
  <1>3. Where(t) \in WorkLabels =>
                /\ Owns(t) <=> Creating(t) \/ Created(t) \/ Marked(t) \/ Erased(t)
                /\ \A n : HoldsNode(t, n) <=> (Marked(t) \/ Erased(t)) /\ F(t).node = n
                /\ \A n : HoldsCursor(t, n) <=> (Marked(t) \/ Erased(t)) /\ F(t).cursor = n
                /\ FlagsOwn(t) <=> Marked(t) \/ Erased(t)
    BY <1>1 DEF Owns, Erases, Unmarked, Visiting, HoldsNode, HoldsCursor, FlagsOwn
  <1>4. Where(t)' \in WorkLabels =>
                /\ Owns(t)' <=> Creating(t)' \/ Created(t)' \/ Marked(t)' \/ Erased(t)'
                /\ \A n : HoldsNode(t, n)' <=> (Marked(t)' \/ Erased(t)') /\ F(t)'.node = n
                /\ \A n : HoldsCursor(t, n)' <=> (Marked(t)' \/ Erased(t)') /\ F(t)'.cursor = n
                /\ FlagsOwn(t)' <=> Marked(t)' \/ Erased(t)'
    BY <1>2 DEF Owns, Erases, Unmarked, Visiting, HoldsNode, HoldsCursor, FlagsOwn
  <1> QED BY <1>3, <1>4

\* From one label of the work to another, with the same node.
SamePart(t) ==
    /\ Where(t) \in WorkLabels /\ Where(t)' \in WorkLabels
    /\ Creating(t)' <=> Creating(t)
    /\ Created(t)' <=> Created(t)
    /\ Marked(t)' <=> Marked(t)
    /\ Erased(t)' <=> Erased(t)
    /\ F(t)'.node = F(t).node /\ F(t)'.key = F(t).key /\ F(t)'.cursor = F(t).cursor

PrevsFlagged(t, n) == \E l \in FlagLayers(t) : F(t).prevs[l] = n

LEMMA WorkMove ==
  ASSUME IInv, NEW t \in Thread, NEW more, NEW less, Quiet(t, more, less), SamePart(t),
         Where(t) \notin {"link", "linked", "bypass", "insertCount", "eraseCount"},
         pc'[t] \notin {"linked", "bypass", "insertCount", "eraseCount"},
         pc'[t] = "link" => F(t)'.layer = 0,
         \A n : PrevsFlagged(t, n)' <=> PrevsFlagged(t, n),
         \A n \in Node : One(n \in more) - One(n \in less) =
                One(HoldsCur(t, n))' + One(HoldsNext(t, n))' + One(HoldsPassed(t, n))'
                    - One(HoldsCur(t, n)) - One(HoldsNext(t, n)) - One(HoldsPassed(t, n)),
         \A n \in Node : HoldsCur(t, n)' \/ HoldsNext(t, n)' \/ HoldsPassed(t, n)' => Holds(t, n),
         Fits(t)'
  PROVE  IInv'
  <1>1. /\ Owns(t) <=> Creating(t) \/ Created(t) \/ Marked(t) \/ Erased(t)
        /\ Owns(t)' <=> Creating(t)' \/ Created(t)' \/ Marked(t)' \/ Erased(t)'
        /\ \A n : HoldsNode(t, n)' <=> HoldsNode(t, n)
        /\ \A n : HoldsCursor(t, n)' <=> HoldsCursor(t, n)
        /\ FlagsOwn(t)' <=> FlagsOwn(t)
    BY WorkHolds DEF SamePart
  <1>2. \A n : Flags(t, n)' <=> Flags(t, n) BY <1>1 DEF Flags, SamePart, PrevsFlagged
  <1>3. pc[t] \notin {"link", "linked", "bypass", "insertCount", "eraseCount"}
    BY DEF Where, Calling
  <1>4. \A l \in Layer : ~Half(t, l)' /\ ~Half(t, l)
    BY <1>3, LayerAssumption DEF Half, Layer
  <1>5. SameWork(t) BY <1>2, <1>3, <1>4 DEF SameWork, SamePart
  <1>6. OwnsRightly(t) BY <1>1 DEF OwnsRightly, SamePart
  <1>7. \A n \in Node : One(n \in more) - One(n \in less) = Mine(t, n)' - Mine(t, n)
    <2>1. \A n : One(HoldsNode(t, n))' = One(HoldsNode(t, n))
                 /\ One(HoldsCursor(t, n))' = One(HoldsCursor(t, n))
      BY <1>1 DEF One
    <2>2. \A n : /\ One(HoldsCur(t, n))' \in Int /\ One(HoldsCur(t, n)) \in Int
                 /\ One(HoldsNext(t, n))' \in Int /\ One(HoldsNext(t, n)) \in Int
                 /\ One(HoldsPassed(t, n))' \in Int /\ One(HoldsPassed(t, n)) \in Int
                 /\ One(HoldsNode(t, n)) \in Int /\ One(HoldsCursor(t, n)) \in Int
      BY DEF One
    <2> QED BY <2>1, <2>2 DEF Mine
  <1>8. \A n \in Node : Holds(t, n)' => Holds(t, n) \/ (n \in alloc /\ Visible(n))
    BY <1>1 DEF Holds
  <1> QED BY <1>5, <1>6, <1>7, <1>8, QuietStep

-----------------------------------------------------------------------------
(* Into _sl_next, on the way to the place of the node.                       *)

\* In layer l prevs leads to the node of t or past it.
SettledAt(t, l) ==
    /\ F(t).nexts[l] \in Node \cup {tail} /\ Less(F(t).node, F(t).nexts[l])
    /\ NextIn(F(t).node, l) = F(t).nexts[l]
    /\ NextIn(F(t).prevs[l], l) = IF Inserts(t) THEN F(t).nexts[l] ELSE F(t).node

\* What stays true of the flagged nodes and the settled layers in such a step.
LEMMA PlacesStay ==
  ASSUME IInv, NEW t \in Thread, NEW more, NEW less, Quiet(t, more, less),
         F(t)'.node = F(t).node, Inserts(t)' <=> Inserts(t), NEW l \in FlagLayers(t),
         F(t)'.prevs[l] = F(t).prevs[l]
  PROVE  /\ F(t)'.prevs[l] \in alloc' \cup {head} /\ snode'[F(t)'.prevs[l]].top >= l
         /\ Less(F(t).prevs[l], F(t).node)'
         /\ F(t).prevs[l] \in Listed /\ F(t).node \in Listed
         /\ Linked(F(t).prevs[l])' <=> Linked(F(t).prevs[l])
         /\ /\ SettledAt(t, l) /\ (Inserts(t) \/ Marked(t)) /\ F(t)'.nexts[l] = F(t).nexts[l]
            /\ pc[t] # "clear" /\ (pc[t] = "neighbours" => l # F(t).layer)
            => SettledAt(t, l)'
  <1>1. F(t).node \in Listed /\ l \in Layer /\ l <= Top(t) BY Owned, FlagLayer
  <1>2. /\ F(t).prevs[l] \in alloc \cup {head} /\ snode[F(t).prevs[l]].top >= l
        /\ Less(F(t).prevs[l], F(t).node) /\ F(t).prevs[l] \in Listed
    BY DEF IInv, Fits, FlagsFit, Listed
  <1>3. /\ Listed' = Listed /\ alloc' = alloc
        /\ Less(F(t).prevs[l], F(t).node)' <=> Less(F(t).prevs[l], F(t).node)
        /\ snode'[F(t).prevs[l]].top = snode[F(t).prevs[l]].top
        /\ Linked(F(t).prevs[l])' <=> Linked(F(t).prevs[l])
        /\ NextIn(F(t).node, l)' = NextIn(F(t).node, l)
        /\ NextIn(F(t).prevs[l], l)' = NextIn(F(t).prevs[l], l)
    <2>1. PICK m : m = F(t).node OBVIOUS
    <2>2. PICK p : p = F(t).prevs[l] OBVIOUS
    <2>3. m \in Listed /\ p \in Listed BY <1>1, <1>2, <2>1, <2>2
    <2>4. /\ Less(p, m)' <=> Less(p, m)
          /\ snode'[p].top = snode[p].top
          /\ Linked(p)' <=> Linked(p)
          /\ snode'[m].next = snode[m].next /\ snode'[p].next = snode[p].next
      BY <2>3, QuietNodes
    <2>5. Listed' = Listed /\ alloc' = alloc BY QuietNodes
    <2> QED BY <2>1, <2>2, <2>4, <2>5 DEF NextIn, Less, Linked
  <1>4. ASSUME SettledAt(t, l), Inserts(t) \/ Marked(t), pc[t] # "clear",
               F(t)'.nexts[l] = F(t).nexts[l],
               pc[t] = "neighbours" => l # F(t).layer
        PROVE  SettledAt(t, l)'
    <2>1. F(t).nexts[l] \in Listed
      <3>1. CASE Inserts(t)
        <4>1. F(t).prevs[l] \in In(l) /\ F(t).prevs[l] # tail BY <1>4, FlaggedIn
        <4> QED BY <1>1, <1>4, <3>1, <4>1, InOrder, InListed DEF SettledAt
      <3>2. CASE Marked(t)
        <4>1. F(t).node \in In(l) /\ F(t).node # tail
          BY <1>1, <3>2, MarkedIn, Owned
        <4> QED BY <1>1, <1>4, <4>1, InOrder, InListed DEF SettledAt
      <3> QED BY <1>4, <3>1, <3>2
    <2>2. PICK m : m = F(t).node OBVIOUS
    <2>3. PICK n : n = F(t).nexts[l] OBVIOUS
    <2>4. Less(m, n)' <=> Less(m, n) BY <1>1, <2>1, <2>2, <2>3, QuietNodes
    <2>5. Less(F(t).node, F(t).nexts[l])' BY <1>4, <2>2, <2>3, <2>4 DEF SettledAt, Less
    <2> QED BY <1>3, <1>4, <2>5 DEF SettledAt
  <1> QED BY <1>1, <1>2, <1>3, <1>4

\* The flagged node in the layer above is no further than the node come to.
AboveFits(t) ==
    Where(t) \in {"insertMove", "eraseMove", "flag"} /\ F(t).layer < Top(t) =>
        LET above == F(t).prevs[F(t).layer + 1] IN above = F(t).cur \/ Less(above, F(t).cur)

LEMMA WayFits ==
  ASSUME IInv, NEW t \in Thread, NEW more, NEW less, Quiet(t, more, less),
         F(t)'.node = F(t).node, Inserts(t)' <=> Inserts(t), Inserts(t) \/ Marked(t),
         pc[t] # "clear", pc'[t] \notin {"clear", "bypass", "linked"},
         pc'[t] = "link" => F(t)'.layer = 0,
         FlagLayers(t)' \subseteq FlagLayers(t), Settled(t)' \subseteq FlagLayers(t)',
         \A l \in FlagLayers(t)' :
            /\ F(t)'.prevs[l] = F(t).prevs[l]
            /\ Linked(F(t).prevs[l]) \/ (pc'[t] = "neighbours" /\ l = F(t)'.layer),
         \A l \in Settled(t)' : /\ SettledAt(t, l) /\ F(t)'.nexts[l] = F(t).nexts[l]
                                /\ pc[t] = "neighbours" => l # F(t).layer,
         AboveFits(t)'
  PROVE  SettledFits(t)' /\ FlagsFit(t)'
  <1>1. ASSUME NEW l \in FlagLayers(t)'
        PROVE  /\ F(t)'.prevs[l] \in alloc' \cup {head} /\ snode'[F(t)'.prevs[l]].top >= l
               /\ Less(F(t).prevs[l], F(t).node)' /\ F(t).prevs[l] \in Listed
               /\ Linked(F(t).prevs[l])' \/ (pc'[t] = "neighbours" /\ l = F(t)'.layer)
    <2>1. l \in FlagLayers(t) OBVIOUS
    <2> QED BY <2>1, PlacesStay
  <1>2. ASSUME NEW l \in FlagLayers(t)', NEW m \in FlagLayers(t)', l < m
        PROVE  \/ Less(F(t).prevs[m], F(t).prevs[l])'
               \/ F(t)'.prevs[m] = F(t)'.prevs[l]
    <2>1. l \in FlagLayers(t) /\ m \in FlagLayers(t) OBVIOUS
    <2>2. Less(F(t).prevs[m], F(t).prevs[l]) \/ F(t).prevs[m] = F(t).prevs[l]
      BY <1>2, <2>1 DEF IInv, Fits, FlagsFit
    <2>3. PICK p : p = F(t).prevs[l] OBVIOUS
    <2>4. PICK q : q = F(t).prevs[m] OBVIOUS
    <2>5. Less(q, p)' <=> Less(q, p) BY <1>1, <2>3, <2>4, QuietNodes
    <2> QED BY <1>2, <2>2, <2>3, <2>4, <2>5 DEF Less
  <1>3. FlagsFit(t)'
    <2>1. \A l, m \in FlagLayers(t)' :
            l < m => \/ Less(F(t).prevs[m], F(t).prevs[l])'
                     \/ F(t)'.prevs[m] = F(t)'.prevs[l]
      BY <1>2
    <2>2. \A l \in FlagLayers(t)' :
               /\ F(t)'.prevs[l] \in alloc' \cup {head} /\ snode'[F(t)'.prevs[l]].top >= l
               /\ Less(F(t).prevs[l], F(t).node)'
               /\ Linked(F(t).prevs[l])' \/ (pc'[t] = "neighbours" /\ l = F(t)'.layer)
      BY <1>1
    <2>4. pc'[t] # "clear" /\ AboveFits(t)' OBVIOUS
    <2> QED BY ONLY <2>1, <2>2, <2>4 DEF FlagsFit, AboveFits
  <1>4. ASSUME NEW l \in Settled(t)' PROVE SettledAt(t, l)'
    <2>1. l \in FlagLayers(t) OBVIOUS
    <2>2. SettledAt(t, l) /\ F(t)'.nexts[l] = F(t).nexts[l] /\ F(t)'.prevs[l] = F(t).prevs[l]
          /\ (pc[t] = "neighbours" => l # F(t).layer)
      OBVIOUS
    <2> QED BY <2>1, <2>2, PlacesStay
  <1>5. \A l \in Settled(t)' : ~Half(t, l)'
    <2>1. \A l \in Settled(t)' : l \in Nat BY FlagLayer
    <2> QED BY <2>1 DEF Half
  <1>6. SettledFits(t)'
    BY <1>4, <1>5 DEF SettledFits, SettledAt
  <1> QED BY <1>3, <1>6

LEMMA PartsApart ==
  ASSUME NEW t \in Thread
  PROVE  /\ Creating(t) => ~Created(t) /\ ~Marked(t) /\ ~Erased(t)
         /\ Created(t) => ~Marked(t) /\ ~Erased(t)
         /\ Marked(t) => ~Erased(t)
         /\ Creating(t)' => ~Created(t)' /\ ~Marked(t)' /\ ~Erased(t)'
         /\ Created(t)' => ~Marked(t)' /\ ~Erased(t)'
         /\ Marked(t)' => ~Erased(t)'
  <1>1. /\ Creating(t) => ~Created(t) /\ ~Marked(t) /\ ~Erased(t)
        /\ Created(t) => ~Marked(t) /\ ~Erased(t)
        /\ Marked(t) => ~Erased(t)
    BY DEF Creating, Created, Marked, Erased, Placing, Updating
  <1>2. /\ Creating(t)' => ~Created(t)' /\ ~Marked(t)' /\ ~Erased(t)'
        /\ Created(t)' => ~Marked(t)' /\ ~Erased(t)'
        /\ Marked(t)' => ~Erased(t)'
    BY DEF Creating, Created, Marked, Erased, Placing, Updating
  <1> QED BY <1>1, <1>2

LEMMA LayersAt ==
  ASSUME NEW t \in Thread
  PROVE  /\ Where(t) \in {"insertMove", "eraseMove", "flag"} =>
                /\ FlagLayers(t) = F(t).layer + 1 .. Top(t)
                /\ Settled(t) = F(t).layer + 1 .. Top(t)
         /\ Where(t) \in {"neighbours", "again"} =>
                /\ FlagLayers(t) = F(t).layer .. Top(t)
                /\ Settled(t) = F(t).layer + 1 .. Top(t)
         /\ Where(t) \in {"link", "linked", "unlink", "bypass"} =>
                FlagLayers(t) = 0 .. Top(t) /\ Settled(t) = 0 .. Top(t)
         /\ Where(t) \in {"insertCount", "eraseCount"} \cup Updating =>
                FlagLayers(t) = 0 .. Top(t) /\ Settled(t) = {}
         /\ Where(t) = "clear" => FlagLayers(t) = F(t).clearing /\ Settled(t) = {}
         /\ Where(t)' \in {"insertMove", "eraseMove", "flag"} =>
                /\ FlagLayers(t)' = F(t)'.layer + 1 .. Top(t)'
                /\ Settled(t)' = F(t)'.layer + 1 .. Top(t)'
         /\ Where(t)' \in {"neighbours", "again"} =>
                /\ FlagLayers(t)' = F(t)'.layer .. Top(t)'
                /\ Settled(t)' = F(t)'.layer + 1 .. Top(t)'
         /\ Where(t)' \in {"link", "linked", "unlink", "bypass"} =>
                FlagLayers(t)' = 0 .. Top(t)' /\ Settled(t)' = 0 .. Top(t)'
         /\ Where(t)' \in {"insertCount", "eraseCount"} \cup Updating =>
                FlagLayers(t)' = 0 .. Top(t)' /\ Settled(t)' = {}
         /\ Where(t)' = "clear" => FlagLayers(t)' = F(t)'.clearing /\ Settled(t)' = {}
  BY DEF FlagLayers, Settled, Placing, Updating

MoveLabels == {"insert", "insertMove", "erase", "eraseMove", "again"}

\* The search goes on, or starts, at a node before the place.
MovesOn(t, more, less) ==
    LET f == F(t)
        g == F(t)'
    IN  /\ Where(t) \in MoveLabels /\ pc'[t] = "next"
        /\ g.next = Null /\ ~g.found /\ g.passed = {} /\ f.passed = {}
        /\ g.node = f.node /\ g.key = f.key /\ g.cursor = f.cursor /\ g.then = f.then
        /\ \/ Creating(t) /\ g.ret = "insertMove" /\ g.find = Null
           \/ Marked(t) /\ g.ret = "eraseMove" /\ g.find = f.node
        /\ FlagLayers(t) # {} => (Inserts(t) \/ Marked(t)) /\ (Inserts(t)' <=> Inserts(t))
        /\ g.cur \in Node \cup {head} /\ g.cur \in Listed
        /\ snode[g.cur].top >= g.layer /\ Less(g.cur, f.node)
        /\ FlagLayers(t) = g.layer + 1 .. Top(t)
        /\ \A l \in FlagLayers(t) : /\ g.prevs[l] = f.prevs[l] /\ Linked(f.prevs[l])
                                    /\ g.nexts[l] = f.nexts[l] /\ SettledAt(t, l)
        /\ AboveFits(t)'
        /\ \A n \in Node : One(n \in more) - One(n \in less) =
                One(g.cur = n) - One(HoldsCur(t, n)) - One(HoldsNext(t, n)) - One(HoldsPassed(t, n))
        /\ g.cur \in Node => Holds(t, g.cur)

LEMMA MoveStep ==
  ASSUME IInv, NEW t \in Thread, NEW more, NEW less, Quiet(t, more, less),
         MovesOn(t, more, less)
  PROVE  IInv'
  <1> DEFINE g == F(t)'
  <1> USE DEF MovesOn
  <1>0. /\ Where(t) \in WorkLabels
        /\ Where(t) \notin {"link", "linked", "bypass", "insertCount", "eraseCount", "clear",
                            "neighbours"}
    BY DEF MoveLabels, WorkLabels, Placing
  <1>1. Where(t)' = g.ret /\ g.ret \in {"insertMove", "eraseMove"} /\ Where(t)' \in WorkLabels
    BY DEF Where, Calling, WorkLabels
  <1>2. Owns(t) /\ F(t).node \in Listed /\ Top(t)' = Top(t) /\ F(t).node # Null
    <2>1. Owns(t) BY DEF Owns, Erases
    <2>2. F(t).node \in Listed /\ F(t).node # Null BY <2>1, Owned
    <2>3. snode'[F(t).node].top = snode[F(t).node].top BY <2>2, QuietNodes
    <2> QED BY <2>1, <2>2, <2>3 DEF Top
  <1>3. FlagLayers(t)' = FlagLayers(t) /\ Settled(t)' = FlagLayers(t)
    BY <1>1, <1>2, LayersAt
  <1>4. SettledFits(t)' /\ FlagsFit(t)'
    <2>1. pc[t] \notin {"clear", "neighbours"}
      BY <1>0 DEF Where, Calling
    <2>2. \A l \in FlagLayers(t)' :
            /\ F(t)'.prevs[l] = F(t).prevs[l]
            /\ Linked(F(t).prevs[l]) \/ (pc'[t] = "neighbours" /\ l = F(t)'.layer)
      BY <1>3
    <2>3. \A l \in Settled(t)' : /\ SettledAt(t, l) /\ F(t)'.nexts[l] = F(t).nexts[l]
                                 /\ pc[t] = "neighbours" => l # F(t).layer
      BY <1>3, <2>1
    <2>4. pc'[t] \notin {"clear", "bypass", "linked"} /\ (pc'[t] = "link" => F(t)'.layer = 0)
      OBVIOUS
    <2>5. FlagLayers(t)' \subseteq FlagLayers(t) /\ Settled(t)' \subseteq FlagLayers(t)'
      BY <1>3
    <2>6. CASE FlagLayers(t) # {} BY <2>1, <2>2, <2>3, <2>4, <2>5, <2>6, WayFits
    <2>7. CASE FlagLayers(t) = {}
      BY <1>3, <2>4, <2>7 DEF FlagsFit, SettledFits, AboveFits
    <2> QED BY <2>6, <2>7
  <1>5. SamePart(t)
    <2>1. g.ret = "insertMove" => Creating(t)' BY <1>1 DEF Creating
    <2>2. g.ret = "eraseMove" => Marked(t)' BY <1>1 DEF Marked
    <2> QED BY <1>0, <1>1, <2>1, <2>2, PartsApart DEF SamePart
  <1>6. \A n : PrevsFlagged(t, n)' <=> PrevsFlagged(t, n)
    BY <1>3 DEF PrevsFlagged
  <1>7. \A n : /\ HoldsCur(t, n)' <=> g.cur = n
               /\ ~HoldsNext(t, n)' /\ ~HoldsPassed(t, n)'
    BY <1>1 DEF HoldsCur, HoldsNext, HoldsPassed, Held, Stepping, Returns
  <1>8. \A n \in Node : One(n \in more) - One(n \in less) =
                One(HoldsCur(t, n))' + One(HoldsNext(t, n))' + One(HoldsPassed(t, n))'
                    - One(HoldsCur(t, n)) - One(HoldsNext(t, n)) - One(HoldsPassed(t, n))
    BY <1>7 DEF One
  <1>9. \A n \in Node : HoldsCur(t, n)' \/ HoldsNext(t, n)' \/ HoldsPassed(t, n)' => Holds(t, n)
    BY <1>7
  <1>10. LocalsFit(t)'
    <2>1. LocalsFit(t) BY DEF IInv, Fits
    <2>2. Creating(t) => F(t).then = "insertFound" BY <2>1 DEF LocalsFit
    <2>3. Marked(t)' => ~Creating(t)' BY PartsApart
    <2> QED BY <1>1, <1>2, <1>5, <2>1, <2>2, <2>3
        DEF LocalsFit, Placing, Updating, Searching, Inserts, Calling, Returns, SamePart
  <1>11. CurFits(t)'
    <2>1. PICK c : c = F(t)'.cur OBVIOUS
    <2>2. PICK m : m = F(t).node OBVIOUS
    <2>3. c \in Listed /\ m \in Listed /\ Less(c, m) BY <1>2, <2>1, <2>2
    <2>4. Less(c, m)' /\ snode'[c].top = snode[c].top BY <2>3, QuietNodes
    <2>5. Less(F(t).cur, F(t).node)' BY <2>1, <2>2, <2>4 DEF Less
    <2>6. snode'[F(t)'.cur].top >= F(t)'.layer BY <2>1, <2>4
    <2> QED BY <1>1, <2>5, <2>6 DEF CurFits, Placing
  <1>12. NextFits(t)' /\ FoundFits(t)' /\ AgainFits(t)' /\ PlaceFits(t)'
    BY <1>1 DEF NextFits, FoundFits, AgainFits, PlaceFits, Placing, Returns
  <1>13. Fits(t)' BY <1>4, <1>10, <1>11, <1>12 DEF Fits
  <1>14. /\ pc'[t] \notin {"linked", "bypass", "insertCount", "eraseCount"}
         /\ pc'[t] = "link" => F(t)'.layer = 0
    OBVIOUS
  <1> QED BY <1>0, <1>5, <1>6, <1>8, <1>9, <1>13, <1>14, WorkMove

\* The node that a search for a place has found to come next is another one than its own.
LEMMA NextIsOther ==
  ASSUME IInv, NEW t \in Thread, pc[t] \in {"insertMove", "eraseMove"}
  PROVE  /\ Owns(t) /\ Where(t) = pc[t] /\ F(t).layer \in Layer /\ F(t).passed = {}
         /\ pc[t] = "insertMove" => Creating(t) /\ Inserts(t)
         /\ pc[t] = "eraseMove" => Marked(t) /\ ~Inserts(t)
         /\ F(t).cur \in Listed /\ F(t).cur \in Node \cup {head} /\ Less(F(t).cur, F(t).node)
         /\ snode[F(t).cur].top >= F(t).layer
         /\ F(t).next # Null =>
                /\ F(t).next \in Node \cup {tail} /\ F(t).next \in Listed
                /\ F(t).next # head /\ F(t).next # F(t).node /\ F(t).next # F(t).cur
                /\ snode[F(t).next].top >= F(t).layer /\ Less(F(t).cur, F(t).next)
                /\ F(t).next \in Node => Holds(t, F(t).next)
         /\ \A n : /\ HoldsCur(t, n) <=> n = F(t).cur
                   /\ HoldsNext(t, n) <=> n = F(t).next
                   /\ ~HoldsPassed(t, n)
  <1>1. Where(t) = pc[t] /\ Where(t) \in Walking BY DEF Where, Calling, Walking, Stepping
  <1>2. /\ LocalsFit(t) /\ CurFits(t) /\ NextFits(t) /\ FoundFits(t)
    BY DEF IInv, Fits
  <1>3. F(t).layer \in Layer /\ F(t).cur \in Listed BY <1>1, CurListed
  <1>4. pc[t] = "insertMove" => Creating(t) /\ Inserts(t)
    BY <1>1, <1>2 DEF Creating, LocalsFit
  <1>5. Marked(t) => Owns(t) BY DEF Owns, Erases
  <1>6. pc[t] = "eraseMove" => Marked(t) /\ ~Inserts(t)
    BY <1>1, <1>2, <1>5, Owned DEF Marked, LocalsFit, Inserts
  <1>7. Owns(t) BY <1>4, <1>5, <1>6 DEF Owns
  <1>8. /\ F(t).cur \in Node \cup {head} /\ Less(F(t).cur, F(t).node)
        /\ snode[F(t).cur].top >= F(t).layer
    BY <1>1, <1>2 DEF CurFits, Stepping, Walking
  <1>9. F(t).passed = {} BY <1>2 DEF LocalsFit
  <1>10. \A n : /\ HoldsCur(t, n) <=> n = F(t).cur
                /\ HoldsNext(t, n) <=> n = F(t).next
                /\ ~HoldsPassed(t, n)
    BY <1>1, <1>9 DEF HoldsCur, HoldsNext, HoldsPassed, Held, Stepping, Returns
  <1>11. ASSUME F(t).next # Null
         PROVE  /\ F(t).next \in Node \cup {tail} /\ F(t).next \in Listed
                /\ F(t).next # head /\ F(t).next # F(t).node /\ F(t).next # F(t).cur
                /\ snode[F(t).next].top >= F(t).layer /\ Less(F(t).cur, F(t).next)
                /\ F(t).next \in Node => Holds(t, F(t).next)
    <2>1. /\ F(t).next \in Node \cup {tail} /\ Less(F(t).cur, F(t).next)
          /\ snode[F(t).next].top >= F(t).layer
      BY <1>2, <1>11 DEF NextFits, Returns
    <2>2. F(t).next \in Node => Holds(t, F(t).next) BY <1>10 DEF Holds
    <2>3. F(t).next \in Listed /\ (F(t).next \in Node => Visible(F(t).next))
      BY <2>1, <2>2, HeldListed DEF Listed
    <2>4. F(t).next # F(t).cur /\ F(t).next # head BY <1>3, <2>1, <2>3, LessOrder
    <2>5. F(t).next # F(t).node
      <3>1. SUFFICES ASSUME F(t).next = F(t).node PROVE FALSE OBVIOUS
      <3>2. F(t).node \in alloc /\ F(t).node \in Node /\ F(t).node \notin {head, tail}
            /\ Top(t) \in Layer
        BY <1>7, Owned
      <3>3. CASE pc[t] = "insertMove"
        <4>1. Hidden(F(t).node) BY <1>1, <1>4, <3>3 DEF Hidden
        <4> QED BY <2>3, <3>1, <3>2, <4>1 DEF Visible
      <3>4. CASE pc[t] = "eraseMove"
        <4>1. F(t).ret = "eraseMove" BY <3>4, WhereIs DEF Returns
        <4>2. ~(F(t).layer <= Top(t)) BY <1>2, <1>11, <3>1, <3>4, <4>1 DEF FoundFits
        <4>3. Top(t) >= F(t).layer BY <2>1, <3>1 DEF Top
        <4> QED BY <1>3, <3>2, <4>2, <4>3, LayerAssumption DEF Layer
      <3> QED BY <3>3, <3>4
    <2> QED BY <2>1, <2>2, <2>3, <2>4, <2>5
  <1> QED BY <1>1, <1>3, <1>4, <1>6, <1>7, <1>8, <1>9, <1>10, <1>11

\* On which side of its node the next one is.
LEMMA NextSide ==
  ASSUME IInv, NEW t \in Thread, pc[t] \in {"insertMove", "eraseMove"}, F(t).next # Null
  PROVE  /\ Cmp(t, F(t).next) \in {-1, 0, 1}
         /\ Cmp(t, F(t).next) > 0 => Less(F(t).next, F(t).node)
         /\ Cmp(t, F(t).next) < 0 => Less(F(t).node, F(t).next)
         /\ Cmp(t, F(t).next) = 0 => F(t).next # tail
         /\ pc[t] = "eraseMove" /\ F(t).layer <= Top(t) =>
                IF F(t).found THEN Less(F(t).node, F(t).next) ELSE Less(F(t).next, F(t).node)
  <1>1. PICK n : n = F(t).next OBVIOUS
  <1>2. Owns(t) /\ n \in Listed \ {head} /\ n # F(t).node BY <1>1, NextIsOther
  <1>3. /\ Cmp(t, n) > 0 => Less(n, F(t).node)
        /\ Cmp(t, n) < 0 => Less(F(t).node, n)
        /\ Cmp(t, n) = 0 => n # tail
        /\ Cmp(t, n) \in {-1, 0, 1}
    BY <1>2, CmpLess
  <1>4. pc[t] = "eraseMove" /\ F(t).layer <= Top(t) =>
                IF F(t).found THEN Less(F(t).node, F(t).next) ELSE Less(F(t).next, F(t).node)
    <2>1. pc[t] = "eraseMove" => F(t).ret = "eraseMove" BY WhereIs DEF Returns
    <2>2. FoundFits(t) BY DEF IInv, Fits
    <2> QED BY <1>1, <1>2, <2>1, <2>2 DEF FoundFits
  <1> QED BY <1>1, <1>3, <1>4

\* The layers above the one come to are settled.
LEMMA AboveSettled ==
  ASSUME IInv, NEW t \in Thread, pc[t] \in {"insertMove", "eraseMove", "flag", "again"},
         NEW l \in Settled(t)
  PROVE  SettledAt(t, l) /\ Linked(F(t).prevs[l])
  <1>1. SettledFits(t) BY DEF IInv, Fits
  <1>2. ~Half(t, l) /\ pc[t] # "bypass" BY DEF Half
  <1>3. Linked(F(t).prevs[l]) BY SettledFlags, FlaggedIn
  <1> QED BY <1>1, <1>2, <1>3 DEF SettledFits, SettledAt

LEMMA CallNextIs ==
  ASSUME IInv, NEW t \in Thread, NEW f \in FrameType, NEW ret \in Returns, CallNext(t, f, ret),
         NEW more, NEW less, Takes(more, less), UNCHANGED <<alloc, slist>>, UNCHANGED jobs
  PROVE  /\ Quiet(t, more, less) /\ pc'[t] = "next"
         /\ F(t)'.passed = {} /\ ~F(t)'.found /\ F(t)'.ret = ret /\ F(t)'.next = Null
         /\ F(t)'.key = f.key /\ F(t)'.node = f.node /\ F(t)'.cur = f.cur
         /\ F(t)'.layer = f.layer /\ F(t)'.find = f.find /\ F(t)'.mode = f.mode
         /\ F(t)'.cursor = f.cursor /\ F(t)'.prevs = f.prevs /\ F(t)'.nexts = f.nexts
         /\ F(t)'.then = f.then
  <1> DEFINE g == [f EXCEPT !.passed = {}, !.found = FALSE, !.ret = ret, !.next = Null]
  <1>1. g \in FrameType
    <2>1. Null \in Link BY DEF Link
    <2>2. f \in FrameType /\ ret \in Returns OBVIOUS
    <2> QED BY ONLY <2>1, <2>2 DEF FrameType
  <1>2. Go(t, "next", g) BY DEF CallNext
  <1>3. Quiet(t, more, less) /\ F(t)' = g /\ pc'[t] = "next"
    <2>1. "next" \in LabelNames \ {"undefined"} BY DEF LabelNames
    <2>2. jobs' \in [Thread -> Seq(AnyJob)] BY FrameIs
    <2>3. IInv /\ t \in Thread /\ Takes(more, less) /\ UNCHANGED <<alloc, slist>> OBVIOUS
    <2> QED BY ONLY <1>1, <1>2, <2>1, <2>2, <2>3, QuietGo
  <1> QED BY <1>3 DEF FrameType

\* The reference on cur is dropped for the one on the next node.
LEMMA RightStep ==
  ASSUME IInv, NEW t \in Thread, Right(t), pc[t] \in {"insertMove", "eraseMove"},
         F(t).next # Null, Less(F(t).next, F(t).node), F(t).next # tail, UNCHANGED jobs
  PROVE  IInv'
  <1>1. PICK c : c = F(t).cur OBVIOUS
  <1>2. PICK n : n = F(t).next OBVIOUS
  <1>2a. PICK M : M = {} OBVIOUS
  <1>2b. PICK D : D = {c} OBVIOUS
  <1> DEFINE f == [F(t) EXCEPT !.cur = n]
  <1>3. /\ snode' = Dropped({c}) /\ CallNext(t, f, F(t).ret) /\ UNCHANGED <<alloc, slist>>
    BY <1>1, <1>2 DEF Right
  <1>4. Takes(M, D) BY <1>2a, <1>2b, <1>3, FrameIs, DroppedTakes
  <1>5. f \in FrameType /\ F(t).ret \in Returns /\ F(t).ret = pc[t]
    <2>1. F(t) \in FrameType /\ n \in Link BY <1>2, FrameIs
    <2>2. f \in FrameType BY ONLY <2>1 DEF FrameType
    <2>3. F(t).ret = pc[t] BY WhereIs DEF Returns
    <2> QED BY <2>2, <2>3 DEF Returns
  <1>6. /\ Quiet(t, M, D) /\ pc'[t] = "next"
        /\ F(t)'.passed = {} /\ ~F(t)'.found /\ F(t)'.ret = pc[t] /\ F(t)'.next = Null
        /\ F(t)'.key = F(t).key /\ F(t)'.node = F(t).node /\ F(t)'.cur = n
        /\ F(t)'.layer = F(t).layer /\ F(t)'.find = F(t).find
        /\ F(t)'.cursor = F(t).cursor /\ F(t)'.prevs = F(t).prevs /\ F(t)'.nexts = F(t).nexts
        /\ F(t)'.then = F(t).then
    <2>1. /\ Quiet(t, M, D) /\ pc'[t] = "next"
          /\ F(t)'.passed = {} /\ ~F(t)'.found /\ F(t)'.ret = pc[t] /\ F(t)'.next = Null
          /\ F(t)'.key = f.key /\ F(t)'.node = f.node /\ F(t)'.cur = f.cur
          /\ F(t)'.layer = f.layer /\ F(t)'.find = f.find
          /\ F(t)'.cursor = f.cursor /\ F(t)'.prevs = f.prevs /\ F(t)'.nexts = f.nexts
          /\ F(t)'.then = f.then
      <3>1. IInv /\ t \in Thread /\ UNCHANGED jobs OBVIOUS
      <3>2. CallNext(t, f, pc[t]) /\ pc[t] \in Returns BY <1>3, <1>5
      <3> HIDE DEF f
      <3> QED BY ONLY <1>3, <1>4, <1>5, <3>1, <3>2, CallNextIs
    <2>2. F(t) \in FrameType BY FrameIs
    <2> QED BY <2>1, <2>2 DEF FrameType
  <1>7. /\ Owns(t) /\ Where(t) = pc[t] /\ F(t).layer \in Layer /\ F(t).passed = {}
        /\ pc[t] = "insertMove" => Creating(t) /\ Inserts(t)
        /\ pc[t] = "eraseMove" => Marked(t) /\ ~Inserts(t)
        /\ n \in Node \cup {tail} /\ n \in Listed /\ n # head /\ n # c
        /\ snode[n].top >= F(t).layer /\ Less(c, n) /\ (n \in Node => Holds(t, n))
        /\ \A k : /\ HoldsCur(t, k) <=> k = c
                  /\ HoldsNext(t, k) <=> k = n
                  /\ ~HoldsPassed(t, k)
        /\ c \in Listed
    BY <1>1, <1>2, NextIsOther
  <1>8. Where(t) \in {"insertMove", "eraseMove"} /\ LocalsFit(t)
    BY <1>7 DEF IInv, Fits
  <1>9. FlagLayers(t) = F(t).layer + 1 .. Top(t) /\ Settled(t) = FlagLayers(t)
    BY <1>8, LayersAt
  <1>10. \A l \in FlagLayers(t) : SettledAt(t, l) /\ Linked(F(t).prevs[l])
    BY <1>9, AboveSettled
  <1>11. \/ Creating(t) /\ F(t)'.ret = "insertMove" /\ F(t)'.find = Null
         \/ Marked(t) /\ F(t)'.ret = "eraseMove" /\ F(t)'.find = F(t).node
    BY <1>6, <1>7, <1>8 DEF LocalsFit, Inserts
  <1>12. /\ Inserts(t) \/ Marked(t)
         /\ Inserts(t)' <=> Inserts(t)
    BY <1>6, <1>7 DEF Inserts
  <1>13. AboveFits(t)'
    <2>1. F(t).node \in Listed /\ Top(t)' = Top(t)
      <3>1. F(t).node \in Listed BY <1>7, Owned
      <3>2. snode'[F(t).node].top = snode[F(t).node].top BY <1>6, <3>1, QuietNodes
      <3> QED BY <1>6, <3>1, <3>2 DEF Top
    <2>2. SUFFICES ASSUME F(t).layer < Top(t)
                   PROVE  F(t).prevs[F(t).layer + 1] = n \/ Less(F(t).prevs[F(t).layer + 1], n)'
      BY <1>6, <2>1 DEF AboveFits, Less
    <2>3. PICK a : a = F(t).prevs[F(t).layer + 1] OBVIOUS
    <2>4. F(t).layer + 1 \in FlagLayers(t)
      BY <1>7, <1>9, <2>2, Owned, LayerAssumption DEF Layer
    <2>5. a \in Listed BY <2>3, <2>4, Typed DEF IInv, Fits, FlagsFit, Listed
    <2>6. a = c \/ Less(a, c)
      BY <1>1, <1>8, <2>2, <2>3 DEF IInv, Fits, FlagsFit
    <2>7. Less(a, n) BY <1>7, <2>5, <2>6, LessOrder
    <2>8. Less(a, n)' BY <1>6, <1>7, <2>5, <2>7, QuietNodes
    <2> QED BY <1>6, <2>3, <2>8 DEF Less
  <1>14. \A k \in Node : One(k \in M) - One(k \in D) =
                One(F(t)'.cur = k)
                    - One(HoldsCur(t, k)) - One(HoldsNext(t, k)) - One(HoldsPassed(t, k))
    BY <1>2a, <1>2b, <1>6, <1>7 DEF One
  <1>15. Where(t) \in MoveLabels BY <1>8 DEF MoveLabels
  <1>16. n \in Node \cup {head} /\ Less(n, F(t).node) BY <1>2, <1>7
  <1>17. \A l \in FlagLayers(t) :
            /\ F(t)'.prevs[l] = F(t).prevs[l] /\ Linked(F(t).prevs[l])
            /\ F(t)'.nexts[l] = F(t).nexts[l] /\ SettledAt(t, l)
    BY <1>6, <1>10
  <1>18. /\ F(t)'.cur \in Node \cup {head} /\ F(t)'.cur \in Listed
         /\ snode[F(t)'.cur].top >= F(t)'.layer /\ Less(F(t)'.cur, F(t).node)
         /\ F(t)'.cur \in Node => Holds(t, F(t)'.cur)
         /\ FlagLayers(t) = F(t)'.layer + 1 .. Top(t)
    BY <1>6, <1>7, <1>9, <1>16
  <1>19. /\ Quiet(t, M, D) /\ IInv /\ t \in Thread
         /\ F(t)'.node = F(t).node /\ F(t)'.key = F(t).key /\ F(t)'.cursor = F(t).cursor
         /\ F(t)'.then = F(t).then /\ pc'[t] = "next" /\ F(t)'.next = Null
         /\ ~F(t)'.found /\ F(t)'.passed = {} /\ F(t).passed = {}
         /\ FlagLayers(t) # {} => (Inserts(t) \/ Marked(t)) /\ (Inserts(t)' <=> Inserts(t))
    BY <1>6, <1>7, <1>12
  <1>20. MovesOn(t, M, D)
    BY ONLY <1>11, <1>13, <1>14, <1>15, <1>17, <1>18, <1>19 DEF MovesOn
  <1> QED BY <1>19, <1>20, MoveStep

LEMMA InsertRightStep ==
  ASSUME IInv, NEW t \in Thread, InsertRight(t), UNCHANGED jobs
  PROVE  IInv'
  <1>1. pc[t] = "insertMove" /\ F(t).next # Null /\ Cmp(t, F(t).next) > 0 /\ Right(t)
    BY DEF InsertRight, At
  <1>2. Less(F(t).next, F(t).node) BY <1>1, NextSide
  <1>3. F(t).next # tail
    <2>1. F(t).node \in Listed /\ F(t).next \in Listed BY <1>1, NextIsOther, Owned
    <2> QED BY <1>2, <2>1, LessOrder
  <1> QED BY <1>1, <1>2, <1>3, RightStep

LEMMA EraseRightStep ==
  ASSUME IInv, NEW t \in Thread, EraseRight(t), UNCHANGED jobs
  PROVE  IInv'
  <1>1. pc[t] = "eraseMove" /\ F(t).next # Null /\ BeforeNode(t) /\ Right(t)
    BY DEF EraseRight, At
  <1>2. Less(F(t).next, F(t).node) BY <1>1, NextSide DEF BeforeNode
  <1>3. F(t).next # tail
    <2>1. F(t).node \in Listed /\ F(t).next \in Listed BY <1>1, NextIsOther, Owned
    <2> QED BY <1>2, <2>1, LessOrder
  <1> QED BY <1>1, <1>2, <1>3, RightStep

\* Above the top layer of the node the search goes down without a flag.
LEMMA DownStep ==
  ASSUME IInv, NEW t \in Thread, Down(t), pc[t] \in {"insertMove", "eraseMove"},
         F(t).next # Null, F(t).layer > Top(t), UNCHANGED jobs
  PROVE  IInv'
  <1>1. PICK c : c = F(t).cur OBVIOUS
  <1>2. PICK n : n = F(t).next OBVIOUS
  <1>2a. PICK M : M = {} OBVIOUS
  <1>2b. PICK D : D = {n} OBVIOUS
  <1>2c. PICK lower : lower = F(t).layer - 1 OBVIOUS
  <1> DEFINE f == [F(t) EXCEPT !.layer = lower]
  <1>3. /\ snode' = Dropped({n}) /\ CallNext(t, f, F(t).ret) /\ UNCHANGED <<alloc, slist>>
    BY <1>2, <1>2c DEF Down
  <1>4. Takes(M, D) BY <1>2a, <1>2b, <1>3, FrameIs, DroppedTakes
  <1>7. /\ Owns(t) /\ Where(t) = pc[t] /\ F(t).layer \in Layer /\ F(t).passed = {}
        /\ pc[t] = "insertMove" => Creating(t) /\ Inserts(t)
        /\ pc[t] = "eraseMove" => Marked(t) /\ ~Inserts(t)
        /\ c \in Listed /\ c \in Node \cup {head} /\ Less(c, F(t).node)
        /\ snode[c].top >= F(t).layer
        /\ n # c /\ Top(t) \in Layer
        /\ \A k : /\ HoldsCur(t, k) <=> k = c
                  /\ HoldsNext(t, k) <=> k = n
                  /\ ~HoldsPassed(t, k)
    BY <1>1, <1>2, NextIsOther, Owned
  <1>7a. lower \in Layer /\ lower >= Top(t) /\ lower < F(t).layer /\ Top(t) \in Int
    BY <1>2c, <1>7, LayerAssumption DEF Layer
  <1>7b. snode[c].top >= lower
    <2>1. snode[c].top \in Int BY <1>7, Typed, LayerAssumption DEF IInv, NodeType, Layer
    <2> QED BY <1>2c, <1>7, <2>1, LayerAssumption DEF Layer
  <1>5. f \in FrameType /\ F(t).ret \in Returns /\ F(t).ret = pc[t]
    <2>1. F(t) \in FrameType /\ lower \in Layer BY <1>7a, FrameIs
    <2>2. f \in FrameType BY ONLY <2>1 DEF FrameType
    <2>3. F(t).ret = pc[t] BY WhereIs DEF Returns
    <2> QED BY <2>2, <2>3 DEF Returns
  <1>6. /\ Quiet(t, M, D) /\ pc'[t] = "next"
        /\ F(t)'.passed = {} /\ ~F(t)'.found /\ F(t)'.ret = pc[t] /\ F(t)'.next = Null
        /\ F(t)'.key = F(t).key /\ F(t)'.node = F(t).node /\ F(t)'.cur = c
        /\ F(t)'.layer = lower /\ F(t)'.find = F(t).find
        /\ F(t)'.cursor = F(t).cursor /\ F(t)'.then = F(t).then
    <2>1. /\ Quiet(t, M, D) /\ pc'[t] = "next"
          /\ F(t)'.passed = {} /\ ~F(t)'.found /\ F(t)'.ret = pc[t] /\ F(t)'.next = Null
          /\ F(t)'.key = f.key /\ F(t)'.node = f.node /\ F(t)'.cur = f.cur
          /\ F(t)'.layer = f.layer /\ F(t)'.find = f.find
          /\ F(t)'.cursor = f.cursor /\ F(t)'.then = f.then
      <3>1. IInv /\ t \in Thread /\ UNCHANGED jobs OBVIOUS
      <3>2. CallNext(t, f, pc[t]) /\ pc[t] \in Returns BY <1>3, <1>5
      <3> HIDE DEF f
      <3> QED BY ONLY <1>3, <1>4, <1>5, <3>1, <3>2, CallNextIs
    <2>2. F(t) \in FrameType BY FrameIs
    <2> QED BY <1>1, <2>1, <2>2 DEF FrameType
  <1>8. Where(t) \in {"insertMove", "eraseMove"} /\ LocalsFit(t) /\ Where(t) \in MoveLabels
    BY <1>7 DEF IInv, Fits, MoveLabels
  <1>9. FlagLayers(t) = {} /\ FlagLayers(t) = lower + 1 .. Top(t)
    <2>1. FlagLayers(t) = F(t).layer + 1 .. Top(t) BY <1>8, LayersAt
    <2>2. F(t).layer \in Int /\ lower \in Int /\ F(t).layer > Top(t)
      BY <1>7, <1>7a, LayerAssumption DEF Layer
    <2> QED BY <1>7a, <2>1, <2>2
  <1>11. \/ Creating(t) /\ F(t)'.ret = "insertMove" /\ F(t)'.find = Null
         \/ Marked(t) /\ F(t)'.ret = "eraseMove" /\ F(t)'.find = F(t).node
    BY <1>6, <1>7, <1>8 DEF LocalsFit, Inserts
  <1>13. AboveFits(t)'
    <2>1. F(t).node \in Listed BY <1>7, Owned
    <2>2. snode'[F(t).node].top = snode[F(t).node].top BY <1>6, <2>1, QuietNodes
    <2>3. Top(t)' = Top(t) BY <1>6, <2>2 DEF Top
    <2>4. lower \in Int BY <1>7a, LayerAssumption DEF Layer
    <2>5. ~(F(t)'.layer < Top(t)') BY <1>6, <1>7a, <2>3, <2>4
    <2> QED BY <2>5 DEF AboveFits
  <1>14. \A k \in Node : One(k \in M) - One(k \in D) =
                One(F(t)'.cur = k)
                    - One(HoldsCur(t, k)) - One(HoldsNext(t, k)) - One(HoldsPassed(t, k))
    BY <1>2a, <1>2b, <1>6, <1>7 DEF One
  <1>15. F(t)'.cur \in Node => Holds(t, F(t)'.cur) BY <1>6, <1>7 DEF Holds
  <1> HIDE DEF f
  <1>16. MovesOn(t, M, D)
    BY <1>6, <1>7, <1>7b, <1>8, <1>9, <1>11, <1>13, <1>14, <1>15 DEF MovesOn
  <1> QED BY <1>6, <1>16, MoveStep

LEMMA InsertDownStep ==
  ASSUME IInv, NEW t \in Thread, InsertDown(t), UNCHANGED jobs
  PROVE  IInv'
  BY DownStep DEF InsertDown, At

LEMMA EraseDownStep ==
  ASSUME IInv, NEW t \in Thread, EraseDown(t), UNCHANGED jobs
  PROVE  IInv'
  BY DownStep DEF EraseDown, At

LEMMA FromHeadIs ==
  ASSUME IInv, NEW t \in Thread, NEW l \in Layer, NEW find \in Node \cup {Null},
         NEW ret \in Returns, FromHead(t, l, find, ret), UNCHANGED memory, UNCHANGED jobs,
         NEW S, S = {}
  PROVE  /\ Quiet(t, S, S) /\ pc'[t] = "next"
         /\ F(t)'.passed = {} /\ ~F(t)'.found /\ F(t)'.ret = ret /\ F(t)'.next = Null
         /\ F(t)'.key = F(t).key /\ F(t)'.node = F(t).node /\ F(t)'.cur = head
         /\ F(t)'.layer = l /\ F(t)'.find = find /\ F(t)'.cursor = F(t).cursor
         /\ F(t)'.then = F(t).then /\ F(t)'.mode = F(t).mode
  <1> DEFINE f == [F(t) EXCEPT !.cur = head, !.layer = l, !.find = find,
                               !.prevs = EmptyFrame.prevs, !.nexts = EmptyFrame.nexts]
  <1>1. CallNext(t, f, ret) BY DEF FromHead
  <1>2. F(t) \in FrameType BY FrameIs
  <1>3. f \in FrameType
    <2>1. EmptyFrame.prevs \in [Layer -> Link] /\ EmptyFrame.nexts \in [Layer -> Link]
      BY EmptyFrameType DEF Link
    <2>2. head \in Link BY DEF Link, AllNode
    <2> QED BY ONLY <1>2, <2>1, <2>2, l \in Layer, find \in Node \cup {Null} DEF FrameType
  <1>4. Takes(S, S) /\ UNCHANGED <<alloc, slist>> BY FrameIs, NothingTaken DEF memory
  <1>5. /\ f.key = F(t).key /\ f.node = F(t).node /\ f.cur = head /\ f.layer = l
        /\ f.find = find /\ f.cursor = F(t).cursor /\ f.then = F(t).then
        /\ f.mode = F(t).mode
    BY <1>2 DEF FrameType
  <1>6. IInv /\ t \in Thread /\ UNCHANGED jobs /\ ret \in Returns OBVIOUS
  <1>7. /\ Quiet(t, S, S) /\ pc'[t] = "next"
        /\ F(t)'.passed = {} /\ ~F(t)'.found /\ F(t)'.ret = ret /\ F(t)'.next = Null
        /\ F(t)'.key = f.key /\ F(t)'.node = f.node /\ F(t)'.cur = f.cur
        /\ F(t)'.layer = f.layer /\ F(t)'.find = f.find /\ F(t)'.mode = f.mode
        /\ F(t)'.cursor = f.cursor /\ F(t)'.then = f.then
    <2> HIDE DEF f
    <2> QED BY ONLY <1>1, <1>3, <1>4, <1>6, CallNextIs
  <1> HIDE DEF f
  <1> QED BY ONLY <1>5, <1>7

LEMMA StartStep ==
  ASSUME IInv, NEW t \in Thread, pc[t] \in {"insert", "erase"}, NEW find \in Node \cup {Null},
         NEW ret \in Returns, FromHead(t, MaxLayer, find, ret), UNCHANGED memory, UNCHANGED jobs,
         \/ pc[t] = "insert" /\ find = Null /\ ret = "insertMove"
         \/ pc[t] = "erase" /\ find = F(t).node /\ ret = "eraseMove"
  PROVE  IInv'
  <1>1. PICK S : S = {} OBVIOUS
  <1>2. MaxLayer \in Layer BY LayerAssumption DEF Layer
  <1>3. /\ Quiet(t, S, S) /\ pc'[t] = "next"
        /\ F(t)'.passed = {} /\ ~F(t)'.found /\ F(t)'.ret = ret /\ F(t)'.next = Null
        /\ F(t)'.key = F(t).key /\ F(t)'.node = F(t).node /\ F(t)'.cur = head
        /\ F(t)'.layer = MaxLayer /\ F(t)'.find = find /\ F(t)'.cursor = F(t).cursor
        /\ F(t)'.then = F(t).then
    <2>1. /\ IInv /\ t \in Thread /\ find \in Node \cup {Null} /\ ret \in Returns
          /\ FromHead(t, MaxLayer, find, ret) /\ UNCHANGED memory /\ UNCHANGED jobs
      OBVIOUS
    <2> QED BY ONLY <1>1, <1>2, <2>1, FromHeadIs
  <1>4. RestRoles(t) /\ FlagLayers(t) = {} /\ Where(t) = pc[t] /\ F(t).passed = {}
    <2>1. pc[t] \in Rest \cup {"successor", "findMove", "first"} BY DEF Rest
    <2> QED BY <2>1, NoFlagLayers, RestRole
  <1>5. /\ pc[t] = "insert" => Creating(t)
        /\ pc[t] = "erase" => Marked(t)
        /\ Owns(t)
    BY <1>4 DEF RestRoles, Owns, Erases
  <1>6. \A n : ~HoldsCur(t, n) /\ ~HoldsNext(t, n) /\ ~HoldsPassed(t, n)
    BY <1>4 DEF RestRoles
  <1>7. F(t).node \in Listed /\ F(t).node # head /\ Top(t) \in Layer BY <1>5, Owned
  <1>8. Top(t)' = Top(t) /\ Top(t) <= MaxLayer /\ Top(t) \in Int
    <2>1. snode'[F(t).node].top = snode[F(t).node].top BY <1>3, <1>7, QuietNodes
    <2> QED BY <1>3, <1>7, <2>1, LayerAssumption DEF Top, Layer
  <1>9. AboveFits(t)' BY <1>3, <1>8, LayerAssumption DEF AboveFits
  <1>10. FlagLayers(t) = MaxLayer + 1 .. Top(t) BY <1>4, <1>8, LayerAssumption
  <1>11. head \in Listed /\ head \notin Node /\ snode[head].top >= MaxLayer /\ Less(head, F(t).node)
    <2>1. snode[head].top = MaxLayer BY DEF IInv, Ends
    <2> QED BY <1>7, <2>1, NodesAssumption, LayerAssumption DEF Listed, Less
  <1>12. \A n \in Node : One(n \in S) - One(n \in S) =
                One(F(t)'.cur = n)
                    - One(HoldsCur(t, n)) - One(HoldsNext(t, n)) - One(HoldsPassed(t, n))
    BY <1>1, <1>3, <1>6, <1>11 DEF One
  <1>13. Where(t) \in MoveLabels BY <1>4 DEF MoveLabels
  <1>14. \/ Creating(t) /\ F(t)'.ret = "insertMove" /\ F(t)'.find = Null
         \/ Marked(t) /\ F(t)'.ret = "eraseMove" /\ F(t)'.find = F(t).node
    BY <1>3, <1>5
  <1>15. MovesOn(t, S, S)
    BY ONLY <1>3, <1>4, <1>9, <1>10, <1>11, <1>12, <1>13, <1>14 DEF MovesOn
  <1> QED BY <1>3, <1>15, MoveStep

LEMMA InsertStartStep ==
  ASSUME IInv, NEW t \in Thread, InsertStart(t), UNCHANGED jobs
  PROVE  IInv'
  <1>1. pc[t] = "insert" /\ UNCHANGED memory BY DEF InsertStart
  <1>2. RestRoles(t) BY <1>1, NoFlagLayers, RestRole DEF Rest
  <1>3. Owns(t) BY <1>1, <1>2 DEF RestRoles, Owns
  <1>4. Top(t) <= MaxLayer /\ Top(t) \in Int BY <1>3, Owned, LayerAssumption DEF Layer
  <1>5. slist.top = MaxLayer BY DEF IInv, Types
  <1>6. FromHead(t, MaxLayer, Null, "insertMove")
    BY <1>4, <1>5, LayerAssumption DEF InsertStart
  <1>7. Null \in Node \cup {Null} /\ "insertMove" \in Returns BY DEF Returns
  <1> QED BY <1>1, <1>6, <1>7, StartStep

\* A node that is being erased is linked, and slist->top_layer is never below it.
LEMMA EraseStartStep ==
  ASSUME IInv, NEW t \in Thread, EraseStart(t), UNCHANGED jobs
  PROVE  IInv'
  <1>1. pc[t] = "erase" BY DEF EraseStart
  <1>2. RestRoles(t) BY <1>1, NoFlagLayers, RestRole DEF Rest
  <1>3. Marked(t) BY <1>1, <1>2 DEF RestRoles
  <1>4. Linked(F(t).node) /\ Owns(t) BY <1>3, MarkedIn
  <1>5. Top(t) <= MaxLayer /\ Top(t) \in Int /\ F(t).node \in Node
    BY <1>4, Owned, LayerAssumption DEF Layer
  <1>6. slist.top = MaxLayer BY DEF IInv, Types
  <1>7. FromHead(t, MaxLayer, F(t).node, "eraseMove") /\ UNCHANGED memory
    BY <1>4, <1>5, <1>6, LayerAssumption DEF EraseStart, Linked, memory
  <1>8. "eraseMove" \in Returns BY DEF Returns
  <1> QED BY <1>1, <1>5, <1>7, <1>8, StartStep

\* A thread at a place, with a look at the node after it or before one.
LEMMA AtPlace ==
  ASSUME IInv, NEW t \in Thread, pc[t] \in Placing
  PROVE  /\ Owns(t) /\ Where(t) = pc[t] /\ F(t).layer \in Layer /\ F(t).passed = {}
         /\ Inserts(t) => Creating(t)
         /\ ~Inserts(t) => Marked(t) /\ F(t).find = F(t).node
         /\ F(t).cur \in Listed /\ F(t).cur \in Node \cup {head} /\ Less(F(t).cur, F(t).node)
         /\ snode[F(t).cur].top >= F(t).layer /\ F(t).prevs[F(t).layer] = F(t).cur
         /\ F(t).layer <= Top(t)
         /\ \A n : /\ HoldsCur(t, n) <=> n = F(t).cur
                   /\ HoldsNext(t, n) <=> pc[t] = "again" /\ n = F(t).next
                   /\ ~HoldsPassed(t, n)
  <1>1. Where(t) = pc[t] /\ Where(t) \in Walking /\ Where(t) \in Stepping /\ Where(t) \in Placing
    BY DEF Where, Calling, Walking, Stepping, Placing
  <1>2. LocalsFit(t) /\ CurFits(t) BY DEF IInv, Fits
  <1>3. F(t).layer \in Layer /\ F(t).cur \in Listed BY <1>1, CurListed
  <1>4. Inserts(t) => Creating(t) BY <1>1 DEF Creating
  <1>5. ~Inserts(t) => Marked(t) /\ F(t).find = F(t).node
    BY <1>1, <1>2 DEF Marked, LocalsFit, Inserts
  <1>6. Owns(t) BY <1>4, <1>5 DEF Owns, Erases
  <1>7. /\ F(t).cur \in Node \cup {head} /\ snode[F(t).cur].top >= F(t).layer
        /\ Less(F(t).cur, F(t).node) /\ F(t).prevs[F(t).layer] = F(t).cur
    <2>1. Where(t) \in Stepping \ {"findMove"} BY <1>1 DEF Placing
    <2> QED BY <1>1, <1>2, <2>1 DEF CurFits
  <1>8. F(t).layer <= Top(t) /\ F(t).passed = {}
    BY <1>1, <1>2 DEF LocalsFit, Placing
  <1>9. \A n : /\ HoldsCur(t, n) <=> n = F(t).cur
               /\ HoldsNext(t, n) <=> pc[t] = "again" /\ n = F(t).next
               /\ ~HoldsPassed(t, n)
    BY <1>1, <1>8 DEF HoldsCur, HoldsNext, HoldsPassed, Held, Returns, Placing
  <1> QED BY <1>1, <1>3, <1>4, <1>5, <1>6, <1>7, <1>8, <1>9

\* The look has found the same next node: the place is settled.
LEMMA AgainSettled ==
  ASSUME IInv, NEW t \in Thread, pc[t] = "again"
  PROVE  /\ F(t).next # Null /\ F(t).next \in Listed /\ F(t).next \in Node \cup {tail}
         /\ F(t).next # F(t).cur /\ Linked(F(t).cur)
         /\ F(t).next = F(t).nexts[F(t).layer] => SettledAt(t, F(t).layer)
  <1>1. pc[t] \in Placing /\ pc[t] \in Returns BY DEF Placing, Returns
  <1>2. /\ Owns(t) /\ Where(t) = pc[t] /\ F(t).layer \in Layer
        /\ Inserts(t) => Creating(t)
        /\ ~Inserts(t) => Marked(t) /\ F(t).find = F(t).node
        /\ F(t).cur \in Listed /\ Less(F(t).cur, F(t).node)
        /\ F(t).prevs[F(t).layer] = F(t).cur /\ F(t).layer <= Top(t)
    BY <1>1, AtPlace
  <1>3. AgainFits(t) /\ NextFits(t) /\ PlaceFits(t) BY DEF IInv, Fits
  <1>4. F(t).next # Null BY <1>2, <1>3 DEF AgainFits
  <1>5. /\ F(t).next \in Node \cup {tail} /\ Less(F(t).cur, F(t).next)
    BY <1>1, <1>3, <1>4 DEF NextFits
  <1>6. F(t).next \in Listed BY <1>1, <1>4, NextListed
  <1>7. Linked(F(t).cur) /\ F(t).cur \in In(F(t).layer) /\ F(t).cur # tail
    <2>1. F(t).layer \in FlagLayers(t)
      <3>1. FlagLayers(t) = F(t).layer .. Top(t) BY <1>2, LayersAt
      <3>2. F(t).layer \in Int /\ Top(t) \in Int BY <1>2, Owned, LayerAssumption DEF Layer
      <3> QED BY <1>2, <3>1, <3>2
    <2> QED BY <1>2, <2>1, FlaggedIn
  <1>8. F(t).node \in Listed /\ F(t).node # Null BY <1>2, Owned
  <1>9. ASSUME F(t).next = F(t).nexts[F(t).layer]
        PROVE  SettledAt(t, F(t).layer)
    <2>1. PICK l : l = F(t).layer OBVIOUS
    <2>2. PICK c : c = F(t).cur OBVIOUS
    <2>3. PICK m : m = F(t).node OBVIOUS
    <2>4. PICK n : n = F(t).next OBVIOUS
    <2>5. Less(m, n)
      <3>1. n \in alloc \cup {tail} BY <1>5, <1>6, <2>4, NodesAssumption DEF Listed
      <3>2. F(t).nexts[F(t).layer] = n BY <1>9, <2>4
      <3> QED BY <1>1, <1>2, <1>3, <2>3, <3>1, <3>2 DEF PlaceFits
    <2>6. \/ n = NextIn(c, l)
          \/ F(t).find = m /\ NextIn(c, l) = m /\ n = NextIn(m, l)
      BY <1>2, <1>3, <2>1, <2>2, <2>3, <2>4 DEF AgainFits
    <2>7. n # F(t).find BY <1>2, <1>3, <2>4 DEF AgainFits
    <2>8. NextIn(m, l) = n /\ NextIn(c, l) = IF Inserts(t) THEN n ELSE m
      <3>1. CASE Inserts(t)
        <4>1. F(t).find # m BY <1>8, <2>3, <3>1 DEF Inserts
        <4>2. NextIn(m, l) = n
          BY <1>2, <1>3, <1>9, <2>1, <2>3, <2>4, <3>1 DEF PlaceFits, Placing
        <4> QED BY <2>6, <3>1, <4>1, <4>2
      <3>2. CASE ~Inserts(t)
        <4>1. m \in In(l) BY <1>2, <2>1, <2>3, <3>2, MarkedIn
        <4>2. NextIn(c, l) = m \/ Less(NextIn(c, l), m)
          BY <1>2, <1>7, <2>1, <2>2, <2>3, <4>1, InOrder
        <4>3. n # NextIn(c, l)
          <5>1. SUFFICES ASSUME n = NextIn(c, l) PROVE FALSE OBVIOUS
          <5>2. n # m BY <1>2, <2>3, <2>7, <3>2
          <5>3. Less(n, m) BY <4>2, <5>1, <5>2
          <5> QED BY <1>6, <1>8, <2>3, <2>4, <2>5, <5>3, LessOrder
        <4> QED BY <2>6, <3>2, <4>3
      <3> QED BY <3>1, <3>2
    <2> QED BY <1>2, <1>5, <1>9, <2>1, <2>2, <2>3, <2>4, <2>5, <2>8 DEF SettledAt
  <1>10. F(t).next # F(t).cur BY <1>2, <1>5, LessOrder
  <1> QED BY <1>4, <1>5, <1>6, <1>7, <1>9, <1>10

\* The place in this layer is settled, on to the one in the layer below.
LEMMA AgainDownStep ==
  ASSUME IInv, NEW t \in Thread, pc[t] = "again", F(t).next = F(t).nexts[F(t).layer],
         F(t).layer > 0, snode' = Dropped({F(t).next}),
         CallNext(t, [F(t) EXCEPT !.layer = F(t).layer - 1],
                  IF F(t).find = Null THEN "insertMove" ELSE "eraseMove"),
         UNCHANGED <<alloc, slist>>, UNCHANGED jobs
  PROVE  IInv'
  <1>1. PICK c : c = F(t).cur OBVIOUS
  <1>2. PICK n : n = F(t).next OBVIOUS
  <1>2a. PICK M : M = {} OBVIOUS
  <1>2b. PICK D : D = {n} OBVIOUS
  <1>2c. PICK lower : lower = F(t).layer - 1 OBVIOUS
  <1>2d. PICK ret : ret = IF F(t).find = Null THEN "insertMove" ELSE "eraseMove" OBVIOUS
  <1> DEFINE f == [F(t) EXCEPT !.layer = lower]
  <1>3. /\ snode' = Dropped({n}) /\ CallNext(t, f, ret) /\ UNCHANGED <<alloc, slist>>
    BY <1>2, <1>2c, <1>2d
  <1>4. Takes(M, D) BY <1>2a, <1>2b, <1>3, FrameIs, DroppedTakes
  <1>7. /\ Owns(t) /\ Where(t) = pc[t] /\ F(t).layer \in Layer /\ F(t).passed = {}
        /\ Inserts(t) => Creating(t)
        /\ ~Inserts(t) => Marked(t) /\ F(t).find = F(t).node
        /\ c \in Listed /\ c \in Node \cup {head} /\ Less(c, F(t).node)
        /\ snode[c].top >= F(t).layer /\ F(t).prevs[F(t).layer] = c
        /\ F(t).layer <= Top(t)
        /\ \A k : /\ HoldsCur(t, k) <=> k = c
                  /\ HoldsNext(t, k) <=> k = n
                  /\ ~HoldsPassed(t, k)
    <2>1. pc[t] \in Placing BY DEF Placing
    <2> QED BY <1>1, <1>2, <2>1, AtPlace
  <1>7a. lower \in Layer /\ lower + 1 = F(t).layer /\ lower \in Int /\ Top(t) \in Int
         /\ F(t).layer \in Int
    <2>1. Top(t) \in Layer BY <1>7, Owned
    <2> QED BY <1>2c, <1>7, <2>1, LayerAssumption DEF Layer
  <1>7b. snode[c].top >= lower
    <2>1. snode[c].top \in Int BY <1>7, Typed, LayerAssumption DEF IInv, NodeType, Layer
    <2> QED BY <1>7, <1>7a, <2>1
  <1>7c. n # c /\ SettledAt(t, F(t).layer) /\ Linked(c)
    BY <1>1, <1>2, AgainSettled
  <1>5. f \in FrameType /\ ret \in Returns
    <2>1. F(t) \in FrameType /\ lower \in Layer BY <1>7a, FrameIs
    <2>2. f \in FrameType BY ONLY <2>1 DEF FrameType
    <2> QED BY <1>2d, <2>2 DEF Returns
  <1>6. /\ Quiet(t, M, D) /\ pc'[t] = "next"
        /\ F(t)'.passed = {} /\ ~F(t)'.found /\ F(t)'.ret = ret /\ F(t)'.next = Null
        /\ F(t)'.key = F(t).key /\ F(t)'.node = F(t).node /\ F(t)'.cur = c
        /\ F(t)'.layer = lower /\ F(t)'.find = F(t).find
        /\ F(t)'.cursor = F(t).cursor /\ F(t)'.prevs = F(t).prevs /\ F(t)'.nexts = F(t).nexts
        /\ F(t)'.then = F(t).then
    <2>1. /\ Quiet(t, M, D) /\ pc'[t] = "next"
          /\ F(t)'.passed = {} /\ ~F(t)'.found /\ F(t)'.ret = ret /\ F(t)'.next = Null
          /\ F(t)'.key = f.key /\ F(t)'.node = f.node /\ F(t)'.cur = f.cur
          /\ F(t)'.layer = f.layer /\ F(t)'.find = f.find
          /\ F(t)'.cursor = f.cursor /\ F(t)'.prevs = f.prevs /\ F(t)'.nexts = f.nexts
          /\ F(t)'.then = f.then
      <3>1. IInv /\ t \in Thread /\ UNCHANGED jobs OBVIOUS
      <3> HIDE DEF f
      <3> QED BY ONLY <1>3, <1>4, <1>5, <3>1, CallNextIs
    <2>2. F(t) \in FrameType BY FrameIs
    <2> QED BY <1>1, <2>1, <2>2 DEF FrameType
  <1> HIDE DEF f
  <1>8. Where(t) \in {"neighbours", "again"} /\ Where(t) \in MoveLabels
    BY <1>7 DEF MoveLabels
  <1>9. /\ FlagLayers(t) = F(t).layer .. Top(t) /\ Settled(t) = F(t).layer + 1 .. Top(t)
        /\ FlagLayers(t) = lower + 1 .. Top(t)
    BY <1>7a, <1>8, LayersAt
  <1>10. \A l \in FlagLayers(t) : SettledAt(t, l) /\ Linked(F(t).prevs[l])
    <2> TAKE l \in FlagLayers(t)
    <2>1. l = F(t).layer \/ l \in Settled(t) BY <1>7a, <1>9
    <2>2. CASE l = F(t).layer BY <1>7, <1>7c, <2>2
    <2>3. CASE l \in Settled(t) BY <2>3, AboveSettled
    <2> QED BY <2>1, <2>2, <2>3
  <1>11. \/ Creating(t) /\ F(t)'.ret = "insertMove" /\ F(t)'.find = Null
         \/ Marked(t) /\ F(t)'.ret = "eraseMove" /\ F(t)'.find = F(t).node
    BY <1>2d, <1>6, <1>7 DEF Inserts
  <1>12. /\ Inserts(t) \/ Marked(t)
         /\ Inserts(t)' <=> Inserts(t)
    BY <1>6, <1>7 DEF Inserts
  <1>13. AboveFits(t)' BY <1>6, <1>7, <1>7a DEF AboveFits
  <1>14. \A k \in Node : One(k \in M) - One(k \in D) =
                One(F(t)'.cur = k)
                    - One(HoldsCur(t, k)) - One(HoldsNext(t, k)) - One(HoldsPassed(t, k))
    BY <1>2a, <1>2b, <1>6, <1>7, <1>7c DEF One
  <1>17. \A l \in FlagLayers(t) :
            /\ F(t)'.prevs[l] = F(t).prevs[l] /\ Linked(F(t).prevs[l])
            /\ F(t)'.nexts[l] = F(t).nexts[l] /\ SettledAt(t, l)
    BY <1>6, <1>10
  <1>18. /\ F(t)'.cur \in Node \cup {head} /\ F(t)'.cur \in Listed
         /\ snode[F(t)'.cur].top >= F(t)'.layer /\ Less(F(t)'.cur, F(t).node)
         /\ F(t)'.cur \in Node => Holds(t, F(t)'.cur)
         /\ FlagLayers(t) = F(t)'.layer + 1 .. Top(t)
    BY <1>6, <1>7, <1>7b, <1>9 DEF Holds
  <1>19. /\ Quiet(t, M, D) /\ IInv /\ t \in Thread
         /\ F(t)'.node = F(t).node /\ F(t)'.key = F(t).key /\ F(t)'.cursor = F(t).cursor
         /\ F(t)'.then = F(t).then /\ pc'[t] = "next" /\ F(t)'.next = Null
         /\ ~F(t)'.found /\ F(t)'.passed = {} /\ F(t).passed = {}
         /\ FlagLayers(t) # {} => (Inserts(t) \/ Marked(t)) /\ (Inserts(t)' <=> Inserts(t))
    BY <1>6, <1>7, <1>12
  <1>20. MovesOn(t, M, D)
    BY ONLY <1>8, <1>11, <1>13, <1>14, <1>17, <1>18, <1>19 DEF MovesOn
  <1> QED BY <1>19, <1>20, MoveStep

\* All places are settled: insert links its node, erase unlinks it.
LEMMA AgainLinkStep ==
  ASSUME IInv, NEW t \in Thread, pc[t] = "again", F(t).next = F(t).nexts[F(t).layer],
         F(t).layer = 0, snode' = Dropped({F(t).next}),
         Go(t, IF F(t).find = Null THEN "link" ELSE "unlink", F(t)),
         UNCHANGED <<alloc, slist>>, UNCHANGED jobs
  PROVE  IInv'
  <1>1. PICK c : c = F(t).cur OBVIOUS
  <1>2. PICK n : n = F(t).next OBVIOUS
  <1>2a. PICK M : M = {} OBVIOUS
  <1>2b. PICK D : D = {n} OBVIOUS
  <1>2c. PICK label : label = IF F(t).find = Null THEN "link" ELSE "unlink" OBVIOUS
  <1>2d. PICK f : f = F(t) OBVIOUS
  <1>3. Takes(M, D) BY <1>2, <1>2a, <1>2b, FrameIs, DroppedTakes
  <1>4. /\ Quiet(t, M, D) /\ F(t)' = f /\ pc'[t] = label
    <2>1. label \in LabelNames \ {"undefined"} BY <1>2c DEF LabelNames
    <2>2. f \in FrameType /\ jobs' \in [Thread -> Seq(AnyJob)] BY <1>2d, FrameIs
    <2>3. Go(t, label, f) /\ UNCHANGED <<alloc, slist>> BY <1>2c, <1>2d
    <2>4. IInv /\ t \in Thread OBVIOUS
    <2> QED BY ONLY <1>3, <2>1, <2>2, <2>3, <2>4, QuietGo
  <1>5. F(t)' = F(t) BY <1>2d, <1>4
  <1>6. /\ Owns(t) /\ Where(t) = pc[t] /\ F(t).layer \in Layer /\ F(t).passed = {}
        /\ Inserts(t) => Creating(t)
        /\ ~Inserts(t) => Marked(t) /\ F(t).find = F(t).node
        /\ c \in Listed /\ F(t).prevs[F(t).layer] = c /\ F(t).layer <= Top(t)
        /\ \A k : /\ HoldsCur(t, k) <=> k = c
                  /\ HoldsNext(t, k) <=> k = n
                  /\ ~HoldsPassed(t, k)
    <2>1. pc[t] \in Placing BY DEF Placing
    <2> QED BY <1>1, <1>2, <2>1, AtPlace
  <1>7. n # c /\ SettledAt(t, F(t).layer) /\ Linked(c)
    BY <1>1, <1>2, AgainSettled
  <1>8. /\ Top(t)' = Top(t) /\ Top(t) \in Int /\ F(t).node # Null
    <2>1. F(t).node \in Listed /\ F(t).node # Null /\ Top(t) \in Layer BY <1>6, Owned
    <2>2. snode'[F(t).node].top = snode[F(t).node].top BY <1>4, <2>1, QuietNodes
    <2> QED BY <1>5, <2>1, <2>2, LayerAssumption DEF Top, Layer
  <1>9. Where(t)' = label /\ label \in {"link", "unlink"}
    BY <1>2c, <1>4 DEF Where, Calling
  <1>10. /\ FlagLayers(t) = 0 .. Top(t) /\ Settled(t) = 1 .. Top(t)
         /\ FlagLayers(t)' = 0 .. Top(t) /\ Settled(t)' = 0 .. Top(t)
    BY <1>6, <1>8, <1>9, LayersAt
  <1>11. \A l \in FlagLayers(t) : SettledAt(t, l) /\ Linked(F(t).prevs[l])
    <2> TAKE l \in FlagLayers(t)
    <2>1. l = F(t).layer \/ l \in Settled(t) BY <1>10
    <2>2. CASE l = F(t).layer BY <1>6, <1>7, <2>2
    <2>3. CASE l \in Settled(t) BY <2>3, AboveSettled
    <2> QED BY <2>1, <2>2, <2>3
  <1>12. Inserts(t)' <=> Inserts(t) BY <1>5 DEF Inserts
  <1>13. SettledFits(t)' /\ FlagsFit(t)'
    <2>1. \A l \in FlagLayers(t)' :
             /\ F(t)'.prevs[l] = F(t).prevs[l]
             /\ Linked(F(t).prevs[l]) \/ (pc'[t] = "neighbours" /\ l = F(t)'.layer)
      BY <1>5, <1>10, <1>11
    <2>2. \A l \in Settled(t)' : /\ SettledAt(t, l) /\ F(t)'.nexts[l] = F(t).nexts[l]
                                 /\ pc[t] = "neighbours" => l # F(t).layer
      BY <1>5, <1>10, <1>11
    <2>3. FlagLayers(t)' \subseteq FlagLayers(t) /\ Settled(t)' \subseteq FlagLayers(t)'
      BY <1>10
    <2>4. /\ pc[t] # "clear" /\ pc'[t] \notin {"clear", "bypass", "linked"}
          /\ pc'[t] = "link" => F(t)'.layer = 0
      BY <1>4, <1>5, <1>9
    <2>5. AboveFits(t)' BY <1>9 DEF AboveFits
    <2>6. /\ IInv /\ t \in Thread /\ Quiet(t, M, D)
          /\ F(t)'.node = F(t).node /\ (Inserts(t)' <=> Inserts(t)) /\ (Inserts(t) \/ Marked(t))
      BY <1>4, <1>5, <1>6, <1>12
    <2> QED BY ONLY <2>1, <2>2, <2>3, <2>4, <2>5, <2>6, WayFits
  <1>14. SamePart(t)
    <2>1. Where(t) \in WorkLabels /\ Where(t)' \in WorkLabels
      BY <1>6, <1>9 DEF WorkLabels, Placing
    <2>2. /\ Inserts(t) => Creating(t)'
          /\ ~Inserts(t) => Marked(t)'
      BY <1>2c, <1>9 DEF Creating, Marked, Inserts
    <2> QED BY <1>5, <1>6, <2>1, <2>2, PartsApart DEF SamePart
  <1>15. \A k : PrevsFlagged(t, k)' <=> PrevsFlagged(t, k)
    BY <1>5, <1>10 DEF PrevsFlagged
  <1>16. \A k : /\ HoldsCur(t, k)' <=> k = c
                /\ ~HoldsNext(t, k)' /\ ~HoldsPassed(t, k)'
    BY <1>1, <1>4, <1>5, <1>6, <1>9 DEF HoldsCur, HoldsNext, HoldsPassed, Held, Stepping, Returns
  <1>17. \A k \in Node : One(k \in M) - One(k \in D) =
                One(HoldsCur(t, k))' + One(HoldsNext(t, k))' + One(HoldsPassed(t, k))'
                    - One(HoldsCur(t, k)) - One(HoldsNext(t, k)) - One(HoldsPassed(t, k))
    BY <1>2a, <1>2b, <1>6, <1>7, <1>16 DEF One
  <1>18. \A k \in Node : HoldsCur(t, k)' \/ HoldsNext(t, k)' \/ HoldsPassed(t, k)' => Holds(t, k)
    BY <1>6, <1>16 DEF Holds
  <1>19. LocalsFit(t)'
    <2>1. LocalsFit(t) BY DEF IInv, Fits
    <2>2. Creating(t)' => F(t).then = "insertFound"
      BY <1>14, <2>1 DEF LocalsFit, SamePart
    <2>3. label = "link" => Inserts(t) BY <1>2c DEF Inserts
    <2>4. label = "unlink" => F(t).find = F(t).node BY <1>2c, <1>6 DEF Inserts
    <2> QED BY <1>4, <1>5, <1>6, <1>8, <1>9, <1>12, <2>1, <2>2, <2>3, <2>4
        DEF LocalsFit, Placing, Updating, Searching, Calling, Returns
  <1>20. CurFits(t)' BY <1>9 DEF CurFits, Walking, Stepping, Placing
  <1>21. NextFits(t)' /\ FoundFits(t)' /\ AgainFits(t)' /\ PlaceFits(t)'
    <2>1. F(t)'.ret = "again" BY <1>5, WhereIs DEF Returns
    <2> QED BY <1>4, <1>5, <1>9, <2>1 DEF NextFits, FoundFits, AgainFits, PlaceFits, Placing, Returns
  <1>22. Fits(t)' BY <1>13, <1>19, <1>20, <1>21 DEF Fits
  <1>23. /\ pc'[t] \notin {"linked", "bypass", "insertCount", "eraseCount"}
         /\ pc'[t] = "link" => F(t)'.layer = 0
         /\ Where(t) \notin {"link", "linked", "bypass", "insertCount", "eraseCount"}
    BY <1>4, <1>5, <1>6, <1>9
  <1>24. IInv /\ t \in Thread /\ Quiet(t, M, D) BY <1>4
  <1> QED BY ONLY <1>14, <1>15, <1>17, <1>18, <1>22, <1>23, <1>24, WorkMove

\* cur and next are kept as the place in this layer.
LEMMA PlaceStep ==
  ASSUME IInv, NEW t \in Thread, Place(t), pc[t] \in {"insertMove", "eraseMove"},
         F(t).next # Null, F(t).layer <= Top(t), Less(F(t).node, F(t).next), UNCHANGED jobs
  PROVE  IInv'
  <1>1. PICK c : c = F(t).cur OBVIOUS
  <1>2. PICK n : n = F(t).next OBVIOUS
  <1>2a. PICK M : M = {} OBVIOUS
  <1>2b. PICK D : D = {n} OBVIOUS
  <1>2c. PICK l : l = F(t).layer OBVIOUS
  <1>2d. PICK f : f = [F(t) EXCEPT !.prevs[l] = c, !.nexts[l] = n] OBVIOUS
  <1>3. Takes(M, D)
    <2>1. snode' = Dropped({n}) BY <1>2 DEF Place
    <2> QED BY <1>2a, <1>2b, <2>1, FrameIs, DroppedTakes
  <1>6. /\ Owns(t) /\ Where(t) = pc[t] /\ F(t).layer \in Layer /\ F(t).passed = {}
        /\ pc[t] = "insertMove" => Creating(t) /\ Inserts(t)
        /\ pc[t] = "eraseMove" => Marked(t) /\ ~Inserts(t)
        /\ c \in Listed /\ c \in Node \cup {head} /\ Less(c, F(t).node)
        /\ snode[c].top >= F(t).layer
        /\ n \in Node \cup {tail} /\ n \in Listed /\ n # c
        /\ \A k : /\ HoldsCur(t, k) <=> k = c
                  /\ HoldsNext(t, k) <=> k = n
                  /\ ~HoldsPassed(t, k)
    BY <1>1, <1>2, NextIsOther
  <1>4. f \in FrameType /\ f.node = F(t).node /\ f.cur = c /\ f.layer = l /\ f.find = F(t).find
        /\ f.key = F(t).key /\ f.cursor = F(t).cursor /\ f.then = F(t).then
        /\ f.passed = {} /\ f.prevs[l] = c /\ f.nexts[l] = n
        /\ \A k \in Layer \ {l} : f.prevs[k] = F(t).prevs[k] /\ f.nexts[k] = F(t).nexts[k]
    <2>1. F(t) \in FrameType /\ c \in Link /\ n \in Link /\ l \in Layer
      BY <1>1, <1>2, <1>2c, FrameIs
    <2>2. f \in FrameType BY ONLY <1>2d, <2>1 DEF FrameType
    <2> QED BY ONLY <1>1, <1>2c, <1>2d, <1>6, <2>1, <2>2 DEF FrameType
  <1>5. Quiet(t, M, D) /\ F(t)' = f /\ pc'[t] = "flag"
    <2>1. "flag" \in LabelNames \ {"undefined"} BY DEF LabelNames
    <2>2. jobs' \in [Thread -> Seq(AnyJob)] BY FrameIs
    <2>3. Go(t, "flag", f) /\ UNCHANGED <<alloc, slist>>
      BY <1>1, <1>2, <1>2c, <1>2d DEF Place
    <2>4. IInv /\ t \in Thread OBVIOUS
    <2> QED BY ONLY <1>3, <1>4, <2>1, <2>2, <2>3, <2>4, QuietGo
  <1> HIDE <1>2d
  <1>7. Where(t)' = "flag" /\ Where(t) \in {"insertMove", "eraseMove", "flag"} /\ LocalsFit(t)
    BY <1>5, <1>6 DEF Where, Calling, IInv, Fits
  <1>8. /\ Top(t)' = Top(t) /\ Top(t) \in Int /\ F(t).node # Null /\ F(t).node \in Listed
        /\ l \in Int
    <2>1. F(t).node \in Listed /\ F(t).node # Null /\ Top(t) \in Layer BY <1>6, Owned
    <2>2. snode'[F(t).node].top = snode[F(t).node].top BY <1>5, <2>1, QuietNodes
    <2> QED BY <1>2c, <1>4, <1>5, <1>6, <2>1, <2>2, LayerAssumption DEF Top, Layer
  <1>9. Inserts(t)' <=> Inserts(t) BY <1>4, <1>5 DEF Inserts
  <1>10. /\ FlagLayers(t) = l + 1 .. Top(t) /\ Settled(t) = l + 1 .. Top(t)
         /\ FlagLayers(t)' = l + 1 .. Top(t) /\ Settled(t)' = l + 1 .. Top(t)
    BY <1>2c, <1>4, <1>5, <1>7, <1>8, LayersAt
  <1>11. \A k \in FlagLayers(t) :
            /\ SettledAt(t, k) /\ Linked(F(t).prevs[k]) /\ k \in Layer \ {l}
            /\ F(t)'.prevs[k] = F(t).prevs[k] /\ F(t)'.nexts[k] = F(t).nexts[k]
    <2> TAKE k \in FlagLayers(t)
    <2>1. k \in Settled(t) BY <1>10
    <2>2. k \in Layer BY FlagLayer
    <2>3. k # l BY <1>8, <1>10
    <2> QED BY <1>4, <1>5, <2>1, <2>2, <2>3, AboveSettled
  <1>12. AboveFits(t)'
    <2>1. SUFFICES ASSUME l < Top(t)
                   PROVE  F(t)'.prevs[l + 1] = c \/ Less(F(t).prevs[l + 1], c)'
      BY <1>4, <1>5, <1>8 DEF AboveFits, Less
    <2>2. PICK a : a = F(t).prevs[l + 1] OBVIOUS
    <2>3. l + 1 \in FlagLayers(t) BY <1>8, <1>10, <2>1
    <2>4. F(t)'.prevs[l + 1] = a BY <1>11, <2>2, <2>3
    <2>5. a \in Listed BY <2>2, <2>3, Typed DEF IInv, Fits, FlagsFit, Listed
    <2>6. a = c \/ Less(a, c)
      BY <1>1, <1>2c, <1>7, <2>1, <2>2 DEF IInv, Fits, FlagsFit
    <2>7. Less(a, c)' <=> Less(a, c) BY <1>5, <1>6, <2>5, QuietNodes
    <2> QED BY <2>4, <2>6, <2>7 DEF Less
  <1>13. SettledFits(t)' /\ FlagsFit(t)'
    <2>1. \A k \in FlagLayers(t)' :
             /\ F(t)'.prevs[k] = F(t).prevs[k]
             /\ Linked(F(t).prevs[k]) \/ (pc'[t] = "neighbours" /\ k = F(t)'.layer)
      BY <1>10, <1>11
    <2>2. \A k \in Settled(t)' : /\ SettledAt(t, k) /\ F(t)'.nexts[k] = F(t).nexts[k]
                                 /\ pc[t] = "neighbours" => k # F(t).layer
      BY <1>10, <1>11
    <2>3. FlagLayers(t)' \subseteq FlagLayers(t) /\ Settled(t)' \subseteq FlagLayers(t)'
      BY <1>10
    <2>4. /\ pc[t] # "clear" /\ pc'[t] \notin {"clear", "bypass", "linked"}
          /\ pc'[t] = "link" => F(t)'.layer = 0
      BY <1>5
    <2>6. /\ IInv /\ t \in Thread /\ Quiet(t, M, D)
          /\ F(t)'.node = F(t).node /\ (Inserts(t)' <=> Inserts(t)) /\ (Inserts(t) \/ Marked(t))
      BY <1>4, <1>5, <1>6, <1>9
    <2> QED BY ONLY <1>12, <2>1, <2>2, <2>3, <2>4, <2>6, WayFits
  <1>14. SamePart(t)
    <2>1. Where(t) \in WorkLabels /\ Where(t)' \in WorkLabels
      BY <1>7 DEF WorkLabels, Placing
    <2>2. /\ Inserts(t) => Creating(t)'
          /\ ~Inserts(t) => Marked(t)'
      BY <1>7, <1>9 DEF Creating, Marked, Placing
    <2> QED BY <1>4, <1>5, <1>6, <2>1, <2>2, PartsApart DEF SamePart
  <1>15. \A k : PrevsFlagged(t, k)' <=> PrevsFlagged(t, k)
    BY <1>10, <1>11 DEF PrevsFlagged
  <1>16. \A k : /\ HoldsCur(t, k)' <=> k = c
                /\ ~HoldsNext(t, k)' /\ ~HoldsPassed(t, k)'
    BY <1>4, <1>5, <1>7 DEF HoldsCur, HoldsNext, HoldsPassed, Held, Stepping, Returns, Placing
  <1>17. \A k \in Node : One(k \in M) - One(k \in D) =
                One(HoldsCur(t, k))' + One(HoldsNext(t, k))' + One(HoldsPassed(t, k))'
                    - One(HoldsCur(t, k)) - One(HoldsNext(t, k)) - One(HoldsPassed(t, k))
    BY <1>2a, <1>2b, <1>6, <1>16 DEF One
  <1>18. \A k \in Node : HoldsCur(t, k)' \/ HoldsNext(t, k)' \/ HoldsPassed(t, k)' => Holds(t, k)
    BY <1>6, <1>16 DEF Holds
  <1>19. LocalsFit(t)'
    <2>2. Creating(t)' => F(t).then = "insertFound"
      BY <1>7, <1>14 DEF LocalsFit, SamePart
    <2>3. F(t).find \in {Null, F(t).node}
      BY <1>6, <1>7 DEF LocalsFit, Inserts
    <2> QED BY <1>2c, <1>4, <1>5, <1>7, <1>8, <2>2, <2>3
        DEF LocalsFit, Placing, Updating, Searching, Calling, Returns
  <1>20. CurFits(t)'
    <2>1. PICK m : m = F(t).node OBVIOUS
    <2>2. Less(c, m)' /\ snode'[c].top = snode[c].top BY <1>5, <1>6, <1>8, <2>1, QuietNodes
    <2>3. Less(F(t).cur, F(t).node)' BY <1>4, <1>5, <2>1, <2>2 DEF Less
    <2>4. snode'[F(t)'.cur].top >= F(t)'.layer BY <1>2c, <1>4, <1>5, <1>6, <2>2
    <2> QED BY <1>4, <1>5, <1>6, <1>7, <2>3, <2>4 DEF CurFits, Placing
  <1>21. PlaceFits(t)'
    <2>1. PICK m : m = F(t).node OBVIOUS
    <2>2. Less(m, n)' BY <1>2, <1>5, <1>6, <1>8, <2>1, QuietNodes
    <2>3. Less(F(t).node, F(t).nexts[F(t).layer])' BY <1>4, <1>5, <2>1, <2>2 DEF Less
    <2> QED BY <1>4, <1>5, <1>6, <1>7, <2>3 DEF PlaceFits, Placing
  <1>21a. NextFits(t)' /\ FoundFits(t)' /\ AgainFits(t)'
    BY <1>5, <1>7 DEF NextFits, FoundFits, AgainFits, Returns
  <1>22. Fits(t)' BY <1>13, <1>19, <1>20, <1>21, <1>21a DEF Fits
  <1>23. /\ pc'[t] \notin {"linked", "bypass", "insertCount", "eraseCount"}
         /\ pc'[t] = "link" => F(t)'.layer = 0
         /\ Where(t) \notin {"link", "linked", "bypass", "insertCount", "eraseCount"}
    BY <1>5, <1>7
  <1>24. IInv /\ t \in Thread /\ Quiet(t, M, D) BY <1>5
  <1> QED BY ONLY <1>14, <1>15, <1>17, <1>18, <1>22, <1>23, <1>24, WorkMove

LEMMA InsertPlaceStep ==
  ASSUME IInv, NEW t \in Thread, InsertPlace(t), UNCHANGED jobs
  PROVE  IInv'
  <1>1. /\ pc[t] = "insertMove" /\ F(t).next # Null /\ Cmp(t, F(t).next) < 0
        /\ F(t).layer <= Top(t) /\ Place(t)
    BY DEF InsertPlace, At
  <1>2. Less(F(t).node, F(t).next) BY <1>1, NextSide
  <1> QED BY <1>1, <1>2, PlaceStep

LEMMA ErasePlaceStep ==
  ASSUME IInv, NEW t \in Thread, ErasePlace(t), UNCHANGED jobs
  PROVE  IInv'
  <1>1. /\ pc[t] = "eraseMove" /\ F(t).next # Null /\ F(t).found
        /\ F(t).layer <= Top(t) /\ Place(t)
    BY DEF ErasePlace, At, BeforeNode
  <1>2. Less(F(t).node, F(t).next) BY <1>1, NextSide
  <1> QED BY <1>1, <1>2, PlaceStep

-----------------------------------------------------------------------------
(* Taking the flags back. *)

LEMMA GreatestNumber ==
  ASSUME NEW N \in Nat, NEW S, S \subseteq 0 .. N, S # {}
  PROVE  \E x \in S : \A y \in S : y <= x
  <1> DEFINE T == {N - s : s \in S}
  <1>1. T \subseteq Nat /\ T # {}
    <2>1. \A s \in S : N - s \in Nat OBVIOUS
    <2>2. PICK s \in S : TRUE OBVIOUS
    <2>3. N - s \in T OBVIOUS
    <2> QED BY <2>1, <2>3
  <1>2. PICK x \in T : \A y \in T : x <= y
    <2> HIDE DEF T
    <2> QED BY <1>1, LeastNumber
  <1>3. PICK s \in S : x = N - s OBVIOUS
  <1>4. \A y \in S : y <= s
    <2> TAKE y \in S
    <2>1. N - y \in T /\ y \in Int /\ s \in Int OBVIOUS
    <2>2. N - s <= N - y BY <1>2, <1>3, <2>1
    <2> QED BY <2>1, <2>2
  <1> QED BY <1>4

\* Each flagged node is visited once, in the highest of its layers.
LEMMA FlaggedOnce ==
  ASSUME IInv, NEW t \in Thread, Top(t) \in Layer, NEW start \in 0 .. MaxLayer + 1
  PROVE  /\ FlaggedFrom(t, start) \subseteq start .. Top(t)
         /\ FlaggedFrom(t, start) \subseteq Layer
         /\ FlaggedFrom(t, start) = {} <=> start .. Top(t) = {}
         /\ \A k \in start .. Top(t) :
                \E m \in FlaggedFrom(t, start) : F(t).prevs[m] = F(t).prevs[k]
  <1>1. /\ start \in Nat /\ Top(t) \in Nat /\ MaxLayer \in Nat /\ Top(t) <= MaxLayer
        /\ Layer = 0 .. MaxLayer
    BY LayerAssumption DEF Layer
  <1>2. FlaggedFrom(t, start) \subseteq start .. Top(t) BY DEF FlaggedFrom
  <1>3. start .. Top(t) \subseteq Layer BY <1>1
  <1>4. ASSUME NEW k \in start .. Top(t)
        PROVE  \E m \in FlaggedFrom(t, start) : F(t).prevs[m] = F(t).prevs[k]
    <2> DEFINE B == {m \in start .. Top(t) : F(t).prevs[m] = F(t).prevs[k]}
    <2>1. B \subseteq 0 .. MaxLayer /\ B # {} BY <1>1
    <2>2. PICK m \in B : \A y \in B : y <= m
      <3> HIDE DEF B
      <3> QED BY <1>1, <2>1, GreatestNumber
    <2>3. m \in start .. Top(t) /\ m \in Int /\ F(t).prevs[m] = F(t).prevs[k] BY <1>1, <2>2
    <2>4. m = Top(t) \/ F(t).prevs[m] # F(t).prevs[m + 1]
      <3>1. SUFFICES ASSUME m # Top(t), F(t).prevs[m + 1] = F(t).prevs[m] PROVE FALSE OBVIOUS
      <3>2. m + 1 \in start .. Top(t) BY <1>1, <2>3, <3>1
      <3>3. m + 1 \in B BY <2>3, <3>1, <3>2
      <3> QED BY <2>2, <2>3, <3>3
    <2>5. m \in FlaggedFrom(t, start) BY <2>3, <2>4 DEF FlaggedFrom
    <2> QED BY <2>3, <2>5
  <1>5. FlaggedFrom(t, start) = {} <=> start .. Top(t) = {} BY <1>2, <1>4
  <1> QED BY <1>2, <1>3, <1>4, <1>5

\* From layer to layer the nodes visited come closer to the place, strictly.
LEMMA FlaggedApart ==
  ASSUME IInv, NEW t \in Thread, NEW start \in 0 .. MaxLayer + 1, pc[t] # "clear",
         start .. Top(t) \subseteq FlagLayers(t),
         NEW l \in FlaggedFrom(t, start), NEW m \in FlaggedFrom(t, start), l < m
  PROVE  Less(F(t).prevs[m], F(t).prevs[l])
  <1>1. /\ l \in start .. Top(t) /\ m \in start .. Top(t)
        /\ l = Top(t) \/ F(t).prevs[l] # F(t).prevs[l + 1]
    BY DEF FlaggedFrom
  <1>2. l \in FlagLayers(t) /\ m \in FlagLayers(t) BY <1>1
  <1>3. Top(t) \in Int /\ l \in Int /\ m \in Int
    <2>1. Owns(t) BY <1>2, FlagLayer
    <2> QED BY <1>1, <2>1, Owned
  <1>4. l # Top(t) /\ l + 1 \in start .. Top(t) BY <1>1, <1>3
  <1>5. l + 1 \in FlagLayers(t) /\ l < l + 1 BY <1>3, <1>4
  <1>6. FlagsFit(t) BY DEF IInv, Fits
  <1>7. \A k \in FlagLayers(t) : F(t).prevs[k] \in Listed
    BY <1>6 DEF FlagsFit, Listed
  <1>8. Less(F(t).prevs[l + 1], F(t).prevs[l]) BY <1>1, <1>2, <1>4, <1>5, <1>6 DEF FlagsFit
  <1>9. m = l + 1 \/ l + 1 < m BY <1>3
  <1>10. F(t).prevs[m] = F(t).prevs[l + 1] \/ Less(F(t).prevs[m], F(t).prevs[l + 1])
    BY <1>2, <1>5, <1>6, <1>9 DEF FlagsFit
  <1> QED BY <1>2, <1>5, <1>7, <1>8, <1>10, LessOrder

\* What a thread has come to when it takes its flags back.
ClearsOn(t, start, nodes, label) ==
    /\ pc[t] \in {"insertMove", "eraseMove", "flag", "neighbours", "again", "scan", "storeTop"}
    /\ start \in 0 .. MaxLayer + 1
    /\ \/ Creating(t) /\ F(t).find = Null /\ label \in {"insert", "duplicate"}
       \/ Created(t) /\ F(t).find = Null /\ label = "inserted"
       \/ Marked(t) /\ F(t).find = F(t).node /\ label = "erase"
       \/ Erased(t) /\ F(t).find = F(t).node /\ label = "eraseUnflag"
    /\ start .. Top(t) \subseteq FlagLayers(t)
    /\ \A k \in FlagLayers(t) : \E m \in start .. Top(t) : F(t).prevs[m] = F(t).prevs[k]
    /\ \A k \in start .. Top(t) : Linked(F(t).prevs[k]) \/ F(t).prevs[k] = F(t).cur
    /\ F(t).cur \notin nodes /\ F(t).passed = {}
    /\ \A n \in Node : HoldsNext(t, n) <=> n \in nodes

LEMMA ClearsOwn ==
  ASSUME IInv, NEW t \in Thread, NEW start, NEW nodes, NEW label, ClearsOn(t, start, nodes, label)
  PROVE  /\ Owns(t) /\ Top(t) \in Layer /\ F(t).node \in Listed /\ F(t).node # Null
         /\ Where(t) = pc[t] /\ Where(t) \in WorkLabels
         /\ \A n : /\ HoldsCur(t, n) <=> n = F(t).cur
                   /\ ~HoldsPassed(t, n)
         /\ LocalsFit(t)
  <1>1. Owns(t) BY DEF ClearsOn, Owns, Erases
  <1>2. pc[t] \in {"insertMove", "eraseMove", "flag", "neighbours", "again", "scan", "storeTop"}
        /\ F(t).passed = {}
    BY DEF ClearsOn
  <1>3. Where(t) = pc[t] BY <1>2 DEF Where, Calling
  <1>4. \A n : /\ HoldsCur(t, n) <=> n = F(t).cur
               /\ ~HoldsPassed(t, n)
    BY <1>2, <1>3 DEF HoldsCur, HoldsPassed, Held, Stepping, Placing, Updating
  <1>5. Where(t) \in WorkLabels BY <1>2, <1>3 DEF WorkLabels, Placing, Updating
  <1> QED BY <1>1, <1>3, <1>4, <1>5, Owned DEF IInv, Fits

\* There is no flag to take back.
LEMMA ClearNoneStep ==
  ASSUME IInv, NEW t \in Thread, NEW start, NEW nodes, NEW label, ClearsOn(t, start, nodes, label),
         snode' = Dropped(nodes \cup {F(t).cur}), Go(t, label, F(t)), UNCHANGED <<alloc, slist>>,
         UNCHANGED jobs, FlaggedFrom(t, start) = {}
  PROVE  IInv'
  <1>1. PICK c : c = F(t).cur OBVIOUS
  <1>2. PICK M : M = {} OBVIOUS
  <1>3. PICK D : D = nodes \cup {c} OBVIOUS
  <1>4. PICK f : f = F(t) OBVIOUS
  <1>5. /\ Owns(t) /\ Top(t) \in Layer /\ F(t).node \in Listed /\ F(t).node # Null
        /\ Where(t) = pc[t] /\ Where(t) \in WorkLabels
        /\ \A n : /\ HoldsCur(t, n) <=> n = c
                  /\ ~HoldsPassed(t, n)
        /\ LocalsFit(t)
    BY <1>1, ClearsOwn
  <1>6. /\ pc[t] \in {"insertMove", "eraseMove", "flag", "neighbours", "again", "scan", "storeTop"}
        /\ \/ Creating(t) /\ label \in {"insert", "duplicate"}
           \/ Created(t) /\ label = "inserted"
           \/ Marked(t) /\ label = "erase"
           \/ Erased(t) /\ label = "eraseUnflag"
        /\ label \in {"insert", "duplicate", "inserted", "erase", "eraseUnflag"}
        /\ F(t).passed = {} /\ c \notin nodes
        /\ \A n \in Node : HoldsNext(t, n) <=> n \in nodes
    BY <1>1 DEF ClearsOn
  <1>7. Takes(M, D)
    <2>1. snode' = Dropped(D) BY <1>1, <1>3
    <2> QED BY <1>2, <2>1, FrameIs, DroppedTakes
  <1>8. Quiet(t, M, D) /\ F(t)' = f /\ pc'[t] = label
    <2>1. label \in LabelNames \ {"undefined"} BY <1>6 DEF LabelNames
    <2>2. f \in FrameType /\ jobs' \in [Thread -> Seq(AnyJob)] BY <1>4, FrameIs
    <2>3. Go(t, label, f) /\ UNCHANGED <<alloc, slist>> BY <1>4
    <2>4. IInv /\ t \in Thread OBVIOUS
    <2> QED BY ONLY <1>7, <2>1, <2>2, <2>3, <2>4, QuietGo
  <1>9. F(t)' = F(t) BY <1>4, <1>8
  <1>10. FlagLayers(t) = {}
    <2>1. start .. Top(t) = {} BY <1>5, FlaggedOnce DEF ClearsOn
    <2> QED BY <2>1 DEF ClearsOn
  <1>11. RestFits(t)'
    <2>1. pc'[t] \in Rest BY <1>6, <1>8 DEF Rest
    <2>2. Creating(t) => F(t).then = "insertFound" BY <1>5 DEF LocalsFit
    <2>3. label \in {"insert", "duplicate"} => F(t).then = "insertFound"
      BY <1>6, <2>2
    <2>4. F(t).then \in {"insertFound", "eraseFound"} => F(t).key \in Key
      BY <1>5 DEF LocalsFit
    <2> QED BY <1>6, <1>8, <1>9, <2>1, <2>3, <2>4 DEF RestFits
  <1>12. Fits(t)' /\ FlagLayers(t)' = {} /\ Where(t)' = label BY <1>8, <1>11, Resting
  <1>13. SamePart(t)
    <2>1. Where(t)' \in WorkLabels BY <1>6, <1>12 DEF WorkLabels
    <2>2. /\ label \in {"insert", "duplicate"} => Creating(t)'
          /\ label = "inserted" => Created(t)'
          /\ label = "erase" => Marked(t)'
          /\ label = "eraseUnflag" => Erased(t)'
      BY <1>12 DEF Creating, Created, Marked, Erased
    <2>3. \/ Creating(t) /\ Creating(t)'
          \/ Created(t) /\ Created(t)'
          \/ Marked(t) /\ Marked(t)'
          \/ Erased(t) /\ Erased(t)'
      BY <1>6, <2>2
    <2>4. /\ Creating(t)' <=> Creating(t)
          /\ Created(t)' <=> Created(t)
          /\ Marked(t)' <=> Marked(t)
          /\ Erased(t)' <=> Erased(t)
      BY <2>3, PartsApart
    <2> QED BY <1>5, <1>9, <2>1, <2>4 DEF SamePart
  <1>14. \A n : PrevsFlagged(t, n)' <=> PrevsFlagged(t, n)
    BY <1>10, <1>12 DEF PrevsFlagged
  <1>15. \A n : ~HoldsCur(t, n)' /\ ~HoldsNext(t, n)' /\ ~HoldsPassed(t, n)'
    BY <1>6, <1>8, <1>9, <1>12
        DEF HoldsCur, HoldsNext, HoldsPassed, Held, Stepping, Placing, Updating, Returns
  <1>16. \A n \in Node : One(n \in M) - One(n \in D) =
                One(HoldsCur(t, n))' + One(HoldsNext(t, n))' + One(HoldsPassed(t, n))'
                    - One(HoldsCur(t, n)) - One(HoldsNext(t, n)) - One(HoldsPassed(t, n))
    <2> TAKE n \in Node
    <2>1. n \in D <=> n \in nodes \/ n = c BY <1>3
    <2>2. n \in nodes => n # c BY <1>6
    <2> QED BY <1>2, <1>5, <1>6, <1>15, <2>1, <2>2 DEF One
  <1>17. \A n \in Node : HoldsCur(t, n)' \/ HoldsNext(t, n)' \/ HoldsPassed(t, n)' => Holds(t, n)
    BY <1>15
  <1>18. /\ pc'[t] \notin {"linked", "bypass", "insertCount", "eraseCount"}
         /\ pc'[t] = "link" => F(t)'.layer = 0
         /\ Where(t) \notin {"link", "linked", "bypass", "insertCount", "eraseCount"}
    BY <1>5, <1>6, <1>8
  <1>19. IInv /\ t \in Thread /\ Quiet(t, M, D) /\ Fits(t)' BY <1>8, <1>12
  <1> QED BY ONLY <1>13, <1>14, <1>16, <1>17, <1>18, <1>19, WorkMove

\* It starts to take them back.
LEMMA ClearSomeStep ==
  ASSUME IInv, NEW t \in Thread, NEW start, NEW nodes, NEW label, ClearsOn(t, start, nodes, label),
         snode' = Dropped(nodes),
         Go(t, "clear", [F(t) EXCEPT !.clearing = FlaggedFrom(t, start), !.resume = label]),
         UNCHANGED <<alloc, slist>>, UNCHANGED jobs, FlaggedFrom(t, start) # {}
  PROVE  IInv'
  <1>1. PICK c : c = F(t).cur OBVIOUS
  <1>2. PICK M : M = {} OBVIOUS
  <1>3. PICK D : D = nodes OBVIOUS
  <1>3a. PICK S : S = FlaggedFrom(t, start) OBVIOUS
  <1>4. PICK f : f = [F(t) EXCEPT !.clearing = S, !.resume = label] OBVIOUS
  <1>5. /\ Owns(t) /\ Top(t) \in Layer /\ F(t).node \in Listed /\ F(t).node # Null
        /\ Where(t) = pc[t] /\ Where(t) \in WorkLabels
        /\ \A n : /\ HoldsCur(t, n) <=> n = c
                  /\ ~HoldsPassed(t, n)
        /\ LocalsFit(t)
    BY <1>1, ClearsOwn
  <1>6. /\ pc[t] \in {"insertMove", "eraseMove", "flag", "neighbours", "again", "scan", "storeTop"}
        /\ \/ Creating(t) /\ F(t).find = Null /\ label \in {"insert", "duplicate"}
           \/ Created(t) /\ F(t).find = Null /\ label = "inserted"
           \/ Marked(t) /\ F(t).find = F(t).node /\ label = "erase"
           \/ Erased(t) /\ F(t).find = F(t).node /\ label = "eraseUnflag"
        /\ label \in {"insert", "duplicate", "inserted", "erase", "eraseUnflag"}
        /\ F(t).passed = {} /\ c \notin nodes
        /\ \A n \in Node : HoldsNext(t, n) <=> n \in nodes
        /\ start \in 0 .. MaxLayer + 1 /\ start .. Top(t) \subseteq FlagLayers(t)
        /\ \A k \in FlagLayers(t) : \E m \in start .. Top(t) : F(t).prevs[m] = F(t).prevs[k]
        /\ \A k \in start .. Top(t) : Linked(F(t).prevs[k]) \/ F(t).prevs[k] = c
    BY <1>1 DEF ClearsOn
  <1>7. Takes(M, D)
    BY <1>2, <1>3, FrameIs, DroppedTakes
  <1>8. /\ S \subseteq start .. Top(t) /\ S \subseteq Layer /\ S # {}
        /\ \A k \in start .. Top(t) : \E m \in S : F(t).prevs[m] = F(t).prevs[k]
    BY <1>3a, <1>5, <1>6, FlaggedOnce
  <1>9. f \in FrameType /\ f.node = F(t).node /\ f.cur = c /\ f.layer = F(t).layer
        /\ f.find = F(t).find /\ f.key = F(t).key /\ f.cursor = F(t).cursor /\ f.then = F(t).then
        /\ f.passed = {} /\ f.prevs = F(t).prevs /\ f.nexts = F(t).nexts
        /\ f.clearing = S /\ f.resume = label
    <2>1. F(t) \in FrameType /\ label \in Resumes \cup {"idle"} /\ S \in SUBSET Layer
      BY <1>6, <1>8, FrameIs DEF Resumes
    <2>2. f \in FrameType BY ONLY <1>4, <2>1 DEF FrameType
    <2> QED BY ONLY <1>1, <1>4, <1>6, <2>1, <2>2 DEF FrameType
  <1>10. Quiet(t, M, D) /\ F(t)' = f /\ pc'[t] = "clear"
    <2>1. "clear" \in LabelNames \ {"undefined"} BY DEF LabelNames
    <2>2. f \in FrameType /\ jobs' \in [Thread -> Seq(AnyJob)] BY <1>9, FrameIs
    <2>3. Go(t, "clear", f) /\ UNCHANGED <<alloc, slist>> BY <1>3a, <1>4
    <2>4. IInv /\ t \in Thread OBVIOUS
    <2> QED BY ONLY <1>7, <2>1, <2>2, <2>3, <2>4, QuietGo
  <1> HIDE <1>4
  <1>11. Where(t)' = "clear" BY <1>10 DEF Where, Calling
  <1>12. FlagLayers(t)' = S /\ Settled(t)' = {} BY <1>9, <1>10, <1>11, LayersAt
  <1>13. Top(t)' = Top(t)
    <2>1. snode'[F(t).node].top = snode[F(t).node].top BY <1>5, <1>10, QuietNodes
    <2> QED BY <1>9, <1>10, <2>1 DEF Top
  <1>14. SamePart(t)
    <2>1. Where(t)' \in WorkLabels BY <1>11 DEF WorkLabels
    <2>2. /\ label \in {"insert", "duplicate"} => Creating(t)'
          /\ label = "inserted" => Created(t)'
          /\ label = "erase" => Marked(t)'
          /\ label = "eraseUnflag" => Erased(t)'
      BY <1>9, <1>10, <1>11 DEF Creating, Created, Marked, Erased
    <2>3. \/ Creating(t) /\ Creating(t)'
          \/ Created(t) /\ Created(t)'
          \/ Marked(t) /\ Marked(t)'
          \/ Erased(t) /\ Erased(t)'
      BY <1>6, <2>2
    <2>4. /\ Creating(t)' <=> Creating(t)
          /\ Created(t)' <=> Created(t)
          /\ Marked(t)' <=> Marked(t)
          /\ Erased(t)' <=> Erased(t)
      BY <2>3, PartsApart
    <2> QED BY <1>5, <1>9, <1>10, <2>1, <2>4 DEF SamePart
  <1>15. \A n : PrevsFlagged(t, n)' <=> PrevsFlagged(t, n)
    <2> TAKE n
    <2>1. PrevsFlagged(t, n)' <=> \E m \in S : F(t).prevs[m] = n
      BY <1>9, <1>10, <1>12 DEF PrevsFlagged
    <2>2. PrevsFlagged(t, n) <=> \E m \in FlagLayers(t) : F(t).prevs[m] = n
      BY DEF PrevsFlagged
    <2>3. S \subseteq FlagLayers(t) BY <1>6, <1>8
    <2>4. \A k \in FlagLayers(t) : \E m \in S : F(t).prevs[m] = F(t).prevs[k]
      BY <1>6, <1>8
    <2> QED BY <2>1, <2>2, <2>3, <2>4
  <1>16. \A n : /\ HoldsCur(t, n)' <=> n = c
                /\ ~HoldsNext(t, n)' /\ ~HoldsPassed(t, n)'
    BY <1>9, <1>10, <1>11 DEF HoldsCur, HoldsNext, HoldsPassed, Held, Returns
  <1>17. \A n \in Node : One(n \in M) - One(n \in D) =
                One(HoldsCur(t, n))' + One(HoldsNext(t, n))' + One(HoldsPassed(t, n))'
                    - One(HoldsCur(t, n)) - One(HoldsNext(t, n)) - One(HoldsPassed(t, n))
    BY <1>2, <1>3, <1>5, <1>6, <1>16 DEF One
  <1>18. \A n \in Node : HoldsCur(t, n)' \/ HoldsNext(t, n)' \/ HoldsPassed(t, n)' => Holds(t, n)
    BY <1>5, <1>16 DEF Holds
  <1>19. FlagsFit(t)'
    <2>0. FlagsFit(t) BY DEF IInv, Fits
    <2>1. ASSUME NEW l \in S
          PROVE  /\ F(t).prevs[l] \in alloc' \cup {head} /\ snode'[F(t).prevs[l]].top >= l
                 /\ Less(F(t).prevs[l], F(t).node)'
                 /\ Linked(F(t).prevs[l])' \/ F(t).prevs[l] = c
      <3>1. l \in FlagLayers(t) BY <1>6, <1>8, <2>1
      <3>2. F(t).prevs[l] \in alloc \cup {head} /\ snode[F(t).prevs[l]].top >= l
            /\ Less(F(t).prevs[l], F(t).node)
        BY <2>0, <3>1 DEF FlagsFit
      <3>3. PICK p : p = F(t).prevs[l] OBVIOUS
      <3>4. PICK m : m = F(t).node OBVIOUS
      <3>5. p \in Listed /\ m \in Listed BY <1>5, <3>2, <3>3, <3>4 DEF Listed
      <3>6. /\ alloc' = alloc /\ snode'[p].top = snode[p].top /\ (Linked(p)' <=> Linked(p))
            /\ Less(p, m)' <=> Less(p, m)
        BY <1>10, <3>5, QuietNodes
      <3>7. Less(F(t).prevs[l], F(t).node)'
        BY <1>9, <1>10, <3>2, <3>3, <3>4, <3>6 DEF Less
      <3>8. Linked(F(t).prevs[l])' \/ F(t).prevs[l] = c
        <4>1. Linked(F(t).prevs[l]) \/ F(t).prevs[l] = c BY <1>6, <1>8
        <4> QED BY <1>9, <1>10, <3>3, <3>6, <4>1 DEF Linked
      <3> QED BY <3>2, <3>3, <3>6, <3>7, <3>8
    <2>2. ASSUME NEW l \in S, NEW m \in S, l < m
          PROVE  Less(F(t).prevs[m], F(t).prevs[l])'
      <3>1. Less(F(t).prevs[m], F(t).prevs[l])
        <4>1. pc[t] # "clear" BY <1>6
        <4> QED BY <1>3a, <1>6, <2>2, <4>1, FlaggedApart
      <3>2. PICK p : p = F(t).prevs[m] OBVIOUS
      <3>3. PICK q : q = F(t).prevs[l] OBVIOUS
      <3>4. p \in Listed /\ q \in Listed
        BY <1>6, <1>8, <2>0, <2>2, <3>2, <3>3 DEF FlagsFit, Listed
      <3>5. Less(p, q)' BY <1>10, <3>1, <3>2, <3>3, <3>4, QuietNodes
      <3> QED BY <1>9, <1>10, <3>2, <3>3, <3>5 DEF Less
    <2>3. F(t)'.clearing # {} /\ F(t)'.clearing \subseteq 0 .. Top(t)'
      <3>1. start .. Top(t) \subseteq 0 .. Top(t)
        BY <1>5, <1>6, LayerAssumption DEF Layer
      <3> QED BY <1>8, <1>9, <1>10, <1>13, <3>1
    <2>4. F(t)'.prevs = F(t).prevs /\ F(t)'.cur = c BY <1>9, <1>10
    <2> QED BY <1>10, <1>11, <1>12, <2>1, <2>2, <2>3, <2>4 DEF FlagsFit
  <1>20. SettledFits(t)' BY <1>12 DEF SettledFits
  <1>21. LocalsFit(t)'
    <2>1. Creating(t) => F(t).then = "insertFound" BY <1>5 DEF LocalsFit
    <2>2. Creating(t)' => F(t).then = "insertFound" BY <1>14, <2>1 DEF SamePart
    <2>3. label \in Resumes /\ F(t).find = IF label \in {"erase", "eraseUnflag"} THEN F(t).node
                                           ELSE Null
      BY <1>6 DEF Resumes
    <2> QED BY <1>5, <1>9, <1>10, <1>11, <2>2, <2>3
        DEF LocalsFit, Placing, Updating, Searching, Calling, Returns
  <1>22. CurFits(t)' /\ NextFits(t)' /\ FoundFits(t)' /\ AgainFits(t)' /\ PlaceFits(t)'
    BY <1>10, <1>11 DEF CurFits, NextFits, FoundFits, AgainFits, PlaceFits, Walking, Stepping,
                        Placing, Returns
  <1>23. Fits(t)' BY <1>19, <1>20, <1>21, <1>22 DEF Fits
  <1>24. /\ pc'[t] \notin {"linked", "bypass", "insertCount", "eraseCount"}
         /\ pc'[t] = "link" => F(t)'.layer = 0
         /\ Where(t) \notin {"link", "linked", "bypass", "insertCount", "eraseCount"}
    BY <1>5, <1>6, <1>10
  <1>25. IInv /\ t \in Thread /\ Quiet(t, M, D) BY <1>10
  <1> QED BY ONLY <1>14, <1>15, <1>17, <1>18, <1>23, <1>24, <1>25, WorkMove

LEMMA ClearStep ==
  ASSUME IInv, NEW t \in Thread, NEW start, NEW nodes, NEW label, ClearsOn(t, start, nodes, label),
         ClearFlags(t, start, nodes, label), UNCHANGED jobs
  PROVE  IInv'
  <1>1. CASE FlaggedFrom(t, start) = {} BY <1>1, ClearNoneStep DEF ClearFlags
  <1>2. CASE FlaggedFrom(t, start) # {} BY <1>2, ClearSomeStep DEF ClearFlags
  <1> QED BY <1>1, <1>2

\* On the way to a place the flags are those of the layers above.
LEMMA AboveClears ==
  ASSUME IInv, NEW t \in Thread, pc[t] \in {"insertMove", "eraseMove", "flag"},
         NEW nodes, \A n \in Node : HoldsNext(t, n) <=> n \in nodes, F(t).cur \notin nodes,
         NEW label,
         \/ Creating(t) /\ F(t).find = Null /\ label \in {"insert", "duplicate"}
         \/ Marked(t) /\ F(t).find = F(t).node /\ label = "erase"
  PROVE  ClearsOn(t, F(t).layer + 1, nodes, label)
  <1>1. Where(t) = pc[t] BY DEF Where, Calling
  <1>2. /\ FlagLayers(t) = F(t).layer + 1 .. Top(t)
        /\ Settled(t) = F(t).layer + 1 .. Top(t)
    BY <1>1, LayersAt
  <1>3. \A k \in FlagLayers(t) : Linked(F(t).prevs[k]) BY <1>2, AboveSettled
  <1>4. F(t).layer + 1 \in 0 .. MaxLayer + 1
    BY FrameIs, LayerAssumption DEF Layer
  <1>5. F(t).passed = {} BY DEF IInv, Fits, LocalsFit
  <1> QED BY <1>2, <1>3, <1>4, <1>5 DEF ClearsOn

LEMMA RetryStep ==
  ASSUME IInv, NEW t \in Thread, InsertRetry(t) \/ EraseRetry(t), UNCHANGED jobs
  PROVE  IInv'
  <1>1. PICK N : N = {} OBVIOUS
  <1>2. PICK label : label = IF pc[t] = "insertMove" THEN "insert" ELSE "erase" OBVIOUS
  <1>3. /\ pc[t] \in {"insertMove", "eraseMove"} /\ F(t).next = Null
        /\ ClearFlags(t, F(t).layer + 1, N, label)
    BY <1>1, <1>2 DEF InsertRetry, EraseRetry
  <1>4. /\ pc[t] = "insertMove" => Creating(t) /\ Inserts(t)
        /\ pc[t] = "eraseMove" => Marked(t) /\ ~Inserts(t)
        /\ \A n : HoldsNext(t, n) <=> n = F(t).next
    BY <1>3, NextIsOther
  <1>5. pc[t] = "eraseMove" => F(t).find = F(t).node
    <2>1. pc[t] = "eraseMove" => Where(t) = "eraseMove" BY DEF Where, Calling
    <2> QED BY <2>1 DEF IInv, Fits, LocalsFit
  <1>6. \A n \in Node : HoldsNext(t, n) <=> n \in N BY <1>1, <1>3, <1>4, FrameIs
  <1>7. \/ Creating(t) /\ F(t).find = Null /\ label \in {"insert", "duplicate"}
        \/ Marked(t) /\ F(t).find = F(t).node /\ label = "erase"
    BY <1>2, <1>3, <1>4, <1>5 DEF Inserts
  <1>8. ClearsOn(t, F(t).layer + 1, N, label) BY <1>1, <1>3, <1>6, <1>7, AboveClears
  <1>9. IInv /\ t \in Thread /\ UNCHANGED jobs OBVIOUS
  <1> QED BY ONLY <1>3, <1>8, <1>9, ClearStep

LEMMA InsertDuplicateStep ==
  ASSUME IInv, NEW t \in Thread, InsertDuplicate(t), UNCHANGED jobs
  PROVE  IInv'
  <1>1. PICK N : N = {F(t).next} OBVIOUS
  <1>3. /\ pc[t] = "insertMove" /\ F(t).next # Null
        /\ ClearFlags(t, F(t).layer + 1, N, "duplicate")
    BY <1>1 DEF InsertDuplicate, At
  <1>4. /\ Creating(t) /\ F(t).find = Null /\ F(t).next # F(t).cur
        /\ \A n \in Node : HoldsNext(t, n) <=> n \in N
    BY <1>1, <1>3, NextIsOther DEF Inserts
  <1>5. F(t).cur \notin N BY <1>1, <1>4
  <1>8. ClearsOn(t, F(t).layer + 1, N, "duplicate")
    <2> HIDE <1>1
    <2> QED BY <1>3, <1>4, <1>5, AboveClears
  <1>9. IInv /\ t \in Thread /\ UNCHANGED jobs OBVIOUS
  <1> QED BY ONLY <1>3, <1>8, <1>9, ClearStep

\* Insert or erase starts over.
LEMMA RetryLabel ==
  ASSUME IInv, NEW t \in Thread, pc[t] \in Placing
  PROVE  \/ Creating(t) /\ F(t).find = Null /\ Retry(t) \in {"insert", "duplicate"}
         \/ Marked(t) /\ F(t).find = F(t).node /\ Retry(t) = "erase"
  <1>1. /\ Inserts(t) => Creating(t)
        /\ ~Inserts(t) => Marked(t) /\ F(t).find = F(t).node
    BY AtPlace
  <1> QED BY <1>1 DEF Inserts, Retry

\* Another thread has flagged the node.
LEMMA FlagFailStep ==
  ASSUME IInv, NEW t \in Thread, pc[t] = "flag", ClearFlags(t, F(t).layer + 1, {}, Retry(t)),
         UNCHANGED jobs
  PROVE  IInv'
  <1>1. PICK N : N = {} OBVIOUS
  <1>2. pc[t] \in Placing BY DEF Placing
  <1>3. \A n \in Node : HoldsNext(t, n) <=> n \in N BY <1>1, <1>2, AtPlace
  <1>4. ClearsOn(t, F(t).layer + 1, N, Retry(t))
    <2>1. F(t).cur \notin N BY <1>1
    <2> QED BY <1>2, <1>3, <2>1, RetryLabel, AboveClears
  <1>5. ClearFlags(t, F(t).layer + 1, N, Retry(t)) BY <1>1
  <1>9. IInv /\ t \in Thread /\ UNCHANGED jobs OBVIOUS
  <1> QED BY ONLY <1>4, <1>5, <1>9, ClearStep

\* The next node is another one than before.
LEMMA AgainFailStep ==
  ASSUME IInv, NEW t \in Thread, pc[t] = "again",
         ClearFlags(t, F(t).layer, {F(t).next}, Retry(t)), UNCHANGED jobs
  PROVE  IInv'
  <1>1. PICK N : N = {F(t).next} OBVIOUS
  <1>2. pc[t] \in Placing BY DEF Placing
  <1>3. /\ Where(t) = "again" /\ F(t).passed = {} /\ F(t).layer \in Layer
        /\ \A n \in Node : HoldsNext(t, n) <=> n \in N
    BY <1>1, <1>2, AtPlace
  <1>4. F(t).cur \notin N BY <1>1, AgainSettled
  <1>5. FlagLayers(t) = F(t).layer .. Top(t) BY <1>3, LayersAt
  <1>6. \A k \in FlagLayers(t) : Linked(F(t).prevs[k]) BY FlaggedIn
  <1>7. F(t).layer \in 0 .. MaxLayer + 1 BY <1>3, LayerAssumption DEF Layer
  <1>8. ClearsOn(t, F(t).layer, N, Retry(t))
    BY <1>2, <1>3, <1>4, <1>5, <1>6, <1>7, RetryLabel DEF ClearsOn
  <1>9. IInv /\ t \in Thread /\ UNCHANGED jobs /\ ClearFlags(t, F(t).layer, N, Retry(t)) BY <1>1
  <1> QED BY ONLY <1>8, <1>9, ClearStep

LEMMA AgainStep ==
  ASSUME IInv, NEW t \in Thread, Again(t), UNCHANGED jobs
  PROVE  IInv'
  <1>1. pc[t] = "again" /\ F(t).next # Null BY AgainSettled DEF Again
  <1>2. CASE F(t).next # F(t).nexts[F(t).layer]
    BY <1>1, <1>2, AgainFailStep DEF Again
  <1>3. CASE F(t).next = F(t).nexts[F(t).layer] /\ F(t).layer > 0
    BY <1>1, <1>3, AgainDownStep DEF Again
  <1>4. CASE F(t).next = F(t).nexts[F(t).layer] /\ ~(F(t).layer > 0)
    <2>1. F(t).layer = 0 BY <1>4, FrameIs, LayerAssumption DEF Layer
    <2> QED BY <1>1, <1>4, <2>1, AgainLinkStep DEF Again
  <1> QED BY <1>2, <1>3, <1>4

\* The node before the place, or the one after it, is not linked any more.
LEMMA NeighboursFailStep ==
  ASSUME IInv, NEW t \in Thread, pc[t] = "neighbours",
         ClearFlags(t, IF SameAsAbove(t) THEN F(t).layer + 1 ELSE F(t).layer, {}, Retry(t)),
         UNCHANGED jobs
  PROVE  IInv'
  <1>1. PICK N : N = {} OBVIOUS
  <1>2. PICK start : start = IF SameAsAbove(t) THEN F(t).layer + 1 ELSE F(t).layer OBVIOUS
  <1>3. pc[t] \in Placing BY DEF Placing
  <1>4. /\ Where(t) = "neighbours" /\ F(t).passed = {} /\ F(t).layer \in Layer
        /\ F(t).prevs[F(t).layer] = F(t).cur /\ Owns(t) /\ F(t).layer <= Top(t)
        /\ \A n \in Node : HoldsNext(t, n) <=> n \in N
    BY <1>1, <1>3, AtPlace
  <1>5. FlagLayers(t) = F(t).layer .. Top(t) BY <1>4, LayersAt
  <1>6. F(t).layer \in Nat /\ F(t).layer <= MaxLayer /\ MaxLayer \in Nat /\ Top(t) \in Int
    BY <1>4, Owned, LayerAssumption DEF Layer
  <1>7. start \in 0 .. MaxLayer + 1 /\ start .. Top(t) \subseteq FlagLayers(t)
    BY <1>2, <1>5, <1>6
  <1>8. \A k \in FlagLayers(t) : \E m \in start .. Top(t) : F(t).prevs[m] = F(t).prevs[k]
    <2> TAKE k \in FlagLayers(t)
    <2>1. CASE k \in start .. Top(t) BY <2>1
    <2>2. CASE k \notin start .. Top(t)
      <3>1. SameAsAbove(t) /\ k = F(t).layer /\ start = F(t).layer + 1
        BY <1>2, <1>5, <1>6, <2>2
      <3>2. start \in start .. Top(t) /\ F(t).prevs[start] = F(t).prevs[k]
        BY <1>4, <1>6, <3>1 DEF SameAsAbove
      <3> QED BY <3>2
    <2> QED BY <2>1, <2>2
  <1>9. \A k \in start .. Top(t) : Linked(F(t).prevs[k]) \/ F(t).prevs[k] = F(t).cur
    <2> TAKE k \in start .. Top(t)
    <2>1. k \in FlagLayers(t) BY <1>7
    <2>2. CASE k = F(t).layer BY <1>4, <2>2
    <2>3. CASE k # F(t).layer BY <2>1, <2>3, FlaggedIn
    <2> QED BY <2>2, <2>3
  <1>10. ClearsOn(t, start, N, Retry(t))
    BY <1>1, <1>3, <1>4, <1>7, <1>8, <1>9, RetryLabel DEF ClearsOn
  <1>11. IInv /\ t \in Thread /\ UNCHANGED jobs /\ ClearFlags(t, start, N, Retry(t))
    BY <1>1, <1>2
  <1> QED BY ONLY <1>10, <1>11, ClearStep

\* The counters have been updated: all flags are taken back.
LEMMA UpdatedClears ==
  ASSUME IInv, NEW t \in Thread, pc[t] \in Updating, NEW nodes, nodes = {}
  PROVE  ClearsOn(t, 0, nodes, AfterUpdate(t)) /\ Owns(t) /\ F(t).layer = MaxLayer
  <1>1. Where(t) = pc[t] /\ Where(t) \in Updating BY DEF Where, Calling, Updating
  <1>2. FlagLayers(t) = 0 .. Top(t) BY <1>1, LayersAt
  <1>3. LocalsFit(t) BY DEF IInv, Fits
  <1>4. F(t).passed = {} BY <1>3 DEF LocalsFit, Updating
  <1>5. \A k \in FlagLayers(t) : Linked(F(t).prevs[k]) BY FlaggedIn DEF Updating
  <1>6. Inserts(t) => Created(t) BY <1>1 DEF Created
  <1>7. ~Inserts(t) => Erased(t) BY <1>1 DEF Erased
  <1>8. F(t).find \in {Null, F(t).node} /\ F(t).layer = MaxLayer BY <1>1, <1>3 DEF LocalsFit
  <1>9. Owns(t) BY <1>6, <1>7 DEF Owns, Erases
  <1>10. \A n : ~HoldsNext(t, n) BY DEF HoldsNext, Returns, Updating
  <1>11. 0 \in 0 .. MaxLayer + 1 BY LayerAssumption
  <1>12. \/ Created(t) /\ F(t).find = Null /\ AfterUpdate(t) = "inserted"
         \/ Erased(t) /\ F(t).find = F(t).node /\ AfterUpdate(t) = "eraseUnflag"
    BY <1>6, <1>7, <1>8 DEF Inserts, AfterUpdate
  <1>13. pc[t] \in {"scan", "storeTop"} BY DEF Updating
  <1>14. ClearsOn(t, 0, nodes, AfterUpdate(t))
    BY <1>2, <1>4, <1>5, <1>10, <1>11, <1>12, <1>13 DEF ClearsOn
  <1> QED BY <1>8, <1>9, <1>14

LEMMA StoreTopStep ==
  ASSUME IInv, NEW t \in Thread, StoreTop(t), UNCHANGED jobs
  PROVE  IInv'
  <1>1. PICK N : N = {} OBVIOUS
  <1>2. pc[t] \in Updating BY DEF StoreTop, Updating
  <1>3. /\ ClearsOn(t, 0, N, AfterUpdate(t)) /\ Owns(t) /\ F(t).layer = MaxLayer
    BY <1>1, <1>2, UpdatedClears
  <1>4. slist' = slist
    <2>1. slist' = [slist EXCEPT !.top = MaxLayer] BY <1>3 DEF StoreTop
    <2>2. slist \in [entries : Int, layers : [Layer -> Int], top : {MaxLayer}]
      BY DEF IInv, Types
    <2> QED BY <2>1, <2>2
  <1>5. snode' = Dropped(N)
    <2>1. snode' = snode BY DEF StoreTop
    <2>2. snode \in [AllNode -> NodeType] BY DEF IInv, Types
    <2> QED BY <1>1, <2>1, <2>2 DEF Dropped
  <1>6. FlaggedFrom(t, 0) # {}
    <2>1. Top(t) \in Layer BY <1>3, Owned
    <2>2. Top(t) \in 0 .. Top(t) /\ 0 \in 0 .. MaxLayer + 1
      BY <2>1, LayerAssumption DEF Layer
    <2> QED BY <2>2 DEF FlaggedFrom
  <1>7. Go(t, "clear", [F(t) EXCEPT !.clearing = FlaggedFrom(t, 0), !.resume = AfterUpdate(t)])
    BY DEF StoreTop
  <1>8. UNCHANGED <<alloc, slist>> /\ UNCHANGED jobs /\ IInv /\ t \in Thread
    BY <1>4 DEF StoreTop
  <1> QED BY ONLY <1>3, <1>5, <1>6, <1>7, <1>8, ClearSomeStep

\* The node of the key without a value is counted in the top layer.
LEMMA TopCounted ==
  ASSUME IInv
  PROVE  slist.layers[MaxLayer] > 0
  <1>1. PICK s \in alloc : snode[s].key = SentinelKey /\ Linked(s) /\ snode[s].top = MaxLayer
    BY DEF IInv, Sentinel
  <1>2. ~Uncounted({"insertCount"}, s)
    <2>1. SUFFICES ASSUME NEW u \in Thread, pc[u] = "insertCount", F(u).node = s PROVE FALSE
      BY DEF Uncounted
    <2>2. Where(u) = "insertCount" BY <2>1 DEF Where, Calling
    <2>3. Owns(u) BY <2>2 DEF Owns, Created
    <2>4. snode[s].key \in Key BY <2>1, <2>3 DEF IInv, Owners
    <2> QED BY <1>1, <2>4, KeysAssumption
  <1>3. s \in Counted BY <1>1, <1>2 DEF Counted, Linked
  <1> DEFINE S == {n \in Counted : snode[n].top = MaxLayer}
  <1>4. s \in S BY <1>1, <1>3
  <1>5. IsFiniteSet(S)
    <2>1. S \subseteq Node BY DEF Counted, IInv, Types
    <2> QED BY <2>1, NodeMemory, FS_Subset
  <1>6. Cardinality(S) \in Nat /\ Cardinality(S) # 0
    BY <1>4, <1>5, FS_CardinalityType, FS_EmptySet
  <1>7. slist.layers[MaxLayer] = Cardinality(S)
    BY CountersAre, LayerAssumption DEF IInv, Layer
  <1> QED BY <1>6, <1>7

LEMMA ScanLayersStep ==
  ASSUME IInv, NEW t \in Thread, ScanLayers(t), UNCHANGED jobs
  PROVE  IInv'
  <1>1. PICK N : N = {} OBVIOUS
  <1>2. pc[t] = "scan" /\ pc[t] \in Updating BY DEF ScanLayers, Updating
  <1>3. Owns(t) /\ F(t).layer = MaxLayer BY <1>1, <1>2, UpdatedClears
  <1>4. Go(t, "storeTop", F(t)) /\ UNCHANGED memory BY <1>3, TopCounted DEF ScanLayers
  <1>5. PICK f : f = F(t) OBVIOUS
  <1>6. Quiet(t, N, N) /\ F(t)' = f /\ pc'[t] = "storeTop"
    <2>1. "storeTop" \in LabelNames \ {"undefined"} BY DEF LabelNames
    <2>2. f \in FrameType /\ jobs' \in [Thread -> Seq(AnyJob)] BY <1>5, FrameIs
    <2>3. Go(t, "storeTop", f) /\ UNCHANGED <<alloc, slist>> BY <1>4, <1>5 DEF memory
    <2>4. IInv /\ t \in Thread OBVIOUS
    <2>5. Takes(N, N) BY <1>1, <1>4, FrameIs, NothingTaken DEF memory
    <2> QED BY ONLY <2>1, <2>2, <2>3, <2>4, <2>5, QuietGo
  <1>7. F(t)' = F(t) /\ snode' = snode /\ alloc' = alloc BY <1>4, <1>5, <1>6 DEF memory
  <1>8. /\ Where(t) = "scan" /\ Where(t)' = "storeTop" /\ (Inserts(t)' <=> Inserts(t))
        /\ Top(t)' = Top(t)
    BY <1>2, <1>6, <1>7 DEF Where, Calling, Inserts, Top
  <1>9. /\ FlagLayers(t) = 0 .. Top(t) /\ Settled(t) = {}
        /\ FlagLayers(t)' = 0 .. Top(t) /\ Settled(t)' = {}
    BY <1>8, LayersAt DEF Updating
  <1>10. SamePart(t)
    <2>1. Where(t) \in WorkLabels /\ Where(t)' \in WorkLabels BY <1>8 DEF WorkLabels, Updating
    <2>2. /\ Inserts(t) => Created(t) /\ Created(t)'
          /\ ~Inserts(t) => Erased(t) /\ Erased(t)'
      BY <1>8 DEF Created, Erased, Updating
    <2> QED BY <1>7, <2>1, <2>2, PartsApart DEF SamePart
  <1>11. \A n : PrevsFlagged(t, n)' <=> PrevsFlagged(t, n)
    BY <1>7, <1>9 DEF PrevsFlagged
  <1>12. LocalsFit(t) /\ FlagsFit(t) BY DEF IInv, Fits
  <1>13. \A n : /\ HoldsCur(t, n)' <=> HoldsCur(t, n)
                /\ HoldsNext(t, n)' <=> HoldsNext(t, n)
                /\ HoldsPassed(t, n)' <=> HoldsPassed(t, n)
    BY <1>2, <1>6, <1>7, <1>8 DEF HoldsCur, HoldsNext, HoldsPassed, Held, Updating, Returns
  <1>14. \A n \in Node : One(n \in N) - One(n \in N) =
                One(HoldsCur(t, n))' + One(HoldsNext(t, n))' + One(HoldsPassed(t, n))'
                    - One(HoldsCur(t, n)) - One(HoldsNext(t, n)) - One(HoldsPassed(t, n))
    BY <1>13 DEF One
  <1>15. \A n \in Node : HoldsCur(t, n)' \/ HoldsNext(t, n)' \/ HoldsPassed(t, n)' => Holds(t, n)
    BY <1>13 DEF Holds
  <1>16. LocalsFit(t)'
    <2>1. ~Creating(t)' BY <1>8 DEF Creating, Placing
    <2>2. /\ F(t).find \in {Null, F(t).node} /\ F(t).passed = {}
          /\ F(t).then \in {"insertFound", "eraseFound"} => F(t).key \in Key
      BY <1>2, <1>8, <1>12 DEF LocalsFit, Updating
    <2> QED BY <1>3, <1>6, <1>7, <1>8, <2>1, <2>2
        DEF LocalsFit, Placing, Updating, Searching, Calling, Returns
  <1>17. FlagsFit(t)'
    <2>1. \A a, b : Less(a, b)' <=> Less(a, b) BY <1>7 DEF Less
    <2>2. \A n : Linked(n)' <=> Linked(n) BY <1>7 DEF Linked
    <2>3. \A l \in 0 .. Top(t) :
            /\ F(t).prevs[l] \in alloc \cup {head} /\ snode[F(t).prevs[l]].top >= l
            /\ Less(F(t).prevs[l], F(t).node) /\ Linked(F(t).prevs[l])
      BY <1>2, <1>9, <1>12 DEF FlagsFit
    <2>4. \A l \in 0 .. Top(t) : \A m \in 0 .. Top(t) :
              l < m => \/ Less(F(t).prevs[m], F(t).prevs[l])
                       \/ F(t).prevs[m] = F(t).prevs[l]
      BY <1>9, <1>12 DEF FlagsFit
    <2>5. \A l \in FlagLayers(t)' :
            /\ F(t)'.prevs[l] \in alloc' \cup {head} /\ snode'[F(t)'.prevs[l]].top >= l
            /\ Less(F(t).prevs[l], F(t).node)' /\ Linked(F(t).prevs[l])'
      BY <1>7, <1>9, <2>1, <2>2, <2>3 DEF Less, Linked
    <2>6. \A l \in FlagLayers(t)' : \A m \in FlagLayers(t)' :
              l < m => \/ Less(F(t).prevs[m], F(t).prevs[l])'
                       \/ F(t)'.prevs[m] = F(t)'.prevs[l]
      BY <1>7, <1>9, <2>4 DEF Less
    <2> QED BY <1>6, <1>8, <2>5, <2>6 DEF FlagsFit
  <1>18. SettledFits(t)' BY <1>9 DEF SettledFits
  <1>19. CurFits(t)' /\ NextFits(t)' /\ FoundFits(t)' /\ AgainFits(t)' /\ PlaceFits(t)'
    BY <1>6, <1>8 DEF CurFits, NextFits, FoundFits, AgainFits, PlaceFits, Walking, Stepping,
                        Placing, Returns
  <1>20. Fits(t)' BY <1>16, <1>17, <1>18, <1>19 DEF Fits
  <1>21. /\ pc'[t] \notin {"linked", "bypass", "insertCount", "eraseCount"}
         /\ pc'[t] = "link" => F(t)'.layer = 0
         /\ Where(t) \notin {"link", "linked", "bypass", "insertCount", "eraseCount"}
    BY <1>6, <1>8
  <1>22. IInv /\ t \in Thread /\ Quiet(t, N, N) BY <1>6
  <1> QED BY ONLY <1>10, <1>11, <1>14, <1>15, <1>20, <1>21, <1>22, WorkMove

-----------------------------------------------------------------------------
(* Searches for a node that no change is made to.                            *)

Seeks == {"findMove", "successor", "first"}

SeekRoles(t) ==
    LET f == F(t)
        seeks == f.ret \in {"findMove", "successor"}
        holder == seeks /\ f.then \in {"eraseNode", "advance"}
    IN  /\ Where(t) = f.ret
        /\ ~Creating(t) /\ ~Created(t) /\ ~Marked(t) /\ ~Erased(t) /\ ~FlagsOwn(t)
        /\ Unmarked(t) <=> seeks /\ f.then = "eraseNode"
        /\ FlagLayers(t) = {} /\ Settled(t) = {}
        /\ \A n : HoldsCur(t, n) <=> f.ret = "findMove" /\ f.cur = n
        /\ \A n : ~HoldsNext(t, n) /\ ~HoldsPassed(t, n) /\ ~HoldsCursor(t, n)
        /\ \A n : HoldsNode(t, n) <=> holder /\ f.node = n

LEMMA SeekRole ==
  ASSUME NEW t \in Thread, pc'[t] = "next", F(t)'.ret \in Seeks, F(t)'.passed = {}
  PROVE  SeekRoles(t)'
  <1>1. Where(t)' = F(t)'.ret BY DEF Where, Calling
  <1>2. ~Creating(t)' /\ ~Created(t)' /\ ~Marked(t)' /\ ~Erased(t)'
    BY <1>1 DEF Seeks, Creating, Created, Marked, Erased, Placing, Updating
  <1>3. Unmarked(t)' <=> F(t)'.ret \in {"findMove", "successor"} /\ F(t)'.then = "eraseNode"
    BY <1>1 DEF Seeks, Unmarked, Searching
  <1>4. Visiting(t)' <=> F(t)'.ret \in {"findMove", "successor"} /\ F(t)'.then = "advance"
    BY <1>1 DEF Seeks, Visiting, Searching
  <1>5. ~FlagsOwn(t)' BY <1>1, <1>2 DEF FlagsOwn, Seeks
  <1>6. FlagLayers(t)' = {} BY <1>1 DEF FlagLayers, Seeks, Updating
  <1>7. Settled(t)' = {} BY <1>1 DEF Settled, Seeks, Placing
  <1>8. \A n : /\ HoldsCur(t, n)' <=> F(t)'.ret = "findMove" /\ F(t)'.cur = n
               /\ ~HoldsNext(t, n)' /\ ~HoldsPassed(t, n)'
    BY <1>1 DEF Seeks, HoldsCur, HoldsNext, HoldsPassed, Held, Stepping, Placing, Updating, Returns
  <1>9. \A n : HoldsNode(t, n)' <=> /\ F(t)'.ret \in {"findMove", "successor"}
                                    /\ F(t)'.then \in {"eraseNode", "advance"}
                                    /\ F(t)'.node = n
    BY <1>1, <1>2, <1>3, <1>4 DEF HoldsNode, Seeks
  <1>10. \A n : ~HoldsCursor(t, n)'
    BY <1>1, <1>2, <1>3 DEF HoldsCursor, Seeks, Erases, Searching
  <1> QED BY <1>1, <1>2, <1>3, <1>5, <1>6, <1>7, <1>8, <1>9, <1>10 DEF SeekRoles

\* The search starts or goes on.
SeeksOn(t, more, less) ==
    LET g == F(t)'
        holder == g.ret \in {"findMove", "successor"} /\ g.then \in {"eraseNode", "advance"}
    IN  /\ pc[t] \in {"find", "findMove", "begin", "first", "eraseFound", "advance"}
        /\ pc'[t] = "next" /\ g.ret \in Seeks /\ g.next = Null /\ ~g.found
        /\ g.passed = {} /\ g.find = Null
        /\ g.cur \in Node \cup {head} /\ g.cur \in Listed /\ snode[g.cur].top >= g.layer
        /\ g.ret \in {"successor", "first"} => g.layer = 0
        /\ g.ret = "successor" => g.cur = g.node /\ g.then \in {"eraseNode", "advance"}
        /\ g.ret = "first" => g.cur = head
        /\ g.ret = "findMove" => g.then # "idle"
        /\ g.then \in {"insertFound", "eraseFound"} => g.key \in Key
        /\ g.ret \in {"findMove", "successor"} /\ g.then = "eraseNode" =>
              \/ Unmarked(t) /\ g.node = F(t).node /\ g.key = F(t).key
              \/ /\ g.node \in alloc /\ g.key \in Key /\ snode[g.node].key = g.key
                 /\ \A u \in Thread \ {t} : Owns(u) => F(u).node # g.node
        /\ \A n \in Node : One(n \in more) - One(n \in less) =
                One(g.ret = "findMove" /\ g.cur = n) + One(holder /\ g.node = n) - Mine(t, n)
        /\ g.ret = "findMove" /\ g.cur \in Node => Holds(t, g.cur)
        /\ holder => Holds(t, g.node)

LEMMA SeekStep ==
  ASSUME IInv, NEW t \in Thread, NEW more, NEW less, Quiet(t, more, less), SeeksOn(t, more, less)
  PROVE  IInv'
  <1> DEFINE g == F(t)'
  <1> USE DEF SeeksOn
  <1>1. SeekRoles(t)' BY SeekRole
  <1>2. RestRoles(t) /\ FlagLayers(t) = {} /\ Where(t) = pc[t]
    <2>1. pc[t] \in Rest \cup {"successor", "findMove", "first"} BY DEF Rest
    <2> QED BY <2>1, NoFlagLayers, RestRole
  <1>3. ~Creating(t) /\ ~Marked(t) /\ ~Erased(t) /\ ~FlagsOwn(t) BY <1>2 DEF RestRoles
  <1>4. \A n : Flags(t, n)' <=> Flags(t, n) BY <1>1, <1>2, <1>3 DEF Flags, SeekRoles
  <1>5. \A l : ~Half(t, l)' /\ ~Half(t, l) BY DEF Half
  <1>6. SameWork(t)
    <2>1. ~Creating(t)' /\ ~Marked(t)' /\ ~Erased(t)' BY <1>1 DEF SeekRoles
    <2> QED BY <1>3, <1>4, <1>5, <2>1 DEF SameWork
  <1>7. OwnsRightly(t)
    <2>1. Owns(t)' => g.ret \in {"findMove", "successor"} /\ g.then = "eraseNode"
      BY <1>1 DEF SeekRoles, Owns, Erases
    <2>2. Unmarked(t) => Owns(t) BY DEF Owns, Erases
    <2> QED BY <2>1, <2>2 DEF OwnsRightly
  <1>8. \A n \in Node : One(n \in more) - One(n \in less) = Mine(t, n)' - Mine(t, n)
    <2> TAKE n \in Node
    <2>1. /\ HoldsCur(t, n)' <=> g.ret = "findMove" /\ g.cur = n
          /\ ~HoldsNext(t, n)' /\ ~HoldsPassed(t, n)' /\ ~HoldsCursor(t, n)'
          /\ HoldsNode(t, n)' <=> /\ g.ret \in {"findMove", "successor"}
                                  /\ g.then \in {"eraseNode", "advance"}
                                  /\ g.node = n
      BY <1>1 DEF SeekRoles
    <2>2. PICK a \in {0, 1} : a = 1 <=> g.ret = "findMove" /\ g.cur = n OBVIOUS
    <2>3. PICK b \in {0, 1} : b = 1 <=> /\ g.ret \in {"findMove", "successor"}
                                         /\ g.then \in {"eraseNode", "advance"}
                                         /\ g.node = n
      OBVIOUS
    <2>4. Mine(t, n)' = a + b BY <2>1, <2>2, <2>3 DEF Mine, One
    <2>5. Mine(t, n) \in Int BY DEF Mine, One
    <2>6. One(n \in more) - One(n \in less) = a + b - Mine(t, n)
      BY <2>2, <2>3, <2>5 DEF One
    <2>7. a \in Int /\ b \in Int BY <2>2, <2>3
    <2> QED BY ONLY <2>4, <2>5, <2>6, <2>7
  <1>9. \A n \in Node : Holds(t, n)' => Holds(t, n) \/ (n \in alloc /\ Visible(n))
    <2> TAKE n \in Node
    <2>1. Holds(t, n)' => HoldsCur(t, n)' \/ HoldsNode(t, n)'
      BY <1>1 DEF Holds, SeekRoles
    <2>2. HoldsCur(t, n)' => Holds(t, n) BY <1>1 DEF SeekRoles
    <2>3. HoldsNode(t, n)' => Holds(t, n) BY <1>1 DEF SeekRoles
    <2> QED BY <2>1, <2>2, <2>3
  <1>10. LocalsFit(t)'
    <2>1. ~Creating(t)' /\ Where(t)' = g.ret BY <1>1 DEF SeekRoles
    <2>2. Where(t)' \in {"findMove", "successor", "first"} /\ F(t)'.ret \in Returns
      BY <2>1 DEF Seeks, Returns
    <2>3. /\ pc'[t] = "next" /\ F(t)'.next = Null /\ ~F(t)'.found /\ F(t)'.passed = {}
          /\ Inserts(t)'
      BY DEF Inserts
    <2>4. /\ Where(t)' \in {"successor", "first"} => F(t)'.layer = 0
          /\ Where(t)' = "successor" => F(t)'.then \in {"eraseNode", "advance"}
          /\ Where(t)' = "findMove" => F(t)'.then # "idle"
          /\ F(t)'.then \in {"insertFound", "eraseFound"} => F(t)'.key \in Key
      BY <2>1
    <2> QED BY ONLY <2>1, <2>2, <2>3, <2>4
        DEF LocalsFit, Placing, Updating, Searching, Calling, Returns
  <1>11. CurFits(t)'
    <2>1. PICK c : c = F(t)'.cur OBVIOUS
    <2>2. snode'[c].top = snode[c].top BY <2>1, QuietNodes
    <2>3. snode'[F(t)'.cur].top >= F(t)'.layer BY <2>1, <2>2
    <2>4. Where(t)' = g.ret BY <1>1 DEF SeekRoles
    <2> QED BY <2>3, <2>4 DEF CurFits, Seeks, Walking, Stepping, Placing
  <1>12. NextFits(t)' /\ FoundFits(t)' /\ AgainFits(t)' /\ PlaceFits(t)'
    <2>4. Where(t)' = g.ret BY <1>1 DEF SeekRoles
    <2> QED BY <2>4 DEF NextFits, FoundFits, AgainFits, PlaceFits, Seeks, Placing, Returns
  <1>13. SettledFits(t)' /\ FlagsFit(t)'
    <2>4. Where(t)' = g.ret BY <1>1 DEF SeekRoles
    <2> QED BY <1>1, <2>4 DEF SeekRoles, SettledFits, FlagsFit, Seeks
  <1>14. Fits(t)' BY <1>10, <1>11, <1>12, <1>13 DEF Fits
  <1>15. IInv /\ t \in Thread /\ Quiet(t, more, less) OBVIOUS
  <1> QED BY ONLY <1>6, <1>7, <1>8, <1>9, <1>14, <1>15, QuietStep

\* What a thread that searches for no place has.
LEMMA AtSeek ==
  ASSUME IInv, NEW t \in Thread,
         pc[t] \in {"find", "findMove", "begin", "first", "eraseFound", "advance"}
  PROVE  /\ RestRoles(t) /\ LocalsFit(t) /\ Where(t) = pc[t] /\ F(t).passed = {}
         /\ pc[t] \in {"findMove", "first"} =>
                /\ F(t).cur \in Listed /\ F(t).cur \in Node \cup {head} /\ F(t).layer \in Layer
                /\ snode[F(t).cur].top >= F(t).layer /\ F(t).find = Null
         /\ pc[t] \in {"findMove", "first"} /\ F(t).next # Null =>
                /\ F(t).next \in Listed /\ F(t).next \in Node \cup {tail}
                /\ F(t).next # F(t).cur /\ snode[F(t).next].top >= F(t).layer
                /\ F(t).next \in Node => Holds(t, F(t).next)
  <1>1. RestRoles(t) /\ Where(t) = pc[t] /\ F(t).passed = {}
    <2>1. pc[t] \in Rest \cup {"successor", "findMove", "first"} BY DEF Rest
    <2> QED BY <2>1, NoFlagLayers, RestRole
  <1>2. LocalsFit(t) /\ CurFits(t) /\ NextFits(t) BY DEF IInv, Fits
  <1>3. ASSUME pc[t] \in {"findMove", "first"}
        PROVE  /\ F(t).cur \in Listed /\ F(t).cur \in Node \cup {head} /\ F(t).layer \in Layer
               /\ snode[F(t).cur].top >= F(t).layer /\ F(t).find = Null
    <2>1. Where(t) \in Walking BY <1>1, <1>3 DEF Walking, Stepping
    <2> QED BY <1>1, <1>2, <1>3, <2>1, CurListed DEF CurFits, LocalsFit, Inserts
  <1>4. ASSUME pc[t] \in {"findMove", "first"}, F(t).next # Null
        PROVE  /\ F(t).next \in Listed /\ F(t).next \in Node \cup {tail}
               /\ F(t).next # F(t).cur /\ snode[F(t).next].top >= F(t).layer
               /\ F(t).next \in Node => Holds(t, F(t).next)
    <2>1. pc[t] \in Returns BY <1>4 DEF Returns
    <2>2. /\ F(t).next \in Node \cup {tail} /\ snode[F(t).next].top >= F(t).layer
          /\ Less(F(t).cur, F(t).next)
      BY <1>2, <1>4, <2>1 DEF NextFits
    <2>3. F(t).next \in Listed BY <1>4, <2>1, NextListed
    <2>4. F(t).next # F(t).cur BY <1>3, <1>4, <2>2, <2>3, LessOrder
    <2>5. F(t).next \in Node => Holds(t, F(t).next)
      BY <2>1 DEF Holds, HoldsNext
    <2> QED BY <2>2, <2>3, <2>4, <2>5
  <1> QED BY <1>1, <1>2, <1>3, <1>4

LEMMA FindStartStep ==
  ASSUME IInv, NEW t \in Thread, FindStart(t), UNCHANGED jobs
  PROVE  IInv'
  <1>1. PICK S : S = {} OBVIOUS
  <1>2. pc[t] = "find" /\ UNCHANGED memory BY DEF FindStart
  <1>3. MaxLayer \in Layer /\ Null \in Node \cup {Null} /\ "findMove" \in Returns
    BY LayerAssumption DEF Layer, Returns
  <1>4. FromHead(t, MaxLayer, Null, "findMove") BY DEF FindStart, IInv, Types
  <1>5. /\ Quiet(t, S, S) /\ pc'[t] = "next"
        /\ F(t)'.passed = {} /\ ~F(t)'.found /\ F(t)'.ret = "findMove" /\ F(t)'.next = Null
        /\ F(t)'.key = F(t).key /\ F(t)'.node = F(t).node /\ F(t)'.cur = head
        /\ F(t)'.layer = MaxLayer /\ F(t)'.find = Null
        /\ F(t)'.then = F(t).then
    <2>1. IInv /\ t \in Thread /\ UNCHANGED jobs OBVIOUS
    <2> QED BY ONLY <1>1, <1>2, <1>3, <1>4, <2>1, FromHeadIs
  <1>6. RestRoles(t) /\ LocalsFit(t) /\ Where(t) = "find" BY <1>2, AtSeek
  <1>7. head \in Listed /\ head \notin Node /\ snode[head].top >= MaxLayer
    BY NodesAssumption, LayerAssumption DEF Listed, IInv, Ends
  <1>8. /\ F(t).then # "idle"
        /\ F(t).then \in {"insertFound", "eraseFound"} => F(t).key \in Key
    BY <1>6 DEF LocalsFit, Searching
  <1>9. \A n \in Node : Mine(t, n) = One(F(t).then \in {"eraseNode", "advance"} /\ F(t).node = n)
    BY <1>2, <1>6 DEF RestRoles, Mine, One
  <1>10. F(t).then = "eraseNode" => Unmarked(t) BY <1>2, <1>6 DEF RestRoles
  <1>11. F(t).then \in {"eraseNode", "advance"} => Holds(t, F(t).node)
    BY <1>2, <1>6 DEF RestRoles, Holds
  <1>12. \A n \in Node : One(n \in S) - One(n \in S) =
            One(F(t)'.ret = "findMove" /\ F(t)'.cur = n)
              + One((F(t)'.ret \in {"findMove", "successor"}
                       /\ F(t)'.then \in {"eraseNode", "advance"}) /\ F(t)'.node = n) - Mine(t, n)
    BY <1>1, <1>5, <1>7, <1>9 DEF One
  <1>13. SeeksOn(t, S, S)
    BY <1>2, <1>5, <1>7, <1>8, <1>10, <1>11, <1>12 DEF SeeksOn, Seeks
  <1> QED BY <1>5, <1>13, SeekStep

LEMMA BeginAtHeadStep ==
  ASSUME IInv, NEW t \in Thread, BeginAtHead(t), UNCHANGED jobs
  PROVE  IInv'
  <1>1. PICK S : S = {} OBVIOUS
  <1>2. /\ pc[t] \in {"begin", "first"} /\ (pc[t] = "first" => F(t).next = Null)
        /\ CallNext(t, [F(t) EXCEPT !.cur = head, !.layer = 0], "first") /\ UNCHANGED memory
    BY DEF BeginAtHead
  <1> DEFINE f == [F(t) EXCEPT !.cur = head, !.layer = 0]
  <1>3. F(t) \in FrameType /\ 0 \in Layer /\ head \in Link /\ "first" \in Returns
    BY FrameIs, LayerAssumption DEF Layer, Link, AllNode, Returns
  <1>4. f \in FrameType BY ONLY <1>3 DEF FrameType
  <1>5. /\ f.key = F(t).key /\ f.node = F(t).node /\ f.cur = head /\ f.layer = 0
        /\ f.find = F(t).find /\ f.then = F(t).then
    BY ONLY <1>3 DEF FrameType
  <1>6. Takes(S, S) /\ UNCHANGED <<alloc, slist>>
    BY <1>1, <1>2, FrameIs, NothingTaken DEF memory
  <1>7. /\ Quiet(t, S, S) /\ pc'[t] = "next"
        /\ F(t)'.passed = {} /\ ~F(t)'.found /\ F(t)'.ret = "first" /\ F(t)'.next = Null
        /\ F(t)'.key = F(t).key /\ F(t)'.cur = head
        /\ F(t)'.layer = 0 /\ F(t)'.find = F(t).find /\ F(t)'.then = F(t).then
    <2>1. IInv /\ t \in Thread /\ UNCHANGED jobs OBVIOUS
    <2>2. CallNext(t, f, "first") BY <1>2
    <2> HIDE DEF f
    <2> QED BY ONLY <1>3, <1>4, <1>5, <1>6, <2>1, <2>2, CallNextIs
  <1> HIDE DEF f
  <1>8. RestRoles(t) /\ LocalsFit(t) /\ Where(t) = pc[t] BY <1>2, AtSeek
  <1>9. /\ F(t).then \in {"insertFound", "eraseFound"} => F(t).key \in Key
        /\ F(t).find = Null
    BY <1>2, <1>8 DEF LocalsFit, Inserts
  <1>10. \A n \in Node : Mine(t, n) = 0
    BY <1>2, <1>8, NodesAssumption DEF RestRoles, Mine, One
  <1>11. head \in Listed /\ head \notin Node /\ snode[head].top >= 0
    BY NodesAssumption, LayerAssumption DEF Listed, IInv, Ends
  <1>12. \A n \in Node : One(n \in S) - One(n \in S) =
            One(F(t)'.ret = "findMove" /\ F(t)'.cur = n)
              + One((F(t)'.ret \in {"findMove", "successor"}
                       /\ F(t)'.then \in {"eraseNode", "advance"}) /\ F(t)'.node = n) - Mine(t, n)
    BY <1>1, <1>7, <1>10 DEF One
  <1>13. SeeksOn(t, S, S)
    BY <1>2, <1>7, <1>9, <1>11, <1>12 DEF SeeksOn, Seeks
  <1> QED BY <1>7, <1>13, SeekStep

\* The search goes right or down.
LEMMA FindOnStep ==
  ASSUME IInv, NEW t \in Thread, pc[t] = "findMove", F(t).next # Null,
         NEW c \in {F(t).cur, F(t).next}, NEW d \in {F(t).cur, F(t).next}, c # d, c # tail,
         NEW l \in Layer, l <= F(t).layer, snode' = Dropped({d}),
         NEW f \in FrameType, f.cur = c, f.layer = l, f.key = F(t).key, f.node = F(t).node,
         f.find = F(t).find, f.then = F(t).then, CallNext(t, f, F(t).ret),
         UNCHANGED <<alloc, slist>>, UNCHANGED jobs
  PROVE  IInv'
  <1>1. PICK S : S = {} OBVIOUS
  <1>2. PICK D : D = {d} OBVIOUS
  <1>3. Takes(S, D)
    <2>1. snode' = Dropped(D) BY <1>2
    <2> QED BY <1>1, <2>1, FrameIs, DroppedTakes
  <1>4. /\ RestRoles(t) /\ LocalsFit(t) /\ Where(t) = pc[t]
        /\ F(t).cur \in Listed /\ F(t).cur \in Node \cup {head} /\ F(t).layer \in Layer
        /\ snode[F(t).cur].top >= F(t).layer /\ F(t).find = Null
        /\ F(t).next \in Listed /\ F(t).next \in Node \cup {tail}
        /\ F(t).next # F(t).cur /\ snode[F(t).next].top >= F(t).layer
        /\ F(t).next \in Node => Holds(t, F(t).next)
    BY AtSeek
  <1>5. F(t).ret = "findMove" /\ F(t).ret \in Returns BY <1>4 DEF LocalsFit, Returns
  <1>6. /\ Quiet(t, S, D) /\ pc'[t] = "next"
        /\ F(t)'.passed = {} /\ ~F(t)'.found /\ F(t)'.ret = F(t).ret /\ F(t)'.next = Null
        /\ F(t)'.key = f.key /\ F(t)'.node = f.node /\ F(t)'.cur = f.cur
        /\ F(t)'.layer = f.layer /\ F(t)'.find = f.find /\ F(t)'.then = f.then
    <2>1. /\ IInv /\ t \in Thread /\ UNCHANGED jobs /\ f \in FrameType
          /\ CallNext(t, f, F(t).ret) /\ UNCHANGED <<alloc, slist>>
      OBVIOUS
    <2> QED BY ONLY <1>3, <1>5, <2>1, CallNextIs
  <1>7. /\ F(t).then # "idle"
        /\ F(t).then \in {"insertFound", "eraseFound"} => F(t).key \in Key
    BY <1>4 DEF LocalsFit, Searching
  <1>8. F(t).then = "eraseNode" => Unmarked(t) BY <1>4 DEF RestRoles
  <1>9. F(t).then \in {"eraseNode", "advance"} => Holds(t, F(t).node)
    BY <1>4 DEF RestRoles, Holds
  <1>10. c \in Listed /\ c \in Node \cup {head} /\ snode[c].top >= l
    <2>1. c \in Listed /\ c \in Node \cup {head} /\ snode[c].top >= F(t).layer BY <1>4
    <2>2. snode[c].top \in Int /\ F(t).layer \in Int /\ l \in Int
      BY <1>4, <2>1, Typed, LayerAssumption DEF IInv, NodeType, Layer
    <2> QED BY <2>1, <2>2
  <1>11. c \in Node => Holds(t, c)
    <2>1. HoldsCur(t, F(t).cur) BY <1>4 DEF RestRoles
    <2> QED BY <1>4, <2>1 DEF Holds
  <1>12. \A n \in Node : One(n \in S) - One(n \in D) =
            One(F(t)'.ret = "findMove" /\ F(t)'.cur = n)
              + One((F(t)'.ret \in {"findMove", "successor"}
                       /\ F(t)'.then \in {"eraseNode", "advance"}) /\ F(t)'.node = n) - Mine(t, n)
    <2> TAKE n \in Node
    <2>1. PICK h \in {0, 1} : h = 1 <=> F(t).then \in {"eraseNode", "advance"} /\ F(t).node = n
      OBVIOUS
    <2>2. PICK x \in {0, 1} : x = 1 <=> c = n OBVIOUS
    <2>3. PICK y \in {0, 1} : y = 1 <=> d = n OBVIOUS
    <2>4. Mine(t, n) = One(F(t).cur = n) + One(F(t).next = n)
                          + One(F(t).then \in {"eraseNode", "advance"} /\ F(t).node = n)
      BY <1>4 DEF RestRoles, Mine, One
    <2>5. Mine(t, n) = x + y + h BY <2>1, <2>2, <2>3, <2>4 DEF One
    <2>6. One(n \in S) - One(n \in D) = 0 - y BY <1>1, <1>2, <2>3 DEF One
    <2>7. One(F(t)'.ret = "findMove" /\ F(t)'.cur = n) = x BY <1>5, <1>6, <2>2 DEF One
    <2>8. One((F(t)'.ret \in {"findMove", "successor"}
                 /\ F(t)'.then \in {"eraseNode", "advance"}) /\ F(t)'.node = n) = h
      BY <1>5, <1>6, <2>1 DEF One
    <2>9. x \in Int /\ y \in Int /\ h \in Int BY <2>1, <2>2, <2>3
    <2>10. 0 - y = x + h - (x + y + h) BY ONLY <2>9
    <2> QED BY ONLY <2>5, <2>6, <2>7, <2>8, <2>10
  <1>13. SeeksOn(t, S, D)
    <2>1. /\ F(t)'.cur = c /\ F(t)'.ret = "findMove" /\ F(t)'.node = F(t).node
          /\ F(t)'.key = F(t).key /\ F(t)'.then = F(t).then /\ F(t)'.layer = l
          /\ F(t)'.find = Null /\ F(t)'.next = Null /\ F(t)'.passed = {} /\ ~F(t)'.found
          /\ pc'[t] = "next"
      BY <1>4, <1>5, <1>6
    <2>2. pc[t] = "findMove" OBVIOUS
    <2> QED BY ONLY <1>7, <1>8, <1>9, <1>10, <1>11, <1>12, <2>1, <2>2 DEF SeeksOn, Seeks
  <1> QED BY <1>6, <1>13, SeekStep

LEMMA FindRightStep ==
  ASSUME IInv, NEW t \in Thread, FindRight(t), UNCHANGED jobs
  PROVE  IInv'
  <1>1. /\ pc[t] = "findMove" /\ F(t).next # Null /\ Cmp(t, F(t).next) > 0
        /\ snode' = Dropped({F(t).cur}) /\ UNCHANGED <<alloc, slist>>
        /\ CallNext(t, [F(t) EXCEPT !.cur = F(t).next], F(t).ret)
    BY DEF FindRight, At, Right
  <1>2. F(t).next # F(t).cur /\ F(t).next \in Link BY <1>1, AtSeek, FrameIs
  <1>3. F(t).next # tail
    <2>1. F(t).node # tail BY FrameIs, NodesAssumption
    <2> QED BY <1>1, <2>1 DEF Cmp
  <1>4. F(t) \in FrameType /\ F(t).layer \in Layer BY FrameIs
  <1> DEFINE f == [F(t) EXCEPT !.cur = F(t).next]
  <1>5. f \in FrameType BY ONLY <1>2, <1>4 DEF FrameType
  <1>6. /\ f.cur = F(t).next /\ f.layer = F(t).layer /\ f.key = F(t).key /\ f.node = F(t).node
        /\ f.find = F(t).find /\ f.then = F(t).then
    BY ONLY <1>4 DEF FrameType
  <1>7. CallNext(t, f, F(t).ret) BY <1>1
  <1>8. F(t).layer <= F(t).layer BY <1>4, LayerAssumption DEF Layer
  <1> HIDE DEF f
  <1> QED BY <1>1, <1>2, <1>3, <1>4, <1>5, <1>6, <1>7, <1>8, FindOnStep

LEMMA FindDownStep ==
  ASSUME IInv, NEW t \in Thread, FindDown(t), UNCHANGED jobs
  PROVE  IInv'
  <1>1. /\ pc[t] = "findMove" /\ F(t).next # Null /\ F(t).layer > 0
        /\ snode' = Dropped({F(t).next}) /\ UNCHANGED <<alloc, slist>>
        /\ CallNext(t, [F(t) EXCEPT !.layer = F(t).layer - 1], F(t).ret)
    BY DEF FindDown, FindGoesOn, At, Down
  <1>2. F(t).next # F(t).cur /\ F(t).cur \in Node \cup {head} BY <1>1, AtSeek
  <1>3. F(t).cur # tail BY <1>2, NodesAssumption
  <1>4. F(t) \in FrameType /\ F(t).layer \in Layer BY FrameIs
  <1>5. F(t).layer - 1 \in Layer /\ F(t).layer - 1 <= F(t).layer
    BY <1>1, <1>4, LayerAssumption DEF Layer
  <1> DEFINE f == [F(t) EXCEPT !.layer = F(t).layer - 1]
  <1>6. f \in FrameType BY ONLY <1>4, <1>5 DEF FrameType
  <1>7. /\ f.cur = F(t).cur /\ f.layer = F(t).layer - 1 /\ f.key = F(t).key
        /\ f.node = F(t).node /\ f.find = F(t).find /\ f.then = F(t).then
    BY ONLY <1>4 DEF FrameType
  <1>8. CallNext(t, f, F(t).ret) BY <1>1
  <1> HIDE DEF f
  <1> QED BY <1>1, <1>2, <1>3, <1>5, <1>6, <1>7, <1>8, FindOnStep

\* skiplist_next: the search starts from a node that t has a reference on.
LEMMA CallSuccessorStep ==
  ASSUME IInv, NEW t \in Thread, pc[t] \in {"eraseFound", "first", "advance"},
         NEW m \in Node, Holds(t, m), NEW D, Takes({}, D), NEW f \in FrameType,
         f.cur = m, f.node = m, f.layer = 0, f.find = Null, f.key = snode[m].key,
         f.then \in {"eraseNode", "advance"}, CallNext(t, f, "successor"),
         f.then = "eraseNode" =>
            /\ snode[m].key \in Key
            /\ \A u \in Thread \ {t} : Owns(u) => F(u).node # m,
         \A n \in Node : One(n = m) - Mine(t, n) = 0 - One(n \in D),
         UNCHANGED <<alloc, slist>>, UNCHANGED jobs
  PROVE  IInv'
  <1>1. PICK S : S = {} OBVIOUS
  <1>2. Takes(S, D) BY <1>1
  <1>3. "successor" \in Returns BY DEF Returns
  <1>4. /\ Quiet(t, S, D) /\ pc'[t] = "next"
        /\ F(t)'.passed = {} /\ ~F(t)'.found /\ F(t)'.ret = "successor" /\ F(t)'.next = Null
        /\ F(t)'.key = f.key /\ F(t)'.node = f.node /\ F(t)'.cur = f.cur
        /\ F(t)'.layer = f.layer /\ F(t)'.find = f.find /\ F(t)'.then = f.then
    <2>1. /\ IInv /\ t \in Thread /\ UNCHANGED jobs /\ f \in FrameType
          /\ CallNext(t, f, "successor") /\ UNCHANGED <<alloc, slist>>
      OBVIOUS
    <2> QED BY ONLY <1>2, <1>3, <2>1, CallNextIs
  <1>5. m \in alloc /\ m \in Listed /\ snode[m].top >= 0
    <2>1. m \in alloc /\ m \in Listed BY HeldListed
    <2> QED BY <2>1, Typed, LayerAssumption DEF IInv, NodeType, Layer
  <1>6. \A n \in Node : One(n \in S) - One(n \in D) =
            One(F(t)'.ret = "findMove" /\ F(t)'.cur = n)
              + One((F(t)'.ret \in {"findMove", "successor"}
                       /\ F(t)'.then \in {"eraseNode", "advance"}) /\ F(t)'.node = n) - Mine(t, n)
    <2> TAKE n \in Node
    <2>1. PICK x \in {0, 1} : x = 1 <=> n = m OBVIOUS
    <2>2. PICK y \in {0, 1} : y = 1 <=> n \in D OBVIOUS
    <2>3. PICK z : z = Mine(t, n) OBVIOUS
    <2>4. z \in Int BY <2>3 DEF Mine, One
    <2>5. x - z = 0 - y BY <2>1, <2>2, <2>3 DEF One
    <2>6. One(n \in S) - One(n \in D) = 0 - y BY <1>1, <2>2 DEF One
    <2>7. One(F(t)'.ret = "findMove" /\ F(t)'.cur = n) = 0 BY <1>4 DEF One
    <2>8. One((F(t)'.ret \in {"findMove", "successor"}
                 /\ F(t)'.then \in {"eraseNode", "advance"}) /\ F(t)'.node = n) = x
      BY <1>4, <2>1 DEF One
    <2>9. x \in Int /\ y \in Int BY <2>1, <2>2
    <2>10. 0 - y = 0 + x - z BY ONLY <2>4, <2>5, <2>9
    <2> QED BY ONLY <2>3, <2>6, <2>7, <2>8, <2>10
  <1>7. SeeksOn(t, S, D)
    <2>1. /\ F(t)'.cur = m /\ F(t)'.ret = "successor" /\ F(t)'.node = m
          /\ F(t)'.key = snode[m].key /\ F(t)'.then \in {"eraseNode", "advance"}
          /\ F(t)'.layer = 0 /\ F(t)'.find = Null /\ F(t)'.next = Null /\ F(t)'.passed = {}
          /\ ~F(t)'.found /\ pc'[t] = "next"
      BY <1>4
    <2>2. /\ pc[t] \in {"find", "findMove", "begin", "first", "eraseFound", "advance"}
          /\ m \in Node \cup {head} /\ Holds(t, m)
      OBVIOUS
    <2>3. F(t)'.then = "eraseNode" =>
            /\ snode[m].key \in Key
            /\ \A u \in Thread \ {t} : Owns(u) => F(u).node # m
      BY <1>4
    <2> QED BY ONLY <1>5, <1>6, <2>1, <2>2, <2>3 DEF SeeksOn, Seeks
  <1> QED BY <1>4, <1>7, SeekStep

\* Erase has found a node with its key, which no other call owns.
LEMMA EraseNextStep ==
  ASSUME IInv, NEW t \in Thread, EraseNext(t), UNCHANGED jobs,
         \A u \in Thread \ {t} : Owns(u) => F(u).node # F(t).cursor
  PROVE  IInv'
  <1>1. PICK m : m = F(t).cursor OBVIOUS
  <1>2. pc[t] = "eraseFound" /\ m # Null /\ snode[m].key = F(t).key /\ UNCHANGED memory
    BY <1>1 DEF EraseNext, HasKey
  <1>3. F(t) \in FrameType /\ m \in Node /\ F(t).key \in Keys
    BY <1>1, <1>2, FrameIs
  <1>4. RestRoles(t) /\ LocalsFit(t) /\ Where(t) = pc[t] BY <1>2, AtSeek
  <1>5. Holds(t, m) BY <1>1, <1>2, <1>4 DEF RestRoles, Holds
  <1>6. F(t).key \in Key BY <1>2, <1>4 DEF LocalsFit
  <1> DEFINE f == [F(t) EXCEPT !.node = F(t).cursor, !.key = snode[F(t).cursor].key,
                               !.cur = F(t).cursor, !.layer = 0, !.find = Null,
                               !.then = "eraseNode"]
  <1>7. CallNext(t, f, "successor") BY DEF EraseNext, CallSuccessor
  <1>8. 0 \in Layer /\ m \in Link /\ "eraseNode" \in Thens /\ snode[m].key \in Keys
    BY <1>2, <1>3, LayerAssumption DEF Layer, Link, AllNode, Thens
  <1>9. f \in FrameType BY ONLY <1>1, <1>3, <1>8 DEF FrameType
  <1>10. /\ f.cur = m /\ f.node = m /\ f.layer = 0 /\ f.find = Null /\ f.key = snode[m].key
         /\ f.then = "eraseNode"
    BY ONLY <1>1, <1>3 DEF FrameType
  <1> HIDE DEF f
  <1>11. PICK D : D = {} OBVIOUS
  <1>12. Takes({}, D)
    <2>1. UNCHANGED snode BY <1>2 DEF memory
    <2> QED BY <1>11, <2>1, FrameIs, NothingTaken
  <1>13. \A n \in Node : One(n = m) - Mine(t, n) = 0 - One(n \in D)
    <2>1. \A n \in Node : Mine(t, n) = One(n = m)
      BY <1>1, <1>2, <1>4 DEF RestRoles, Mine, One
    <2> QED BY <1>11, <2>1 DEF One
  <1>14. UNCHANGED <<alloc, slist>> BY <1>2 DEF memory
  <1>15. \A u \in Thread \ {t} : Owns(u) => F(u).node # m BY <1>1
  <1>16. snode[m].key \in Key BY <1>2, <1>6
  <1>17. /\ pc[t] \in {"eraseFound", "first", "advance"} /\ f.then \in {"eraseNode", "advance"}
         /\ IInv /\ t \in Thread /\ UNCHANGED jobs
    BY <1>2, <1>10
  <1> QED BY ONLY <1>3, <1>5, <1>7, <1>9, <1>10, <1>12, <1>13, <1>14, <1>15, <1>16, <1>17,
                  CallSuccessorStep

\* Sum reads an entry and goes on to the next.
LEMMA VisitStep ==
  ASSUME IInv, NEW t \in Thread, pc[t] \in {"first", "advance"}, NEW m \in Node, Holds(t, m),
         Visit(t, m), NEW D, Takes({}, D),
         \A n \in Node : One(n = m) - Mine(t, n) = 0 - One(n \in D),
         UNCHANGED <<alloc, slist>>, UNCHANGED jobs
  PROVE  IInv'
  <1>1. F(t) \in FrameType /\ F(t).visited \in Seq(Keys) BY FrameIs
  <1>2. m \in AllNode /\ m \in Link BY DEF AllNode, Link
  <1>3. snode[m].key \in Keys BY <1>2, Typed DEF IInv, NodeType
  <1> DEFINE g == [F(t) EXCEPT !.cursor = m, !.visited = Append(F(t).visited, snode[m].key)]
             f == [g EXCEPT !.node = g.cursor, !.key = snode[g.cursor].key, !.cur = g.cursor,
                            !.layer = 0, !.find = Null, !.then = "advance"]
  <1>4. CallNext(t, f, "successor") BY DEF Visit, CallSuccessor
  <1>5. Append(F(t).visited, snode[m].key) \in Seq(Keys) BY <1>1, <1>3
  <1>6. g \in FrameType /\ g.cursor = m
    <2>1. m \in Node OBVIOUS
    <2> QED BY ONLY <1>1, <1>5, <2>1 DEF FrameType
  <1> HIDE DEF g
  <1>7. 0 \in Layer /\ "advance" \in Thens BY LayerAssumption DEF Layer, Thens
  <1>8. f \in FrameType
    <2>1. m \in Node OBVIOUS
    <2> QED BY ONLY <1>2, <1>3, <1>6, <1>7, <2>1 DEF FrameType
  <1>9. /\ f.cur = m /\ f.node = m /\ f.layer = 0 /\ f.find = Null /\ f.key = snode[m].key
        /\ f.then = "advance"
    BY ONLY <1>6 DEF FrameType
  <1> HIDE DEF f
  <1>10. /\ pc[t] \in {"eraseFound", "first", "advance"} /\ f.then \in {"eraseNode", "advance"}
         /\ IInv /\ t \in Thread /\ UNCHANGED jobs /\ m \in Node /\ Holds(t, m)
         /\ Takes({}, D) /\ UNCHANGED <<alloc, slist>> /\ f.then # "eraseNode"
         /\ \A n \in Node : One(n = m) - Mine(t, n) = 0 - One(n \in D)
    BY <1>9
  <1> QED BY ONLY <1>4, <1>8, <1>9, <1>10, CallSuccessorStep

LEMMA FirstEntryStep ==
  ASSUME IInv, NEW t \in Thread, FirstEntry(t), UNCHANGED jobs
  PROVE  IInv'
  <1>1. PICK m : m = F(t).next OBVIOUS
  <1>2. pc[t] = "first" /\ m # Null /\ m # tail /\ Visit(t, m) /\ UNCHANGED memory
    BY <1>1 DEF FirstEntry, At
  <1>3. RestRoles(t) /\ m \in Node /\ Holds(t, m) BY <1>1, <1>2, AtSeek
  <1>4. PICK D : D = {} OBVIOUS
  <1>5. Takes({}, D)
    <2>1. UNCHANGED snode BY <1>2 DEF memory
    <2> QED BY <1>4, <2>1, FrameIs, NothingTaken
  <1>6. \A n \in Node : One(n = m) - Mine(t, n) = 0 - One(n \in D)
    <2>1. \A n \in Node : Mine(t, n) = One(n = m)
      BY <1>1, <1>2, <1>3 DEF RestRoles, Mine, One
    <2> QED BY <1>4, <2>1 DEF One
  <1>7. UNCHANGED <<alloc, slist>> BY <1>2 DEF memory
  <1> QED BY <1>2, <1>3, <1>5, <1>6, <1>7, VisitStep

LEMMA NextEntryStep ==
  ASSUME IInv, NEW t \in Thread, NextEntry(t), UNCHANGED jobs
  PROVE  IInv'
  <1>1. PICK m : m = F(t).cursor OBVIOUS
  <1>2. PICK D : D = {F(t).node} OBVIOUS
  <1>3. /\ pc[t] = "advance" /\ m # Null /\ Visit(t, m) /\ snode' = Dropped(D)
        /\ UNCHANGED <<alloc, slist>>
    BY <1>1, <1>2 DEF NextEntry
  <1>4. RestRoles(t) /\ m \in Node BY <1>1, <1>3, AtSeek, FrameIs
  <1>5. Holds(t, m) BY <1>1, <1>3, <1>4 DEF RestRoles, Holds
  <1>6. Takes({}, D) BY <1>3, FrameIs, DroppedTakes
  <1>7. \A n \in Node : One(n = m) - Mine(t, n) = 0 - One(n \in D)
    <2> TAKE n \in Node
    <2>1. PICK x \in {0, 1} : x = 1 <=> n = m OBVIOUS
    <2>2. PICK y \in {0, 1} : y = 1 <=> n \in D OBVIOUS
    <2>3. Mine(t, n) = y + x BY <1>1, <1>2, <1>3, <1>4, <2>1, <2>2 DEF RestRoles, Mine, One
    <2>4. One(n = m) = x /\ One(n \in D) = y BY <2>1, <2>2 DEF One
    <2>5. x \in Int /\ y \in Int BY <2>1, <2>2
    <2> QED BY ONLY <2>3, <2>4, <2>5
  <1> QED BY <1>3, <1>4, <1>5, <1>6, <1>7, VisitStep
===============================================================================
