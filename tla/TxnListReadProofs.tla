-------------------------- MODULE TxnListReadProofs ---------------------------
(***************************************************************************)
(* What a running transaction has read. First the maps that the lists      *)
(* hold, the maps that calls make of each other, and the steps of a        *)
(* transaction that neither return from a call nor decide anything: each   *)
(* of them leaves ReadInv, as what the transaction itself has read stays   *)
(* right, and the others see the same list.                                *)
(*                                                                         *)
(* Then the operations, which return results, and the moment when a        *)
(* validation passes and the decided map becomes the map of the view. So   *)
(* ReadInv holds in every reachable state: a transaction that has read     *)
(* nothing outdated has returned what its calls return one after the other *)
(* on the decided map.                                                     *)
(*                                                                         *)
(* Last, transactions are serializable. Those that have been decided have  *)
(* an order, with the maps between them, and one that validates has a      *)
(* place in it from the moment when it has locked its write set: it can be *)
(* put in there, and what it changes does not matter to those behind. A    *)
(* transaction that would have to come before one that is already          *)
(* validating cannot pass, because it finds a node locked that it has      *)
(* read.                                                                   *)
(***************************************************************************)
EXTENDS TxnListSerial, TxnListProofs

-----------------------------------------------------------------------------
(* Nodes that are linked in the order of their keys. *)

\* The nodes of a list but the sentinel have keys of the list.
Keyed(S, K) == Null \notin S /\ \A n \in S \ {Sentinel} : K[n] \in Key

\* In front of node m there is node a and, of the others, none between them.
LEMMA Sorted ==
  ASSUME NEW S, NEW N, NEW K, Linked(S, N, K), Keyed(S, K)
  PROVE  \A m, n \in S \ {Sentinel} : \A a \in S :
            N[a] = m /\ n # m /\ K[n] <= K[m] => a # Sentinel /\ (n = a \/ K[n] < K[a])
  <1> DEFINE T == S \ {Sentinel}
             Bad(m, n, a) == /\ m \in T /\ n \in T /\ a \in S /\ N[a] = m /\ n # m /\ K[n] <= K[m]
                             /\ ~(a # Sentinel /\ (n = a \/ K[n] < K[a]))
             keys == {K[n] : n \in {x \in T : \E m, a \in S : Bad(m, x, a)}}
  <1>1. SUFFICES ASSUME keys # {} PROVE FALSE OBVIOUS
  <1>2. keys \in SUBSET Key BY DEF Keyed
  <1>3. PICK j \in keys : \A k \in keys : j <= k BY <1>1, <1>2, KeyOrderAssumption
  <1>4. PICK m1, n1, a1 : Bad(m1, n1, a1) /\ K[n1] = j BY <1>3
  <1>5. \A m, n, a : Bad(m, n, a) => j <= K[n] BY <1>3
  <1>6. \A n \in T : K[n] \in Int BY KeyAssumption DEF Keyed
  <1>7. \A n \in T : \E b \in S : N[b] = n BY DEF Linked
  <1>8. \A b \in T : \A n \in T : N[b] = n => K[b] < K[n] BY DEF Linked, Keyed
  <1>9. ASSUME NEW m, NEW n, NEW a, Bad(m, n, a), K[n] = j, a = Sentinel \/ K[a] < K[n]
        PROVE  FALSE
    <2>1. PICK b \in S : N[b] = n BY <1>7, <1>9
    <2>2. b # a /\ n \in T /\ m \in T BY <1>9, <2>1
    <2>3. CASE a = Sentinel
      <3>1. b \in T BY <2>2, <2>3
      <3>2. K[b] < K[n] /\ K[b] \in Int /\ K[n] \in Int /\ K[m] \in Int BY <3>1, <2>1, <2>2, <1>6, <1>8
      <3>3. K[n] <= K[m] BY <1>9
      <3>4. b # m /\ K[b] <= K[m] BY <3>2, <3>3
      <3>5. Bad(m, b, a) BY <1>9, <2>3, <3>1, <3>4
      <3> QED BY <3>5, <1>5, <3>2, <1>9
    <2>4. CASE a # Sentinel /\ b = Sentinel
      <3>1. a \in T /\ K[a] < K[n] BY <1>9, <2>4
      <3>2. K[a] \in Int /\ K[n] \in Int BY <3>1, <2>2, <1>6
      <3>3. Bad(n, a, b) BY <2>1, <2>2, <2>4, <3>1, <3>2
      <3> QED BY <3>3, <1>5, <3>1, <3>2, <1>9
    <2>5. CASE a # Sentinel /\ b # Sentinel
      <3>1. a \in T /\ b \in T /\ K[a] < K[n] BY <1>9, <2>5
      <3>2. K[a] \in Int /\ K[n] \in Int /\ K[b] \in Int /\ K[m] \in Int BY <3>1, <2>2, <1>6
      <3>3. K[b] < K[n] BY <3>1, <2>1, <2>2, <1>8
      <3>4. K[n] <= K[m] BY <1>9
      <3>5. CASE K[a] <= K[b]
        <4>1. b # m /\ K[b] <= K[m] BY <3>2, <3>3, <3>4
        <4>2. Bad(m, b, a) BY <1>9, <2>2, <3>1, <3>2, <3>5, <4>1
        <4> QED BY <4>2, <1>5, <3>2, <3>3, <1>9
      <3>6. CASE K[b] < K[a]
        <4>1. Bad(n, a, b) BY <2>1, <2>2, <3>1, <3>2, <3>6
        <4> QED BY <4>1, <1>5, <3>1, <3>2, <1>9
      <3> QED BY <3>2, <3>5, <3>6
    <2> QED BY <2>3, <2>4, <2>5
  <1>10. a1 \in T /\ K[a1] = K[n1] /\ a1 # n1
    <2>1. a1 # Sentinel /\ ~(K[a1] < K[n1]) BY <1>4, <1>9
    <2>2. a1 \in T /\ n1 \in T /\ K[a1] \in Int /\ K[n1] \in Int BY <1>4, <1>6, <2>1
    <2>3. n1 # a1 /\ ~(K[n1] < K[a1]) BY <1>4, <2>1
    <2> QED BY <2>1, <2>2, <2>3
  <1>11. PICK b \in S : N[b] = n1 BY <1>4, <1>7
  <1>12. b # Sentinel => K[b] < K[a1] BY <1>4, <1>8, <1>10, <1>11
  <1>13. n1 \in T /\ K[a1] \in Int /\ K[n1] \in Int /\ (b # Sentinel => K[b] \in Int) BY <1>4, <1>6, <1>10
  <1>14. Bad(n1, a1, b)
    <2>1. K[a1] <= K[n1] BY <1>10, <1>13
    <2>2. b # Sentinel => ~(a1 = b \/ K[a1] < K[b]) BY <1>12, <1>13
    <2> QED BY <1>10, <1>11, <1>13, <2>1, <2>2
  <1> QED BY <1>4, <1>9, <1>10, <1>12, <1>14

\* No two nodes have the same key.
LEMMA DistinctKeys ==
  ASSUME NEW S, NEW N, NEW K, Linked(S, N, K), Keyed(S, K),
         NEW m \in S \ {Sentinel}, NEW n \in S \ {Sentinel}, K[m] = K[n]
  PROVE  m = n
  <1>1. SUFFICES ASSUME m # n PROVE FALSE OBVIOUS
  <1>2. PICK a \in S : N[a] = m BY DEF Linked
  <1>3. K[n] \in Int /\ K[m] \in Int BY KeyAssumption DEF Keyed
  <1>4. a # Sentinel /\ (n = a \/ K[n] < K[a]) BY <1>1, <1>2, <1>3, Sorted
  <1>5. K[a] < K[m] /\ K[a] \in Int BY <1>2, <1>4, KeyAssumption DEF Linked, Keyed
  <1> QED BY <1>3, <1>4, <1>5

\* Each node is up to p or from the next one on.
LEMMA Sides ==
  ASSUME NEW S, NEW N, NEW K, Linked(S, N, K), Keyed(S, K), NEW p \in S, NEW x \in S \ {Sentinel}
  PROVE  \/ p # Sentinel /\ (x = p \/ K[x] < K[p])
         \/ N[p] # Null /\ (x = N[p] \/ K[N[p]] < K[x])
  <1> DEFINE T == S \ {Sentinel}
  <1>1. \A n \in T : K[n] \in Int BY KeyAssumption DEF Keyed
  <1>2. CASE N[p] # Null
    <2>1. N[p] \in T BY <1>2 DEF Linked
    <2>2. K[x] \in Int /\ K[N[p]] \in Int BY <1>1, <2>1
    <2>3. x # N[p] /\ K[x] <= K[N[p]] => p # Sentinel /\ (x = p \/ K[x] < K[p]) BY <2>1, Sorted
    <2> QED BY <1>2, <2>2, <2>3
  <1>3. CASE N[p] = Null
    <2> DEFINE Y == {y \in T : y # p /\ (p = Sentinel \/ K[p] <= K[y])}
               keys == {K[y] : y \in Y}
    <2>1. SUFFICES ASSUME ~(p # Sentinel /\ (x = p \/ K[x] < K[p])) PROVE FALSE OBVIOUS
    <2>2. x \in Y
      <3>1. CASE p = Sentinel BY <3>1
      <3>2. CASE p # Sentinel
        <4>1. K[p] \in Int /\ K[x] \in Int BY <1>1, <3>2
        <4> QED BY <2>1, <3>2, <4>1
      <3> QED BY <3>1, <3>2
    <2>3. keys \in SUBSET Key /\ keys # {} BY <2>2 DEF Keyed
    <2>4. PICK j \in keys : \A k \in keys : j <= k BY <2>3, KeyOrderAssumption
    <2>5. PICK y \in Y : K[y] = j BY <2>4
    <2>6. \A z \in Y : K[y] <= K[z] BY <2>4, <2>5
    <2>7. PICK c \in S : N[c] = y BY <2>5 DEF Linked
    <2>8. c # p BY <1>3, <2>5, <2>7 DEF Keyed
    <2>9. c # Sentinel => K[c] < K[y] /\ K[c] \in Int /\ K[y] \in Int
      BY <1>1, <2>5, <2>7 DEF Linked, Keyed
    <2>10. p # Sentinel => c # Sentinel /\ K[p] < K[c]
      <3>1. SUFFICES ASSUME p # Sentinel PROVE c # Sentinel /\ K[p] < K[c] OBVIOUS
      <3>2. y \in T /\ p \in T /\ p # y /\ K[p] <= K[y] BY <3>1, <2>5
      <3> QED BY <3>2, <2>7, <2>8, Sorted
    <2>11. c # Sentinel BY <2>8, <2>10
    <2>12. c \in Y
      <3>1. CASE p = Sentinel BY <3>1, <2>8, <2>11
      <3>2. CASE p # Sentinel
        <4>1. K[p] \in Int BY <1>1, <3>2
        <4> QED BY <2>8, <2>9, <2>10, <2>11, <3>2, <4>1
      <3> QED BY <3>1, <3>2
    <2> QED BY <2>6, <2>9, <2>11, <2>12
  <1> QED BY <1>2, <1>3

\* Only one node is the last before key k, and the node with the key is the next.
LEMMA OneBefore ==
  ASSUME NEW S, NEW N, NEW K, Linked(S, N, K), Keyed(S, K), NEW k \in Int,
         NEW x, LastBefore(S, N, K, x, k)
  PROVE  /\ \A y : LastBefore(S, N, K, y, k) => y = x
         /\ \A n \in S \ {Sentinel} : K[n] = k => N[x] = n
  <1> DEFINE T == S \ {Sentinel}
  <1>1. \A n \in T : K[n] \in Int BY KeyAssumption DEF Keyed
  <1>2. \A y \in S : N[y] # Null => N[y] \in T BY DEF Linked
  <1>3. ASSUME NEW y \in T, NEW z, LastBefore(S, N, K, y, k), LastBefore(S, N, K, z, k), z # y
        PROVE  z # Sentinel /\ K[y] < K[z]
    <2>1. z \in S /\ K[y] < k /\ K[y] \in Int BY <1>1, <1>3 DEF LastBefore
    <2>2. CASE N[z] # Null /\ (y = N[z] \/ K[N[z]] < K[y])
      <3>1. K[N[z]] >= k /\ K[N[z]] \in Int BY <1>1, <1>2, <1>3, <2>1, <2>2 DEF LastBefore
      <3> QED BY <2>1, <2>2, <3>1
    <2> QED BY <1>3, <2>1, <2>2, Sides
  <1>4. ASSUME NEW y, LastBefore(S, N, K, y, k), y # x PROVE FALSE
    <2>1. x \in S /\ y \in S BY <1>4 DEF LastBefore
    <2>2. CASE x = Sentinel BY <1>3, <1>4, <2>1, <2>2
    <2>3. CASE y = Sentinel BY <1>3, <1>4, <2>1, <2>3
    <2>4. CASE x # Sentinel /\ y # Sentinel
      <3>1. K[x] < K[y] /\ K[y] < K[x] BY <1>3, <1>4, <2>1, <2>4
      <3>2. K[x] \in Int /\ K[y] \in Int BY <1>1, <2>1, <2>4
      <3> QED BY <3>1, <3>2
    <2> QED BY <2>2, <2>3, <2>4
  <1>5. ASSUME NEW n \in T, K[n] = k PROVE N[x] = n
    <2>1. x \in S BY DEF LastBefore
    <2>2. x # Sentinel => K[x] \in Int /\ K[x] < k BY <1>1, <2>1 DEF LastBefore
    <2>3. N[x] # Null => K[N[x]] >= k /\ K[N[x]] \in Int BY <1>1, <1>2, <2>1 DEF LastBefore
    <2>4. ~(x # Sentinel /\ (n = x \/ K[n] < K[x])) BY <1>5, <2>2
    <2>5. N[x] # Null /\ (n = N[x] \/ K[N[x]] < K[n]) BY <2>1, <2>4, Sides
    <2> QED BY <1>5, <2>3, <2>5
  <1> QED BY <1>4, <1>5

\* There is one.
LEMMA SomeBefore ==
  ASSUME NEW S, NEW N, NEW K, Linked(S, N, K), Keyed(S, K), NEW k \in Int
  PROVE  \E x : LastBefore(S, N, K, x, k)
  <1> DEFINE T == S \ {Sentinel}
             keys == {K[n] : n \in {m \in T : K[m] < k}}
  <1>1. \A n \in T : K[n] \in Int BY KeyAssumption DEF Keyed
  <1>2. \A y \in S : N[y] # Null => N[y] \in T BY DEF Linked
  <1>3. CASE keys = {}
    <2>1. \A n \in T : K[n] >= k BY <1>1, <1>3
    <2>2. Sentinel \in S BY DEF Linked
    <2>3. LastBefore(S, N, K, Sentinel, k) BY <1>2, <2>1, <2>2 DEF LastBefore
    <2> QED BY <2>3
  <1>4. CASE keys # {}
    <2>1. keys \in SUBSET Key BY DEF Keyed
    <2>2. PICK j \in keys : \A i \in keys : i <= j BY <1>4, <2>1, KeyOrderAssumption
    <2>3. PICK x \in T : K[x] = j /\ K[x] < k BY <2>2
    <2>4. N[x] # Null => K[N[x]] >= k
      <3>1. SUFFICES ASSUME N[x] # Null, K[N[x]] < k PROVE FALSE
        BY <1>1, <1>2, <2>3
      <3>2. N[x] \in T /\ K[x] < K[N[x]] BY <1>2, <2>3, <3>1 DEF Linked
      <3>3. K[N[x]] \in keys BY <3>1, <3>2
      <3> QED BY <1>1, <2>2, <2>3, <3>2, <3>3
    <2>5. LastBefore(S, N, K, x, k) BY <2>3, <2>4 DEF LastBefore
    <2> QED BY <2>5
  <1> QED BY <1>3, <1>4

\* In front of a key a list has the same node as one laid over it, or has it changed.
LEMMA OverlayBefore ==
  ASSUME NEW L, NEW N, NEW K, NEW O, NEW D, NEW R, NEW M, Overlay(L, N, K, O, D, R, M),
         Keyed((L \cup O) \ R, K), NEW k \in Int,
         NEW q, LastBefore(L, N, K, q, k),
         NEW p, LastBefore((L \cup O) \ R, M, K, p, k)
  PROVE  q = p \/ q \in D
  <1>1. SUFFICES ASSUME q \notin D PROVE q = p OBVIOUS
  <1>2. q \in (L \cup O) \ R /\ M[q] = N[q] BY <1>1 DEF Overlay, LastBefore
  <1>3. LastBefore((L \cup O) \ R, M, K, q, k) BY <1>2 DEF LastBefore
  <1> QED BY <1>3, OneBefore DEF Overlay

-----------------------------------------------------------------------------
(* Calls, and the maps that they make of a map. *)

\* What one call makes of a map, and returns.
LEMMA EffectMap ==
  ASSUME NEW m \in Map, NEW op \in Operation, op.kind # "Throw"
  PROVE  /\ Effect(m, op) \in Map
         /\ \A k \in Key \ {op.key} : Effect(m, op)[k] = m[k]
         /\ op.kind = "Insert" => Effect(m, op)[op.key] = op.value /\ ResultOf(m, op) = Null
         /\ op.kind = "Remove" => Effect(m, op)[op.key] = Null /\ ResultOf(m, op) = m[op.key]
         /\ op.kind = "Get" => Effect(m, op) = m /\ ResultOf(m, op) = m[op.key]
         /\ op.kind = "Contains" => Effect(m, op) = m /\ ResultOf(m, op) = (m[op.key] # Null)
  <1>1. op.key \in Key /\ op.value \in Value /\ op.kind \in {"Contains", "Get", "Insert", "Remove"}
    BY DEF Operation
  <1>2. CASE op.kind = "Insert" BY <1>1, <1>2 DEF Effect, ResultOf, Map
  <1>3. CASE op.kind = "Remove" BY <1>1, <1>3 DEF Effect, ResultOf, Map
  <1>4. CASE op.kind = "Get" BY <1>1, <1>4 DEF Effect, ResultOf, Map
  <1>5. CASE op.kind = "Contains" BY <1>1, <1>5 DEF Effect, ResultOf, Map
  <1> QED BY <1>1, <1>2, <1>3, <1>4, <1>5

\* What no call has changed is as it was.
LEMMA UnchangedKeys ==
  ASSUME NEW c, Calling(c), NEW g, Steps(c, g)
  PROVE  \A i \in 0 .. Len(c) : \A k \in Key : k \notin ChangedBy(c, i) => g[i][k] = g[0][k]
  <1> DEFINE P(i) == i \in 0 .. Len(c) => \A k \in Key : k \notin ChangedBy(c, i) => g[i][k] = g[0][k]
             S == {i \in Nat : P(i)}
  <1>1. 0 \in S OBVIOUS
  <1>2. ASSUME NEW i \in Nat, i \in S PROVE i + 1 \in S
    <2>1. SUFFICES ASSUME i + 1 \in 0 .. Len(c), NEW k \in Key, k \notin ChangedBy(c, i + 1)
                   PROVE  g[i + 1][k] = g[0][k]
      BY <1>2
    <2> DEFINE op == c[i + 1].op
    <2>2. i \in 0 .. Len(c) /\ i + 1 \in 1 .. Len(c) /\ (i + 1) - 1 = i BY <2>1 DEF Calling
    <2>3. g[i] \in Map /\ op \in Operation /\ op.kind # "Throw" BY <2>2 DEF Steps, Calling
    <2>4. k \notin ChangedBy(c, i) BY <2>1 DEF ChangedBy
    <2>5. g[i][k] = g[0][k] BY <1>2, <2>2, <2>4
    <2>6. g[i + 1] = Effect(g[i], op) /\ ResultOf(g[i], op) = c[i + 1].result BY <2>2 DEF Steps
    <2>7. k = op.key => ~Changes(c[i + 1]) BY <2>1, <2>2 DEF ChangedBy
    <2>8. g[i + 1][k] = g[i][k]
      <3>1. CASE k # op.key BY <2>3, <2>6, <3>1, EffectMap
      <3>2. CASE k = op.key /\ op.kind = "Remove" BY <2>3, <2>6, <2>7, <3>2, EffectMap DEF Changes
      <3>3. CASE k = op.key /\ op.kind # "Remove"
        <4>1. op.kind # "Insert" BY <2>7, <3>3 DEF Changes
        <4>2. op.kind \in {"Get", "Contains"} BY <2>3, <3>3, <4>1 DEF Operation
        <4> QED BY <2>3, <2>6, <4>2, EffectMap
      <3> QED BY <3>1, <3>2, <3>3
    <2> QED BY <2>5, <2>8
  <1> HIDE DEF S
  <1>3. Nat \subseteq S BY <1>1, <1>2, NatSets
  <1> QED BY <1>3 DEF S, Calling

\* Calls change only the keys that they change.
LEMMA ReplayKeeps ==
  ASSUME NEW c, Calling(c), NEW f, NEW m, Replays(c, f, m)
  PROVE  f \in Map /\ m \in Map /\ \A k \in Key \ ChangedKeys(c) : m[k] = f[k]
  <1>1. PICK g : Steps(c, g) /\ g[0] = f /\ g[Len(c)] = m BY DEF Replays
  <1>2. 0 \in 0 .. Len(c) /\ Len(c) \in 0 .. Len(c) BY DEF Calling
  <1>3. f \in Map /\ m \in Map BY <1>1, <1>2 DEF Steps
  <1>4. \A k \in Key : k \notin ChangedBy(c, Len(c)) => g[Len(c)][k] = g[0][k]
    BY <1>1, <1>2, UnchangedKeys
  <1> QED BY <1>1, <1>3, <1>4 DEF ChangedKeys

\* No calls leave the map as it is.
LEMMA ReplayNothing ==
  ASSUME NEW c, Len(c) = 0, NEW m \in Map
  PROVE  Replays(c, m, m)
  <1> DEFINE g == [i \in 0 .. 0 |-> m]
  <1>1. g \in [0 .. Len(c) -> Map] /\ g[0] = m OBVIOUS
  <1>2. Steps(c, g) BY <1>1 DEF Steps
  <1> QED BY <1>1, <1>2 DEF Replays

\* One more call.
LEMMA ReplayMore ==
  ASSUME NEW c, Calling(c), NEW f, NEW m, Replays(c, f, m),
         NEW d, Calling(d), Len(d) = Len(c) + 1, \A i \in 1 .. Len(c) : d[i] = c[i],
         ResultOf(m, d[Len(d)].op) = d[Len(d)].result
  PROVE  Replays(d, f, Effect(m, d[Len(d)].op))
  <1>1. PICK g : Steps(c, g) /\ g[0] = f /\ g[Len(c)] = m BY DEF Replays
  <1> DEFINE n == Len(c)
             last == d[n + 1].op
             h == [i \in 0 .. n + 1 |-> IF i = n + 1 THEN Effect(m, last) ELSE g[i]]
  <1>2. n \in Nat /\ Len(d) = n + 1 BY DEF Calling
  <1>3. g \in [0 .. n -> Map] BY <1>1 DEF Steps
  <1>4. last \in Operation /\ last.kind # "Throw" BY <1>2 DEF Calling
  <1>5. Effect(m, last) \in Map BY <1>1, <1>2, <1>3, <1>4, EffectMap
  <1> HIDE DEF last
  <1>6. h \in [0 .. Len(d) -> Map]
    <2>1. \A i \in 0 .. n + 1 : i # n + 1 => g[i] \in Map BY <1>2, <1>3
    <2> QED BY <1>2, <1>5, <2>1
  <1>7. \A i \in 0 .. n : h[i] = g[i] BY <1>2
  <1>8. ASSUME NEW i \in 1 .. Len(d)
        PROVE  h[i] = Effect(h[i - 1], d[i].op) /\ ResultOf(h[i - 1], d[i].op) = d[i].result
    <2>1. CASE i = n + 1
      <3>1. h[i - 1] = m /\ h[i] = Effect(m, last) BY <1>1, <1>2, <1>7, <2>1
      <3>2. d[i].op = last /\ ResultOf(m, d[i].op) = d[i].result BY <1>2, <2>1 DEF last
      <3> QED BY <3>1, <3>2
    <2>2. CASE i # n + 1
      <3>1. i \in 1 .. n /\ i - 1 \in 0 .. n /\ i \in 0 .. n BY <1>2, <2>2
      <3>2. g[i] = Effect(g[i - 1], c[i].op) /\ ResultOf(g[i - 1], c[i].op) = c[i].result
        BY <1>1, <3>1 DEF Steps
      <3>3. d[i] = c[i] BY <3>1
      <3>4. h[i] = g[i] /\ h[i - 1] = g[i - 1] BY <1>7, <3>1
      <3> QED BY <3>2, <3>3, <3>4
    <2> QED BY <2>1, <2>2
  <1>9. Steps(d, h) BY <1>6, <1>8 DEF Steps
  <1>10. h[0] = f /\ h[Len(d)] = Effect(m, last) BY <1>1, <1>2, <1>7
  <1>11. d[Len(d)].op = last BY <1>2 DEF last
  <1> HIDE DEF h
  <1> QED BY <1>9, <1>10, <1>11 DEF Replays

\* The calls do the same on a map that has the same keys and, of those whose
\* values they tell, the same values.
LEMMA ReplayElsewhere ==
  ASSUME NEW c, Calling(c), NEW f, NEW m, Replays(c, f, m), NEW f2 \in Map,
         \A k \in CalledKeys(c) : f[k] = Null <=> f2[k] = Null,
         \A k \in KeysWith(c, {"Get", "Remove"}) : f[k] = f2[k]
  PROVE  Replays(c, f2, Over(f2, m, c))
  <1>1. PICK g : Steps(c, g) /\ g[0] = f /\ g[Len(c)] = m BY DEF Replays
  <1> DEFINE n == Len(c)
             At(i) == [k \in Key |-> IF k \in ChangedBy(c, i) THEN g[i][k] ELSE f2[k]]
             h == [i \in 0 .. n |-> At(i)]
  <1>2. n \in Nat BY DEF Calling
  <1>3. \A i \in 0 .. n : g[i] \in Map BY <1>1 DEF Steps
  <1>4. \A i \in 0 .. n : At(i) \in Map BY <1>3 DEF Map
  <1>5. h \in [0 .. n -> Map] BY <1>4
  <1>6. \A i \in 0 .. n : h[i] = At(i) OBVIOUS
  <1> HIDE DEF h
  <1>7. \A i \in 0 .. n : \A k \in Key : k \notin ChangedBy(c, i) => g[i][k] = f[k]
    BY <1>1, UnchangedKeys
  <1>8. ASSUME NEW i \in 1 .. n
        PROVE  h[i] = Effect(h[i - 1], c[i].op) /\ ResultOf(h[i - 1], c[i].op) = c[i].result
    <2> DEFINE op == c[i].op
               a == i - 1
    <2>1. i \in 0 .. n /\ a \in 0 .. n /\ i = a + 1 BY <1>2
    <2>2. op \in Operation /\ op.kind # "Throw" /\ op.key \in Key BY DEF Calling, Operation
    <2>3. g[a] \in Map /\ h[a] \in Map /\ h[a] = At(a) /\ h[i] = At(i) BY <1>3, <1>5, <1>6, <2>1
    <2>4. g[i] = Effect(g[a], op) /\ ResultOf(g[a], op) = c[i].result BY <1>1 DEF Steps
    <2>5. op.key \in CalledKeys(c) BY DEF CalledKeys, KeysOf
    <2>6. op.kind \in {"Get", "Remove"} => op.key \in KeysWith(c, {"Get", "Remove"})
      BY DEF KeysWith
    <2>7. op.key \notin ChangedBy(c, a) => g[a][op.key] = f[op.key] /\ h[a][op.key] = f2[op.key]
      BY <1>7, <2>1, <2>2, <2>3
    <2>8. op.key \in ChangedBy(c, a) => h[a][op.key] = g[a][op.key] BY <2>2, <2>3
    <2>9. h[a][op.key] = Null <=> g[a][op.key] = Null BY <2>5, <2>7, <2>8
    <2>10. op.kind \in {"Get", "Remove"} => h[a][op.key] = g[a][op.key] BY <2>6, <2>7, <2>8
    <2>11. ResultOf(h[a], op) = ResultOf(g[a], op)
      BY <2>2, <2>3, <2>9, <2>10, EffectMap DEF Operation
    <2>12. ChangedBy(c, i) = IF Changes(c[i]) THEN ChangedBy(c, a) \cup {op.key} ELSE ChangedBy(c, a)
      <3>1. 1 .. i = (1 .. a) \cup {i} BY <1>2, <2>1
      <3> QED BY <3>1 DEF ChangedBy
    <2>13. ASSUME NEW k \in Key PROVE At(i)[k] = Effect(h[a], op)[k]
      <3>0. At(i)[k] = IF k \in ChangedBy(c, i) THEN g[i][k] ELSE f2[k] OBVIOUS
      <3>1. CASE k # op.key
        <4>1. Effect(h[a], op)[k] = h[a][k] /\ g[i][k] = g[a][k] BY <2>2, <2>3, <2>4, <3>1, EffectMap
        <4>2. k \in ChangedBy(c, i) <=> k \in ChangedBy(c, a) BY <2>12, <3>1
        <4>3. h[a][k] = IF k \in ChangedBy(c, a) THEN g[a][k] ELSE f2[k] BY <2>3
        <4> QED BY <3>0, <4>1, <4>2, <4>3
      <3>2. CASE k = op.key /\ op.kind = "Insert"
        <4>1. Changes(c[i]) BY <3>2 DEF Changes
        <4> QED BY <2>2, <2>3, <2>4, <2>12, <3>0, <3>2, <4>1, EffectMap
      <3>3. CASE k = op.key /\ op.kind = "Remove" /\ Changes(c[i])
        BY <2>2, <2>3, <2>4, <2>12, <3>0, <3>3, EffectMap
      <3>4. CASE k = op.key /\ op.kind = "Remove" /\ ~Changes(c[i])
        <4>1. g[a][k] = Null BY <2>2, <2>3, <2>4, <3>4, EffectMap DEF Changes
        <4>2. h[a][k] = Null /\ g[i][k] = Null /\ Effect(h[a], op)[k] = Null
          BY <2>2, <2>3, <2>4, <2>9, <3>4, <4>1, EffectMap
        <4>3. k \notin ChangedBy(c, a) => f2[k] = Null BY <2>7, <3>4, <4>2
        <4> QED BY <2>12, <3>0, <3>4, <4>2, <4>3
      <3>5. CASE k = op.key /\ op.kind \in {"Get", "Contains"}
        <4>1. ~Changes(c[i]) BY <3>5 DEF Changes
        <4>2. Effect(h[a], op) = h[a] /\ g[i] = g[a] BY <2>2, <2>3, <2>4, <3>5, EffectMap
        <4>3. h[a][k] = IF k \in ChangedBy(c, a) THEN g[a][k] ELSE f2[k] BY <2>3
        <4> QED BY <2>12, <3>0, <4>1, <4>2, <4>3
      <3> QED BY <2>2, <3>1, <3>2, <3>3, <3>4, <3>5 DEF Operation
    <2>14. Effect(h[a], op) \in Map BY <2>2, <2>3, EffectMap
    <2>15. At(i) = Effect(h[a], op)
      <3> DEFINE x == At(i)
                 y == Effect(h[a], op)
      <3>1. x \in Map /\ y \in Map /\ \A k \in Key : x[k] = y[k] BY <1>4, <2>1, <2>13, <2>14
      <3> HIDE DEF x, y
      <3> x = y BY <3>1 DEF Map
      <3> QED BY DEF x, y
    <2> QED BY <2>3, <2>4, <2>11, <2>15
  <1>9. Steps(c, h) BY <1>5, <1>8 DEF Steps
  <1>10. h[0] = f2
    <2>1. ChangedBy(c, 0) = {} BY DEF ChangedBy
    <2> HIDE DEF At
    <2>2. 0 \in 0 .. n /\ h[0] = At(0) BY <1>2, <1>6
    <2> USE DEF At
    <2>3. h[0] \in Map BY <1>5, <2>2
    <2>4. \A k \in Key : h[0][k] = f2[k] BY <2>1, <2>2
    <2> QED BY <2>3, <2>4 DEF Map
  <1>11. h[n] = Over(f2, m, c)
    <2>1. h[n] = At(n) BY <1>2, <1>6
    <2> QED BY <1>1, <2>1 DEF Over, ChangedKeys
  <1> QED BY <1>9, <1>10, <1>11 DEF Replays

-----------------------------------------------------------------------------
(* The maps of the lists. *)

\* No two of the nodes have the same key of the list.
Distinct(S, K) == \A m, n \in S : K[m] \in Key /\ K[m] = K[n] => m = n

\* The map of a list has the value of its node at its key,
LEMMA MapHas ==
  ASSUME NEW S, NEW K, Distinct(S, K), NEW v, NEW n \in S, K[n] \in Key
  PROVE  MapOf(S, K, v)[K[n]] = v[n]
  <1> DEFINE k == K[n]
             c == CHOOSE m \in S : K[m] = k
  <1>1. c \in S /\ K[c] = k OBVIOUS
  <1>2. c = n BY <1>1 DEF Distinct
  <1>3. MapOf(S, K, v)[k] = v[c] BY DEF MapOf
  <1> QED BY <1>2, <1>3

\* nothing at a key of no node,
LEMMA MapLacks ==
  ASSUME NEW S, NEW K, NEW v, NEW k \in Key, \A n \in S : K[n] # k
  PROVE  MapOf(S, K, v)[k] = Null
  BY DEF MapOf

\* and what the nodes may hold.
LEMMA MapTyped ==
  ASSUME NEW S, NEW K, NEW v, \A n \in S : v[n] \in Value \cup {Null}
  PROVE  MapOf(S, K, v) \in Map
  <1> SUFFICES ASSUME NEW k \in Key PROVE MapOf(S, K, v)[k] \in Value \cup {Null}
    BY DEF MapOf, Map
  <1>1. CASE \E n \in S : K[n] = k
    <2>1. (CHOOSE n \in S : K[n] = k) \in S BY <1>1
    <2> QED BY <1>1, <2>1 DEF MapOf
  <1>2. CASE ~\E n \in S : K[n] = k BY <1>2 DEF MapOf
  <1> QED BY <1>1, <1>2

\* Two lists that have the same nodes with key k, and the same values there.
LEMMA MapAgrees ==
  ASSUME NEW S1, NEW K1, Distinct(S1, K1), NEW v1,
         NEW S2, NEW K2, Distinct(S2, K2), NEW v2, NEW k \in Key,
         \A n : (n \in S1 /\ K1[n] = k) <=> (n \in S2 /\ K2[n] = k),
         \A n \in S1 : K1[n] = k => v1[n] = v2[n]
  PROVE  MapOf(S1, K1, v1)[k] = MapOf(S2, K2, v2)[k]
  <1>1. CASE \E n \in S1 : K1[n] = k
    <2>1. PICK n \in S1 : K1[n] = k BY <1>1
    <2>2. n \in S2 /\ K2[n] = k BY <2>1
    <2> QED BY <2>1, <2>2, MapHas
  <1>2. CASE ~\E n \in S1 : K1[n] = k
    <2>1. MapOf(S1, K1, v1)[k] = Null BY <1>2, MapLacks
    <2>2. MapOf(S2, K2, v2)[k] = Null BY <1>2, MapLacks
    <2> QED BY <2>1, <2>2
  <1> QED BY <1>1, <1>2

\* What the map has is the key of a node.
LEMMA MapPresent ==
  ASSUME NEW S, NEW K, Distinct(S, K), NEW v, \A n \in S : v[n] \in Value, NEW k \in Key,
         MapOf(S, K, v)[k] # Null
  PROVE  \E n \in S : K[n] = k
  BY DEF MapOf

\* A list with keys of its own: whatever leads from the sentinel through them.
ListOf(S, N, K) ==
    /\ S \subseteq Node /\ Linked(S, N, K) /\ Keyed(S, K) /\ Distinct(S, K)
    /\ K[Sentinel] \notin Key

\* A linked set of nodes with keys is a list, without the key of the sentinel.
LEMMA ListHasKeys ==
  ASSUME NEW S \in SUBSET Node, NEW N, NEW K, Linked(S, N, K), Keyed(S, K), K[Sentinel] \notin Key
  PROVE  ListOf(S, N, K)
  <1>1. ASSUME NEW m \in S, NEW n \in S, K[m] \in Key, K[m] = K[n] PROVE m = n
    <2>1. m # Sentinel /\ n # Sentinel BY <1>1
    <2> QED BY <1>1, <2>1, DistinctKeys
  <1> QED BY <1>1 DEF ListOf, Distinct

\* The sentinel has the default key, which is no key of the list.
LEMMA SentinelKey ==
  ASSUME IInv, ListInv, KeysPrecedeDefault
  PROVE  KeyOf[Sentinel] \notin Key /\ DefaultKey \notin Key
  BY NodeAssumption, KeyAssumption DEF KeyOf, ListInv, ListMemory, KeysPrecedeDefault

\* The decided nodes are a list.
LEMMA LiveList ==
  ASSUME IInv, ListInv, KeysPrecedeDefault
  PROVE  ListOf(Live, DecidedNexts, KeyOf)
  <1>1. Live \subseteq Node /\ Null \notin Live BY LiveNodes DEF IInv, Types, MemoryOK
  <1>2. \A n \in Live \ {Sentinel} : KeyOf[n] \in Key
    BY <1>1 DEF IInv, Types, MemoryOK, KeyOf, Live
  <1>3. Keyed(Live, KeyOf) BY <1>1, <1>2 DEF Keyed
  <1>4. Linked(Live, DecidedNexts, KeyOf) BY DEF ListInv, ListMemory
  <1> QED BY <1>1, <1>3, <1>4, ListHasKeys, SentinelKey

\* The nodes that a transaction sees exist and have keys.
LEMMA ViewNodes ==
  ASSUME IInv, NEW t \in Thread
  PROVE  /\ View(t) \subseteq Node /\ Own(t) \subseteq txn[t].fresh /\ txn[t].fresh \subseteq alloc
         /\ Null \notin View(t) /\ \A n \in View(t) \ {Sentinel} : KeyOf[n] \in Key
         /\ DOMAIN txn[t].writeSet \subseteq alloc \cap Node
         /\ \A n \in Node : KeyOf[n] = node[n].key
  <1>1. Live \subseteq Node /\ Null \notin Live /\ alloc \subseteq Node /\ Null \notin alloc
    BY LiveNodes DEF IInv, Types, MemoryOK
  <1>2. txn[t].fresh \subseteq alloc /\ Refs(t) \subseteq alloc \cup {Null}
    BY DEF IInv, References
  <1>3. DOMAIN txn[t].writeSet \subseteq Node
    BY DEF IInv, Types, ThreadOK, TxnTyped
  <1>4. DOMAIN txn[t].writeSet \subseteq alloc BY <1>2, <1>3, NodeAssumption DEF Refs
  <1>5. \A n \in Node : KeyOf[n] = node[n].key /\ node[n].key \in Key \cup {DefaultKey}
    BY DEF KeyOf, IInv, Types, MemoryOK
  <1>6. View(t) \subseteq Live \cup Own(t) /\ Own(t) \subseteq txn[t].fresh BY DEF View, Own
  <1>7. \A n \in View(t) \ {Sentinel} : node[n].key # DefaultKey BY DEF View, Own, Live
  <1> QED BY <1>1, <1>2, <1>3, <1>4, <1>5, <1>6, <1>7

\* What a consistent transaction sees is a list.
LEMMA ViewList ==
  ASSUME IInv, ListInv, KeysPrecedeDefault, NEW t \in Thread, pc[t] \in Running, Consistent(t)
  PROVE  ListOf(View(t), ViewNext(t), KeyOf)
  <1>1. Linked(View(t), ViewNext(t), KeyOf) BY DEF ListInv, ThreadShape, ViewOK
  <1>2. Keyed(View(t), KeyOf) BY ViewNodes DEF Keyed
  <1> QED BY <1>1, <1>2, ViewNodes, ListHasKeys, SentinelKey

-----------------------------------------------------------------------------

\* The values of the decided nodes are values,
LEMMA DecidedValueTyped ==
  ASSUME IInv, NEW n \in Node
  PROVE  DecidedValue(n) \in Value
  <1>1. CASE Decided(n)
    <2>1. PICK u \in Thread : Pending(u, n) BY <1>1 DEF Decided
    <2>2. Writer(n) = u BY <2>1, WriterOf DEF WriterUnique
    <2>3. n \in DOMAIN txn[u].writeSet BY <2>1 DEF Pending, IInv, Ownership, HoldsOK
    <2>4. txn[u].writeSet[n].value \in Value
      BY <2>3 DEF IInv, Types, ThreadOK, TxnTyped, Txn, WriteSetElement
    <2> QED BY <1>1, <2>2, <2>4 DEF DecidedValue, Decision
  <1>2. CASE ~Decided(n) BY <1>2 DEF DecidedValue, IInv, Types, MemoryOK
  <1> QED BY <1>1, <1>2

\* as are those in the view of a transaction.
LEMMA ViewValueTyped ==
  ASSUME IInv, NEW t \in Thread, NEW n \in Node
  PROVE  ViewValues(t)[n] \in Value /\ DecidedValues[n] = DecidedValue(n)
         /\ (InWriteSet(t, n) => ViewValues(t)[n] = txn[t].writeSet[n].value)
         /\ (~InWriteSet(t, n) => ViewValues(t)[n] = DecidedValue(n))
  <1>1. InWriteSet(t, n) => txn[t].writeSet[n].value \in Value
    BY DEF InWriteSet, IInv, Types, ThreadOK, TxnTyped, Txn, WriteSetElement
  <1> QED BY <1>1, DecidedValueTyped DEF ViewValues, DecidedValues

\* The decided map and the map of a view are maps.
LEMMA MapsTyped ==
  ASSUME IInv, NEW t \in Thread
  PROVE  DecidedMap \in Map /\ ViewMap(t) \in Map
  <1>1. \A n \in Live : DecidedValues[n] \in Value \cup {Null}
    BY LiveNodes, ViewValueTyped, DecidedValueTyped
  <1>2. \A n \in View(t) : ViewValues(t)[n] \in Value \cup {Null} BY ViewNodes, ViewValueTyped
  <1>3. MapOf(Live, KeyOf, DecidedValues) \in Map BY <1>1, MapTyped
  <1>4. MapOf(View(t), KeyOf, ViewValues(t)) \in Map BY <1>2, MapTyped
  <1> QED BY <1>3, <1>4 DEF DecidedMap, ViewMap

\* What the decided map has.
LEMMA DecidedHas ==
  ASSUME IInv, ListInv, KeysPrecedeDefault, NEW k \in Key
  PROVE  /\ \A n \in Live : node[n].key = k => DecidedMap[k] = DecidedValue(n)
         /\ DecidedMap[k] # Null <=> \E n \in Live : node[n].key = k
         /\ \A m, n \in Live : node[m].key = k /\ node[n].key = k => m = n
  <1>1. ListOf(Live, DecidedNexts, KeyOf) BY LiveList
  <1>2. \A n \in Live : n \in Node /\ KeyOf[n] = node[n].key BY <1>1 DEF ListOf, KeyOf
  <1>3. \A n \in Live : DecidedValues[n] = DecidedValue(n) /\ DecidedValue(n) \in Value
    BY <1>2, DecidedValueTyped DEF DecidedValues
  <1>4. ASSUME NEW n \in Live, node[n].key = k PROVE DecidedMap[k] = DecidedValue(n)
    <2>1. MapOf(Live, KeyOf, DecidedValues)[KeyOf[n]] = DecidedValues[n]
      BY <1>1, <1>2, <1>4, MapHas DEF ListOf
    <2> QED BY <1>2, <1>3, <1>4, <2>1 DEF DecidedMap
  <1>5. (~\E n \in Live : node[n].key = k) => DecidedMap[k] = Null
    BY <1>2, MapLacks DEF DecidedMap
  <1>6. \A m, n \in Live : node[m].key = k /\ node[n].key = k => m = n
    BY <1>1, <1>2 DEF ListOf, Distinct
  <1> QED BY <1>3, <1>4, <1>5, <1>6, ValueAssumption

\* What a transaction's map has.
LEMMA ViewHas ==
  ASSUME IInv, ListInv, KeysPrecedeDefault, NEW t \in Thread, pc[t] \in Running, Consistent(t),
         NEW k \in Key
  PROVE  /\ \A n \in View(t) : node[n].key = k => ViewMap(t)[k] = ViewValues(t)[n]
         /\ ViewMap(t)[k] # Null <=> \E n \in View(t) : node[n].key = k
         /\ \A m, n \in View(t) : node[m].key = k /\ node[n].key = k => m = n
  <1>1. ListOf(View(t), ViewNext(t), KeyOf) BY ViewList
  <1>2. \A n \in View(t) : n \in Node /\ KeyOf[n] = node[n].key BY <1>1 DEF ListOf, KeyOf
  <1>3. \A n \in View(t) : ViewValues(t)[n] \in Value BY <1>2, ViewValueTyped
  <1>4. ASSUME NEW n \in View(t), node[n].key = k PROVE ViewMap(t)[k] = ViewValues(t)[n]
    <2>1. MapOf(View(t), KeyOf, ViewValues(t))[KeyOf[n]] = ViewValues(t)[n]
      BY <1>1, <1>2, <1>4, MapHas DEF ListOf
    <2> QED BY <1>2, <1>4, <2>1 DEF ViewMap
  <1>5. (~\E n \in View(t) : node[n].key = k) => ViewMap(t)[k] = Null
    BY <1>2, MapLacks DEF ViewMap
  <1>6. \A m, n \in View(t) : node[m].key = k /\ node[n].key = k => m = n
    BY <1>1, <1>2 DEF ListOf, Distinct
  <1> QED BY <1>3, <1>4, <1>5, <1>6, ValueAssumption

\* A transaction's map differs from the decided one in keys that it has changed.
LEMMA ViewElsewhere ==
  ASSUME IInv, ListInv, KeysPrecedeDefault, NEW t \in Thread, pc[t] \in Running, Consistent(t),
         EffectOK(t), NEW k \in Key \ Effective(t)
  PROVE  ViewMap(t)[k] = DecidedMap[k]
  <1>1. \A n \in Node : node[n].key = k => n \notin Own(t) \cup Removed(t) BY DEF EffectOK
  <1>2. \A n \in Node : node[n].key = k => (n \in View(t) <=> n \in Live) BY <1>1 DEF View
  <1>3. View(t) \subseteq Node /\ Live \subseteq Node
    BY ViewNodes, LiveNodes DEF IInv, Types, MemoryOK
  <1>4. CASE \E n \in Live : node[n].key = k
    <2>1. PICK n \in Live : node[n].key = k BY <1>4
    <2>2. n \in View(t) /\ n \in Node BY <1>2, <1>3, <2>1
    <2>3. ViewMap(t)[k] = ViewValues(t)[n] /\ DecidedMap[k] = DecidedValue(n)
      BY <2>1, <2>2, ViewHas, DecidedHas
    <2>4. InWriteSet(t, n) => txn[t].writeSet[n].value = DecidedValue(n)
      BY <2>1 DEF EffectOK, InWriteSet
    <2> QED BY <2>2, <2>3, <2>4, ViewValueTyped
  <1>5. CASE ~\E n \in Live : node[n].key = k
    <2>1. ~\E n \in View(t) : node[n].key = k BY <1>2, <1>3, <1>5
    <2> QED BY <1>5, <2>1, ViewHas, DecidedHas
  <1> QED BY <1>4, <1>5

-----------------------------------------------------------------------------
(* What a step leaves as it was. *)

\* A step that leaves the decided value of the node.
SameValue(n) == DecidedValue(n)' = DecidedValue(n)

\* A step of t leaves what is decided as it is.
Steady(t) == Silent(t) /\ \A n \in alloc \ Hidden(t) : SameValue(n)

\* One that decides nothing and writes no value of an undecided node is such a step.
LEMMA SameDecidedValue ==
  ASSUME IInv, IInv', NEW n \in Node,
         \A u \in Thread : Pending(u, n)' <=> Pending(u, n),
         \A u \in Thread : Pending(u, n) => txn'[u] = txn[u],
         ~Decided(n) => node'[n].value = node[n].value
  PROVE  SameValue(n)
  <1>1. WriterUnique /\ WriterUnique'
    <2>1. (IInv => WriterUnique)' BY WriterOf, PTL
    <2> QED BY <2>1, WriterOf
  <1>2. CASE Decided(n)
    <2>1. PICK u \in Thread : Pending(u, n) BY <1>2 DEF Decided
    <2>2. Decided(n) /\ Writer(n) = u /\ Decided(n)' /\ Writer(n)' = u /\ txn'[u] = txn[u]
      BY <1>1, <2>1 DEF WriterUnique
    <2> QED BY <2>2 DEF SameValue, DecidedValue, Decision
  <1>3. CASE ~Decided(n)
    <2>1. ~Decided(n)' BY <1>3 DEF Decided
    <2> QED BY <1>3, <2>1 DEF SameValue, DecidedValue
  <1> QED BY <1>2, <1>3

\* Equal lists with equal values make equal maps.
LEMMA MapSame ==
  ASSUME NEW S, NEW K1, NEW v1, NEW K2, NEW v2, Distinct(S, K1),
         \A n \in S : K2[n] = K1[n] /\ v2[n] = v1[n]
  PROVE  MapOf(S, K2, v2) = MapOf(S, K1, v1)
  <1>1. Distinct(S, K2) BY DEF Distinct
  <1>2. \A k \in Key : MapOf(S, K2, v2)[k] = MapOf(S, K1, v1)[k] BY <1>1, MapAgrees
  <1> DEFINE a == MapOf(S, K2, v2)
             b == MapOf(S, K1, v1)
  <1>3. a = [k \in Key |-> a[k]] /\ b = [k \in Key |-> b[k]] BY DEF MapOf
  <1>4. \A k \in Key : a[k] = b[k] BY <1>2
  <1> HIDE DEF a, b
  <1>5. a = b BY <1>3, <1>4
  <1> QED BY <1>5 DEF a, b

\* As long as the decided list and its values stay, so do its map and the places
\* in it.
LEMMA SameMap ==
  ASSUME IInv, ListInv, KeysPrecedeDefault, NEW S \in SUBSET Node, Live' = Live, Live \subseteq S,
         \A n \in S : Same(n) /\ SameValue(n)
  PROVE  DecidedMap' = DecidedMap /\ \A x, k : Precedes(x, k)' <=> Precedes(x, k)
  <1>1. ListOf(Live, DecidedNexts, KeyOf) BY LiveList
  <1>2. \A n \in Live : /\ KeyOf'[n] = KeyOf[n] /\ DecidedNexts'[n] = DecidedNexts[n]
                        /\ DecidedValues'[n] = DecidedValues[n]
    BY DEF Same, SameValue, KeyOf, DecidedNexts, DecidedValues
  <1>3. DecidedMap' = DecidedMap
    <2>1. Distinct(Live, KeyOf) BY <1>1 DEF ListOf
    <2>2. MapOf(Live, KeyOf', DecidedValues') = MapOf(Live, KeyOf, DecidedValues)
      BY <1>2, <2>1, MapSame
    <2>3. DecidedMap' = MapOf(Live', KeyOf', DecidedValues') BY DEF DecidedMap, MapOf
    <2> QED BY <2>2, <2>3 DEF DecidedMap
  <1>4. ASSUME NEW x, NEW k PROVE Precedes(x, k)' <=> Precedes(x, k)
    <2>1. x \in Live => DecidedNexts[x] = Null \/ DecidedNexts[x] \in Live
      BY <1>1 DEF ListOf, Linked
    <2> QED BY <1>2, <2>1 DEF Precedes, LastBefore
  <1> QED BY <1>3, <1>4

\* The map of a view does not change when nothing in the view does.
LEMMA SameViewMap ==
  ASSUME IInv, ListInv, KeysPrecedeDefault, NEW u \in Thread, pc[u] \in Running, Consistent(u),
         NEW S \in SUBSET Node, View(u)' = View(u), View(u) \subseteq S,
         \A n \in S : Same(n) /\ SameValue(n), txn'[u].writeSet = txn[u].writeSet
  PROVE  ViewMap(u)' = ViewMap(u)
  <1>1. ListOf(View(u), ViewNext(u), KeyOf) BY ViewList
  <1>2. \A n \in View(u) : KeyOf'[n] = KeyOf[n] /\ ViewValues(u)'[n] = ViewValues(u)[n]
    BY DEF Same, SameValue, KeyOf, ViewValues, InWriteSet
  <1>3. Distinct(View(u), KeyOf) BY <1>1 DEF ListOf
  <1>4. MapOf(View(u), KeyOf', ViewValues(u)') = MapOf(View(u), KeyOf, ViewValues(u))
    BY <1>2, <1>3, MapSame
  <1>5. ViewMap(u)' = MapOf(View(u)', KeyOf', ViewValues(u)') BY DEF ViewMap, MapOf
  <1> QED BY <1>4, <1>5 DEF ViewMap

\* What thread u has read and changed is worth the same as long as its list and the
\* decided one stay.
LEMMA SameReads ==
  ASSUME IInv, ListInv, KeysPrecedeDefault, NEW u \in Thread, pc[u] \in Running,
         NEW S \in SUBSET Node, Live' = Live, Live \subseteq S,
         \A n \in S : Same(n) /\ SameValue(n),
         View(u)' = View(u), Own(u)' = Own(u), Removed(u)' = Removed(u), Touched(u)' = Touched(u),
         Own(u) \cup Touched(u) \subseteq S, txn'[u].writeSet = txn[u].writeSet,
         \A n \in S : Old(u, n)' <=> Old(u, n), Consistent(u)' <=> Consistent(u),
         Calls(u)' = Calls(u), Effective(u)' = Effective(u), Got' \subseteq Got,
         txn[u].readSet \subseteq txn'[u].readSet, txn'[u].readSet \subseteq S
  PROVE  /\ DecidedMap' = DecidedMap
         /\ Consistent(u) => ViewMap(u)' = ViewMap(u)
         /\ EffectOK(u) => EffectOK(u)'
         /\ LocksOK(u) => LocksOK(u)'
         /\ AllOld(u)' => AllOld(u)
         /\ ReadsOK(u) => ReadsOK(u)'
  <1>1. DecidedMap' = DecidedMap /\ \A x, k : Precedes(x, k)' <=> Precedes(x, k) BY SameMap
  <1>2. View(u) \subseteq S BY DEF View
  <1>3. Consistent(u) => ViewMap(u)' = ViewMap(u) BY <1>2, SameViewMap
  <1>4. \A n \in S : node'[n].key = node[n].key /\ DecidedValue(n)' = DecidedValue(n)
    BY DEF Same, SameValue
  <1>5. EffectOK(u) => EffectOK(u)'
    <2>1. SUFFICES ASSUME EffectOK(u) PROVE EffectOK(u)' OBVIOUS
    <2>2. Removed(u) \subseteq Touched(u) BY DEF Removed, Touched
    <2>3. \A n \in Own(u) \cup Removed(u) : node'[n].key \in Effective(u)
      BY <1>4, <2>1, <2>2 DEF EffectOK
    <2>4. DOMAIN txn[u].writeSet \subseteq S BY DEF Touched
    <2>5. ASSUME Consistent(u)', NEW n \in DOMAIN txn'[u].writeSet, n \in Live',
                 node'[n].key \notin Effective(u)'
          PROVE  txn'[u].writeSet[n].value = DecidedValue(n)'
      BY <1>4, <2>1, <2>4, <2>5 DEF EffectOK
    <2> QED BY <2>3, <2>5 DEF EffectOK
  <1>6. LocksOK(u) => LocksOK(u)'
    <2>1. SUFFICES ASSUME LocksOK(u), Consistent(u)', NEW k \in Effective(u)
                   PROVE  /\ \A n \in Live' : node'[n].key = k => n \in Touched(u)'
                          /\ DecidedMap'[k] = Null \/ ViewMap(u)'[k] = Null \/ k \in Got' =>
                                \E x \in DOMAIN txn'[u].writeSet : Precedes(x, k)'
      BY DEF LocksOK
    <2> QED BY <1>1, <1>3, <1>4, <2>1 DEF LocksOK
  <1>7. AllOld(u)' => AllOld(u) BY DEF AllOld
  <1>8. ReadsOK(u) => ReadsOK(u)'
    <2>1. SUFFICES ASSUME ReadsOK(u), AllOld(u)'
                   PROVE  /\ \A k \in CalledKeys(Calls(u)') : \E x \in txn'[u].readSet : Precedes(x, k)'
                          /\ \A k \in KeysWith(Calls(u)', {"Remove"}) : \A n \in Live' :
                                node'[n].key = k => n \in txn'[u].readSet
      BY DEF ReadsOK, CalledKeys, KeysOf, KeysWith
    <2> QED BY <1>1, <1>4, <1>7, <2>1 DEF ReadsOK
  <1> QED BY <1>1, <1>3, <1>5, <1>6, <1>7, <1>8

-----------------------------------------------------------------------------
(* The other threads. *)

\* The settled nodes that a running transaction finds old are not decided otherwise.
SettledMeansUndecided ==
    \A t \in Thread, n \in Node : pc[t] \in Running /\ Settled(t, n) /\ Old(t, n) => ~Decided(n)

\* Whoever has decided otherwise still holds the lock.
LEMMA SettledUndecided == IInv => SettledMeansUndecided
  BY SettledOld DEF SettledMeansUndecided

\* What a step of another thread that decides nothing leaves as it is for u; S is what
\* u may refer to.
Untouched(u, S) ==
    /\ Live' = Live /\ Live \subseteq S /\ S \in SUBSET Node
    /\ \A n \in S : Same(n) /\ SameValue(n)
    /\ Refs(u) \subseteq S \cup {Null} /\ txn[u].fresh \subseteq S
    /\ pc'[u] = pc[u] /\ txn'[u] = txn[u] /\ frame'[u] = frame[u]
    /\ held'[u] = held[u] /\ todo'[u] = todo[u] /\ cur'[u] = cur[u]
    /\ DOMAIN txn[u].writeSet \subseteq S /\ Own(u) \cup Touched(u) \subseteq S
    /\ Gone(u) \subseteq S /\ Gone(u)' = Gone(u)
    /\ View(u)' = View(u) /\ Touched(u)' = Touched(u) /\ Own(u)' = Own(u)
    /\ \A n \in S : Old(u, n)' <=> Old(u, n)
    /\ Consistent(u)' <=> Consistent(u)
    /\ pc[u] \in Running /\ Consistent(u) => ViewMap(u)' = ViewMap(u)

\* A step of t that decides nothing leaves what it has not hidden to the others.
LEMMA OtherSame ==
  ASSUME IInv, IInv', ListInv, KeysPrecedeDefault, NEW t \in Thread, Steady(t),
         NEW u \in Thread \ {t}, NEW S, S = alloc \ Hidden(t)
  PROVE  Untouched(u, S)
  <1>1. Silent(t) BY DEF Steady
  <1>2. Live' = Live /\ Live \subseteq S /\ S \in SUBSET Node
    BY <1>1, SilentMemory, LiveNodes DEF ListInv, ListMemory
  <1>3. Refs(u) \subseteq S \cup {Null} /\ txn[u].fresh \subseteq S BY NotHidden
  <1>4. /\ pc'[u] = pc[u] /\ txn'[u] = txn[u] /\ frame'[u] = frame[u]
        /\ held'[u] = held[u] /\ todo'[u] = todo[u] /\ cur'[u] = cur[u]
    BY <1>1 DEF Silent
  <1>5. Gone(u)' = Gone(u) BY <1>4 DEF Gone
  <1>6. DOMAIN txn[u].writeSet \subseteq S /\ Touched(u) \subseteq S /\ Gone(u) \subseteq S
        /\ \A n \in DOMAIN txn[u].writeSet : txn[u].writeSet[n].next \in S \cup {Null}
    <2>1. DOMAIN txn[u].writeSet \subseteq Node BY DEF IInv, Types, ThreadOK, TxnTyped
    <2>2. Gone(u) \subseteq Node
      BY DEF IInv, Types, ThreadOK, FrameFits, Gone, AtFound
    <2>3. Gone(u) \cup DOMAIN txn[u].writeSet \subseteq Refs(u) BY DEF Gone, Refs
    <2>4. \A n \in DOMAIN txn[u].writeSet : txn[u].writeSet[n].next \in Refs(u) BY DEF Refs
    <2> QED BY <1>3, <2>1, <2>2, <2>3, <2>4, NodeAssumption DEF Touched
  <1>7. \A n \in S : Same(n) /\ SameValue(n) BY DEF Steady, Silent
  <1>8. /\ View(u)' = View(u) /\ Touched(u)' = Touched(u) /\ Own(u)' = Own(u)
        /\ \A n \in S : Old(u, n)' <=> Old(u, n)
        /\ Consistent(u)' <=> Consistent(u)
    BY <1>2, <1>3, <1>4, <1>5, <1>6, <1>7, SameView
  <1>9. Own(u) \cup Touched(u) \subseteq S BY <1>3, <1>6, ViewNodes
  <1>10. ASSUME pc[u] \in Running, Consistent(u) PROVE ViewMap(u)' = ViewMap(u)
    <2>1. View(u) \subseteq S BY <1>2, <1>9 DEF View
    <2> QED BY <1>2, <1>4, <1>7, <1>8, <1>10, <2>1, SameViewMap
  <1> QED BY <1>2, <1>3, <1>4, <1>5, <1>6, <1>7, <1>8, <1>9, <1>10 DEF Untouched

\* A step of t that decides nothing.
LEMMA OtherReads ==
  ASSUME IInv, IInv', ListInv, KeysPrecedeDefault, NEW t \in Thread, Silent(t),
         \A n \in alloc \ Hidden(t) : SameValue(n), Got' \subseteq Got,
         NEW u \in Thread \ {t}, pc[u] \in Running, jobs'[u] = jobs[u],
         ReadSeen(u), ThreadReads(u)
  PROVE  ThreadReads(u)'
  <1>1. PICK S : S = alloc \ Hidden(t) OBVIOUS
  <1>s. Steady(t) BY DEF Steady
  <1>u. Untouched(u, S) BY <1>1, <1>s, OtherSame
  <1>2. Live' = Live /\ Live \subseteq S /\ S \in SUBSET Node BY <1>u DEF Untouched
  <1>3. Refs(u) \subseteq S \cup {Null} /\ txn[u].fresh \subseteq S BY <1>u DEF Untouched
  <1>4. /\ pc'[u] = pc[u] /\ txn'[u] = txn[u] /\ frame'[u] = frame[u]
        /\ held'[u] = held[u] /\ todo'[u] = todo[u] /\ cur'[u] = cur[u]
    BY <1>u DEF Untouched
  <1>5. Gone(u)' = Gone(u) BY <1>u DEF Untouched
  <1>6. DOMAIN txn[u].writeSet \subseteq S /\ Touched(u) \subseteq S /\ Gone(u) \subseteq S BY <1>u DEF Untouched
  <1>7. \A n \in S : Same(n) /\ SameValue(n) BY <1>u DEF Untouched
  <1>8. txn[u].readSet \subseteq S BY <1>1 DEF ReadSeen
  <1>9. /\ View(u)' = View(u) /\ Touched(u)' = Touched(u) /\ Own(u)' = Own(u)
        /\ \A n \in S : Old(u, n)' <=> Old(u, n)
        /\ Consistent(u)' <=> Consistent(u)
    BY <1>u DEF Untouched
  <1>10. \A n \in S : Settled(u, n) => Settled(u, n)'
    <2>1. SUFFICES ASSUME NEW n \in S, Settled(u, n), NEW v \in Thread, Pending(v, n)'
                   PROVE  txn'[v].writeVersion > txn[u].readVersion
      BY <1>4 DEF Settled
    <2>2. Pending(v, n) /\ txn'[v].writeVersion = txn[v].writeVersion
      BY <1>2, <2>1 DEF Silent, Pending
    <2> QED BY <2>1, <2>2 DEF Settled
  <1>11. Removed(u)' = Removed(u) BY <1>4, <1>5 DEF Removed
  <1>12. Calls(u)' = Calls(u) BY <1>4 DEF Calls, Results, Job
  <1>13. Effective(u)' = Effective(u) /\ Removing(u)' = Removing(u)
    BY <1>4, <1>12 DEF Effective, Removing, ChangedKeys, ChangedBy
  <1>14. Own(u) \cup Touched(u) \subseteq S BY <1>u DEF Untouched
  <1>15. /\ DecidedMap' = DecidedMap
         /\ Consistent(u) => ViewMap(u)' = ViewMap(u)
         /\ EffectOK(u) => EffectOK(u)'
         /\ LocksOK(u) => LocksOK(u)'
         /\ AllOld(u)' => AllOld(u)
         /\ ReadsOK(u) => ReadsOK(u)'
    BY <1>2, <1>4, <1>7, <1>8, <1>9, <1>11, <1>12, <1>13, <1>14, SameReads
  <1>16. RoutineOK(u)'
    <2>1. RoutineOK(u) BY DEF ThreadReads, RunningOK
    <2>2. Job(u)' = Job(u) BY DEF Job
    <2>3. Calling(Calls(u)') BY <1>12, <2>1 DEF RoutineOK
    <2>4. Calling(Calls(u))' BY <2>3 DEF Calling
    <2>5. frame[u].op.key \notin Got => frame[u].op.key \notin Got' OBVIOUS
    <2> QED BY <1>4, <2>1, <2>2, <2>4, <2>5 DEF RoutineOK
  <1>17. PlaceClear(u)'
    <2>1. PlaceClear(u) BY DEF ThreadReads, RunningOK
    <2>2. \A n \in S : Clear(u, n) => Clear(u, n)' BY <1>4, <1>10 DEF Clear, InWriteSet
    <2>3. Between(u) \/ Removing(u) => frame[u].pred \in S
      <3>1. Between(u) \/ Removing(u) => frame[u].pred \in Node
        BY DEF IInv, Types, ThreadOK, FrameFits, Between, Removing, Placed, AtNode
      <3> QED BY <1>3, <3>1, NodeAssumption DEF Refs
    <2>4. pc[u] \in {"removePredecessor", "removeSuccessor"} => frame[u].succ \in S
      <3>1. pc[u] \in {"removePredecessor", "removeSuccessor"} => frame[u].succ \in Node
        BY DEF IInv, Types, ThreadOK, FrameFits, AtFound
      <3> QED BY <1>3, <3>1, NodeAssumption DEF Refs
    <2>5. Between(u)' = Between(u) BY <1>4 DEF Between
    <2> QED BY <1>4, <1>13, <2>1, <2>2, <2>3, <2>4, <2>5 DEF PlaceClear
  <1>18. ASSUME pc[u] \notin Validating, ResultsOK(u), AllOld(u)' PROVE ResultsOK(u)'
    <2>1. AllOld(u) /\ Consistent(u) BY <1>15, <1>18 DEF AllOld
    <2>2. ViewMap(u)' = ViewMap(u) /\ DecidedMap' = DecidedMap BY <1>15, <2>1
    <2>3. CASE ~Removing(u)
      <3>1. Replays(Calls(u), DecidedMap, ViewMap(u)) BY <1>18, <2>1, <2>3 DEF ResultsOK
      <3>2. Replays(Calls(u)', DecidedMap', ViewMap(u)') BY <1>12, <2>2, <3>1
      <3> QED BY <1>13, <2>3, <3>2 DEF ResultsOK, Replays, Steps
    <2>4. CASE Removing(u)
      <3>0. PICK s, k : s = frame[u].succ /\ k = frame[u].op.key OBVIOUS
      <3>1. s \in S /\ s \in Touched(u) /\ s \in Node
        BY <1>2, <1>6, <2>4, <3>0 DEF Removing, Gone, Touched
      <3>2. GetUpdatedValue(u, s)' = GetUpdatedValue(u, s)
        <4>1. CASE InWriteSet(u, s) BY <1>4, <4>1 DEF GetUpdatedValue, InWriteSet
        <4>2. CASE ~InWriteSet(u, s)
          <5>1. Settled(u, s) /\ Old(u, s)
            BY <2>1, <2>4, <3>0, <3>1, <4>2 DEF ThreadReads, RunningOK, PlaceClear, Clear, Removing, Consistent
          <5>2. Settled(u, s)' /\ Old(u, s)' BY <1>9, <1>10, <3>1, <5>1
          <5>3. SettledMeansUndecided /\ SettledMeansUndecided'
            <6>1. (IInv => SettledMeansUndecided)' BY SettledUndecided, PTL
            <6> QED BY <6>1, SettledUndecided
          <5>4. ~Decided(s) /\ ~Decided(s)'
            BY <1>4, <3>1, <5>1, <5>2, <5>3 DEF SettledMeansUndecided
          <5>5. node'[s].value = node[s].value
            BY <1>7, <3>1, <5>4 DEF SameValue, DecidedValue
          <5> QED BY <1>4, <4>2, <5>5 DEF GetUpdatedValue, InWriteSet
        <4> QED BY <4>1, <4>2
      <3>3. ViewMap(u)[k] = Null
            /\ Replays(Calls(u), DecidedMap, [ViewMap(u) EXCEPT ![k] = GetUpdatedValue(u, s)])
        BY <1>18, <2>1, <2>4, <3>0 DEF ResultsOK
      <3>4. ViewMap(u)'[k] = Null
            /\ Replays(Calls(u)', DecidedMap', [ViewMap(u)' EXCEPT ![k] = GetUpdatedValue(u, s)'])
        BY <1>12, <2>2, <3>2, <3>3
      <3>5. frame'[u].op.key = k /\ frame'[u].succ = s BY <1>4, <3>0
      <3>6. GetUpdatedValue(u, frame[u].succ)' = GetUpdatedValue(u, s)'
        BY <3>5 DEF GetUpdatedValue, InWriteSet
      <3> QED BY <1>13, <2>4, <3>4, <3>5, <3>6 DEF ResultsOK, Replays, Steps
    <2> QED BY <2>3, <2>4
  <1>19. ResultsOK(u)' \/ AllOld(u)' BY DEF ResultsOK
  <1>20. pc[u] \notin Validating => ReadsOK(u)' /\ ResultsOK(u)'
    BY <1>15, <1>18, <1>19 DEF ThreadReads
  <1> QED BY <1>4, <1>15, <1>16, <1>17, <1>20 DEF ThreadReads, RunningOK

\* A step of t that decides nothing keeps ReadInv if it is right for t itself.
LEMMA SilentReads ==
  ASSUME IInv, IInv', ListInv, KeysPrecedeDefault, ReadInv, NEW t \in Thread, Silent(t),
         \A n \in alloc \ Hidden(t) :
            SameValue(n) /\ (node[n].key \in Got => node'[n].value = node[n].value),
         Got' \subseteq Got, \A u \in Thread \ {t} : jobs'[u] = jobs[u],
         \A u \in Thread \ {t} : \A n \in held[u] : node'[n].value = node[n].value,
         GotFixed(t)', Stored(t)', ReadSeen(t)', pc'[t] \in Running => ThreadReads(t)'
  PROVE  ReadInv' /\ Steady(t)
  <1>1. ASSUME NEW u \in Thread \ {t} PROVE GotFixed(u)' /\ Stored(u)' /\ ReadSeen(u)'
    <2>1. /\ pc'[u] = pc[u] /\ txn'[u] = txn[u] /\ frame'[u] = frame[u]
          /\ held'[u] = held[u] /\ todo'[u] = todo[u] /\ cur'[u] = cur[u]
      BY DEF Silent
    <2>2. GotFixed(u) /\ Stored(u) /\ ReadSeen(u) BY DEF ReadInv
    <2>3. Refs(u) \subseteq (alloc \ Hidden(t)) \cup {Null} BY NotHidden
    <2>4. DOMAIN txn[u].writeSet \subseteq alloc \ Hidden(t)
      BY <2>3, NodeAssumption DEF Refs, IInv, Types, ThreadOK, TxnTyped
    <2>5. GotFixed(u)'
      <3>1. \A n \in DOMAIN txn[u].writeSet : node'[n].key = node[n].key BY <2>4 DEF Silent, Same
      <3> QED BY <2>1, <2>2, <2>4, <3>1 DEF GotFixed
    <2>6. Stored(u)' BY <2>1, <2>2 DEF Stored
    <2>7. \A v \in Thread \ {t} : Hidden(v)' = Hidden(v) BY DEF Silent, Hidden
    <2>8. alloc' \ Hidden(t)' = alloc \ Hidden(t) BY DEF Silent
    <2>9. txn[u].readSet \subseteq alloc' \ Hidden(t)' BY <2>2, <2>8 DEF ReadSeen
    <2>10. ReadSeen(u)' BY <2>1, <2>2, <2>7, <2>9 DEF ReadSeen
    <2> QED BY <2>5, <2>6, <2>10
  <1>2. ASSUME NEW u \in Thread \ {t}, pc'[u] \in Running PROVE ThreadReads(u)'
    <2>1. pc[u] \in Running BY <1>2 DEF Silent
    <2>2. ThreadReads(u) /\ ReadSeen(u) BY <2>1 DEF ReadInv
    <2> QED BY <2>1, <2>2, OtherReads
  <1> QED BY <1>1, <1>2 DEF ReadInv, Steady

\* A quiet step of t that hides nothing more leaves all decided values,
LEMMA QuietValues ==
  ASSUME IInv, IInv', NEW t \in Thread, Quiet(t), Hidden(t)' = Hidden(t)
  PROVE  \A n \in Node : SameValue(n)
  <1>1. \A n \in Node : \A u \in Thread : Pending(u, n)' <=> Pending(u, n)
    BY DEF Quiet, Alone, Pending
  <1>2. \A n \in Node : \A u \in Thread : Pending(u, n) => txn'[u] = txn[u]
    BY DEF Quiet, Alone, Pending
  <1>3. node' = node BY DEF Quiet
  <1> QED BY <1>1, <1>2, <1>3, SameDecidedValue

\* and ReadInv, if it is right for t itself.
LEMMA QuietReads ==
  ASSUME IInv, IInv', ListInv, KeysPrecedeDefault, ReadInv, NEW t \in Thread, Quiet(t),
         Hidden(t)' = Hidden(t), Got' \subseteq Got, \A u \in Thread \ {t} : jobs'[u] = jobs[u],
         GotFixed(t)', ReadSeen(t)', pc'[t] \in Running => ThreadReads(t)'
  PROVE  ReadInv' /\ Steady(t)
  <1>1. Silent(t) BY QuietSame
  <1>2. \A n \in Node : SameValue(n) BY QuietValues
  <1>3. node' = node /\ alloc \subseteq Node BY LiveNodes DEF Quiet
  <1>4. Stored(t)' BY DEF Stored, Quiet
  <1> QED BY <1>1, <1>2, <1>3, <1>4, SilentReads

\* A step of a running transaction that leaves its list and its calls as they are.
LEMMA OwnReads ==
  ASSUME IInv, IInv', ListInv, KeysPrecedeDefault, ReadInv, NEW t \in Thread, Quiet(t),
         Hidden(t)' = Hidden(t), pc[t] \in Running, ~Removing(t), ~Removing(t)', UNCHANGED jobs,
         txn'[t].writeSet = txn[t].writeSet, txn'[t].fresh = txn[t].fresh,
         txn'[t].readVersion = txn[t].readVersion, txn[t].readSet \subseteq txn'[t].readSet,
         ReadSeen(t)', frame'[t].results = frame[t].results,
         pc'[t] \in Running => /\ Calling(Calls(t)) => RoutineOK(t)'
                               /\ PlaceClear(t)'
                               /\ pc[t] \in Validating => pc'[t] \in Validating
  PROVE  ReadInv' /\ Steady(t)
  <1> DEFINE S == Node
  <1>1. ThreadReads(t) BY DEF ReadInv
  <1>2. Gone(t)' = Gone(t) BY DEF Gone, Removing
  <1>3. /\ View(t)' = View(t) /\ Touched(t)' = Touched(t) /\ Own(t)' = Own(t)
        /\ \A n \in Node : Old(t, n)' <=> Old(t, n)
        /\ Consistent(t)' <=> Consistent(t)
    BY <1>2, QuietView
  <1>4. Live' = Live /\ \A n \in Node : Same(n) /\ SameValue(n) BY QuietSame, QuietValues
  <1>5. Live \subseteq Node BY LiveNodes
  <1>6. Removed(t)' = Removed(t) BY <1>2 DEF Removed
  <1>7. Calls(t)' = Calls(t) BY DEF Calls, Results, Job
  <1>8. Effective(t)' = Effective(t) BY <1>7 DEF Effective, ChangedKeys, ChangedBy
  <1>9. Got' = Got BY DEF Got
  <1>10. Own(t) \cup Touched(t) \subseteq Node
    <2>1. Gone(t) \subseteq Node BY DEF Gone, IInv, Types, ThreadOK, FrameFits, AtFound
    <2> QED BY <2>1, ViewNodes, LiveNodes DEF Touched
  <1>11. txn'[t].readSet \subseteq Node
    BY LiveNodes DEF IInv, Types, ThreadOK, TxnTyped, Txn
  <1>12. /\ DecidedMap' = DecidedMap
         /\ Consistent(t) => ViewMap(t)' = ViewMap(t)
         /\ EffectOK(t) => EffectOK(t)'
         /\ LocksOK(t) => LocksOK(t)'
         /\ AllOld(t)' => AllOld(t)
         /\ ReadsOK(t) => ReadsOK(t)'
    <2>1. S \in SUBSET Node OBVIOUS
    <2> QED BY <2>1, <1>3, <1>4, <1>5, <1>6, <1>7, <1>8, <1>9, <1>10, <1>11, SameReads
  <1>13. ResultsOK(t) => ResultsOK(t)'
    <2>1. SUFFICES ASSUME ResultsOK(t), AllOld(t)' PROVE Replays(Calls(t)', DecidedMap', ViewMap(t)')
      BY DEF ResultsOK, Replays, Steps
    <2>2. AllOld(t) /\ Consistent(t) BY <1>12, <2>1 DEF AllOld
    <2>3. Replays(Calls(t), DecidedMap, ViewMap(t)) BY <2>1, <2>2 DEF ResultsOK
    <2> QED BY <1>7, <1>12, <2>2, <2>3
  <1>14. GotFixed(t)'
    <2>1. GotFixed(t) /\ node' = node BY DEF ReadInv, Quiet
    <2> QED BY <1>9, <2>1 DEF GotFixed
  <1>15. pc'[t] \in Running => ThreadReads(t)'
    BY <1>1, <1>12, <1>13 DEF ThreadReads, RunningOK, RoutineOK
  <1> QED BY <1>9, <1>14, <1>15, QuietReads

-----------------------------------------------------------------------------
(* The steps that only look for the place. *)

\* A step of an operation.
LEMMA LookReads ==
  ASSUME IInv, IInv', ListInv, KeysPrecedeDefault, ReadInv, NEW t \in Thread,
         UNCHANGED <<sharedVars, commitVars, jobs>>, pc[t] \in Running \ Validating,
         NEW label \in Running \cup {"abort", "fault"}, Goto(t, label),
         pc[t] # "removeSuccessor", label # "removeSuccessor",
         DOMAIN txn' = Thread, DOMAIN frame' = Thread,
         \A u \in Thread \ {t} : txn'[u] = txn[u] /\ frame'[u] = frame[u],
         txn'[t].writeSet = txn[t].writeSet, txn'[t].fresh = txn[t].fresh,
         txn'[t].readVersion = txn[t].readVersion, txn[t].readSet \subseteq txn'[t].readSet,
         txn'[t].readSet \subseteq txn[t].readSet \cup Refs(t),
         frame'[t].results = frame[t].results,
         label \in Running => (Calling(Calls(t)) => RoutineOK(t)') /\ PlaceClear(t)'
  PROVE  ReadInv' /\ Steady(t)
  <1>1. Quiet(t) /\ pc'[t] = label /\ Hidden(t)' = Hidden(t) BY OperationQuiet
  <1>2. ~Removing(t) /\ ~Removing(t)' BY <1>1 DEF Removing
  <1>3. ReadSeen(t)'
    <2>1. ReadSeen(t) /\ alloc' = alloc BY DEF ReadInv, sharedVars
    <2>2. \A u \in Thread \ {t} : Hidden(u)' = Hidden(u) BY <1>1 DEF Quiet, Alone, Hidden
    <2>3. Refs(t) \subseteq alloc \cup {Null} /\ \A u \in Thread \ {t} : Refs(t) \cap Hidden(u) = {}
      BY DEF IInv, References
    <2>4. txn'[t].readSet \subseteq Node BY DEF IInv, Types, ThreadOK, TxnTyped, Txn
    <2> QED BY <2>1, <2>2, <2>3, <2>4, NodeAssumption DEF ReadSeen
  <1> QED BY <1>1, <1>2, <1>3, OwnReads

\* A step that returns no result leaves the calls of its transaction.
LEMMA CallsSame ==
  ASSUME NEW t \in Thread, jobs' = jobs, frame'[t].results = frame[t].results
  PROVE  Calls(t)' = Calls(t) /\ Job(t)' = Job(t) /\ (Calling(Calls(t)) => Calling(Calls(t))')
         /\ Got' = Got
  <1>1. Calls(t)' = Calls(t) /\ Job(t)' = Job(t) BY DEF Calls, Results, Job
  <1>2. Got' = Got BY DEF Got
  <1> QED BY <1>1, <1>2 DEF Calling

\* What an operating transaction's frame and routine say.
LEMMA InRoutine ==
  ASSUME IInv, ReadInv, NEW t \in Thread, pc[t] \in Running
  PROVE  /\ RoutineOK(t) /\ PlaceClear(t) /\ EffectOK(t) /\ LocksOK(t) /\ ThreadReads(t)
         /\ frame[t] \in Frame(frame[t].results) /\ IsSeq(frame[t].results)
         /\ DOMAIN txn = Thread /\ DOMAIN frame = Thread
         /\ txn[t] \in Txn(DOMAIN txn[t].writeSet)
  BY DEF ReadInv, ThreadReads, RunningOK, IInv, Types, ThreadOK, FrameFits, TxnTyped

-----------------------------------------------------------------------------
(* The steps of a search. Each "...Reads" lemma says of an action that ReadInv
   holds after it, and that the step decides nothing (Steady). *)

\* A step of an operation that goes on with it.
LEMMA LookOn ==
  ASSUME IInv, IInv', ListInv, KeysPrecedeDefault, ReadInv, NEW t \in Thread,
         UNCHANGED <<sharedVars, commitVars, jobs>>, pc[t] \in Operating \ {"removeSuccessor"},
         NEW label \in Operating \ {"removeSuccessor"}, Goto(t, label),
         DOMAIN txn' = Thread, DOMAIN frame' = Thread,
         \A u \in Thread \ {t} : txn'[u] = txn[u] /\ frame'[u] = frame[u],
         txn'[t].writeSet = txn[t].writeSet, txn'[t].fresh = txn[t].fresh,
         txn'[t].readVersion = txn[t].readVersion, txn[t].readSet \subseteq txn'[t].readSet,
         txn'[t].readSet \subseteq txn[t].readSet \cup Refs(t),
         NEW g, frame'[t] = g, g.results = frame[t].results, g.op = frame[t].op,
         label = "removePredecessor" \/ (label \in AtNode /\ g.removing) => g.op.kind = "Remove",
         label = "insertDeleted" => g.op.kind = "Insert" /\ g.op.key \notin Got,
         label \in {"apply", "removePredecessor", "insertDeleted"} \/ (label \in AtNode /\ g.removing)
            => g.pred \in Node /\ Clear(t, g.pred),
         label = "removePredecessor" => g.succ \in Node /\ Clear(t, g.succ)
  PROVE  ReadInv' /\ Steady(t)
  <1>1. pc[t] \in Running \ Validating /\ label \in Running
    BY DEF Running, Operating, Placed, Validating
  <1>2. pc'[t] = label BY DEF IInv, Types, Goto
  <1>3. frame'[t].results = g.results BY ONLY frame'[t] = g
  <1>4. RoutineOK(t) BY <1>1, InRoutine
  <1>5. Job(t)' = Job(t) /\ (Calling(Calls(t)))' /\ Got' = Got
    BY <1>3, <1>4, CallsSame DEF RoutineOK
  <1>6. ~Removing(t)' BY <1>2 DEF Removing
  <1>7. /\ label # "next" /\ label \notin {"lock"} \cup Validating /\ label # "removeSuccessor"
        /\ label \in Operating
    BY DEF Operating, Placed, Validating
  <1>8. /\ Len(g.results) < Len(Job(t).body) /\ g.op = Job(t).body[Len(g.results) + 1]
        /\ g.op.kind # "Throw"
    BY <1>4 DEF RoutineOK
  <1>9. RoutineOK(t)' BY <1>2, <1>3, <1>5, <1>7, <1>8 DEF RoutineOK
  <1>10. \A n \in Node : Clear(t, n) => Clear(t, n)'
    <2>1. \A n \in Node : \A u \in Thread :
            Pending(u, n)' => Pending(u, n) /\ u # t
      BY <1>2, <1>7 DEF Pending, Goto, commitVars, Committing, IInv, Types, Operating, Placed
    <2> QED BY <2>1 DEF Clear, InWriteSet, Settled
  <1>11. PlaceClear(t)'
    <2>1. Between(t)' <=> \/ label \in {"apply", "removePredecessor", "insertDeleted"}
                          \/ (label \in AtNode /\ g.removing)
      BY <1>2 DEF Between
    <2>2. Between(t)' => Clear(t, frame[t].pred)' BY <1>10, <2>1 DEF Clear, InWriteSet, Settled
    <2>3. label = "removePredecessor" => Clear(t, frame[t].succ)'
      BY <1>10 DEF Clear, InWriteSet, Settled
    <2> QED BY <1>2, <1>6, <1>7, <2>2, <2>3 DEF PlaceClear
  <1> QED BY <1>1, <1>3, <1>7, <1>9, <1>11, LookReads

\* An operation that gives up.
LEMMA LookAway ==
  ASSUME IInv, IInv', ListInv, KeysPrecedeDefault, ReadInv, NEW t \in Thread,
         UNCHANGED <<sharedVars, commitVars, jobs, txn>>, pc[t] \in Running \ Validating,
         pc[t] # "removeSuccessor", NEW label \in {"abort", "fault"}, Goto(t, label),
         DOMAIN frame' = Thread, \A u \in Thread \ {t} : frame'[u] = frame[u],
         frame'[t].results = frame[t].results
  PROVE  ReadInv' /\ Steady(t)
  <1>1. label \notin Running /\ label # "removeSuccessor"
    BY DEF Running, Operating, Placed, Validating
  <1>2. DOMAIN txn' = Thread BY DEF IInv, Types
  <1> QED BY <1>1, <1>2, LookReads

\* Execute begins the next operation of the routine.
LEMMA ExecuteReads ==
  ASSUME IInv, IInv', ListInv, KeysPrecedeDefault, ReadInv, NEW t \in Thread, Execute(t)
  PROVE  ReadInv' /\ Steady(t)
  <1>1. PICK op : op = Job(t).body[Len(Results(t)) + 1] OBVIOUS
  <1>2. PICK label : label = IF op.kind = "Throw" THEN "fault" ELSE "findPrevious" OBVIOUS
  <1>3. /\ pc[t] = "next" /\ Len(Results(t)) < Len(Job(t).body) /\ Goto(t, label)
        /\ frame' = [frame EXCEPT ![t].op = op, ![t].cand = op.key]
        /\ UNCHANGED <<sharedVars, txn, commitVars, jobs>>
    BY <1>1, <1>2 DEF Execute, CallOperation, operatorVars
  <1>4. pc[t] \in Running \ Validating /\ label \in Running \cup {"abort", "fault"}
        /\ pc[t] # "removeSuccessor" /\ label # "removeSuccessor"
    BY <1>2, <1>3 DEF Running, Operating, Placed, Validating
  <1>5. /\ DOMAIN frame' = Thread /\ DOMAIN txn' = Thread
        /\ \A u \in Thread \ {t} : frame'[u] = frame[u]
        /\ frame'[t] = [frame[t] EXCEPT !.op = op, !.cand = op.key]
        /\ frame[t] \in Frame(frame[t].results)
    BY <1>3 DEF IInv, Types, ThreadOK, FrameFits
  <1>6. frame'[t].results = frame[t].results /\ frame'[t].op = op BY <1>5 DEF Frame
  <1>7. CASE label = "fault" BY <1>3, <1>4, <1>5, <1>6, <1>7, LookAway
  <1>8. CASE label # "fault"
    <2>1. pc'[t] = "findPrevious" BY <1>2, <1>3, <1>8 DEF IInv, Types, Goto
    <2>2. RoutineOK(t) BY <1>4, InRoutine
    <2>3. Job(t)' = Job(t) /\ (Calling(Calls(t)))' BY <1>3, <1>6, <2>2, CallsSame DEF RoutineOK
    <2>4. RoutineOK(t)'
      <3>1. pc'[t] \in Operating /\ pc'[t] \notin {"next", "lock"} \cup Validating \cup AtNode \cup AtFound
        BY <2>1 DEF Operating, Placed, Validating, AtNode, AtFound
      <3>2. Len(frame'[t].results) < Len(Job(t)'.body)
            /\ frame'[t].op = Job(t)'.body[Len(frame'[t].results) + 1] /\ frame'[t].op.kind # "Throw"
        BY <1>1, <1>2, <1>3, <1>6, <1>8, <2>3 DEF Results
      <3> QED BY <2>3, <3>1, <3>2 DEF RoutineOK, AtFound
    <2>5. PlaceClear(t)' BY <2>1 DEF PlaceClear, Between, Removing, AtNode
    <2>6. UNCHANGED <<sharedVars, commitVars, jobs>> BY <1>3
    <2> QED BY <1>3, <1>4, <1>5, <1>6, <2>4, <2>5, <2>6, LookReads
  <1> QED BY <1>7, <1>8

\* FindPrevious begins at a node of the list that nobody is still to write.
LEMMA FindPreviousReads ==
  ASSUME IInv, IInv', ListInv, KeysPrecedeDefault, ReadInv, NEW t \in Thread, FindPrevious(t),
         UNCHANGED jobs
  PROVE  ReadInv' /\ Steady(t)
  <1>1. PICK p, g, label : /\ p = GetPrevious(frame[t].cand) /\ g = [frame[t] EXCEPT !.pred = p]
                           /\ label = "predecessorVersion"
    OBVIOUS
  <1>2. /\ pc[t] = "findPrevious" /\ UNCHANGED <<sharedVars, commitVars, txn>> /\ Goto(t, label)
        /\ frame' = [frame EXCEPT ![t] = g]
    BY <1>1 DEF FindPrevious, operatorVars
  <1>3. pc[t] \in Operating \ {"removeSuccessor"} /\ label \in Operating \ {"removeSuccessor"}
        /\ label \notin AtNode /\ label \notin {"apply", "removePredecessor", "insertDeleted"}
    BY <1>1, <1>2 DEF Operating, Placed, AtNode
  <1>4. /\ DOMAIN frame' = Thread /\ DOMAIN txn' = Thread
        /\ \A u \in Thread \ {t} : txn'[u] = txn[u] /\ frame'[u] = frame[u]
        /\ frame'[t] = g /\ frame[t] \in Frame(frame[t].results)
    BY <1>2 DEF IInv, Types, ThreadOK, FrameFits
  <1>5. g.results = frame[t].results /\ g.op = frame[t].op BY <1>1, <1>4 DEF Frame
  <1>6. UNCHANGED <<sharedVars, commitVars, jobs>> /\ txn' = txn BY <1>2
  <1> QED BY <1>2, <1>3, <1>4, <1>5, <1>6, LookOn

\* The version of the predecessor has been read.
LEMMA PredecessorVersionReads ==
  ASSUME IInv, IInv', ListInv, KeysPrecedeDefault, ReadInv, NEW t \in Thread, PredecessorVersion(t),
         UNCHANGED jobs
  PROVE  ReadInv' /\ Steady(t)
  <1>1. PICK label : /\ label \in {"predecessorDeleted", "abort"} /\ Goto(t, label)
    BY DEF PredecessorVersion
  <1>2. /\ pc[t] = "predecessorVersion"
        /\ UNCHANGED <<sharedVars, commitVars, jobs>> /\ UNCHANGED txn /\ UNCHANGED frame
    BY DEF PredecessorVersion, operatorVars
  <1>3. pc[t] \in Running \ Validating /\ pc[t] \in Operating \ {"removeSuccessor"}
    BY <1>2 DEF Running, Operating, Placed, Validating
  <1>4. DOMAIN frame' = Thread /\ DOMAIN txn' = Thread BY <1>2 DEF IInv, Types
  <1>5. CASE label = "abort" BY <1>1, <1>2, <1>3, <1>4, <1>5, LookAway
  <1>6. CASE label = "predecessorDeleted"
    <2>1. /\ label \in Operating \ {"removeSuccessor"} /\ label \notin AtNode
          /\ label \notin {"apply", "removePredecessor", "insertDeleted"}
      BY <1>6 DEF Operating, Placed, AtNode
    <2>2. PICK g : g = frame[t] OBVIOUS
    <2>3. frame'[t] = g BY <1>2, <2>2
    <2> QED BY <1>1, <1>2, <1>3, <1>4, <2>1, <2>2, <2>3, LookOn
  <1> QED BY <1>1, <1>5, <1>6

\* The predecessor is deleted or not.
LEMMA PredecessorDeletedReads ==
  ASSUME IInv, IInv', ListInv, KeysPrecedeDefault, ReadInv, NEW t \in Thread, PredecessorDeleted(t),
         UNCHANGED jobs
  PROVE  ReadInv' /\ Steady(t)
  <1>1. PICK p, gone : p = frame[t].pred /\ gone = GetUpdatedIsDeleted(t, p) OBVIOUS
  <1>2. PICK label : label = IF ~gone THEN "successorLocked"
                             ELSE IF p = Sentinel THEN "fault" ELSE "findPrevious"
    OBVIOUS
  <1>3. PICK g : g = IF ~gone THEN [frame[t] EXCEPT !.at = p]
                     ELSE [frame[t] EXCEPT !.cand = node[p].key]
    OBVIOUS
  <1>4. /\ pc[t] = "predecessorDeleted" /\ Goto(t, label) /\ frame' = [frame EXCEPT ![t] = g]
        /\ UNCHANGED <<sharedVars, commitVars, jobs>> /\ UNCHANGED txn
    BY <1>1, <1>2, <1>3 DEF PredecessorDeleted, operatorVars
  <1>5. pc[t] \in Running \ Validating /\ pc[t] \in Operating \ {"removeSuccessor"}
    BY <1>4 DEF Running, Operating, Placed, Validating
  <1>6. /\ DOMAIN frame' = Thread /\ DOMAIN txn' = Thread
        /\ \A u \in Thread \ {t} : txn'[u] = txn[u] /\ frame'[u] = frame[u]
        /\ frame'[t] = g /\ frame[t] \in Frame(frame[t].results)
    BY <1>4 DEF IInv, Types, ThreadOK, FrameFits
  <1>7. /\ g.results = frame[t].results /\ g.op = frame[t].op /\ g.removing = frame[t].removing
    BY <1>3, <1>6 DEF Frame
  <1>8. ~g.removing
    BY <1>4, <1>5, <1>7 DEF ListInv, ThreadShape, PredecessorOK, Searching
  <1>9. CASE label = "fault" BY <1>4, <1>5, <1>6, <1>7, <1>9, LookAway
  <1>10. CASE label # "fault"
    <2>1. /\ label \in Operating \ {"removeSuccessor"}
          /\ label \notin {"apply", "removePredecessor", "insertDeleted"}
      BY <1>2, <1>10 DEF Operating, Placed
    <2> QED BY <1>4, <1>5, <1>6, <1>7, <1>8, <2>1, LookOn
  <1> QED BY <1>9, <1>10

\* The search goes on to the next node, or has found its place.
LEMMA GotSuccessorReads ==
  ASSUME IInv, IInv', ListInv, KeysPrecedeDefault, ReadInv, NEW t \in Thread,
         pc[t] \in AtNode, UNCHANGED <<sharedVars, commitVars, jobs>>,
         NEW n \in Node \cup {Null}, GotSuccessor(t, n), Clear(t, frame[t].at)
  PROVE  ReadInv' /\ Steady(t)
  <1>0. PICK f, p : f = frame[t] /\ p = f.pred OBVIOUS
  <1>1. /\ f \in Frame(f.results) /\ p \in Node /\ f.at \in Node
        /\ f.removing => f.succ \in Node /\ f.at = f.succ /\ Between(t)
        /\ ~f.removing => f.at = p
    BY <1>0, AtNodePlace
  <1>2. pc[t] \in Running /\ pc[t] \in Operating \ {"removeSuccessor"}
    BY DEF Running, Operating, Placed, AtNode
  <1>3. RoutineOK(t) /\ PlaceClear(t) BY <1>2, InRoutine
  <1>4. f.removing => f.op.kind = "Remove" /\ Clear(t, p)
    BY <1>0, <1>1, <1>3 DEF RoutineOK, PlaceClear
  <1>5. /\ DOMAIN frame = Thread /\ DOMAIN txn = Thread BY DEF IInv, Types
  <1>6. CASE f.removing
    <2>1. PICK g, label : g = [f EXCEPT !.link = n] /\ label = "removePredecessor" OBVIOUS
    <2>2. /\ frame' = [frame EXCEPT ![t] = g] /\ Goto(t, label) /\ UNCHANGED txn
      BY <1>0, <1>6, <2>1 DEF GotSuccessor
    <2>3. /\ DOMAIN frame' = Thread /\ DOMAIN txn' = Thread
          /\ \A u \in Thread \ {t} : txn'[u] = txn[u] /\ frame'[u] = frame[u]
          /\ frame'[t] = g
      BY <1>5, <2>2
    <2>4. /\ g.pred = p /\ g.succ = f.succ /\ g.op = f.op /\ g.results = f.results
      BY <1>0, <1>1, <2>1 DEF Frame
    <2>5. label \in Operating \ {"removeSuccessor"} BY <2>1 DEF Operating, Placed
    <2>6. Clear(t, f.succ) BY <1>0, <1>1, <1>6
    <2>7. g.results = frame[t].results /\ g.op = frame[t].op BY <1>0, <2>4
    <2>8. g.op.kind = "Remove" /\ g.pred \in Node /\ Clear(t, g.pred) /\ g.succ \in Node /\ Clear(t, g.succ)
      BY <1>1, <1>4, <1>6, <2>4, <2>6
    <2>9. label # "insertDeleted" BY <2>1
    <2> QED BY <1>2, <2>2, <2>3, <2>5, <2>7, <2>8, <2>9, LookOn
  <1>7. CASE ~f.removing /\ n # Null /\ node[n].key < f.op.key
    <2>1. PICK g, label : g = [f EXCEPT !.pred = n, !.at = n] /\ label = "successorLocked" OBVIOUS
    <2>2. /\ frame' = [frame EXCEPT ![t] = g] /\ Goto(t, label) /\ UNCHANGED txn
      BY <1>0, <1>7, <2>1 DEF GotSuccessor, Traversed
    <2>3. /\ DOMAIN frame' = Thread /\ DOMAIN txn' = Thread
          /\ \A u \in Thread \ {t} : txn'[u] = txn[u] /\ frame'[u] = frame[u]
          /\ frame'[t] = g
      BY <1>5, <2>2
    <2>4. /\ g.op = f.op /\ g.results = f.results /\ ~g.removing
      BY <1>1, <1>7, <2>1 DEF Frame
    <2>5. label \in Operating \ {"removeSuccessor"} BY <2>1 DEF Operating, Placed
    <2>6. g.results = frame[t].results /\ g.op = frame[t].op BY <1>0, <2>4
    <2>7. label \notin {"apply", "removePredecessor", "insertDeleted"} BY <2>1
    <2> QED BY <1>2, <2>2, <2>3, <2>4, <2>5, <2>6, <2>7, LookOn
  <1>8. CASE ~f.removing /\ ~(n # Null /\ node[n].key < f.op.key)
    <2>1. PICK g, label : g = [f EXCEPT !.succ = n] /\ label = "apply" OBVIOUS
    <2>2. /\ frame' = [frame EXCEPT ![t] = g] /\ Goto(t, label)
          /\ txn' = [txn EXCEPT ![t] = [txn[t] EXCEPT !.readSet = txn[t].readSet \cup {p}]]
      BY <1>0, <1>8, <2>1 DEF GotSuccessor, Traversed
    <2>3. /\ DOMAIN frame' = Thread /\ DOMAIN txn' = Thread
          /\ \A u \in Thread \ {t} : txn'[u] = txn[u] /\ frame'[u] = frame[u]
          /\ frame'[t] = g /\ txn'[t] = [txn[t] EXCEPT !.readSet = txn[t].readSet \cup {p}]
      BY <1>5, <2>2
    <2>4. /\ g.op = f.op /\ g.results = f.results /\ g.pred = p
      BY <1>0, <1>1, <1>8, <2>1 DEF Frame
    <2>5. /\ txn'[t].writeSet = txn[t].writeSet /\ txn'[t].fresh = txn[t].fresh
          /\ txn'[t].readVersion = txn[t].readVersion
          /\ txn'[t].readSet = txn[t].readSet \cup {p}
      BY <2>3 DEF IInv, Types, ThreadOK, TxnTyped, Txn
    <2>6. label \in Operating \ {"removeSuccessor"} /\ label \notin AtNode
      BY <2>1 DEF Operating, Placed, AtNode
    <2>7. Clear(t, p) BY <1>0, <1>1, <1>8
    <2>8. p \in Refs(t) BY <1>0 DEF Refs
    <2>9. g.results = frame[t].results /\ g.op = frame[t].op /\ g.pred \in Node /\ Clear(t, g.pred)
      BY <1>0, <1>1, <2>4, <2>7
    <2>10. label \notin {"removePredecessor", "insertDeleted"} BY <2>1
    <2>11. txn[t].readSet \subseteq txn'[t].readSet /\ txn'[t].readSet \subseteq txn[t].readSet \cup Refs(t)
      BY <2>5, <2>8
    <2> QED BY <1>2, <2>2, <2>3, <2>5, <2>6, <2>9, <2>10, <2>11, LookOn
  <1> QED BY <1>6, <1>7, <1>8

\* A check of the node that it looks at.
LEMMA CheckReads ==
  ASSUME IInv, IInv', ListInv, KeysPrecedeDefault, ReadInv, NEW t \in Thread, pc[t] \in AtNode,
         UNCHANGED <<sharedVars, commitVars, jobs>>, UNCHANGED <<txn, frame>>,
         NEW label \in {"successorVersion", "successorNext", "abort"}, Goto(t, label)
  PROVE  ReadInv' /\ Steady(t)
  <1>1. pc[t] \in Running \ Validating /\ pc[t] \in Operating \ {"removeSuccessor"}
    BY DEF Running, Operating, Placed, Validating, AtNode
  <1>2. DOMAIN frame' = Thread /\ DOMAIN txn' = Thread BY DEF IInv, Types
  <1>3. CASE label = "abort" BY <1>1, <1>2, <1>3, LookAway
  <1>4. CASE label # "abort"
    <2>1. label \in Operating \ {"removeSuccessor"} /\ label \in AtNode
      BY <1>4 DEF Operating, Placed, AtNode
    <2>2. PICK g : g = frame[t] OBVIOUS
    <2>3. RoutineOK(t) /\ PlaceClear(t) BY <1>1, InRoutine
    <2>4. g.removing => g.op.kind = "Remove" /\ Clear(t, g.pred)
      BY <2>2, <2>3 DEF RoutineOK, PlaceClear, Between
    <2>5. g.pred \in Node BY <2>2, AtNodePlace
    <2>6. frame'[t] = g BY <2>2
    <2>7. label \notin {"apply", "removePredecessor", "insertDeleted"} BY <1>4
    <2> QED BY <1>1, <1>2, <2>1, <2>2, <2>4, <2>5, <2>6, <2>7, LookOn
  <1> QED BY <1>3, <1>4

\* The lock of the successor is not taken,
LEMMA SuccessorLockedReads ==
  ASSUME IInv, IInv', ListInv, KeysPrecedeDefault, ReadInv, NEW t \in Thread, SuccessorLocked(t),
         UNCHANGED jobs
  PROVE  ReadInv' /\ Steady(t)
  <1>1. pc[t] \in AtNode /\ UNCHANGED <<sharedVars, commitVars, jobs>> BY DEF SuccessorLocked, AtNode
  <1>2. CASE InWriteSet(t, frame[t].at)
    <2>1. PICK n : n = txn[t].writeSet[frame[t].at].next OBVIOUS
    <2>2. GotSuccessor(t, n) BY <1>2, <2>1 DEF SuccessorLocked
    <2>3. n \in Node \cup {Null}
      BY <1>2, <2>1 DEF InWriteSet, IInv, Types, ThreadOK, TxnTyped, Txn, WriteSetElement
    <2>4. Clear(t, frame[t].at) BY <1>2 DEF Clear
    <2> QED BY <1>1, <2>2, <2>3, <2>4, GotSuccessorReads
  <1>3. CASE ~InWriteSet(t, frame[t].at)
    <2>1. PICK label \in {"abort", "successorVersion"} : Goto(t, label) /\ UNCHANGED <<frame, txn>>
      BY <1>3 DEF SuccessorLocked
    <2> QED BY <1>1, <2>1, CheckReads
  <1> QED BY <1>2, <1>3

\* its version not too new,
LEMMA SuccessorVersionReads ==
  ASSUME IInv, IInv', ListInv, KeysPrecedeDefault, ReadInv, NEW t \in Thread, SuccessorVersion(t),
         UNCHANGED jobs
  PROVE  ReadInv' /\ Steady(t)
  <1>1. /\ pc[t] \in AtNode /\ UNCHANGED <<sharedVars, commitVars, jobs>> /\ UNCHANGED <<txn, frame>>
        /\ \E label \in {"abort", "successorNext"} : Goto(t, label)
    BY DEF SuccessorVersion, AtNode, operatorVars
  <1> QED BY <1>1, CheckReads

\* and it has a next node.
LEMMA SuccessorNextReads ==
  ASSUME IInv, IInv', ListInv, KeysPrecedeDefault, ReadInv, NEW t \in Thread, SuccessorNext(t),
         UNCHANGED jobs
  PROVE  ReadInv' /\ Steady(t)
  <1>1. PICK n : n = node[frame[t].at].next OBVIOUS
  <1>2. /\ pc[t] = "successorNext" /\ pc[t] \in AtNode
        /\ UNCHANGED <<sharedVars, commitVars, jobs>> /\ GotSuccessor(t, n)
    BY <1>1 DEF SuccessorNext, AtNode
  <1>3. frame[t].at \in Node /\ ThreadShape(t) BY <1>2, AtNodePlace
  <1>4. n \in Node \cup {Null} BY <1>1, <1>3 DEF IInv, Types, MemoryOK, Link
  <1>5. Clear(t, frame[t].at) BY <1>2, <1>3 DEF ThreadShape, SuccessorOK, Clear
  <1> QED BY <1>2, <1>4, <1>5, GotSuccessorReads

\* Remove has found its node.
LEMMA RemoveFoundReads ==
  ASSUME IInv, IInv', ListInv, KeysPrecedeDefault, ReadInv, NEW t \in Thread, RemoveFound(t),
         UNCHANGED jobs
  PROVE  ReadInv' /\ Steady(t)
  <1>1. PICK f, g, label : /\ f = frame[t] /\ label = "successorLocked"
                           /\ g = [f EXCEPT !.at = f.succ, !.removing = TRUE]
    OBVIOUS
  <1>2. /\ pc[t] = "apply" /\ UNCHANGED <<sharedVars, commitVars, jobs>> /\ UNCHANGED txn
        /\ Goto(t, label) /\ frame' = [frame EXCEPT ![t] = g] /\ f.op.kind = "Remove"
    BY <1>1 DEF RemoveFound, operatorVars
  <1>3. /\ DOMAIN frame' = Thread /\ DOMAIN txn' = Thread
        /\ \A u \in Thread \ {t} : txn'[u] = txn[u] /\ frame'[u] = frame[u]
        /\ frame'[t] = g /\ f \in Frame(f.results)
    BY <1>1, <1>2 DEF IInv, Types, ThreadOK, FrameFits
  <1>4. /\ g.pred = f.pred /\ g.op = f.op /\ g.results = f.results
    BY <1>1, <1>3 DEF Frame
  <1>5. pc[t] \in Running /\ pc[t] \in Operating \ {"removeSuccessor"}
        /\ label \in Operating \ {"removeSuccessor"}
        /\ label \notin {"apply", "removePredecessor", "insertDeleted"}
    BY <1>1, <1>2 DEF Running, Operating, Placed
  <1>6. PlaceClear(t) BY <1>5, InRoutine
  <1>7. Clear(t, g.pred) BY <1>1, <1>2, <1>4, <1>6 DEF PlaceClear, Between
  <1>8. g.pred \in Node BY <1>1, <1>2, <1>4, FoundPlace
  <1>9. g.results = frame[t].results /\ g.op = frame[t].op /\ g.op.kind = "Remove" BY <1>1, <1>2, <1>4
  <1> QED BY <1>2, <1>3, <1>5, <1>7, <1>8, <1>9, LookOn

\* Insert goes on only to a node whose value nobody is still to call Get for.
LEMMA InsertExistingReads ==
  ASSUME IInv, IInv', ListInv, KeysPrecedeDefault, ReadInv, NEW t \in Thread, InsertExisting(t),
         frame[t].op.key \notin Got, UNCHANGED jobs
  PROVE  ReadInv' /\ Steady(t)
  <1>1. PICK f, g, label : /\ f = frame[t] /\ label = "insertDeleted"
                           /\ g = [f EXCEPT !.link = GetUpdatedNext(t, f.succ)]
    OBVIOUS
  <1>2. /\ pc[t] = "apply" /\ UNCHANGED <<sharedVars, commitVars, jobs>> /\ UNCHANGED txn
        /\ Goto(t, label) /\ frame' = [frame EXCEPT ![t] = g] /\ f.op.kind = "Insert"
    BY <1>1 DEF InsertExisting, operatorVars
  <1>3. /\ DOMAIN frame' = Thread /\ DOMAIN txn' = Thread
        /\ \A u \in Thread \ {t} : txn'[u] = txn[u] /\ frame'[u] = frame[u]
        /\ frame'[t] = g /\ f \in Frame(f.results)
    BY <1>1, <1>2 DEF IInv, Types, ThreadOK, FrameFits
  <1>4. /\ g.pred = f.pred /\ g.op = f.op /\ g.results = f.results
    BY <1>1, <1>3 DEF Frame
  <1>5. pc[t] \in Running /\ pc[t] \in Operating \ {"removeSuccessor"}
        /\ label \in Operating \ {"removeSuccessor"} /\ label \notin AtNode
    BY <1>1, <1>2 DEF Running, Operating, Placed, AtNode
  <1>6. PlaceClear(t) BY <1>5, InRoutine
  <1>7. Clear(t, g.pred) BY <1>1, <1>2, <1>4, <1>6 DEF PlaceClear, Between
  <1>8. g.pred \in Node BY <1>1, <1>2, <1>4, FoundPlace
  <1>9. g.results = frame[t].results /\ g.op = frame[t].op /\ g.op.kind = "Insert" /\ g.op.key \notin Got
    BY <1>1, <1>2, <1>4
  <1>10. label \notin {"removePredecessor"} BY <1>1
  <1> QED BY <1>2, <1>3, <1>5, <1>7, <1>8, <1>9, <1>10, LookOn

-----------------------------------------------------------------------------
(* The steps of the commit that decide nothing. *)

\* A step of the commit before the decision.
LEMMA CommitReads ==
  ASSUME IInv, IInv', ListInv, KeysPrecedeDefault, ReadInv, NEW t \in Thread, Quiet(t),
         UNCHANGED <<txn, frame, jobs>>,
         pc[t] \in {"next", "lock"} \cup Validating, pc'[t] \in {"lock", "abort"} \cup Validating,
         pc[t] = "next" => Len(frame[t].results) = Len(Job(t).body),
         pc[t] \in Validating => pc'[t] # "lock"
  PROVE  ReadInv' /\ Steady(t)
  <1>1. pc[t] \in Running /\ "abort" \notin Running BY DEF Running, Operating, Placed, Validating
  <1>2. Hidden(t)' = Hidden(t) BY DEF Hidden, Committing, Validating
  <1>3. ~Removing(t) /\ ~Removing(t)' BY DEF Removing, Validating
  <1>4. ReadSeen(t)'
    <2>1. ReadSeen(t) /\ alloc' = alloc BY DEF ReadInv, Quiet
    <2>2. \A u \in Thread \ {t} : Hidden(u)' = Hidden(u) BY DEF Quiet, Alone, Hidden
    <2> QED BY <2>1, <2>2 DEF ReadSeen
  <1>5. RoutineOK(t) BY <1>1, InRoutine
  <1>6. (Calling(Calls(t)))' /\ Job(t)' = Job(t) BY <1>5, CallsSame DEF RoutineOK
  <1>7. pc'[t] \notin {"next", "removePredecessor", "insertDeleted", "removeSuccessor", "apply"} \cup Operating \cup AtNode
    BY DEF Validating, Operating, Placed, AtNode
  <1>8. RoutineOK(t)'
    <2>1. Len(frame[t].results) = Len(Job(t).body) BY <1>5 DEF RoutineOK
    <2> QED BY <1>6, <1>7, <2>1 DEF RoutineOK
  <1>9. PlaceClear(t)' BY <1>3, <1>7 DEF PlaceClear, Between
  <1>10. pc'[t] \in Running /\ pc[t] \in Validating => pc'[t] \in Validating BY <1>1
  <1> QED BY <1>1, <1>2, <1>3, <1>4, <1>8, <1>9, <1>10, OwnReads

\* The routine has ended, and the commit begins.
LEMMA BeginCommitReads ==
  ASSUME IInv, IInv', ListInv, KeysPrecedeDefault, ReadInv, NEW t \in Thread, Commit(t)
  PROVE  ReadInv' /\ Steady(t)
  <1>1. /\ pc[t] = "next" /\ pc'[t] = "lock" /\ Alone(t)
        /\ UNCHANGED <<sharedVars, txn, held, cur, saw, frame, jobs>>
        /\ todo' = [todo EXCEPT ![t] = DOMAIN txn[t].writeSet]
    BY AloneAt DEF Commit, LockWriteSet, Visit, TxnLabel, Holding
  <1>2. \A u \in Thread \ {t} : todo'[u] = todo[u] /\ cur'[u] = cur[u]
    BY <1>1 DEF IInv, Types, CommitOK
  <1>3. Quiet(t) BY <1>1, <1>2 DEF Quiet, sharedVars, Committing
  <1>4. Len(frame[t].results) = Len(Job(t).body) BY DEF Commit, Results
  <1>5. pc[t] \notin Validating BY <1>1 DEF Validating
  <1> QED BY <1>1, <1>3, <1>4, <1>5, CommitReads

\* LockWriteSet takes a lock or gives up.
LEMMA LockNodeReads ==
  ASSUME IInv, IInv', ListInv, KeysPrecedeDefault, ReadInv, NEW t \in Thread, LockNode(t),
         UNCHANGED <<frame, jobs>>
  PROVE  ReadInv' /\ Steady(t)
  <1>1. pc[t] = "lock" /\ UNCHANGED <<gvc, node, alloc, index, txn, cur, saw>> BY DEF LockNode
  <1>2. PICK n \in todo[t] :
           IF lock[n].locked
           THEN /\ Abort(t)
                /\ UNCHANGED <<lock, held, todo>>
           ELSE /\ lock' = [lock EXCEPT ![n] = Acquired(@)]
                /\ held' = [held EXCEPT ![t] = @ \cup {n}]
                /\ Visit(t, todo[t] \ {n})
                /\ UNCHANGED pc
    BY DEF LockNode
  <1>3. n \in Node BY DEF IInv, Types, CommitOK
  <1>4. CASE lock[n].locked
    <2>1. pc'[t] = "abort" /\ Alone(t) /\ UNCHANGED <<lock, held, todo>>
      BY <1>1, <1>2, <1>4, AloneAt DEF Abort, TxnLabel, Holding
    <2>2. Quiet(t) BY <1>1, <2>1 DEF Quiet, Committing
    <2> QED BY <1>1, <2>1, <2>2, CommitReads
  <1>5. CASE ~lock[n].locked
    <2>1. /\ lock' = [lock EXCEPT ![n] = Acquired(lock[n])] /\ held' = [held EXCEPT ![t] = held[t] \cup {n}]
          /\ todo' = [todo EXCEPT ![t] = todo[t] \ {n}] /\ pc' = pc
      BY <1>2, <1>5 DEF Visit
    <2>2. Alone(t) BY <1>1, <2>1 DEF Alone, IInv, Types
    <2>3. \A u \in Thread \ {t} : held'[u] = held[u] /\ todo'[u] = todo[u]
      BY <2>1 DEF IInv, Types, CommitOK
    <2>4. \A m \in Node : lock'[m].deleted = lock[m].deleted /\ lock'[m].version = lock[m].version
      BY <2>1 DEF IInv, Types, MemoryOK, Word, Acquired
    <2>5. Quiet(t) BY <1>1, <2>1, <2>2, <2>3, <2>4 DEF Quiet, Committing
    <2>6. pc[t] \notin Validating BY <1>1 DEF Validating
    <2> QED BY <1>1, <2>1, <2>5, <2>6, CommitReads
  <1> QED BY <1>4, <1>5

\* With the locks of its write set a transaction begins to validate.
LEMMA ValidateReadSetReads ==
  ASSUME IInv, IInv', ListInv, KeysPrecedeDefault, ReadInv, NEW t \in Thread, ValidateReadSet(t),
         UNCHANGED <<frame, jobs>>
  PROVE  ReadInv' /\ Steady(t)
  <1>1. /\ pc[t] = "lock" /\ pc'[t] = "validate" /\ Alone(t)
        /\ UNCHANGED <<sharedVars, txn, held, cur, saw, frame>>
        /\ todo' = [todo EXCEPT ![t] = txn[t].readSet]
    BY AloneAt DEF ValidateReadSet, Visit, TxnLabel, Holding, Validating
  <1>2. todo'[t] = txn[t].readSet /\ \A u \in Thread \ {t} : todo'[u] = todo[u] /\ cur'[u] = cur[u]
    BY <1>1 DEF IInv, Types, CommitOK
  <1>3. Quiet(t) BY <1>1, <1>2 DEF Quiet, sharedVars, Committing
  <1>4. pc[t] \notin Validating /\ pc'[t] \in Validating BY <1>1 DEF Validating
  <1> QED BY <1>1, <1>3, <1>4, CommitReads

\* ValidateReadSet goes on to a node,
LEMMA ValidateNodeReads ==
  ASSUME IInv, IInv', ListInv, KeysPrecedeDefault, ReadInv, NEW t \in Thread, ValidateNode(t),
         UNCHANGED <<frame, jobs>>
  PROVE  ReadInv' /\ Steady(t)
  <1>1. /\ pc[t] = "validate" /\ pc'[t] \in {"abort", "validateVersion"} /\ Alone(t)
        /\ UNCHANGED <<sharedVars, txn, held, todo, saw, frame>>
    BY AloneAt DEF ValidateNode, TxnLabel, Holding, Validating
  <1>2. PICK n \in todo[t] : cur' = [cur EXCEPT ![t] = n] BY DEF ValidateNode
  <1>3. \A u \in Thread \ {t} : cur'[u] = cur[u] BY <1>2 DEF IInv, Types, CommitOK
  <1>4. Quiet(t) BY <1>1, <1>3 DEF Quiet, sharedVars, Committing
  <1>5. pc[t] \in Validating /\ pc'[t] \in {"abort"} \cup Validating BY <1>1 DEF Validating
  <1> QED BY <1>1, <1>4, <1>5, CommitReads

\* and reads its version and its lock.
LEMMA ValidateReads ==
  ASSUME IInv, IInv', ListInv, KeysPrecedeDefault, ReadInv, NEW t \in Thread,
         UNCHANGED <<frame, jobs>>,
         ValidateVersion(t) \/ ValidateEqual(t) \/ ValidateSingleton(t) \/ ValidateRelocked(t)
  PROVE  ReadInv' /\ Steady(t)
  <1>1. /\ pc[t] \in Validating \ {"validate"}
        /\ UNCHANGED <<sharedVars, txn, held, cur, saw, frame>>
        /\ UNCHANGED todo \/ Visited(t)
    BY DEF ValidateVersion, ValidateEqual, ValidateSingleton, ValidateRelocked, Validating, commitVars
  <1>2. ~lock[cur[t]].singleton /\ cur[t] \in Node BY DEF IInv, Types, MemoryOK, CommitOK
  <1>3. \E label \in {"abort"} \cup Validating : Goto(t, label)
    BY <1>2 DEF ValidateVersion, ValidateEqual, ValidateSingleton, ValidateRelocked, Abort, Validating
  <1>4. pc'[t] \in {"abort"} \cup Validating /\ Alone(t)
    BY <1>1, <1>3, AloneAt DEF TxnLabel, Holding
  <1>5. \A u \in Thread \ {t} : todo'[u] = todo[u]
    BY <1>1 DEF Visited, Visit, IInv, Types, CommitOK
  <1>6. Quiet(t) BY <1>1, <1>4, <1>5 DEF Quiet, sharedVars, Committing, Validating
  <1>7. pc[t] # "next" /\ pc'[t] # "lock" BY <1>1, <1>4 DEF Validating
  <1> QED BY <1>1, <1>4, <1>6, <1>7, CommitReads

-----------------------------------------------------------------------------
(* UpdateWriteSet. *)

\* A write to a node that the thread has decided on.
LEMMA WriteReads ==
  ASSUME IInv, IInv', ListInv, KeysPrecedeDefault, ReadInv, NEW t \in Thread, Silent(t),
         pc[t] \in Committing, pc'[t] \in Committing, UNCHANGED <<alloc, txn, held, frame, jobs>>,
         \A n \in Node \ held[t] : node'[n] = node[n],
         \A n \in held[t] : node'[n].key = node[n].key
                            /\ node'[n].value \in {node[n].value, txn[t].writeSet[n].value},
         Stored(t)'
  PROVE  ReadInv' /\ Steady(t)
  <1>1. DOMAIN txn[t].writeSet = held[t] /\ held[t] \subseteq Node /\ alloc \subseteq Node
    BY Decider, LiveNodes
  <1>2. \A n \in Node : \A u \in Thread : Pending(u, n)' <=> Pending(u, n)
    BY DEF Silent, Pending
  <1>3. \A n \in Node : ~Decided(n) => node'[n] = node[n] BY DEF Decided, Pending
  <1>4. ASSUME NEW n \in Node PROVE SameValue(n) BY <1>2, <1>3, SameDecidedValue
  <1>5. GotFixed(t) /\ ReadSeen(t) BY DEF ReadInv
  <1>6. Got' = Got BY DEF Got
  <1>7. \A n \in Node : node[n].key \in Got => node'[n].value = node[n].value
    BY <1>1, <1>5 DEF GotFixed
  <1>8. GotFixed(t)' BY <1>1, <1>5, <1>6, <1>7 DEF GotFixed
  <1>9. ReadSeen(t)'
    <2>1. \A u \in Thread \ {t} : Hidden(u)' = Hidden(u) BY DEF Hidden, Silent
    <2> QED BY <1>5, <2>1 DEF ReadSeen
  <1>10. \A u \in Thread \ {t} : \A n \in held[u] : node'[n].value = node[n].value
    BY DEF IInv, Ownership, Types, CommitOK
  <1>11. pc'[t] \notin Running BY DEF Running, Operating, Placed, Validating, Committing
  <1> QED BY <1>1, <1>4, <1>6, <1>7, <1>8, <1>9, <1>10, <1>11, SilentReads

\* UpdateWriteSet stores the next node,
LEMMA WriteNextReads ==
  ASSUME IInv, IInv', ListInv, KeysPrecedeDefault, ReadInv, NEW t \in Thread, WriteNext(t),
         UNCHANGED <<frame, jobs>>
  PROVE  ReadInv' /\ Steady(t)
  <1>1. /\ pc[t] = "write" /\ pc'[t] = "writeValue"
        /\ UNCHANGED <<gvc, lock, alloc, index, txn, held, todo>>
    BY AloneAt DEF WriteNext, TxnLabel, Holding, Committing
  <1>2. PICK n \in todo[t] :
          /\ cur' = [cur EXCEPT ![t] = n]
          /\ node' = [node EXCEPT ![n].next = txn[t].writeSet[n].next]
    BY DEF WriteNext
  <1>3. held[t] \subseteq Node /\ n \in held[t] /\ pc[t] \in Committing /\ pc'[t] \in Committing
    BY <1>1, Decider DEF Committing
  <1>4. /\ \A m \in Node \ {n} : node'[m] = node[m]
        /\ node'[n].key = node[n].key /\ node'[n].value = node[n].value
    BY <1>2, <1>3 DEF IInv, Types, MemoryOK
  <1>5. Silent(t) BY WriteNextShape
  <1>6. Stored(t) BY DEF ReadInv
  <1>7. cur'[t] = n BY <1>2 DEF IInv, Types, CommitOK
  <1>8. Stored(t)' BY <1>1, <1>3, <1>4, <1>6, <1>7 DEF Stored, Committing
  <1> QED BY <1>1, <1>3, <1>4, <1>5, <1>8, WriteReads

\* the value,
LEMMA WriteValueReads ==
  ASSUME IInv, IInv', ListInv, KeysPrecedeDefault, ReadInv, NEW t \in Thread, WriteValue(t),
         UNCHANGED <<frame, jobs>>
  PROVE  ReadInv' /\ Steady(t)
  <1>0. PICK n : n = cur[t] OBVIOUS
  <1>1. /\ pc[t] = "writeValue"
        /\ UNCHANGED <<gvc, lock, alloc, index, txn, held, todo, cur>>
        /\ node' = [node EXCEPT ![n].value = txn[t].writeSet[n].value]
        /\ \E label \in {"writeDeleted", "writeVersion"} : Goto(t, label)
    BY <1>0 DEF WriteValue, commitVars
  <1>2. pc'[t] \in {"writeDeleted", "writeVersion"} BY <1>1 DEF Goto, IInv, Types
  <1>3. held[t] \subseteq Node /\ n \in held[t] /\ pc[t] \in Committing /\ pc'[t] \in Committing
    BY <1>0, <1>1, <1>2, Decider DEF Committing
  <1>4. /\ \A m \in Node \ {n} : node'[m] = node[m]
        /\ node'[n].key = node[n].key /\ node'[n].value = txn[t].writeSet[n].value
    BY <1>1, <1>3 DEF IInv, Types, MemoryOK
  <1>5. Silent(t) BY WriteValueShape
  <1>6. Stored(t) BY DEF ReadInv
  <1>7. Stored(t)' BY <1>0, <1>1, <1>2, <1>3, <1>4, <1>6 DEF Stored, Committing
  <1> QED BY <1>1, <1>3, <1>4, <1>5, <1>7, WriteReads

\* and the flags and the version.
LEMMA WriteWordReads ==
  ASSUME IInv, IInv', ListInv, KeysPrecedeDefault, ReadInv, NEW t \in Thread,
         WriteDeleted(t) \/ WriteVersion(t) \/ WriteSingleton(t), UNCHANGED <<frame, jobs>>
  PROVE  ReadInv' /\ Steady(t)
  <1>1. /\ pc[t] \in {"writeDeleted", "writeVersion", "writeSingleton"}
        /\ UNCHANGED <<gvc, node, alloc, index, txn, held, cur>>
        /\ \/ UNCHANGED todo /\ \E label \in {"writeVersion", "writeSingleton"} : Goto(t, label)
           \/ todo' = [todo EXCEPT ![t] = todo[t] \ {cur[t]}] /\ Goto(t, "write")
    BY DEF WriteDeleted, WriteVersion, WriteSingleton, commitVars, Visited, Visit
  <1>2. \/ UNCHANGED todo /\ pc'[t] \in {"writeVersion", "writeSingleton"}
        \/ todo'[t] = todo[t] \ {cur[t]} /\ pc'[t] = "write"
    BY <1>1 DEF Goto, IInv, Types, CommitOK
  <1>3. pc[t] \in Committing /\ pc'[t] \in Committing BY <1>1, <1>2 DEF Committing
  <1>4. Silent(t) BY WriteDeletedShape, WriteVersionShape, WriteSingletonShape
  <1>5. Stored(t) BY DEF ReadInv
  <1>6. Stored(t)' BY <1>1, <1>2, <1>5 DEF Stored, Committing
  <1>7. held[t] \subseteq Node BY <1>3, Decider
  <1>8. \A n \in Node \ held[t] : node'[n] = node[n] BY <1>1
  <1>9. \A n \in held[t] : node'[n].key = node[n].key
                           /\ node'[n].value \in {node[n].value, txn[t].writeSet[n].value}
    BY <1>1
  <1> QED BY <1>1, <1>3, <1>4, <1>6, <1>8, <1>9, WriteReads

\* Everything has been written: the memory has the values that have been decided.
LEMMA WriteDoneReads ==
  ASSUME IInv, IInv', ListInv, KeysPrecedeDefault, ReadInv, NEW t \in Thread,
         UpdateWriteSetDone(t), UNCHANGED <<frame, jobs>>
  PROVE  ReadInv' /\ Steady(t)
  <1>1. /\ pc[t] = "write" /\ todo[t] = {} /\ pc'[t] = "finish"
        /\ UNCHANGED <<sharedVars, commitVars>>
        /\ txn' = [txn EXCEPT ![t] = [txn[t] EXCEPT !.writeSet = <<>>]]
    BY DEF UpdateWriteSetDone, Goto, IInv, Types
  <1>2. Silent(t) BY WriteDoneShape
  <1>3. /\ txn'[t].readSet = txn[t].readSet /\ DOMAIN txn'[t].writeSet = {}
    BY <1>1 DEF IInv, Types, ThreadOK, TxnTyped, Txn
  <1>4. \A n \in Node : ~Pending(t, n)' BY <1>1 DEF Pending, Committing
  <1>5. \A n \in Node : \A u \in Thread \ {t} : (Pending(u, n)' <=> Pending(u, n)) /\ txn'[u] = txn[u]
    BY <1>2 DEF Pending, Silent
  <1>6. node' = node /\ alloc' = alloc /\ alloc \subseteq Node /\ held[t] \subseteq Node
    BY <1>1, LiveNodes DEF sharedVars, IInv, Types, CommitOK
  <1>7. Stored(t) /\ ReadSeen(t) BY DEF ReadInv
  <1>8. ASSUME NEW n \in Node PROVE SameValue(n)
    <2>1. CASE n \in held[t]
      <3>1. Pending(t, n) BY <1>1, <2>1 DEF Pending, Committing
      <3>2. Decided(n) /\ Writer(n) = t BY <3>1, WriterOf DEF WriterUnique
      <3>3. node[n].value = txn[t].writeSet[n].value
        BY <1>1, <1>7, <2>1 DEF Stored, Committing
      <3>4. \A u \in Thread \ {t} : ~Pending(u, n) BY <2>1 DEF IInv, Ownership, Pending
      <3>5. ~Decided(n)' BY <1>4, <1>5, <3>4 DEF Decided
      <3> QED BY <1>6, <3>2, <3>3, <3>5 DEF SameValue, DecidedValue, Decision
    <2>2. CASE n \notin held[t]
      <3>1. ~Pending(t, n) BY <2>2 DEF Pending
      <3>2. \A u \in Thread : (Pending(u, n)' <=> Pending(u, n)) /\ (Pending(u, n) => txn'[u] = txn[u])
        BY <1>4, <1>5, <3>1
      <3> QED BY <1>6, <3>2, SameDecidedValue
    <2> QED BY <2>1, <2>2
  <1>9. GotFixed(t)' BY <1>3 DEF GotFixed
  <1>10. Stored(t)' BY <1>1 DEF Stored, Committing
  <1>11. ReadSeen(t)'
    <2>1. \A u \in Thread \ {t} : Hidden(u)' = Hidden(u) BY <1>2 DEF Hidden, Silent
    <2> QED BY <1>3, <1>6, <1>7, <2>1 DEF ReadSeen
  <1>12. pc'[t] \notin Running BY <1>1 DEF Running, Operating, Placed, Validating
  <1>13. Got' = Got BY DEF Got
  <1> QED BY <1>2, <1>6, <1>8, <1>9, <1>10, <1>11, <1>12, <1>13, SilentReads

-----------------------------------------------------------------------------
(* The end of a transaction. *)

\* The decided map is a map.
MapIsTyped == DecidedMap \in Map

\* It is in every state of the invariant.
LEMMA DecidedMapTyped == IInv => MapIsTyped
  <1> USE DEF MapIsTyped
  <1>1. ASSUME IInv PROVE DecidedMap \in Map
    <2>1. CASE Thread = {}
      <3>1. \A n \in Live : DecidedValues[n] \in Value \cup {Null}
        BY <1>1, LiveNodes, DecidedValueTyped DEF DecidedValues
      <3> QED BY <3>1, MapTyped DEF DecidedMap
    <2>2. CASE Thread # {} BY <1>1, <2>2, MapsTyped
    <2> QED BY <2>1, <2>2
  <1> QED BY <1>1

\* A transaction begins with the decided map.
LEMMA BeginReads ==
  ASSUME IInv, IInv', ListInv, KeysPrecedeDefault, ReadInv, NEW t \in Thread, Begin(t)
  PROVE  ReadInv' /\ Steady(t)
  <1>1. /\ pc[t] = "idle" /\ UNCHANGED <<sharedVars, commitVars, frame, jobs>> /\ Goto(t, "next")
        /\ txn' = [txn EXCEPT ![t] = [txn[t] EXCEPT !.active = TRUE, !.readVersion = gvc]]
    BY DEF Begin, LocalTxnPrologue
  <1>2. txn[t] = EmptyTxn /\ frame[t] = EmptyFrame BY <1>1 DEF IInv, Types, ThreadOK
  <1>3. pc'[t] = "next" /\ Alone(t) BY <1>1 DEF Goto, Alone, IInv, Types, TxnLabel
  <1>4. /\ txn'[t].writeSet = <<>> /\ txn'[t].fresh = {} /\ txn[t].fresh = {}
        /\ txn'[t].readSet = {}
    BY <1>1, <1>2 DEF EmptyTxn, IInv, Types
  <1>5. Quiet(t) /\ Hidden(t)' = Hidden(t)
    BY <1>1, <1>3, <1>4 DEF Quiet, Hidden, sharedVars, commitVars, Committing
  <1>6. DOMAIN txn'[t].writeSet = {} BY <1>4
  <1>7. Got' = Got BY <1>1 DEF Got
  <1>8. GotFixed(t)' BY <1>6 DEF GotFixed
  <1>9. ReadSeen(t)' BY <1>4 DEF ReadSeen
  <1>10. frame'[t].results = <<>> BY <1>1, <1>2 DEF EmptyFrame
  <1>11. PICK c : c = Calls(t)' OBVIOUS
  <1>12. Len(c) = 0 /\ Calling(c) BY <1>10, <1>11 DEF Calls, Results, Calling
  <1>13. ~Removing(t)' /\ ~Between(t)' BY <1>3 DEF Removing, Between, AtNode
  <1>14. RoutineOK(t)'
    <2>1. Calling(Calls(t))' BY <1>11, <1>12 DEF Calling
    <2>2. jobs' \in [Thread -> TxnJobs] /\ jobs'[t] # <<>> BY <1>3 DEF IInv, Types, ThreadOK
    <2>3. jobs'[t][1] \in [call : {"Dispatch", "TryDispatch"}, body : Seq(Operation)]
      BY <2>2, NonEmpty DEF TxnJobs
    <2>4. Len(Job(t)'.body) \in Nat BY <2>3 DEF Job
    <2>5. Len(frame'[t].results) <= Len(Job(t)'.body) BY <1>10, <2>4
    <2> QED BY <1>3, <2>1, <2>5 DEF RoutineOK, Operating, Placed, Validating, AtNode
  <1>15. PlaceClear(t)' BY <1>3, <1>13 DEF PlaceClear
  <1>16. Gone(t)' = {} /\ Own(t)' = {} /\ Removed(t)' = {}
    BY <1>3, <1>4, <1>6 DEF Gone, Own, Removed
  <1>17. EffectOK(t)' BY <1>6, <1>16 DEF EffectOK
  <1>18. ChangedKeys(c) = {} /\ CalledKeys(c) = {} /\ \A kinds : KeysWith(c, kinds) = {}
    BY <1>12 DEF ChangedKeys, ChangedBy, CalledKeys, KeysOf, KeysWith
  <1>19. Effective(t)' = {} BY <1>11, <1>13, <1>18 DEF Effective, ChangedKeys, ChangedBy
  <1>20. LocksOK(t)' BY <1>19 DEF LocksOK
  <1>21. ReadsOK(t)' BY <1>11, <1>18 DEF ReadsOK, CalledKeys, KeysOf, KeysWith
  <1>22. ResultsOK(t)'
    <2>1. View(t)' = Live' BY <1>16 DEF View
    <2>2. ViewValues(t)' = DecidedValues' BY <1>6 DEF ViewValues, DecidedValues, InWriteSet
    <2>3. ViewMap(t)' = DecidedMap' BY <2>1, <2>2 DEF ViewMap, DecidedMap, MapOf
    <2>4. (DecidedMap \in Map)'
      <3>1. (IInv => MapIsTyped)' BY DecidedMapTyped, PTL
      <3> QED BY <3>1 DEF MapIsTyped
    <2>5. PICK m : m = DecidedMap' OBVIOUS
    <2>6. m \in Map BY <2>4, <2>5 DEF Map
    <2>7. Replays(c, m, m) BY <1>12, <2>6, ReplayNothing
    <2>8. Replays(Calls(t)', DecidedMap', ViewMap(t)') BY <1>11, <2>3, <2>5, <2>7
    <2> QED BY <1>13, <2>8 DEF ResultsOK, Replays, Steps
  <1> QED BY <1>1, <1>5, <1>7, <1>8, <1>9, <1>14, <1>15, <1>17, <1>20, <1>21, <1>22, QuietReads
      DEF ThreadReads, RunningOK

\* A transaction that gives up releases its locks.
LEMMA ReleaseReads ==
  ASSUME IInv, IInv', ListInv, KeysPrecedeDefault, ReadInv, NEW t \in Thread, Release(t),
         UNCHANGED <<frame, jobs>>
  PROVE  ReadInv' /\ Steady(t)
  <1>1. pc[t] \in {"finish", "abort"} /\ UNCHANGED <<gvc, node, alloc, index, txn, todo, cur, saw>>
    BY DEF Release
  <1>2. held[t] \subseteq Node BY DEF IInv, Types, CommitOK
  <1>3. PICK n \in held[t] :
          /\ lock' = [lock EXCEPT ![n] = Released(lock[n])]
          /\ held' = [held EXCEPT ![t] = held[t] \ {n}]
          /\ UNCHANGED pc
    BY <1>2 DEF Release, IInv, Ownership
  <1>4. Alone(t) BY <1>1, <1>3 DEF Alone, IInv, Types
  <1>5. \A u \in Thread \ {t} : held'[u] = held[u] BY <1>3 DEF IInv, Types, CommitOK
  <1>6. \A m \in Node : lock'[m].deleted = lock[m].deleted /\ lock'[m].version = lock[m].version
    BY <1>2, <1>3 DEF IInv, Types, MemoryOK, Word, Released
  <1>7. Quiet(t) BY <1>1, <1>3, <1>4, <1>5, <1>6 DEF Quiet, Committing
  <1>8. \A u \in Thread : Hidden(u)' = Hidden(u) BY <1>1, <1>3 DEF Hidden
  <1>9. pc'[t] \notin Running BY <1>1, <1>3 DEF Running, Operating, Placed, Validating
  <1>10. Got' = Got BY DEF Got
  <1>11. GotFixed(t)' BY <1>1, <1>10 DEF GotFixed, ReadInv
  <1>12. ReadSeen(t)' BY <1>1, <1>8 DEF ReadSeen, ReadInv
  <1> QED BY <1>7, <1>8, <1>9, <1>10, <1>11, <1>12, QuietReads

\* LazyUpdateIndex touches only the index.
LEMMA IndexReads ==
  ASSUME IInv, IInv', ListInv, KeysPrecedeDefault, ReadInv, NEW t \in Thread,
         LazyUpdateIndexAdd(t) \/ LazyUpdateIndexRemove(t), UNCHANGED <<frame, jobs>>
  PROVE  ReadInv' /\ Steady(t)
  <1>1. /\ pc[t] = "finish" /\ UNCHANGED <<gvc, lock, node, alloc, pc, commitVars>>
        /\ \E x : \/ txn' = [txn EXCEPT ![t] = [txn[t] EXCEPT !.indexAdd = x]]
                  \/ txn' = [txn EXCEPT ![t] = [txn[t] EXCEPT !.indexRemove = x]]
    BY DEF LazyUpdateIndexAdd, LazyUpdateIndexRemove
  <1>2. TxnTyped(txn[t]) /\ DOMAIN txn = Thread BY DEF IInv, Types, ThreadOK
  <1>3. /\ txn'[t].writeSet = txn[t].writeSet /\ txn'[t].readSet = txn[t].readSet
        /\ \A u \in Thread \ {t} : txn'[u] = txn[u]
    BY <1>1, <1>2 DEF TxnTyped, Txn
  <1>4. Silent(t) BY IndexAddShape, IndexRemoveShape
  <1>5. \A n \in Node : \A u \in Thread :
          (Pending(u, n)' <=> Pending(u, n)) /\ (Pending(u, n) => txn'[u] = txn[u])
    BY <1>1, <1>3 DEF Pending, Committing, commitVars
  <1>6. ASSUME NEW n \in Node PROVE SameValue(n) BY <1>1, <1>5, SameDecidedValue
  <1>7. Got' = Got BY DEF Got
  <1>8. GotFixed(t)' BY <1>1, <1>3, <1>7 DEF GotFixed, ReadInv
  <1>9. \A u \in Thread \ {t} : Hidden(u)' = Hidden(u) BY <1>1, <1>3 DEF Hidden
  <1>10. ReadSeen(t)' BY <1>1, <1>3, <1>9 DEF ReadSeen, ReadInv
  <1>11. pc'[t] \notin Running BY <1>1 DEF Running, Operating, Placed, Validating
  <1>12. Stored(t)' BY <1>1 DEF Stored, Committing
  <1>13. alloc \subseteq Node BY LiveNodes
  <1>14. \A n \in Node : node'[n].value = node[n].value BY <1>1
  <1>15. \A u \in Thread \ {t} : \A n \in held[u] : node'[n].value = node[n].value BY <1>1
  <1> QED BY <1>4, <1>6, <1>7, <1>8, <1>10, <1>11, <1>12, <1>13, <1>14, <1>15, SilentReads

\* Fewer jobs, fewer calls to come.
LEMMA JobsShrink ==
  ASSUME IInv, NEW t \in Thread, jobs[t] # <<>>, jobs' = jobs \/ jobs' = [jobs EXCEPT ![t] = Tail(@)]
  PROVE  Got' \subseteq Got /\ \A u \in Thread \ {t} : jobs'[u] = jobs[u]
  <1>1. \A u \in Thread \ {t} : jobs'[u] = jobs[u] BY JobsStep
  <1>2. \A i \in DOMAIN jobs'[t] : \E j \in DOMAIN jobs[t] : jobs'[t][i] = jobs[t][j]
    <2>1. CASE jobs' = jobs BY <2>1
    <2>2. CASE jobs' = [jobs EXCEPT ![t] = Tail(@)]
      <3>1. jobs \in [Thread -> TxnJobs] BY DEF IInv, Types
      <3>2. jobs'[t] = Tail(jobs[t]) BY <2>2, <3>1
      <3>3. jobs[t] \in TxnJobs BY <3>1
      <3> HIDE DEF TxnJobs
      <3>4. PICK S : TxnJobs = Seq(S) BY DEF TxnJobs
      <3>5. jobs[t] \in Seq(S) BY <3>3, <3>4
      <3>6. PICK s : s = jobs[t] OBVIOUS
      <3>7. s \in Seq(S) /\ s # <<>> BY <3>5, <3>6
      <3>8. \A i \in DOMAIN Tail(s) : i + 1 \in DOMAIN s /\ Tail(s)[i] = s[i + 1] BY <3>7
      <3> QED BY <3>2, <3>6, <3>8
    <2> QED BY <2>1, <2>2
  <1>3. ASSUME NEW k \in Got' PROVE k \in Got
    <2>1. PICK u \in Thread : \E i \in DOMAIN jobs'[u] : \E j \in DOMAIN jobs'[u][i].body :
            jobs'[u][i].body[j].kind = "Get" /\ jobs'[u][i].body[j].key = k
      BY <1>3 DEF Got
    <2>2. \E i \in DOMAIN jobs[u] : \E j \in DOMAIN jobs[u][i].body :
            jobs[u][i].body[j].kind = "Get" /\ jobs[u][i].body[j].key = k
      BY <1>1, <1>2, <2>1
    <2>3. k \in Key BY <1>3 DEF Got
    <2> QED BY <2>2, <2>3 DEF Got
  <1> QED BY <1>1, <1>3

\* A transaction that has committed ends,
LEMMA SucceedReads ==
  ASSUME IInv, IInv', ListInv, KeysPrecedeDefault, ReadInv, NEW t \in Thread, Succeed(t)
  PROVE  ReadInv' /\ Steady(t)
  <1>1. /\ pc[t] = "finish" /\ held[t] = {} /\ Cleanup(t)
        /\ UNCHANGED <<sharedVars, held, saw>>
        /\ frame' = [frame EXCEPT ![t] = EmptyFrame] /\ jobs' = [jobs EXCEPT ![t] = Tail(@)]
    BY DEF Succeed, LocalTxnCleanup
  <1>2. /\ Alone(t) /\ pc'[t] = "idle" /\ txn'[t] = EmptyTxn /\ Hidden(t)' = {}
        /\ \A u \in Thread \ {t} : todo'[u] = todo[u] /\ cur'[u] = cur[u]
    BY <1>1, CleanupStep
  <1>3. Quiet(t) BY <1>1, <1>2 DEF Quiet, sharedVars, Committing
  <1>4. Hidden(t)' = Hidden(t) BY <1>1, <1>2 DEF Hidden
  <1>5. DOMAIN txn'[t].writeSet = {} /\ txn'[t].readSet = {} BY <1>2 DEF EmptyTxn
  <1>6. pc'[t] \notin Running BY <1>2 DEF Running, Operating, Placed, Validating
  <1>7. jobs[t] # <<>> BY <1>1 DEF IInv, Types, ThreadOK
  <1>8. GotFixed(t)' /\ ReadSeen(t)' BY <1>5 DEF GotFixed, ReadSeen
  <1>9. Got' \subseteq Got /\ \A u \in Thread \ {t} : jobs'[u] = jobs[u] BY <1>1, <1>7, JobsShrink
  <1> QED BY <1>3, <1>4, <1>6, <1>8, <1>9, QuietReads

\* as does one that has failed.
LEMMA FailReads ==
  ASSUME IInv, IInv', ListInv, KeysPrecedeDefault, ReadInv, NEW t \in Thread, Fail(t)
  PROVE  ReadInv' /\ Steady(t)
  <1>0. PICK fresh : fresh = txn[t].fresh OBVIOUS
  <1>1. /\ pc[t] \in {"abort", "fault"} /\ held[t] = {} /\ Cleanup(t)
        /\ UNCHANGED <<gvc, index, held, saw>>
        /\ frame' = [frame EXCEPT ![t] = EmptyFrame]
        /\ alloc' = alloc \ fresh
        /\ node' = [n \in Node |-> IF n \in fresh THEN NewNode ELSE node[n]]
        /\ jobs' = jobs \/ jobs' = [jobs EXCEPT ![t] = Tail(@)]
    BY <1>0 DEF Fail, Rollback
  <1>2. /\ Alone(t) /\ pc'[t] = "idle" /\ txn'[t] = EmptyTxn /\ Hidden(t)' = {}
    BY <1>1, CleanupStep
  <1>3. Hidden(t) = fresh BY <1>0, <1>1 DEF Hidden, Committing
  <1>4. \A n \in Node \ fresh : node'[n] = node[n] BY <1>1
  <1>5. alloc \subseteq Node BY LiveNodes
  <1>6. \A n \in Node : \A u \in Thread :
          (Pending(u, n)' <=> Pending(u, n)) /\ (Pending(u, n) => txn'[u] = txn[u])
    BY <1>1, <1>2 DEF Alone, Pending, Committing
  <1>7. ASSUME NEW n \in Node \ fresh PROVE SameValue(n)
    <2>1. node'[n] = node[n] BY <1>4
    <2> QED BY <1>6, <2>1, SameDecidedValue
  <1>8. Silent(t) BY FailShape
  <1>9. \A u \in Thread \ {t} : \A n \in held[u] : node'[n].value = node[n].value
    <2>1. \A u \in Thread \ {t} : held[u] \subseteq Node \ fresh
      BY <1>3 DEF IInv, References, Refs, Types, CommitOK
    <2> QED BY <1>4, <2>1
  <1>10. DOMAIN txn'[t].writeSet = {} /\ txn'[t].readSet = {} BY <1>2 DEF EmptyTxn
  <1>11. GotFixed(t)' /\ ReadSeen(t)' BY <1>10 DEF GotFixed, ReadSeen
  <1>12. Stored(t)' BY <1>2 DEF Stored, Committing
  <1>13. pc'[t] \notin Running BY <1>2 DEF Running, Operating, Placed, Validating
  <1>14. jobs[t] # <<>> BY <1>1 DEF IInv, Types, ThreadOK
  <1>15. Got' \subseteq Got /\ \A u \in Thread \ {t} : jobs'[u] = jobs[u] BY <1>1, <1>14, JobsShrink
  <1>16. \A n \in alloc \ Hidden(t) : SameValue(n) /\ node'[n].value = node[n].value
    BY <1>3, <1>4, <1>5, <1>7
  <1> QED BY <1>8, <1>9, <1>11, <1>12, <1>13, <1>15, <1>16, SilentReads

-----------------------------------------------------------------------------
(* One call more, and what it tells. *)

\* Call e more, and its keys.
Appended(c, d, e) ==
    /\ Calling(c) /\ Calling(d) /\ Len(d) = Len(c) + 1 /\ \A i \in 1 .. Len(c) : d[i] = c[i]
    /\ d[Len(d)] = e
    /\ CalledKeys(d) = CalledKeys(c) \cup {e.op.key}
    /\ ChangedKeys(d) = ChangedKeys(c) \cup (IF Changes(e) THEN {e.op.key} ELSE {})
    /\ \A kinds : KeysWith(d, kinds) =
          KeysWith(c, kinds) \cup (IF e.op.kind \in kinds THEN {e.op.key} ELSE {})

\* One call more.
LEMMA MoreCalls ==
  ASSUME NEW c, Calling(c), NEW d, Len(d) = Len(c) + 1, \A i \in 1 .. Len(c) : d[i] = c[i],
         NEW e, d[Len(d)] = e, e.op \in Operation, e.op.kind # "Throw"
  PROVE  Appended(c, d, e)
  <1>1. PICK n : n = Len(c) OBVIOUS
  <1>2. n \in Nat /\ Len(d) = n + 1 BY <1>1 DEF Calling
  <1>3. 1 .. n + 1 = (1 .. n) \cup {n + 1} BY <1>2
  <1>4. d[n + 1] = e /\ \A i \in 1 .. n : d[i] = c[i] /\ i # n + 1 BY <1>1, <1>2
  <1>5. Calling(d) BY <1>1, <1>2, <1>3, <1>4 DEF Calling
  <1>6. CalledKeys(d) = CalledKeys(c) \cup {e.op.key}
    BY <1>1, <1>2, <1>3, <1>4 DEF CalledKeys, KeysOf
  <1>7. ChangedKeys(d) = ChangedKeys(c) \cup (IF Changes(e) THEN {e.op.key} ELSE {})
    BY <1>1, <1>2, <1>3, <1>4 DEF ChangedKeys, ChangedBy
  <1>8. ASSUME NEW kinds
        PROVE  KeysWith(d, kinds) =
                 KeysWith(c, kinds) \cup (IF e.op.kind \in kinds THEN {e.op.key} ELSE {})
    BY <1>1, <1>2, <1>3, <1>4 DEF KeysWith
  <1> QED BY <1>5, <1>6, <1>7, <1>8 DEF Appended

\* Append by the elements of the sequence.
LEMMA AppendIs ==
  ASSUME NEW s, IsSeq(s), NEW e
  PROVE  /\ DOMAIN s = 1 .. Len(s) /\ DOMAIN Append(s, e) = 1 .. Len(s) + 1
         /\ Len(Append(s, e)) = Len(s) + 1
         /\ \A i \in 1 .. Len(s) : Append(s, e)[i] = s[i]
         /\ Append(s, e)[Len(s) + 1] = e
  <1> DEFINE S == {s[i] : i \in 1 .. Len(s)} \cup {e}
  <1>1. s \in Seq(S) BY DEF IsSeq
  <1>2. e \in S OBVIOUS
  <1> HIDE DEF S
  <1> QED BY <1>1, <1>2

\* An operation has returned r.
LEMMA CallsGrow ==
  ASSUME NEW t \in Thread, UNCHANGED jobs, Calling(Calls(t)), IsSeq(frame[t].results),
         Len(frame[t].results) < Len(Job(t).body), NEW r,
         frame'[t].results = Append(frame[t].results, r),
         NEW op, op = Job(t).body[Len(frame[t].results) + 1]
  PROVE  /\ Len(Calls(t)) = Len(frame[t].results) /\ Len(Calls(t))' = Len(Calls(t)) + 1
         /\ \A i \in 1 .. Len(Calls(t)) : Calls(t)'[i] = Calls(t)[i]
         /\ Calls(t)'[Len(Calls(t)) + 1] = [op |-> op, result |-> r]
         /\ Job(t)' = Job(t)
  <1>1. PICK s : s = frame[t].results OBVIOUS
  <1>2. PICK body : body = Job(t).body OBVIOUS
  <1>3. PICK z : z = Append(s, r) OBVIOUS
  <1>4. /\ Len(s) \in Nat /\ DOMAIN s = 1 .. Len(s) /\ DOMAIN z = 1 .. Len(s) + 1
        /\ Len(z) = Len(s) + 1 /\ \A i \in 1 .. Len(s) : z[i] = s[i]
        /\ z[Len(s) + 1] = r
    BY <1>1, <1>3, AppendIs DEF IsSeq
  <1>5. Job(t)' = Job(t) BY DEF Job
  <1>6. Calls(t) = [i \in 1 .. Len(s) |-> [op |-> body[i], result |-> s[i]]]
    BY <1>1, <1>2, <1>4 DEF Calls, Results
  <1>7. Calls(t)' = [i \in 1 .. Len(s) + 1 |-> [op |-> body[i], result |-> z[i]]]
    BY <1>1, <1>2, <1>3, <1>4, <1>5 DEF Calls, Results
  <1>8. Len(Calls(t)) = Len(s)
    <2>1. DOMAIN Calls(t) = 1 .. Len(s) BY <1>6
    <2> QED BY <1>4, <1>6
  <1>9. Len(Calls(t)') = Len(s) + 1 BY <1>4, <1>7
  <1>10. Len(Calls(t))' = Len(s) + 1 BY <1>9
  <1>11. \A i \in 1 .. Len(s) : Calls(t)'[i] = Calls(t)[i] BY <1>4, <1>6, <1>7
  <1>12. Calls(t)'[Len(s) + 1] = [op |-> body[Len(s) + 1], result |-> r] BY <1>4, <1>7
  <1> QED BY <1>1, <1>2, <1>4, <1>5, <1>8, <1>10, <1>11, <1>12

\* The value of a node in the thread's list is the one it reads there.
LEMMA ReadValue ==
  ASSUME IInv, NEW t \in Thread, pc[t] \in Running, NEW n \in Node,
         \/ Clear(t, n) /\ Old(t, n)
         \/ ReadInv /\ node[n].key \in Got
  PROVE  ViewValues(t)[n] = GetUpdatedValue(t, n)
  <1>1. SUFFICES ASSUME ~InWriteSet(t, n) PROVE DecidedValue(n) = node[n].value
    BY ViewValueTyped DEF GetUpdatedValue
  <1>2. CASE Clear(t, n) /\ Old(t, n)
    BY <1>1, <1>2, SettledUndecided DEF Clear, SettledMeansUndecided, DecidedValue
  <1>3. CASE ReadInv /\ node[n].key \in Got /\ Decided(n)
    <2>1. PICK u \in Thread : Pending(u, n) BY <1>3 DEF Decided
    <2>2. Writer(n) = u /\ n \in held[u] /\ pc[u] \in Committing
      BY <2>1, WriterOf DEF WriterUnique, Pending
    <2>3. n \in DOMAIN txn[u].writeSet BY <2>2 DEF IInv, Ownership, HoldsOK
    <2> QED BY <1>3, <2>2, <2>3 DEF ReadInv, GotFixed, DecidedValue, Decision
  <1>4. CASE ~Decided(n) BY <1>4 DEF DecidedValue
  <1> QED BY <1>2, <1>3, <1>4

\* TraverseTo has found the place of the key.
LEMMA PlaceBefore ==
  ASSUME IInv, ListInv, KeysPrecedeDefault, NEW t \in Thread,
         pc[t] \in {"apply", "removePredecessor", "insertDeleted"},
         Consistent(t), Old(t, frame[t].pred),
         NEW k \in Key, k = frame[t].op.key, NEW p, p = frame[t].pred, NEW s, s = frame[t].succ
  PROVE  /\ p \in View(t) /\ LastBefore(View(t), ViewNext(t), KeyOf, p, k)
         /\ \A n \in View(t) : node[n].key = k => n = s
         /\ s # Null => s \in View(t)
         /\ \E q : Precedes(q, k) /\ (q = p \/ q \in DOMAIN txn[t].writeSet)
         /\ \A n \in Live : node[n].key = k => n = s \/ n \in DOMAIN txn[t].writeSet
  <1>1. /\ pc[t] \in Running /\ ThreadShape(t) /\ p \in Node /\ k \in Int
        /\ p = Sentinel \/ (node[p].key \in Key /\ node[p].key < k)
        /\ p \in View(t) /\ ViewNext(t)[p] = s
        /\ s # Null => node[s].key >= k
    BY FoundPlace
  <1>2. Gone(t) = {} BY DEF Gone
  <1>3. ListOf(View(t), ViewNext(t), KeyOf) BY <1>1, ViewList
  <1>4. ListOf(Live, DecidedNexts, KeyOf) BY LiveList
  <1>5. s # Null => s \in View(t) BY <1>1, <1>3 DEF ListOf, Linked
  <1>6. /\ View(t) \subseteq Node /\ Live \subseteq Node /\ \A n \in Node : KeyOf[n] = node[n].key
    BY <1>1, <1>3, <1>4, ViewNodes DEF ListOf
  <1>7. LastBefore(View(t), ViewNext(t), KeyOf, p, k) BY <1>1, <1>5, <1>6 DEF LastBefore
  <1>8. \A n \in View(t) : node[n].key = k => n = s
    <2>1. KeyOf[Sentinel] # k BY SentinelKey
    <2>2. \A n \in View(t) \ {Sentinel} : KeyOf[n] = k => ViewNext(t)[p] = n
      BY <1>1, <1>3, <1>7, OneBefore DEF ListOf
    <2> QED BY <1>1, <1>6, <2>1, <2>2
  <1>9. Overlay(Live, DecidedNexts, KeyOf, Own(t), Touched(t), Removed(t), ViewNext(t))
    BY <1>1, ViewOverlay DEF ThreadShape
  <1>10. Touched(t) = DOMAIN txn[t].writeSet /\ Removed(t) \subseteq DOMAIN txn[t].writeSet
    BY <1>2 DEF Touched, Removed
  <1>11. PICK q : LastBefore(Live, DecidedNexts, KeyOf, q, k)
    BY <1>1, <1>4, SomeBefore DEF ListOf
  <1>12. q = p \/ q \in Touched(t)
    <2>1. View(t) = (Live \cup Own(t)) \ Removed(t) BY DEF View
    <2>2. Keyed((Live \cup Own(t)) \ Removed(t), KeyOf) BY <1>3, <2>1 DEF ListOf
    <2>3. LastBefore((Live \cup Own(t)) \ Removed(t), ViewNext(t), KeyOf, p, k) BY <1>7, <2>1
    <2> QED BY <1>1, <1>9, <1>11, <2>2, <2>3, OverlayBefore
  <1>13. ASSUME NEW n \in Live, node[n].key = k PROVE n = s \/ n \in DOMAIN txn[t].writeSet
    <2>1. n \in View(t) \/ n \in Removed(t) BY DEF View
    <2> QED BY <1>8, <1>10, <1>13, <2>1
  <1> QED BY <1>1, <1>5, <1>7, <1>8, <1>10, <1>11, <1>12, <1>13 DEF Precedes

-----------------------------------------------------------------------------
(* The operations that only answer. *)

\* The keys of the calls are keys.
LEMMA EffectiveKeys ==
  ASSUME IInv, NEW t \in Thread, RoutineOK(t)
  PROVE  Effective(t) \subseteq Key /\ CalledKeys(Calls(t)) \subseteq Key
  <1>1. \A i \in 1 .. Len(Calls(t)) : Calls(t)[i].op.key \in Key
    BY DEF RoutineOK, Calling, Operation
  <1>2. Removing(t) => frame[t].op.key \in Key
    BY DEF Removing, IInv, Types, ThreadOK, FrameFits, Operating, Placed, Operation
  <1> QED BY <1>1, <1>2 DEF Effective, ChangedKeys, ChangedBy, CalledKeys, KeysOf

\* A step of a running transaction that changes nothing but its own list.
LEMMA ActStep ==
  ASSUME IInv, ListInv, KeysPrecedeDefault, NEW t \in Thread, pc[t] \in Running,
         RoutineOK(t), EffectOK(t), LocksOK(t), ReadSeen(t), NEW k \in Key,
         Live' = Live, \A m \in alloc : Same(m) /\ SameValue(m), Got' = Got,
         \A m \in alloc : Old(t, m)' <=> Old(t, m),
         Touched(t) \subseteq Touched(t)', txn[t].readSet \subseteq txn'[t].readSet,
         DOMAIN txn[t].writeSet \subseteq DOMAIN txn'[t].writeSet,
         Effective(t) \subseteq Effective(t)', Effective(t)' \subseteq Effective(t) \cup {k},
         \A n \in Own(t)' \cup Removed(t)' :
            n \in Own(t) \cup Removed(t) \/ node'[n].key \in Effective(t)',
         Consistent(t) /\ Consistent(t)' =>
            /\ \A n \in DOMAIN txn'[t].writeSet : n \in Live =>
                  \/ node[n].key \in Effective(t)'
                  \/ n \in DOMAIN txn[t].writeSet
                        /\ txn'[t].writeSet[n].value = txn[t].writeSet[n].value
                  \/ txn'[t].writeSet[n].value = DecidedValue(n)
            /\ \A j \in Key : j # k => ViewMap(t)'[j] = ViewMap(t)[j]
            /\ k \in Effective(t)' =>
                  /\ \A n \in Live : node[n].key = k => n \in Touched(t)'
                  /\ DecidedMap[k] = Null \/ ViewMap(t)'[k] = Null \/ k \in Got =>
                        \E x \in DOMAIN txn'[t].writeSet : Precedes(x, k)
  PROVE  /\ DecidedMap' = DecidedMap /\ \A x, j : Precedes(x, j)' <=> Precedes(x, j)
         /\ Consistent(t)' => Consistent(t)
         /\ AllOld(t)' => AllOld(t)
         /\ EffectOK(t)' /\ LocksOK(t)'
  <1>1. /\ Live \subseteq alloc /\ alloc \subseteq Node /\ Own(t) \subseteq alloc
        /\ DOMAIN txn[t].writeSet \subseteq alloc
    BY LiveNodes, ViewNodes
  <1>2. Touched(t) \subseteq alloc
    <2>1. Gone(t) \subseteq Node /\ Gone(t) \subseteq Refs(t)
      BY DEF Gone, Refs, IInv, Types, ThreadOK, FrameFits, AtFound
    <2>2. Gone(t) \subseteq alloc BY <2>1, NodeAssumption DEF IInv, References
    <2> QED BY <1>1, <2>2 DEF Touched
  <1>3. alloc \in SUBSET Node BY <1>1
  <1>4. DecidedMap' = DecidedMap /\ \A x, j : Precedes(x, j)' <=> Precedes(x, j)
    BY <1>1, <1>3, SameMap
  <1>5. Consistent(t)' => Consistent(t) BY <1>2 DEF Consistent
  <1>6. AllOld(t)' => AllOld(t) BY <1>5 DEF AllOld, ReadSeen
  <1>7. \A n \in alloc : node'[n].key = node[n].key /\ DecidedValue(n)' = DecidedValue(n)
    BY DEF Same, SameValue
  <1>8. Removed(t) \subseteq Touched(t) BY DEF Removed, Touched
  <1>9. EffectOK(t)'
    <2>1. \A n \in Own(t)' \cup Removed(t)' : node'[n].key \in Effective(t)'
      BY <1>1, <1>2, <1>7, <1>8 DEF EffectOK
    <2>2. ASSUME Consistent(t)', NEW n \in DOMAIN txn'[t].writeSet, n \in Live,
                 node'[n].key \notin Effective(t)'
          PROVE  txn'[t].writeSet[n].value = DecidedValue(n)'
      <3>1. n \in alloc /\ node'[n].key = node[n].key /\ DecidedValue(n)' = DecidedValue(n)
        BY <1>1, <1>7, <2>2
      <3>2. node[n].key \notin Effective(t) BY <2>2, <3>1
      <3> QED BY <1>5, <2>2, <3>1, <3>2 DEF EffectOK
    <2> QED BY <2>1, <2>2 DEF EffectOK
  <1>10. LocksOK(t)'
    <2>1. SUFFICES ASSUME Consistent(t)', NEW j \in Effective(t)'
                   PROVE  /\ \A n \in Live' : node'[n].key = j => n \in Touched(t)'
                          /\ DecidedMap'[j] = Null \/ ViewMap(t)'[j] = Null \/ j \in Got' =>
                                \E x \in DOMAIN txn'[t].writeSet : Precedes(x, j)'
      BY DEF LocksOK
    <2>2. CASE j = k BY <1>1, <1>4, <1>5, <1>7, <2>1, <2>2
    <2>3. CASE j # k
      <3>1. j \in Effective(t) /\ Consistent(t) BY <1>5, <2>1, <2>3
      <3>2. j \in Key => ViewMap(t)'[j] = ViewMap(t)[j] BY <2>1, <2>3, <3>1
      <3>3. ViewMap(t)'[j] = ViewMap(t)[j] \/ j \notin Key BY <3>2
      <3>4. j \in Key BY <3>1, EffectiveKeys
      <3> QED BY <1>1, <1>4, <1>7, <3>1, <3>3, <3>4 DEF LocksOK
    <2> QED BY <2>2, <2>3
  <1> QED BY <1>4, <1>5, <1>6, <1>9, <1>10

\* What is left to show of such a step.
LEMMA ActReads ==
  ASSUME IInv, IInv', ListInv, KeysPrecedeDefault, ReadInv, NEW t \in Thread, Silent(t),
         UNCHANGED jobs, pc'[t] \in {"next", "removeSuccessor"},
         \A m \in alloc : SameValue(m) /\ node'[m] = node[m],
         txn'[t].readSet \subseteq txn[t].readSet \cup Refs(t), alloc \subseteq alloc',
         GotFixed(t)', RunningOK(t)', ReadsOK(t)', ResultsOK(t)'
  PROVE  ReadInv' /\ Steady(t)
  <1>1. Got' = Got BY DEF Got
  <1>2. Stored(t)' BY DEF Stored, Committing
  <1>3. ReadSeen(t)'
    <2>1. ReadSeen(t) BY DEF ReadInv
    <2>2. \A u \in Thread \ {t} : Hidden(u)' = Hidden(u) BY DEF Silent, Hidden
    <2>3. Refs(t) \subseteq alloc \cup {Null} /\ \A u \in Thread \ {t} : Refs(t) \cap Hidden(u) = {}
      BY DEF IInv, References
    <2>4. txn'[t].readSet \subseteq Node BY DEF IInv, Types, ThreadOK, TxnTyped, Txn
    <2> QED BY <2>1, <2>2, <2>3, <2>4, NodeAssumption DEF ReadSeen
  <1>4. \A u \in Thread \ {t} : \A n \in held[u] : node'[n].value = node[n].value
    <2>1. \A u \in Thread : held[u] \subseteq Refs(u) /\ held[u] \subseteq Node
      BY DEF Refs, IInv, Types, CommitOK
    <2>2. \A u \in Thread : held[u] \subseteq alloc
      BY <2>1, NodeAssumption DEF IInv, References
    <2> QED BY <2>2
  <1>5. ThreadReads(t)' BY DEF ThreadReads
  <1> QED BY <1>1, <1>2, <1>3, <1>4, <1>5, SilentReads

\* The operation has returned, and the routine goes on.
LEMMA ReturnRoutine ==
  ASSUME IInv, ReadInv, NEW t \in Thread, pc[t] \in Operating, UNCHANGED jobs, NEW r,
         pc'[t] = "next", frame'[t].results = Append(frame[t].results, r),
         NEW op, op = frame[t].op, NEW e, e = [op |-> op, result |-> r]
  PROVE  /\ op \in Operation /\ op.kind # "Throw" /\ op.key \in Key
         /\ RoutineOK(t)' /\ PlaceClear(t)' /\ ~Removing(t)'
         /\ Appended(Calls(t), Calls(t)', e)
  <1>1. pc[t] \in Running BY DEF Running
  <1>2. RoutineOK(t) /\ IsSeq(frame[t].results) BY <1>1, InRoutine
  <1>3. op \in Operation BY DEF IInv, Types, ThreadOK, FrameFits
  <1>4. /\ Calling(Calls(t)) /\ op.kind # "Throw" /\ Len(frame[t].results) < Len(Job(t).body)
        /\ op = Job(t).body[Len(frame[t].results) + 1]
    BY <1>2 DEF RoutineOK
  <1>5. /\ Len(Calls(t)) = Len(frame[t].results) /\ Len(Calls(t))' = Len(Calls(t)) + 1
        /\ \A i \in 1 .. Len(Calls(t)) : Calls(t)'[i] = Calls(t)[i]
        /\ Calls(t)'[Len(Calls(t)) + 1] = e
        /\ Job(t)' = Job(t)
    BY <1>2, <1>4, CallsGrow
  <1>6. e.op = op BY ONLY e = [op |-> op, result |-> r]
  <1>7. PICK c, d : c = Calls(t) /\ d = Calls(t)' OBVIOUS
  <1>8. Calling(c) /\ Len(d) = Len(c) + 1 BY <1>4, <1>5, <1>7
  <1>9. \A i \in 1 .. Len(c) : d[i] = c[i] BY <1>5, <1>7
  <1>10. d[Len(d)] = e BY <1>5, <1>7, <1>8
  <1>11. e.op \in Operation /\ e.op.kind # "Throw" BY <1>3, <1>4, <1>6
  <1>12. Appended(c, d, e) BY ONLY <1>8, <1>9, <1>10, <1>11, MoreCalls
  <1>13. Calling(Calls(t))' BY <1>7, <1>12 DEF Calling, Appended
  <1>14. RoutineOK(t)'
    <2>1. Len(frame'[t].results) <= Len(Job(t).body)
      <3>1. Len(frame'[t].results) = Len(frame[t].results) + 1 BY <1>2, AppendIs
      <3>2. Len(frame[t].results) \in Nat BY <1>2 DEF IsSeq
      <3>3. Len(Job(t).body) \in Nat
        BY DEF Job, IInv, Types, ThreadOK, TxnJobs, Operating, Placed
      <3> QED BY <1>4, <3>1, <3>2, <3>3
    <2>2. "next" \notin Operating \cup {"lock"} \cup Validating \cup AtNode
      BY DEF Operating, Placed, Validating, AtNode
    <2> QED BY <1>5, <1>13, <2>1, <2>2 DEF RoutineOK
  <1>15. PlaceClear(t)' /\ ~Removing(t)' BY DEF PlaceClear, Between, Removing, AtNode
  <1> QED BY <1>3, <1>4, <1>7, <1>12, <1>14, <1>15 DEF Operation

\* What is there under the key, in the thread's list.
LEMMA FoundThere ==
  ASSUME IInv, ListInv, KeysPrecedeDefault, NEW t \in Thread, pc[t] = "apply",
         Consistent(t), Old(t, frame[t].pred), NEW k \in Key, k = frame[t].op.key
  PROVE  /\ ViewMap(t) \in Map
         /\ ViewMap(t)[k] # Null <=> Found(t)
         /\ Found(t) => frame[t].succ \in Node /\ ViewMap(t)[k] = ViewValues(t)[frame[t].succ]
  <1>1. PICK p, s : p = frame[t].pred /\ s = frame[t].succ OBVIOUS
  <1>2. /\ \A n \in View(t) : node[n].key = k => n = s
        /\ s # Null => s \in View(t)
    BY <1>1, PlaceBefore
  <1>3. pc[t] \in Running BY DEF Running, Operating, Placed
  <1>4. /\ \A n \in View(t) : node[n].key = k => ViewMap(t)[k] = ViewValues(t)[n]
        /\ ViewMap(t)[k] # Null <=> \E n \in View(t) : node[n].key = k
    BY <1>3, ViewHas
  <1>5. View(t) \subseteq Node /\ Null \notin View(t) BY ViewNodes
  <1>6. Found(t) <=> s # Null /\ node[s].key = k BY <1>1 DEF Found
  <1> QED BY <1>1, <1>2, <1>4, <1>5, <1>6, MapsTyped

\* The key of a running Get is one that somebody is to call Get for.
LEMMA GetsGot ==
  ASSUME IInv, NEW t \in Thread, pc[t] \in Operating, RoutineOK(t), frame[t].op.kind = "Get"
  PROVE  frame[t].op.key \in Got
  <1>1. PICK n, body : n = Len(frame[t].results) + 1 /\ body = Job(t).body OBVIOUS
  <1>2. Len(frame[t].results) \in Nat /\ frame[t].op \in Operation /\ jobs[t] # <<>>
        /\ jobs[t] \in Seq([call : {"Dispatch", "TryDispatch"}, body : Seq(Operation)])
    BY DEF IInv, Types, ThreadOK, FrameFits, IsSeq, TxnJobs, Operating, Placed
  <1>3. n - 1 < Len(body) /\ frame[t].op = body[n] BY <1>1, <1>2 DEF RoutineOK
  <1>4. 1 \in DOMAIN jobs[t] /\ jobs[t][1].body = body /\ body \in Seq(Operation)
    <2>1. PICK J, j : J = [call : {"Dispatch", "TryDispatch"}, body : Seq(Operation)] /\ j = jobs[t]
      OBVIOUS
    <2>2. j \in Seq(J) /\ j # <<>> BY <1>2, <2>1
    <2>3. j[1] \in J BY <2>2, NonEmpty
    <2>4. 1 \in DOMAIN j
      <3>1. Len(j) # 0 BY <2>2, EmptySeq
      <3> QED BY <2>2, <3>1
    <2> QED BY <1>1, <2>1, <2>3, <2>4 DEF Job
  <1>5. n \in DOMAIN body BY <1>1, <1>2, <1>3, <1>4
  <1>6. frame[t].op.key \in Key BY <1>2 DEF Operation
  <1> QED BY <1>3, <1>4, <1>5, <1>6 DEF Got

\* Contains, Get and a Remove that finds nothing return what they have found.
LEMMA AnswerReads ==
  ASSUME IInv, IInv', ListInv, KeysPrecedeDefault, ReadInv, NEW t \in Thread,
         Contains(t) \/ Get(t) \/ RemoveNothing(t), UNCHANGED jobs
  PROVE  ReadInv' /\ Steady(t)
  <1>1. PICK op, k, p, s, label : /\ op = frame[t].op /\ k = op.key /\ p = frame[t].pred
                                  /\ s = frame[t].succ /\ label = "next"
    OBVIOUS
  <1>2. PICK r : /\ Return(t, r)
                 /\ \/ op.kind = "Contains" /\ r = Found(t)
                    \/ op.kind = "Get" /\ r = IF Found(t) THEN GetUpdatedValue(t, s) ELSE Null
                    \/ op.kind = "Remove" /\ ~Found(t) /\ r = Null
    BY <1>1 DEF Contains, Get, RemoveNothing
  <1>3. PICK e : e = [op |-> op, result |-> r] OBVIOUS
  <1>4. /\ pc[t] = "apply" /\ UNCHANGED <<sharedVars, commitVars, txn>> /\ Goto(t, label)
        /\ frame' = [frame EXCEPT ![t] = [EmptyFrame EXCEPT !.results = Append(frame[t].results, r)]]
    BY <1>1, <1>2 DEF Contains, Get, RemoveNothing, operatorVars, Return
  <1>5. /\ DOMAIN frame' = Thread /\ DOMAIN txn' = Thread /\ DOMAIN frame = Thread
        /\ \A u \in Thread \ {t} : txn'[u] = txn[u] /\ frame'[u] = frame[u]
        /\ frame'[t].results = Append(frame[t].results, r)
    BY <1>4 DEF IInv, Types, EmptyFrame
  <1>6. pc[t] \in Running /\ pc[t] \in Operating /\ label \in Running
    BY <1>1, <1>4 DEF Running, Operating, Placed
  <1>7. Quiet(t) /\ pc'[t] = label /\ Hidden(t)' = Hidden(t)
    BY <1>4, <1>5, <1>6, OperationQuiet
  <1>8. /\ Silent(t) /\ Live' = Live /\ \A n \in Node : Same(n) /\ SameValue(n)
    BY <1>7, QuietSame, QuietValues
  <1>9. Gone(t) = {} /\ Gone(t)' = {} /\ ~Removing(t) /\ pc[t] \notin Validating
    BY <1>1, <1>4, <1>7 DEF Gone, Removing, Validating
  <1>10. txn' = txn /\ node' = node /\ alloc' = alloc BY <1>4 DEF sharedVars
  <1>11. /\ View(t)' = View(t) /\ Touched(t)' = Touched(t) /\ Own(t)' = Own(t)
         /\ \A n \in Node : Old(t, n)' <=> Old(t, n)
         /\ Consistent(t)' <=> Consistent(t)
    BY <1>7, <1>9, <1>10, QuietView
  <1>12. Removed(t)' = Removed(t) BY <1>9, <1>10 DEF Removed
  <1>13. /\ RoutineOK(t) /\ EffectOK(t) /\ LocksOK(t) /\ ReadSeen(t) /\ GotFixed(t)
         /\ ReadsOK(t) /\ ResultsOK(t)
    BY <1>6, <1>9 DEF ReadInv, ThreadReads, RunningOK
  <1>14. /\ op \in Operation /\ op.kind # "Throw" /\ k \in Key
         /\ RoutineOK(t)' /\ PlaceClear(t)' /\ ~Removing(t)'
         /\ Appended(Calls(t), Calls(t)', e)
    <2>1. /\ pc'[t] = "next" /\ pc[t] \in Operating /\ UNCHANGED jobs /\ op = frame[t].op
          /\ frame'[t].results = Append(frame[t].results, r)
      BY <1>1, <1>5, <1>6, <1>7
    <2>2. /\ op \in Operation /\ op.kind # "Throw" /\ op.key \in Key
          /\ RoutineOK(t)' /\ PlaceClear(t)' /\ ~Removing(t)'
          /\ Appended(Calls(t), Calls(t)', e)
      BY <1>3, <2>1, ReturnRoutine
    <2> QED BY <1>1, <2>2
  <1>a. PICK c, d : c = Calls(t) /\ d = Calls(t)' OBVIOUS
  <1>b. /\ Calling(c) /\ Calling(d) /\ Len(d) = Len(c) + 1 /\ \A i \in 1 .. Len(c) : d[i] = c[i]
        /\ d[Len(d)].op = op /\ d[Len(d)].result = r
        /\ CalledKeys(d) = CalledKeys(c) \cup {k}
        /\ ChangedKeys(d) = ChangedKeys(c) \cup (IF Changes(e) THEN {k} ELSE {})
        /\ \A kinds : KeysWith(d, kinds) =
              KeysWith(c, kinds) \cup (IF op.kind \in kinds THEN {k} ELSE {})
    BY <1>1, <1>3, <1>14, <1>a DEF Appended
  <1>15. Effective(t)' = Effective(t)
    <2>1. ~Changes(e) BY <1>2, <1>3 DEF Changes
    <2>2. ChangedKeys(Calls(t)') = ChangedKeys(Calls(t)) BY <1>a, <1>b, <2>1
    <2>3. Effective(t)' = ChangedKeys(Calls(t)') BY <1>14 DEF Effective, ChangedKeys, ChangedBy
    <2> QED BY <1>9, <2>2, <2>3 DEF Effective
  <1>16. Got' = Got BY DEF Got
  <1>17. Consistent(t) => ViewMap(t)' = ViewMap(t)
    <2>1. Node \in SUBSET Node /\ View(t) \subseteq Node BY ViewNodes
    <2> QED BY <1>6, <1>8, <1>10, <1>11, <2>1, SameViewMap
  <1>18. /\ DecidedMap' = DecidedMap /\ \A x, j : Precedes(x, j)' <=> Precedes(x, j)
         /\ AllOld(t)' => AllOld(t)
         /\ EffectOK(t)' /\ LocksOK(t)'
    <2>1. alloc \subseteq Node BY LiveNodes
    <2>2. /\ Touched(t) \subseteq Touched(t)' /\ txn[t].readSet \subseteq txn'[t].readSet
          /\ DOMAIN txn[t].writeSet \subseteq DOMAIN txn'[t].writeSet
          /\ Effective(t) \subseteq Effective(t)' /\ Effective(t)' \subseteq Effective(t) \cup {k}
          /\ \A n \in Own(t)' \cup Removed(t)' : n \in Own(t) \cup Removed(t)
      BY <1>10, <1>11, <1>12, <1>15
    <2>3. Consistent(t) => \A j \in Effective(t) :
             /\ \A n \in Live : node[n].key = j => n \in Touched(t)'
             /\ DecidedMap[j] = Null \/ ViewMap(t)'[j] = Null \/ j \in Got =>
                        \E x \in DOMAIN txn'[t].writeSet : Precedes(x, j)
      BY <1>10, <1>11, <1>13, <1>17 DEF LocksOK
    <2>4. \A m \in alloc : Same(m) /\ SameValue(m) /\ (Old(t, m)' <=> Old(t, m))
      BY <1>8, <1>11, <2>1
    <2> QED BY <1>6, <1>8, <1>10, <1>13, <1>14, <1>15, <1>16, <1>17, <2>2, <2>3, <2>4, ActStep
  <1>19. AllOld(t) => Consistent(t) /\ Old(t, p) /\ DOMAIN txn[t].writeSet \subseteq txn[t].readSet
                      /\ p \in txn[t].readSet
    BY <1>1, <1>4, FoundPlace DEF AllOld
  <1>20. ReadsOK(t)'
    <2>1. SUFFICES ASSUME AllOld(t)'
                   PROVE  /\ \A j \in CalledKeys(d) : \E x \in txn'[t].readSet : Precedes(x, j)'
                          /\ \A j \in KeysWith(d, {"Remove"}) : \A n \in Live' :
                                node'[n].key = j => n \in txn'[t].readSet
      BY <1>a DEF ReadsOK, CalledKeys, KeysOf, KeysWith
    <2>2. AllOld(t) BY <1>18, <2>1
    <2>3. /\ \A j \in CalledKeys(c) : \E x \in txn[t].readSet : Precedes(x, j)
          /\ \A j \in KeysWith(c, {"Remove"}) : \A n \in Live :
                node[n].key = j => n \in txn[t].readSet
      BY <1>13, <1>a, <2>2 DEF ReadsOK
    <2>4. /\ \E q : Precedes(q, k) /\ (q = p \/ q \in DOMAIN txn[t].writeSet)
          /\ \A n \in Live : node[n].key = k => n = s \/ n \in DOMAIN txn[t].writeSet
      <3>1. pc[t] \in {"apply", "removePredecessor", "insertDeleted"} BY <1>4
      <3> QED BY <1>1, <1>14, <1>19, <2>2, <3>1, PlaceBefore
    <2>5. op.kind = "Remove" => \A n \in Live : node[n].key = k => n \in txn[t].readSet
      <3>1. op.kind = "Remove" => ~Found(t) BY <1>2
      <3>2. Null \notin Live BY LiveNodes
      <3> QED BY <1>1, <1>19, <2>2, <2>4, <3>1, <3>2 DEF Found
    <2>6. \E x \in txn[t].readSet : Precedes(x, k) BY <1>19, <2>2, <2>4
    <2> QED BY <1>8, <1>10, <1>b, <1>18, <2>3, <2>5, <2>6
  <1>21. ResultsOK(t)'
    <2>1. SUFFICES ASSUME AllOld(t)' PROVE Replays(d, DecidedMap', ViewMap(t)')
      BY <1>14, <1>a DEF ResultsOK, Replays, Steps
    <2>2. AllOld(t) /\ Consistent(t) /\ Old(t, p) BY <1>18, <1>19, <2>1
    <2>3. Replays(c, DecidedMap, ViewMap(t)) BY <1>9, <1>13, <1>a, <2>2 DEF ResultsOK
    <2>4. /\ ViewMap(t) \in Map /\ (ViewMap(t)[k] # Null <=> Found(t))
          /\ Found(t) => s \in Node /\ ViewMap(t)[k] = ViewValues(t)[s]
      BY <1>1, <1>4, <1>14, <2>2, FoundThere
    <2>5. op.kind = "Get" /\ Found(t) => r = ViewMap(t)[k]
      <3>1. SUFFICES ASSUME op.kind = "Get", Found(t) PROVE r = ViewMap(t)[k] OBVIOUS
      <3>2. node[s].key = k /\ k \in Got
        <4>1. node[s].key = k BY <1>1, <3>1 DEF Found
        <4> QED BY <1>1, <1>6, <1>13, <3>1, <4>1, GetsGot
      <3>3. ViewValues(t)[s] = GetUpdatedValue(t, s) BY <1>6, <2>4, <3>1, <3>2, ReadValue
      <3> QED BY <1>2, <2>4, <3>1, <3>3
    <2>6. ResultOf(ViewMap(t), op) = r /\ Effect(ViewMap(t), op) = ViewMap(t)
      <3>1. PICK m : m = ViewMap(t) OBVIOUS
      <3>2. CASE op.kind = "Contains"
        <4>1. ResultOf(m, op) = (m[k] # Null) /\ Effect(m, op) = m
          BY <1>1, <1>14, <2>4, <3>1, <3>2, EffectMap
        <4>2. r = Found(t) BY <1>2, <3>2
        <4>3. (m[k] # Null) = Found(t) BY <2>4, <3>1 DEF Found
        <4> QED BY <3>1, <4>1, <4>2, <4>3
      <3>3. CASE op.kind = "Get"
        <4>1. ResultOf(m, op) = m[k] /\ Effect(m, op) = m
          BY <1>1, <1>14, <2>4, <3>1, <3>3, EffectMap
        <4> QED BY <1>2, <2>4, <2>5, <3>1, <3>3, <4>1
      <3>4. CASE op.kind = "Remove"
        <4>1. /\ ResultOf(m, op) = m[k] /\ Effect(m, op)[k] = Null /\ Effect(m, op) \in Map
              /\ \A j \in Key \ {k} : Effect(m, op)[j] = m[j]
          BY <1>1, <1>14, <2>4, <3>1, <3>4, EffectMap
        <4>2. m[k] = Null /\ r = Null BY <1>2, <2>4, <3>1, <3>4
        <4>3. PICK m2 : m2 = Effect(m, op) OBVIOUS
        <4>4. m2 \in Map /\ m \in Map /\ \A j \in Key : m2[j] = m[j] BY <1>1, <2>4, <3>1, <4>1, <4>2, <4>3
        <4>5. m2 = m BY <4>4 DEF Map
        <4> QED BY <3>1, <4>1, <4>2, <4>3, <4>5
      <3> QED BY <1>2, <3>2, <3>3, <3>4
    <2>7. PICK m : m = ViewMap(t) OBVIOUS
    <2>8. ResultOf(m, d[Len(d)].op) = d[Len(d)].result BY <1>b, <2>6, <2>7
    <2>9. Replays(d, DecidedMap, Effect(m, d[Len(d)].op))
      BY <1>b, <2>3, <2>7, <2>8, ReplayMore
    <2> QED BY <1>17, <1>18, <1>b, <2>2, <2>6, <2>7, <2>9
  <1>22. GotFixed(t)' BY <1>10, <1>13, <1>16 DEF GotFixed
  <1>23. \A m \in alloc : SameValue(m) /\ node'[m] = node[m] BY <1>8, <1>10, LiveNodes
  <1>24. RunningOK(t)' BY <1>14, <1>18 DEF RunningOK
  <1>25. pc'[t] \in {"next", "removeSuccessor"} BY <1>1, <1>7
  <1> QED BY <1>8, <1>10, <1>20, <1>21, <1>22, <1>23, <1>24, <1>25, ActReads

-----------------------------------------------------------------------------
(* The operations that change the list. *)

\* A map that is m but for key k.
LEMMA MapPut ==
  ASSUME NEW m \in Map, NEW m2 \in Map, NEW k \in Key, \A j \in Key : j # k => m2[j] = m[j],
         NEW v, m[k] = v
  PROVE  [m2 EXCEPT ![k] = v] = m
  <1>1. PICK m3 : m3 = [m2 EXCEPT ![k] = v] OBVIOUS
  <1>2. v \in Value \cup {Null} BY DEF Map
  <1>3. m3 \in Map BY <1>1, <1>2 DEF Map
  <1>4. \A j \in Key : m3[j] = m[j] BY <1>1 DEF Map
  <1>5. m3 = m BY <1>3, <1>4 DEF Map
  <1> QED BY <1>1, <1>5

\* Remove unlinks the node in its write set.
LEMMA RemovePredecessorReads ==
  ASSUME IInv, IInv', ListInv, KeysPrecedeDefault, ReadInv, NEW t \in Thread,
         RemovePredecessor(t), UNCHANGED jobs
  PROVE  ReadInv' /\ Steady(t)
  <1>1. PICK op, k, p, s, label : /\ op = frame[t].op /\ k = op.key /\ p = frame[t].pred
                                  /\ s = frame[t].succ /\ label = "removeSuccessor"
    OBVIOUS
  <1>2. PICK value, w : /\ value = GetUpdatedValue(t, p)
                        /\ w = Put(t, p, frame[t].link, FALSE, value)
    OBVIOUS
  <1>3. PICK y : y = [txn[t] EXCEPT !.writeSet = w] OBVIOUS
  <1>4. /\ pc[t] = "removePredecessor" /\ UNCHANGED <<sharedVars, commitVars, frame>>
        /\ txn' = [txn EXCEPT ![t] = y] /\ Goto(t, label)
    BY <1>1, <1>2, <1>3 DEF RemovePredecessor
  <1>5. /\ DOMAIN frame' = Thread /\ DOMAIN txn' = Thread /\ frame' = frame
        /\ \A u \in Thread \ {t} : txn'[u] = txn[u] /\ frame'[u] = frame[u]
        /\ txn'[t] = y /\ node' = node /\ alloc' = alloc
    BY <1>4 DEF IInv, Types, sharedVars
  <1>6. /\ txn'[t].writeSet = w /\ txn'[t].fresh = txn[t].fresh
        /\ txn'[t].readVersion = txn[t].readVersion /\ txn'[t].readSet = txn[t].readSet
    BY <1>3, <1>5 DEF IInv, Types, ThreadOK, TxnTyped, Txn
  <1>7. /\ pc[t] \in Running /\ ThreadShape(t) /\ p \in Node /\ s \in Node
        /\ node[s].key = k /\ k \in Key /\ k \in Int /\ op \in Operation
        /\ p = Sentinel \/ (node[p].key \in Key /\ node[p].key < k)
    BY <1>1, <1>4, FoundPlace
  <1>8. pc[t] \in Operating /\ label \in Running
    BY <1>1, <1>4 DEF Running, Operating, Placed
  <1>9. Quiet(t) /\ pc'[t] = label /\ Hidden(t)' = Hidden(t)
    BY <1>4, <1>5, <1>6, <1>7, <1>8, OperationQuiet
  <1>10. /\ Silent(t) /\ Live' = Live /\ \A n \in Node : Same(n) /\ SameValue(n)
    BY <1>9, QuietSame, QuietValues
  <1>11. /\ DOMAIN w = DOMAIN txn[t].writeSet \cup {p}
         /\ w[p].value = value /\ w[p].deleted = FALSE
         /\ \A m \in DOMAIN txn[t].writeSet : m # p => w[m] = txn[t].writeSet[m]
    BY <1>2 DEF Put
  <1>12. /\ Gone(t) = {} /\ Gone(t)' = {s} /\ ~Removing(t) /\ Removing(t)'
         /\ pc[t] \notin Validating
    BY <1>1, <1>4, <1>5, <1>9 DEF Gone, Removing, Validating
  <1>13. /\ RoutineOK(t) /\ PlaceClear(t) /\ EffectOK(t) /\ LocksOK(t) /\ ReadSeen(t) /\ GotFixed(t)
         /\ ReadsOK(t) /\ ResultsOK(t)
    BY <1>7, <1>12 DEF ReadInv, ThreadReads, RunningOK
  <1>14. /\ Live \subseteq alloc /\ alloc \subseteq Node /\ Own(t) \subseteq Node
         /\ DOMAIN txn[t].writeSet \subseteq Node /\ Null \notin Node
         /\ \A n \in Node : KeyOf[n] = node[n].key
    BY LiveNodes, ViewNodes, NodeAssumption DEF Own
  <1>15. Touched(t)' = Touched(t) \cup {p, s} /\ Touched(t) = DOMAIN txn[t].writeSet
    BY <1>6, <1>11, <1>12 DEF Touched
  <1>16. Own(t)' = Own(t) BY <1>5, <1>6 DEF Own
  <1>17. \A n \in Node : Old(t, n)' <=> Old(t, n) BY <1>6, <1>10 DEF Old, Same
  <1>18. Removed(t)' \subseteq Removed(t) \cup {s} /\ (p \notin Removed(t) => Removed(t)' = Removed(t) \cup {s})
    BY <1>6, <1>11, <1>12 DEF Removed
  <1>19. /\ Calls(t)' = Calls(t) /\ Job(t)' = Job(t) /\ Got' = Got /\ Calling(Calls(t))'
    BY <1>5, <1>13, CallsSame DEF RoutineOK
  <1>20. Effective(t)' = Effective(t) \cup {k}
    BY <1>1, <1>5, <1>12, <1>19 DEF Effective, ChangedKeys, ChangedBy
  <1>21. Clear(t, p) /\ Clear(t, s) BY <1>1, <1>4, <1>13 DEF PlaceClear, Between
  <1>22. ASSUME Consistent(t)'
         PROVE  /\ Consistent(t) /\ Old(t, p) /\ Old(t, s) /\ ViewValues(t)[p] = value
                /\ p \in View(t) /\ s \in View(t) /\ \A n \in View(t) : node[n].key = k => n = s
                /\ \E q : Precedes(q, k) /\ (q = p \/ q \in DOMAIN txn[t].writeSet)
                /\ \A n \in Live : node[n].key = k => n = s \/ n \in DOMAIN txn[t].writeSet
    <2>1. Consistent(t) /\ Old(t, p) /\ Old(t, s)
      BY <1>7, <1>14, <1>15, <1>17, <1>22 DEF Consistent
    <2>2. ViewValues(t)[p] = value BY <1>2, <1>7, <1>21, <2>1, ReadValue
    <2>3. pc[t] \in {"apply", "removePredecessor", "insertDeleted"} /\ s # Null BY <1>4, <1>7, <1>14
    <2> QED BY <1>1, <1>7, <2>1, <2>2, <2>3, PlaceBefore
  <1>23. Consistent(t)' => /\ ViewMap(t) \in Map /\ ViewMap(t)' \in Map
                           /\ \A j \in Key : j # k => ViewMap(t)'[j] = ViewMap(t)[j]
                           /\ ViewMap(t)'[k] = Null /\ ViewMap(t)[k] = ViewValues(t)[s]
    <2>1. SUFFICES ASSUME Consistent(t)'
                   PROVE  /\ ViewMap(t) \in Map /\ ViewMap(t)' \in Map
                          /\ \A j \in Key : j # k => ViewMap(t)'[j] = ViewMap(t)[j]
                          /\ ViewMap(t)'[k] = Null /\ ViewMap(t)[k] = ViewValues(t)[s]
      OBVIOUS
    <2>2. /\ Consistent(t) /\ ViewValues(t)[p] = value /\ p \in View(t) /\ s \in View(t)
          /\ \A n \in View(t) : node[n].key = k => n = s
      BY <1>22, <2>1
    <2>3. View(t)' = View(t) \ {s}
      <3>1. p \notin Removed(t) BY <2>2 DEF View
      <3> QED BY <1>10, <1>16, <1>18, <3>1 DEF View
    <2>4. KeyOf' = KeyOf BY <1>5 DEF KeyOf
    <2>5. ListOf(View(t), ViewNext(t), KeyOf) BY <1>7, <2>2, ViewList
    <2>6. Distinct(View(t), KeyOf) /\ View(t) \subseteq Node BY <2>5 DEF ListOf
    <2>7. Distinct(View(t)', KeyOf) BY <2>3, <2>6 DEF Distinct
    <2>8. \A n \in View(t) : ViewValues(t)'[n] = ViewValues(t)[n]
      <3>1. SUFFICES ASSUME NEW n \in View(t) PROVE ViewValues(t)'[n] = ViewValues(t)[n] OBVIOUS
      <3>2. n \in Node /\ DecidedValue(n)' = DecidedValue(n) BY <1>10, <2>6 DEF SameValue
      <3>3. ViewValues(t)'[n] = IF n \in DOMAIN w THEN w[n].value ELSE DecidedValue(n)'
        BY <1>6, <3>2 DEF ViewValues, InWriteSet
      <3>4. ViewValues(t)[n] =
              IF n \in DOMAIN txn[t].writeSet THEN txn[t].writeSet[n].value ELSE DecidedValue(n)
        BY <3>2 DEF ViewValues, InWriteSet
      <3> QED BY <1>11, <2>2, <3>2, <3>3, <3>4
    <2>9. PICK S2, v2 : S2 = View(t)' /\ v2 = ViewValues(t)' OBVIOUS
    <2>10. ViewMap(t)' = MapOf(S2, KeyOf, v2) /\ ViewMap(t) = MapOf(View(t), KeyOf, ViewValues(t))
      BY <2>4, <2>9 DEF ViewMap, MapOf
    <2>11. ASSUME NEW j \in Key, j # k PROVE ViewMap(t)'[j] = ViewMap(t)[j]
      <3>1. KeyOf[s] = k BY <1>7, <1>14
      <3>2. Distinct(S2, KeyOf) BY <2>7, <2>9
      <3>3. \A n : (n \in S2 /\ KeyOf[n] = j) <=> (n \in View(t) /\ KeyOf[n] = j)
        BY <2>3, <2>9, <2>11, <3>1
      <3>4. \A n \in S2 : KeyOf[n] = j => v2[n] = ViewValues(t)[n] BY <2>3, <2>8, <2>9
      <3> QED BY <2>6, <2>10, <3>2, <3>3, <3>4, MapAgrees
    <2>12. ViewMap(t)'[k] = Null
      <3>1. \A n \in S2 : KeyOf[n] # k BY <1>14, <2>2, <2>3, <2>6, <2>9
      <3> QED BY <1>7, <2>10, <3>1, MapLacks
    <2>13. ViewMap(t)[k] = ViewValues(t)[s] BY <1>7, <2>2, ViewHas
    <2>14. ViewMap(t) \in Map BY MapsTyped
    <2>15. ViewMap(t)' \in Map
      <3>1. \A n \in S2 : v2[n] \in Value \cup {Null}
        BY <2>3, <2>6, <2>8, <2>9, ViewValueTyped
      <3> QED BY <2>10, <3>1, MapTyped
    <2> QED BY <2>11, <2>12, <2>13, <2>14, <2>15
  <1>24. /\ DecidedMap' = DecidedMap /\ \A x, j : Precedes(x, j)' <=> Precedes(x, j)
         /\ Consistent(t)' => Consistent(t)
         /\ AllOld(t)' => AllOld(t)
         /\ EffectOK(t)' /\ LocksOK(t)'
    <2>1. /\ Touched(t) \subseteq Touched(t)' /\ txn[t].readSet \subseteq txn'[t].readSet
          /\ DOMAIN txn[t].writeSet \subseteq DOMAIN txn'[t].writeSet
          /\ Effective(t) \subseteq Effective(t)' /\ Effective(t)' \subseteq Effective(t) \cup {k}
      BY <1>6, <1>11, <1>15, <1>20
    <2>2. \A n \in Own(t)' \cup Removed(t)' :
            n \in Own(t) \cup Removed(t) \/ node'[n].key \in Effective(t)'
      BY <1>5, <1>7, <1>16, <1>18, <1>20
    <2>3. Consistent(t)' =>
            \A n \in DOMAIN txn'[t].writeSet :
                  \/ n \in DOMAIN txn[t].writeSet
                        /\ txn'[t].writeSet[n].value = txn[t].writeSet[n].value
                  \/ txn'[t].writeSet[n].value = DecidedValue(n)
      <3>1. SUFFICES ASSUME Consistent(t)', NEW n \in DOMAIN w
                     PROVE  \/ n \in DOMAIN txn[t].writeSet /\ w[n].value = txn[t].writeSet[n].value
                            \/ w[n].value = DecidedValue(n)
        BY <1>6
      <3>2. CASE n # p BY <1>11, <3>1, <3>2
      <3>3. CASE n = p /\ n \in DOMAIN txn[t].writeSet
        BY <1>2, <1>11, <3>3 DEF GetUpdatedValue, InWriteSet
      <3>4. CASE n = p /\ n \notin DOMAIN txn[t].writeSet
        BY <1>7, <1>11, <1>22, <3>1, <3>4, ViewValueTyped DEF InWriteSet
      <3> QED BY <3>2, <3>3, <3>4
    <2>4. Consistent(t)' => \A n \in Live : node[n].key = k => n \in Touched(t)'
      BY <1>15, <1>22
    <2>5. Consistent(t)' => \E x \in DOMAIN txn'[t].writeSet : Precedes(x, k)
      BY <1>6, <1>11, <1>22
    <2>6. \A m \in alloc : Same(m) /\ SameValue(m) /\ (Old(t, m)' <=> Old(t, m))
      BY <1>10, <1>14, <1>17
    <2> QED BY <1>7, <1>10, <1>13, <1>19, <1>23, <2>1, <2>2, <2>3, <2>4, <2>5, <2>6, ActStep
  <1>25. ReadsOK(t)'
    <2>a. /\ CalledKeys(Calls(t))' = CalledKeys(Calls(t))
          /\ KeysWith(Calls(t), {"Remove"})' = KeysWith(Calls(t), {"Remove"})
      BY <1>19 DEF CalledKeys, KeysOf, KeysWith
    <2>1. SUFFICES ASSUME AllOld(t)'
                   PROVE  /\ \A j \in CalledKeys(Calls(t)) : \E x \in txn[t].readSet : Precedes(x, j)
                          /\ \A j \in KeysWith(Calls(t), {"Remove"}) : \A n \in Live :
                                node[n].key = j => n \in txn[t].readSet
      BY <1>5, <1>6, <1>10, <1>24, <2>a DEF ReadsOK
    <2> QED BY <1>13, <1>24, <2>1 DEF ReadsOK
  <1>26. ResultsOK(t)'
    <2>1. SUFFICES ASSUME AllOld(t)', NEW v, v = GetUpdatedValue(t, s)'
                   PROVE  /\ ViewMap(t)'[k] = Null
                          /\ Replays(Calls(t), DecidedMap, [ViewMap(t)' EXCEPT ![k] = v])
      BY <1>1, <1>5, <1>12, <1>19, <1>24 DEF ResultsOK, Replays, Steps
    <2>2. Consistent(t)' /\ AllOld(t) BY <1>24, <2>1 DEF AllOld
    <2>3. Replays(Calls(t), DecidedMap, ViewMap(t)) BY <1>12, <1>13, <2>2 DEF ResultsOK
    <2>4. v = GetUpdatedValue(t, s)
      <3>1. s # p
        <4>1. KeyOf[Sentinel] \notin Key BY SentinelKey
        <4> QED BY <1>7, <1>14, <4>1, NodeAssumption
      <3> QED BY <1>5, <1>6, <1>11, <2>1, <3>1 DEF GetUpdatedValue, InWriteSet
    <2>5. v = ViewMap(t)[k]
      <3>1. ViewValues(t)[s] = GetUpdatedValue(t, s) BY <1>7, <1>21, <1>22, <2>2, ReadValue
      <3> QED BY <1>23, <2>2, <2>4, <3>1
    <2>6. PICK m, m2 : m = ViewMap(t) /\ m2 = ViewMap(t)' OBVIOUS
    <2>7. [m2 EXCEPT ![k] = v] = m
      <3>1. m \in Map /\ m2 \in Map /\ m[k] = v /\ \A j \in Key : j # k => m2[j] = m[j]
        BY <1>23, <2>2, <2>5, <2>6
      <3> QED BY <1>7, <3>1, MapPut
    <2> QED BY <1>23, <2>2, <2>3, <2>6, <2>7
  <1>27. GotFixed(t)'
    <2>1. SUFFICES ASSUME NEW n \in DOMAIN w, node[n].key \in Got PROVE w[n].value = node[n].value
      BY <1>5, <1>6, <1>19 DEF GotFixed
    <2> QED BY <1>2, <1>11, <1>13, <2>1 DEF GotFixed, GetUpdatedValue, InWriteSet
  <1>28. RoutineOK(t)'
    <2>1. label \in Operating /\ label \notin {"next", "lock", "insertDeleted"} \cup Validating \cup AtNode
      BY <1>1 DEF Operating, Placed, Validating, AtNode
    <2>2. op.kind = "Remove" /\ Len(frame[t].results) < Len(Job(t).body)
          /\ op = Job(t).body[Len(frame[t].results) + 1] /\ op.kind # "Throw"
      BY <1>1, <1>4, <1>8, <1>13 DEF RoutineOK
    <2> QED BY <1>1, <1>5, <1>9, <1>19, <2>1, <2>2 DEF RoutineOK
  <1>29. PlaceClear(t)'
    <2>1. \A n \in Node : Settled(t, n) => Settled(t, n)'
      <3>1. \A n \in Node : \A u \in Thread : Pending(u, n)' => Pending(u, n) /\ u # t
        BY <1>1, <1>4, <1>5, <1>9 DEF Pending, Goto, commitVars, Committing, IInv, Types
      <3> QED BY <1>5, <1>6, <3>1 DEF Settled
    <2>2. Clear(t, p)' /\ Clear(t, s)' BY <1>6, <1>7, <1>11, <1>21, <2>1 DEF Clear, InWriteSet
    <2>3. ~Between(t)' BY <1>1, <1>9 DEF Between, AtNode
    <2> QED BY <1>1, <1>5, <2>2, <2>3 DEF PlaceClear, Clear, InWriteSet, Settled
  <1>30. RunningOK(t)' BY <1>24, <1>28, <1>29 DEF RunningOK
  <1>31. \A m \in alloc : SameValue(m) /\ node'[m] = node[m] BY <1>5, <1>10, <1>14
  <1>32. pc'[t] \in {"next", "removeSuccessor"} BY <1>1, <1>9
  <1> QED BY <1>5, <1>6, <1>10, <1>25, <1>26, <1>27, <1>30, <1>31, <1>32, ActReads

\* Insert takes back what its transaction has removed.
LEMMA InsertExistingDeletedReads ==
  ASSUME IInv, IInv', ListInv, KeysPrecedeDefault, ReadInv, NEW t \in Thread,
         InsertExistingDeleted(t), UNCHANGED jobs
  PROVE  ReadInv' /\ Steady(t)
  <1>1. PICK op, k, p, s, label : /\ op = frame[t].op /\ k = op.key /\ p = frame[t].pred
                                  /\ s = frame[t].succ /\ label = "next"
    OBVIOUS
  <1>2. PICK mark, w : /\ mark = GetUpdatedIsDeleted(t, s)
                       /\ w = Put(t, s, frame[t].link, mark, op.value)
    OBVIOUS
  <1>3. PICK y, r, e : /\ y = [txn[t] EXCEPT !.writeSet = w, !.readSet = txn[t].readSet \cup {s}]
                       /\ r = Null /\ e = [op |-> op, result |-> r]
    OBVIOUS
  <1>4. /\ pc[t] = "insertDeleted" /\ UNCHANGED <<sharedVars, commitVars>>
        /\ txn' = [txn EXCEPT ![t] = y] /\ Goto(t, label)
        /\ frame' = [frame EXCEPT ![t] = [EmptyFrame EXCEPT !.results = Append(frame[t].results, r)]]
    BY <1>1, <1>2, <1>3 DEF InsertExistingDeleted, Return
  <1>5. /\ DOMAIN frame' = Thread /\ DOMAIN txn' = Thread /\ DOMAIN frame = Thread
        /\ \A u \in Thread \ {t} : txn'[u] = txn[u] /\ frame'[u] = frame[u]
        /\ txn'[t] = y /\ node' = node /\ alloc' = alloc
        /\ frame'[t].results = Append(frame[t].results, r)
    BY <1>4 DEF IInv, Types, sharedVars, EmptyFrame
  <1>6. /\ txn'[t].writeSet = w /\ txn'[t].fresh = txn[t].fresh
        /\ txn'[t].readVersion = txn[t].readVersion /\ txn'[t].readSet = txn[t].readSet \cup {s}
    BY <1>3, <1>5 DEF IInv, Types, ThreadOK, TxnTyped, Txn
  <1>7. /\ pc[t] \in Running /\ ThreadShape(t) /\ p \in Node /\ s \in Node
        /\ node[s].key = k /\ k \in Key /\ k \in Int /\ op \in Operation /\ Fine(t, s)
        /\ p \in txn[t].readSet /\ DOMAIN txn[t].writeSet \subseteq txn[t].readSet
    BY <1>1, <1>4, FoundPlace
  <1>8. pc[t] \in Operating /\ label \in Running
    BY <1>1, <1>4 DEF Running, Operating, Placed
  <1>9. Quiet(t) /\ pc'[t] = label /\ Hidden(t)' = Hidden(t)
    BY <1>4, <1>5, <1>6, <1>7, <1>8, OperationQuiet
  <1>10. /\ Silent(t) /\ Live' = Live /\ \A n \in Node : Same(n) /\ SameValue(n)
    BY <1>9, QuietSame, QuietValues
  <1>11. /\ DOMAIN w = DOMAIN txn[t].writeSet \cup {s}
         /\ w[s].value = op.value /\ w[s].deleted = mark
         /\ \A m \in DOMAIN txn[t].writeSet : m # s => w[m] = txn[t].writeSet[m]
    BY <1>2 DEF Put
  <1>12. /\ Gone(t) = {} /\ Gone(t)' = {} /\ ~Removing(t)
         /\ pc[t] \notin Validating
    BY <1>1, <1>4, <1>5, <1>9 DEF Gone, Removing, Validating
  <1>13. /\ RoutineOK(t) /\ PlaceClear(t) /\ EffectOK(t) /\ LocksOK(t) /\ ReadSeen(t) /\ GotFixed(t)
         /\ ReadsOK(t) /\ ResultsOK(t)
    BY <1>7, <1>12 DEF ReadInv, ThreadReads, RunningOK
  <1>14. /\ Live \subseteq alloc /\ alloc \subseteq Node /\ Own(t) \subseteq Node
         /\ DOMAIN txn[t].writeSet \subseteq Node /\ Null \notin Node
         /\ \A n \in Node : KeyOf[n] = node[n].key
    BY LiveNodes, ViewNodes, NodeAssumption DEF Own
  <1>15. Touched(t)' = Touched(t) \cup {s} /\ Touched(t) = DOMAIN txn[t].writeSet
    BY <1>6, <1>11, <1>12 DEF Touched
  <1>16. Own(t)' = Own(t) BY <1>5, <1>6 DEF Own
  <1>17. \A n \in Node : Old(t, n)' <=> Old(t, n) BY <1>6, <1>10 DEF Old, Same
  <1>18. /\ Removed(t)' \subseteq Removed(t) \cup {s}
         /\ (s \notin Removed(t) /\ mark = FALSE => Removed(t)' = Removed(t))
    BY <1>6, <1>11, <1>12 DEF Removed
  <1>19. /\ op.kind # "Throw" /\ RoutineOK(t)' /\ PlaceClear(t)' /\ ~Removing(t)'
         /\ Appended(Calls(t), Calls(t)', e)
    <2>1. /\ pc'[t] = "next" /\ pc[t] \in Operating /\ UNCHANGED jobs /\ op = frame[t].op
          /\ frame'[t].results = Append(frame[t].results, r)
      BY <1>1, <1>5, <1>8, <1>9
    <2> QED BY <1>3, <2>1, ReturnRoutine
  <1>20. op.kind = "Insert" /\ k \notin Got BY <1>1, <1>4, <1>13 DEF RoutineOK
  <1>21. PICK c, d : c = Calls(t) /\ d = Calls(t)' OBVIOUS
  <1>22. /\ Calling(c) /\ Calling(d) /\ Len(d) = Len(c) + 1 /\ \A i \in 1 .. Len(c) : d[i] = c[i]
         /\ d[Len(d)].op = op /\ d[Len(d)].result = r
         /\ CalledKeys(d) = CalledKeys(c) \cup {k} /\ ChangedKeys(d) = ChangedKeys(c) \cup {k}
         /\ KeysWith(d, {"Remove"}) = KeysWith(c, {"Remove"})
    <2>1. e.op = op /\ e.result = r BY ONLY <1>3
    <2>2. Changes(e) /\ e.op.kind \notin {"Remove"} BY <1>20, <2>1 DEF Changes
    <2>3. Appended(c, d, e) BY <1>19, <1>21
    <2>4. /\ Calling(c) /\ Calling(d) /\ Len(d) = Len(c) + 1 /\ \A i \in 1 .. Len(c) : d[i] = c[i]
          /\ d[Len(d)] = e
      BY ONLY <2>3 DEF Appended
    <2>5. CalledKeys(d) = CalledKeys(c) \cup {e.op.key} BY ONLY <2>3 DEF Appended
    <2>6. ChangedKeys(d) = ChangedKeys(c) \cup {e.op.key} BY ONLY <2>2, <2>3 DEF Appended
    <2>7. KeysWith(d, {"Remove"}) = KeysWith(c, {"Remove"}) \cup
            (IF e.op.kind \in {"Remove"} THEN {e.op.key} ELSE {})
      BY ONLY <2>3, Zenon DEF Appended
    <2>8. KeysWith(d, {"Remove"}) = KeysWith(c, {"Remove"}) BY ONLY <2>2, <2>7
    <2>9. e.op.key = k BY <1>1, <2>1
    <2> QED BY ONLY <2>1, <2>4, <2>5, <2>6, <2>8, <2>9
  <1>23. Effective(t)' = Effective(t) \cup {k}
    <2>1. Effective(t)' = ChangedKeys(d) BY <1>19, <1>21 DEF Effective, ChangedKeys, ChangedBy
    <2> QED BY <1>12, <1>21, <1>22, <2>1 DEF Effective
  <1>24. Got' = Got BY DEF Got
  <1>25. Consistent(t)' => Consistent(t) /\ Old(t, s) /\ s \in View(t) /\ mark = FALSE
    <2>1. SUFFICES ASSUME Consistent(t)'
                   PROVE  Consistent(t) /\ Old(t, s) /\ s \in View(t) /\ mark = FALSE
      OBVIOUS
    <2>2. Consistent(t) /\ Old(t, s) BY <1>7, <1>14, <1>15, <1>17, <2>1 DEF Consistent
    <2>3. s \in View(t)
      <3>1. node[s].key # DefaultKey BY <1>7, KeyAssumption DEF KeysPrecedeDefault
      <3> QED BY <1>7, <1>14, <2>2, <3>1 DEF Fine
    <2>4. mark = FALSE BY <1>2, <1>7, <2>3, ViewUnmarked
    <2> QED BY <2>2, <2>3, <2>4
  <1>26. Consistent(t)' => /\ ViewMap(t) \in Map /\ ViewMap(t)' \in Map
                           /\ \A j \in Key : j # k => ViewMap(t)'[j] = ViewMap(t)[j]
                           /\ ViewMap(t)'[k] = op.value
                           /\ \A n \in View(t) : node[n].key = k => n = s
    <2>1. SUFFICES ASSUME Consistent(t)'
                   PROVE  /\ ViewMap(t) \in Map /\ ViewMap(t)' \in Map
                          /\ \A j \in Key : j # k => ViewMap(t)'[j] = ViewMap(t)[j]
                          /\ ViewMap(t)'[k] = op.value
                          /\ \A n \in View(t) : node[n].key = k => n = s
      OBVIOUS
    <2>2. Consistent(t) /\ s \in View(t) /\ mark = FALSE BY <1>25, <2>1
    <2>3. View(t)' = View(t)
      <3>1. s \notin Removed(t) BY <2>2 DEF View
      <3> QED BY <1>10, <1>16, <1>18, <2>2, <3>1 DEF View
    <2>4. KeyOf' = KeyOf BY <1>5 DEF KeyOf
    <2>5. ListOf(View(t), ViewNext(t), KeyOf) BY <1>7, <2>2, ViewList
    <2>6. Distinct(View(t), KeyOf) /\ View(t) \subseteq Node BY <2>5 DEF ListOf
    <2>7. \A n \in View(t) : ViewValues(t)'[n] = IF n = s THEN op.value ELSE ViewValues(t)[n]
      <3>1. SUFFICES ASSUME NEW n \in View(t)
                     PROVE  ViewValues(t)'[n] = IF n = s THEN op.value ELSE ViewValues(t)[n]
        OBVIOUS
      <3>2. n \in Node /\ DecidedValue(n)' = DecidedValue(n) BY <1>10, <2>6 DEF SameValue
      <3>3. ViewValues(t)'[n] = IF n \in DOMAIN w THEN w[n].value ELSE DecidedValue(n)'
        BY <1>6, <3>2 DEF ViewValues, InWriteSet
      <3>4. ViewValues(t)[n] =
              IF n \in DOMAIN txn[t].writeSet THEN txn[t].writeSet[n].value ELSE DecidedValue(n)
        BY <3>2 DEF ViewValues, InWriteSet
      <3> QED BY <1>11, <3>2, <3>3, <3>4
    <2>8. PICK v2 : v2 = ViewValues(t)' OBVIOUS
    <2>9. ViewMap(t)' = MapOf(View(t), KeyOf, v2) /\ ViewMap(t) = MapOf(View(t), KeyOf, ViewValues(t))
      BY <2>3, <2>4, <2>8 DEF ViewMap, MapOf
    <2>10. KeyOf[s] = k BY <1>7, <1>14
    <2>11. ASSUME NEW j \in Key, j # k PROVE ViewMap(t)'[j] = ViewMap(t)[j]
      <3>1. \A n \in View(t) : KeyOf[n] = j => v2[n] = ViewValues(t)[n] BY <2>7, <2>8, <2>10, <2>11
      <3> QED BY <2>6, <2>9, <3>1, MapAgrees
    <2>12. ViewMap(t)'[k] = op.value
      <3>1. v2[s] = op.value BY <2>2, <2>7, <2>8
      <3> QED BY <1>7, <2>2, <2>6, <2>9, <2>10, <3>1, MapHas
    <2>13. ViewMap(t) \in Map BY MapsTyped
    <2>14. ViewMap(t)' \in Map
      <3>1. op.value \in Value BY <1>7 DEF Operation
      <3>2. \A n \in View(t) : v2[n] \in Value \cup {Null}
        BY <2>6, <2>7, <2>8, <3>1, ViewValueTyped
      <3> QED BY <2>9, <3>2, MapTyped
    <2>15. \A n \in View(t) : node[n].key = k => n = s
      BY <1>7, <1>14, <2>2, <2>6, <2>10 DEF Distinct
    <2> QED BY <2>11, <2>12, <2>13, <2>14, <2>15
  <1>27. /\ DecidedMap' = DecidedMap /\ \A x, j : Precedes(x, j)' <=> Precedes(x, j)
         /\ Consistent(t)' => Consistent(t)
         /\ AllOld(t)' => AllOld(t)
         /\ EffectOK(t)' /\ LocksOK(t)'
    <2>1. /\ Touched(t) \subseteq Touched(t)' /\ txn[t].readSet \subseteq txn'[t].readSet
          /\ DOMAIN txn[t].writeSet \subseteq DOMAIN txn'[t].writeSet
          /\ Effective(t) \subseteq Effective(t)' /\ Effective(t)' \subseteq Effective(t) \cup {k}
      BY <1>6, <1>11, <1>15, <1>23
    <2>2. \A n \in Own(t)' \cup Removed(t)' :
            n \in Own(t) \cup Removed(t) \/ node'[n].key \in Effective(t)'
      BY <1>5, <1>7, <1>16, <1>18, <1>23
    <2>3. \A n \in DOMAIN txn'[t].writeSet :
                  \/ node[n].key \in Effective(t)'
                  \/ n \in DOMAIN txn[t].writeSet
                        /\ txn'[t].writeSet[n].value = txn[t].writeSet[n].value
      BY <1>6, <1>7, <1>11, <1>23
    <2>4. Consistent(t)' => \A n \in Live : node[n].key = k => n \in Touched(t)'
      <3>1. SUFFICES ASSUME Consistent(t)', NEW n \in Live, node[n].key = k PROVE n \in Touched(t)'
        OBVIOUS
      <3>2. n \in View(t) \/ n \in Removed(t) BY DEF View
      <3>3. Removed(t) \subseteq Touched(t) BY DEF Removed, Touched
      <3> QED BY <1>15, <1>26, <3>1, <3>2, <3>3
    <2>5. Consistent(t)' /\ (DecidedMap[k] = Null \/ ViewMap(t)'[k] = Null \/ k \in Got) =>
            \E x \in DOMAIN txn'[t].writeSet : Precedes(x, k)
      <3>1. SUFFICES ASSUME Consistent(t)', DecidedMap[k] = Null \/ ViewMap(t)'[k] = Null \/ k \in Got
                     PROVE  \E x \in DOMAIN txn'[t].writeSet : Precedes(x, k)
        OBVIOUS
      <3>2. op.value # Null BY <1>7, ValueAssumption DEF Operation
      <3>3. DecidedMap[k] = Null BY <1>20, <1>26, <3>1, <3>2
      <3>4. s \notin Live BY <1>7, <3>3, DecidedHas
      <3>5. s \in Own(t) BY <1>25, <3>1, <3>4 DEF View
      <3>6. k \in Effective(t) BY <1>7, <1>13, <3>5 DEF EffectOK
      <3>7. \E x \in DOMAIN txn[t].writeSet : Precedes(x, k)
        BY <1>13, <1>25, <3>1, <3>3, <3>6 DEF LocksOK
      <3> QED BY <1>6, <1>11, <3>7
    <2>6. \A m \in alloc : Same(m) /\ SameValue(m) /\ (Old(t, m)' <=> Old(t, m))
      BY <1>10, <1>14, <1>17
    <2> QED BY <1>7, <1>10, <1>13, <1>24, <1>26, <2>1, <2>2, <2>3, <2>4, <2>5, <2>6, ActStep
  <1>28. AllOld(t) => \E x \in txn[t].readSet : Precedes(x, k)
    <2>1. SUFFICES ASSUME AllOld(t) PROVE \E x \in txn[t].readSet : Precedes(x, k) OBVIOUS
    <2>2. Consistent(t) /\ Old(t, p) BY <1>7, <2>1 DEF AllOld
    <2>3. pc[t] \in {"apply", "removePredecessor", "insertDeleted"} BY <1>4
    <2>4. \E q : Precedes(q, k) /\ (q = p \/ q \in DOMAIN txn[t].writeSet)
      BY <1>1, <1>7, <2>2, <2>3, PlaceBefore
    <2> QED BY <1>7, <2>4
  <1>29. ReadsOK(t)'
    <2>a. CalledKeys(Calls(t))' = CalledKeys(d) /\ KeysWith(Calls(t), {"Remove"})' = KeysWith(d, {"Remove"})
      BY <1>21 DEF CalledKeys, KeysOf, KeysWith
    <2>1. SUFFICES ASSUME AllOld(t)'
                   PROVE  /\ \A j \in CalledKeys(d) : \E x \in txn[t].readSet : Precedes(x, j)
                          /\ \A j \in KeysWith(d, {"Remove"}) : \A n \in Live :
                                node[n].key = j => n \in txn[t].readSet
      BY <1>5, <1>6, <1>10, <1>27, <2>a DEF ReadsOK
    <2>2. AllOld(t) BY <1>27, <2>1
    <2>3. /\ \A j \in CalledKeys(c) : \E x \in txn[t].readSet : Precedes(x, j)
          /\ \A j \in KeysWith(c, {"Remove"}) : \A n \in Live : node[n].key = j => n \in txn[t].readSet
      BY <1>13, <1>21, <2>2 DEF ReadsOK
    <2> QED BY <1>22, <1>28, <2>2, <2>3
  <1>30. ResultsOK(t)'
    <2>1. SUFFICES ASSUME AllOld(t)' PROVE Replays(d, DecidedMap, ViewMap(t)')
      BY <1>19, <1>21, <1>27 DEF ResultsOK, Replays, Steps
    <2>2. AllOld(t) /\ Consistent(t)' BY <1>27, <2>1 DEF AllOld
    <2>3. PICK m, m2 : m = ViewMap(t) /\ m2 = ViewMap(t)' OBVIOUS
    <2>4. Replays(c, DecidedMap, m) BY <1>12, <1>13, <1>21, <2>2, <2>3 DEF ResultsOK
    <2>5. /\ m \in Map /\ m2 \in Map /\ \A j \in Key : j # k => m2[j] = m[j]
          /\ m2[k] = op.value
      BY <1>26, <2>2, <2>3
    <2>6. PICK m3 : m3 = Effect(m, op) OBVIOUS
    <2>7. /\ m3 \in Map /\ m3[k] = op.value /\ ResultOf(m, op) = Null
          /\ \A j \in Key \ {k} : m3[j] = m[j]
      BY <1>1, <1>7, <1>19, <1>20, <2>5, <2>6, EffectMap
    <2>8. \A j \in Key : m3[j] = m2[j] BY <2>5, <2>7
    <2>9. m3 = m2 BY <2>5, <2>7, <2>8 DEF Map
    <2>10. ResultOf(m, d[Len(d)].op) = d[Len(d)].result BY <1>3, <1>22, <2>7
    <2>11. Replays(d, DecidedMap, Effect(m, d[Len(d)].op)) BY <1>22, <2>4, <2>10, ReplayMore
    <2> QED BY <1>22, <2>3, <2>6, <2>9, <2>11
  <1>31. GotFixed(t)' BY <1>5, <1>6, <1>7, <1>11, <1>13, <1>20, <1>24 DEF GotFixed
  <1>32. RunningOK(t)' BY <1>19, <1>27 DEF RunningOK
  <1>33. \A m \in alloc : SameValue(m) /\ node'[m] = node[m] BY <1>5, <1>10, <1>14
  <1>34. pc'[t] \in {"next", "removeSuccessor"} BY <1>1, <1>9
  <1>35. s \in Refs(t) BY <1>1 DEF Refs
  <1> QED BY <1>5, <1>6, <1>10, <1>29, <1>30, <1>31, <1>32, <1>33, <1>34, <1>35, ActReads

\* A node that nobody else refers to appears.
LEMMA ConstructReads ==
  ASSUME IInv, IInv', ListInv, NEW t \in Thread, NEW n \in Node \ alloc, NEW c,
         alloc' = alloc \cup {n}, node' = [node EXCEPT ![n] = c],
         lock' = [lock EXCEPT ![n] = NewWord], UNCHANGED <<gvc, index, commitVars>>,
         pc[t] \in Running, pc'[t] = "next", Alone(t), txn'[t].fresh = txn[t].fresh \cup {n},
         txn'[t].readVersion = txn[t].readVersion
  PROVE  /\ Silent(t) /\ Live' = Live /\ n \notin Live \cup txn[t].fresh
         /\ node'[n] = c /\ DecidedValue(n)' = c.value
         /\ \A m \in alloc : Same(m) /\ SameValue(m) /\ node'[m] = node[m]
         /\ \A m \in alloc : Old(t, m)' <=> Old(t, m)
  <1>1. /\ Live' = Live /\ \A m \in alloc : Same(m) /\ node'[m] = node[m]
        /\ n \notin Live \cup txn[t].fresh /\ node'[n] = c /\ DecidedNext(n)' = c.next
        /\ ThreadShape(t)' => ListInv'
    BY ConstructShape
  <1>2. pc[t] \notin Committing /\ pc'[t] \notin Committing
    BY DEF Running, Operating, Placed, Validating, Committing
  <1>3. \A m \in Node : \A u \in Thread :
          (Pending(u, m)' <=> Pending(u, m)) /\ (Pending(u, m) => txn'[u] = txn[u])
    BY <1>2 DEF Alone, Pending, commitVars
  <1>4. alloc \subseteq Node BY LiveNodes
  <1>5. \A m \in alloc : SameValue(m)
    <2>1. SUFFICES ASSUME NEW m \in alloc PROVE SameValue(m) OBVIOUS
    <2>2. m \in Node /\ node'[m].value = node[m].value BY <1>1, <1>4
    <2> QED BY <1>3, <2>2, SameDecidedValue
  <1>6. \A u \in Thread : n \notin held[u]
    BY NodeAssumption DEF IInv, References, Refs, Types, CommitOK
  <1>7. ~Decided(n) /\ ~Decided(n)'
    BY <1>3, <1>6 DEF Decided, Pending
  <1>8. DecidedValue(n)' = c.value BY <1>1, <1>7 DEF DecidedValue
  <1>9. \A m \in alloc : Old(t, m)' <=> Old(t, m)
    <2>1. SUFFICES ASSUME NEW m \in alloc PROVE Old(t, m)' <=> Old(t, m) OBVIOUS
    <2>2. m # n OBVIOUS
    <2> QED BY <1>1, <2>2 DEF Old, Same
  <1>10. Silent(t)
    <2>1. Hidden(t) = txn[t].fresh /\ Hidden(t)' = txn[t].fresh \cup {n} BY <1>2 DEF Hidden, Running, Operating, Placed, Validating
    <2>2. alloc' \ Hidden(t)' = alloc \ Hidden(t) BY <2>1
    <2>3. \A m \in Node : ~Pending(t, m)' BY <1>2 DEF Pending
    <2> QED BY <1>1, <2>2, <2>3 DEF Silent, Alone, commitVars
  <1> QED BY <1>1, <1>5, <1>8, <1>9, <1>10

\* Remove marks the node deleted and returns its value.
LEMMA RemoveSuccessorReads ==
  ASSUME IInv, IInv', ListInv, KeysPrecedeDefault, ReadInv, NEW t \in Thread,
         RemoveSuccessor(t), UNCHANGED jobs
  PROVE  ReadInv' /\ Steady(t)
  <1>1. PICK op, k, s, n, b : /\ op = frame[t].op /\ k = op.key
                              /\ s = frame[t].succ /\ n = FreshNode /\ b = NewNode
    OBVIOUS
  <1>2. PICK r, w : r = GetUpdatedValue(t, s) /\ w = Put(t, s, n, TRUE, r)
    OBVIOUS
  <1>3. PICK y, e : /\ y = [txn[t] EXCEPT !.writeSet = w, !.readSet = txn[t].readSet \cup {s},
                                          !.indexRemove = txn[t].indexRemove \cup {s},
                                          !.fresh = txn[t].fresh \cup {n}]
                    /\ e = [op |-> op, result |-> r]
    OBVIOUS
  <1>4. /\ pc[t] = "removeSuccessor" /\ alloc # Node
        /\ alloc' = alloc \cup {n} /\ node' = [node EXCEPT ![n] = b]
        /\ lock' = [lock EXCEPT ![n] = NewWord] /\ UNCHANGED <<gvc, index, commitVars>>
        /\ txn' = [txn EXCEPT ![t] = y] /\ Goto(t, "next")
        /\ frame' = [frame EXCEPT ![t] = [EmptyFrame EXCEPT !.results = Append(frame[t].results, r)]]
    BY <1>1, <1>2, <1>3 DEF RemoveSuccessor, Construct, Return
  <1>5. n \in Node \ alloc BY <1>1, <1>4, FreshNodeIsFree DEF IInv
  <1>6. Alone(t) /\ pc'[t] = "next" /\ frame'[t].results = Append(frame[t].results, r)
    BY <1>4 DEF Goto, Alone, IInv, Types, TxnLabel, EmptyFrame
  <1>7. /\ txn'[t].writeSet = w /\ txn'[t].fresh = txn[t].fresh \cup {n}
        /\ txn'[t].readVersion = txn[t].readVersion /\ txn'[t].readSet = txn[t].readSet \cup {s}
    BY <1>3, <1>4 DEF IInv, Types, ThreadOK, TxnTyped, Txn
  <1>8. pc[t] \in Running /\ pc[t] \in Operating /\ pc[t] \notin Validating
    BY <1>4 DEF Running, Operating, Placed, Validating
  <1>9. /\ Silent(t) /\ Live' = Live /\ n \notin Live \cup txn[t].fresh
        /\ node'[n] = b /\ DecidedValue(n)' = b.value
        /\ \A m \in alloc : Same(m) /\ SameValue(m) /\ node'[m] = node[m]
        /\ \A m \in alloc : Old(t, m)' <=> Old(t, m)
    <2>1. /\ alloc' = alloc \cup {n} /\ node' = [node EXCEPT ![n] = b]
          /\ lock' = [lock EXCEPT ![n] = NewWord] /\ UNCHANGED <<gvc, index, commitVars>>
          /\ txn'[t].fresh = txn[t].fresh \cup {n} /\ txn'[t].readVersion = txn[t].readVersion
      BY <1>4, <1>7
    <2>2. pc[t] \in Running /\ pc'[t] = "next" /\ Alone(t) BY <1>6, <1>8
    <2>3. IInv /\ IInv' /\ ListInv /\ t \in Thread OBVIOUS
    <2> QED BY ONLY <1>5, <2>1, <2>2, <2>3, ConstructReads
  <1>10. /\ RoutineOK(t) /\ PlaceClear(t) /\ EffectOK(t) /\ LocksOK(t) /\ ReadSeen(t) /\ GotFixed(t)
         /\ ReadsOK(t) /\ ResultsOK(t) /\ ThreadShape(t)
    BY <1>8 DEF ReadInv, ThreadReads, RunningOK, ListInv
  <1>11. /\ s \in Node /\ s \in alloc /\ node[s].key = k /\ k \in Key /\ op \in Operation
         /\ op.kind = "Remove" /\ DOMAIN txn[t].writeSet \subseteq txn[t].readSet
    <2>1. s \in Node /\ op \in Operation
      BY <1>1, <1>4 DEF IInv, Types, ThreadOK, FrameFits, AtFound, Operating, Placed
    <2>2. s \in alloc BY <1>1, <2>1, NodeAssumption DEF IInv, References, Refs
    <2>3. node[s].key = k BY <1>1, <1>4, <1>10 DEF ThreadShape, PlaceFound, AtFound
    <2>4. op.kind = "Remove" BY <1>1, <1>4, <1>10 DEF RoutineOK
    <2>5. DOMAIN txn[t].writeSet \subseteq txn[t].readSet BY <1>8, <1>10 DEF ThreadShape, Checked
    <2> QED BY <1>1, <2>1, <2>2, <2>3, <2>4, <2>5 DEF Operation
  <1>12. /\ DOMAIN w = DOMAIN txn[t].writeSet \cup {s}
         /\ w[s].value = r /\ w[s].deleted = TRUE
         /\ \A m \in DOMAIN txn[t].writeSet : m # s => w[m] = txn[t].writeSet[m]
    BY <1>2 DEF Put
  <1>13. /\ Live \subseteq alloc /\ alloc \subseteq Node /\ txn[t].fresh \subseteq alloc
         /\ DOMAIN txn[t].writeSet \subseteq alloc /\ Null \notin Node
         /\ \A m \in Node : KeyOf[m] = node[m].key
    BY LiveNodes, ViewNodes, NodeAssumption
  <1>14. Gone(t) = {s} /\ Gone(t)' = {} /\ Removing(t) BY <1>1, <1>4, <1>6 DEF Gone, Removing
  <1>15. Touched(t)' = Touched(t) /\ Touched(t) = DOMAIN txn[t].writeSet \cup {s}
    BY <1>7, <1>12, <1>14 DEF Touched
  <1>16. Own(t)' = Own(t) BY <1>1, <1>7, <1>9, <1>13 DEF Own, NewNode
  <1>17. Removed(t)' = Removed(t) /\ s \in Removed(t) BY <1>7, <1>12, <1>14 DEF Removed
  <1>18. View(t)' = View(t) /\ View(t) \subseteq alloc /\ s \notin View(t)
    BY <1>9, <1>13, <1>16, <1>17 DEF View, Own
  <1>19. /\ RoutineOK(t)' /\ PlaceClear(t)' /\ ~Removing(t)' /\ Appended(Calls(t), Calls(t)', e)
    <2>1. op = frame[t].op /\ op.kind # "Throw" BY <1>1, <1>11
    <2> QED BY <1>3, <1>6, <1>8, <2>1, ReturnRoutine
  <1>20. r \in Value /\ r # Null
    <2>1. r \in Value BY <1>2, <1>11 DEF GetUpdatedValue, InWriteSet, IInv, Types, ThreadOK, TxnTyped, Txn, WriteSetElement, MemoryOK
    <2> QED BY <2>1, ValueAssumption
  <1>21. PICK c, d : c = Calls(t) /\ d = Calls(t)' OBVIOUS
  <1>22. /\ Calling(c) /\ Calling(d) /\ Len(d) = Len(c) + 1 /\ \A i \in 1 .. Len(c) : d[i] = c[i]
         /\ d[Len(d)].op = op /\ d[Len(d)].result = r
         /\ CalledKeys(d) = CalledKeys(c) \cup {k} /\ ChangedKeys(d) = ChangedKeys(c) \cup {k}
         /\ KeysWith(d, {"Remove"}) = KeysWith(c, {"Remove"}) \cup {k}
    <2>1. e.op = op /\ e.result = r BY ONLY <1>3
    <2>2. Changes(e) /\ e.op.kind \in {"Remove"} BY <1>11, <1>20, <2>1 DEF Changes
    <2>3. Appended(c, d, e) BY <1>19, <1>21
    <2>4. /\ Calling(c) /\ Calling(d) /\ Len(d) = Len(c) + 1 /\ \A i \in 1 .. Len(c) : d[i] = c[i]
          /\ d[Len(d)] = e
      BY ONLY <2>3 DEF Appended
    <2>5. CalledKeys(d) = CalledKeys(c) \cup {e.op.key} BY ONLY <2>3 DEF Appended
    <2>6. ChangedKeys(d) = ChangedKeys(c) \cup {e.op.key} BY ONLY <2>2, <2>3 DEF Appended
    <2>7. KeysWith(d, {"Remove"}) = KeysWith(c, {"Remove"}) \cup
            (IF e.op.kind \in {"Remove"} THEN {e.op.key} ELSE {})
      BY ONLY <2>3, Zenon DEF Appended
    <2>8. KeysWith(d, {"Remove"}) = KeysWith(c, {"Remove"}) \cup {e.op.key} BY ONLY <2>2, <2>7
    <2>9. e.op.key = k BY <1>1, <2>1
    <2> QED BY ONLY <2>1, <2>4, <2>5, <2>6, <2>8, <2>9
  <1>23. Effective(t)' = Effective(t) /\ k \in Effective(t)
    <2>1. Effective(t)' = ChangedKeys(d) BY <1>19, <1>21 DEF Effective, ChangedKeys, ChangedBy
    <2> QED BY <1>1, <1>14, <1>21, <1>22, <2>1 DEF Effective
  <1>24. Got' = Got BY DEF Got
  <1>25. Consistent(t)' => Consistent(t) /\ ViewMap(t)' = ViewMap(t) /\ ViewMap(t) \in Map
    <2>1. SUFFICES ASSUME Consistent(t)'
                   PROVE  Consistent(t) /\ ViewMap(t)' = ViewMap(t) /\ ViewMap(t) \in Map
      OBVIOUS
    <2>2. Consistent(t) BY <1>9, <1>11, <1>13, <1>15, <2>1 DEF Consistent
    <2>3. Distinct(View(t), KeyOf) BY <1>8, <2>2, ViewList DEF ListOf
    <2>4. \A m \in View(t) : ViewValues(t)'[m] = ViewValues(t)[m] /\ KeyOf'[m] = KeyOf[m]
      <3>1. SUFFICES ASSUME NEW m \in View(t)
                     PROVE  ViewValues(t)'[m] = ViewValues(t)[m] /\ KeyOf'[m] = KeyOf[m]
        OBVIOUS
      <3>2. m \in Node /\ DecidedValue(m)' = DecidedValue(m) /\ node'[m] = node[m] /\ m # s
        BY <1>9, <1>13, <1>18 DEF SameValue
      <3>3. ViewValues(t)'[m] = IF m \in DOMAIN w THEN w[m].value ELSE DecidedValue(m)'
        BY <1>7, <3>2 DEF ViewValues, InWriteSet
      <3>4. ViewValues(t)[m] =
              IF m \in DOMAIN txn[t].writeSet THEN txn[t].writeSet[m].value ELSE DecidedValue(m)
        BY <3>2 DEF ViewValues, InWriteSet
      <3>5. KeyOf'[m] = KeyOf[m] BY <3>2 DEF KeyOf
      <3> QED BY <1>12, <3>2, <3>3, <3>4, <3>5
    <2>5. PICK S, K2, v2 : S = View(t) /\ K2 = KeyOf' /\ v2 = ViewValues(t)' OBVIOUS
    <2>6. ViewMap(t)' = MapOf(S, K2, v2) /\ ViewMap(t) = MapOf(S, KeyOf, ViewValues(t))
      BY <1>18, <2>5 DEF ViewMap, MapOf
    <2>7. ViewMap(t)' = ViewMap(t) BY <2>3, <2>4, <2>5, <2>6, MapSame
    <2> QED BY <2>2, <2>7, MapsTyped
  <1>26. /\ DecidedMap' = DecidedMap /\ \A x, j : Precedes(x, j)' <=> Precedes(x, j)
         /\ Consistent(t)' => Consistent(t)
         /\ AllOld(t)' => AllOld(t)
         /\ EffectOK(t)' /\ LocksOK(t)'
    <2>1. /\ Touched(t) \subseteq Touched(t)' /\ txn[t].readSet \subseteq txn'[t].readSet
          /\ DOMAIN txn[t].writeSet \subseteq DOMAIN txn'[t].writeSet
          /\ Effective(t) \subseteq Effective(t)' /\ Effective(t)' \subseteq Effective(t) \cup {k}
      BY <1>7, <1>12, <1>15, <1>23
    <2>2. \A m \in Own(t)' \cup Removed(t)' :
            m \in Own(t) \cup Removed(t) \/ node'[m].key \in Effective(t)'
      BY <1>16, <1>17
    <2>3. \A m \in DOMAIN txn'[t].writeSet :
                  \/ node[m].key \in Effective(t)'
                  \/ m \in DOMAIN txn[t].writeSet
                        /\ txn'[t].writeSet[m].value = txn[t].writeSet[m].value
      BY <1>7, <1>11, <1>12, <1>23
    <2>4. Consistent(t) => \A m \in Live : node[m].key = k => m \in Touched(t)'
      BY <1>10, <1>15, <1>23 DEF LocksOK
    <2>5. Consistent(t) /\ Consistent(t)'
             /\ (DecidedMap[k] = Null \/ ViewMap(t)'[k] = Null \/ k \in Got) =>
            \E x \in DOMAIN txn'[t].writeSet : Precedes(x, k)
      <3>1. SUFFICES ASSUME Consistent(t), DecidedMap[k] = Null \/ ViewMap(t)[k] = Null \/ k \in Got
                     PROVE  \E x \in DOMAIN txn[t].writeSet : Precedes(x, k)
        BY <1>25, <2>1
      <3> QED BY <1>10, <1>23, <3>1 DEF LocksOK
    <2> QED BY <1>8, <1>9, <1>10, <1>11, <1>24, <1>25, <2>1, <2>2, <2>3, <2>4, <2>5, ActStep
  <1>27. AllOld(t)' => AllOld(t) /\ Consistent(t)' /\ ViewMap(t)[k] = Null
                       /\ Replays(c, DecidedMap, [ViewMap(t) EXCEPT ![k] = r])
    <2>1. SUFFICES ASSUME AllOld(t)' PROVE AllOld(t) /\ Consistent(t)' /\ ViewMap(t)[k] = Null
                       /\ Replays(c, DecidedMap, [ViewMap(t) EXCEPT ![k] = r])
      OBVIOUS
    <2>2. AllOld(t) /\ Consistent(t)' BY <1>26, <2>1 DEF AllOld
    <2> QED BY <1>1, <1>2, <1>10, <1>14, <1>21, <2>2 DEF ResultsOK
  <1>28. ReadsOK(t)'
    <2>a. CalledKeys(Calls(t))' = CalledKeys(d) /\ KeysWith(Calls(t), {"Remove"})' = KeysWith(d, {"Remove"})
      BY <1>21 DEF CalledKeys, KeysOf, KeysWith
    <2>1. SUFFICES ASSUME AllOld(t)'
                   PROVE  /\ \A j \in CalledKeys(d) : \E x \in txn'[t].readSet : Precedes(x, j)
                          /\ \A j \in KeysWith(d, {"Remove"}) : \A m \in Live :
                                node[m].key = j => m \in txn'[t].readSet
      <3>1. \A m \in Live : node'[m] = node[m] BY <1>9, <1>13
      <3> QED BY <1>9, <1>26, <2>a, <3>1 DEF ReadsOK
    <2>2. AllOld(t) /\ Consistent(t) /\ ViewMap(t)[k] = Null BY <1>26, <1>27, <2>1
    <2>3. /\ \A j \in CalledKeys(c) : \E x \in txn[t].readSet : Precedes(x, j)
          /\ \A j \in KeysWith(c, {"Remove"}) : \A m \in Live : node[m].key = j => m \in txn[t].readSet
      BY <1>10, <1>21, <2>2 DEF ReadsOK
    <2>4. /\ \A m \in Live : node[m].key = k => m \in Touched(t)
          /\ \E x \in DOMAIN txn[t].writeSet : Precedes(x, k)
      BY <1>10, <1>23, <2>2 DEF LocksOK
    <2> QED BY <1>7, <1>11, <1>15, <1>22, <2>3, <2>4
  <1>29. ResultsOK(t)'
    <2>1. SUFFICES ASSUME AllOld(t)' PROVE Replays(d, DecidedMap, ViewMap(t)')
      BY <1>19, <1>21, <1>26 DEF ResultsOK, Replays, Steps
    <2>2. PICK m, f : m = [f EXCEPT ![k] = r] /\ f = ViewMap(t) OBVIOUS
    <2>3. /\ Replays(c, DecidedMap, m) /\ f \in Map /\ f[k] = Null /\ f = ViewMap(t)'
      BY <1>25, <1>27, <2>1, <2>2
    <2>4. m \in Map /\ m[k] = r /\ \A j \in Key \ {k} : m[j] = f[j]
      <3>1. f \in [Key -> Value \cup {Null}] BY <2>3 DEF Map
      <3>2. m \in [Key -> Value \cup {Null}] BY <1>11, <1>20, <2>2, <3>1
      <3>3. m[k] = r /\ \A j \in Key \ {k} : m[j] = f[j] BY <1>11, <2>2, <3>1
      <3> QED BY <3>2, <3>3 DEF Map
    <2>5. PICK m3 : m3 = Effect(m, op) OBVIOUS
    <2>6. m3 \in Map /\ m3[k] = Null /\ ResultOf(m, op) = r /\ \A j \in Key \ {k} : m3[j] = m[j]
      <3>1. op.kind # "Throw" BY <1>11
      <3> QED BY <1>1, <1>11, <2>4, <2>5, <3>1, EffectMap
    <2>7. \A j \in Key : m3[j] = f[j] BY <2>3, <2>4, <2>6
    <2>8. m3 = f BY <2>3, <2>6, <2>7 DEF Map
    <2>9. ResultOf(m, d[Len(d)].op) = d[Len(d)].result BY <1>22, <2>6
    <2>10. Replays(d, DecidedMap, Effect(m, d[Len(d)].op)) BY <1>22, <2>3, <2>9, ReplayMore
    <2> QED BY <1>22, <2>3, <2>5, <2>8, <2>10
  <1>30. GotFixed(t)'
    <2>1. SUFFICES ASSUME NEW m \in DOMAIN w, node[m].key \in Got PROVE w[m].value = node[m].value
      <3>1. \A m \in DOMAIN w : node'[m] = node[m] BY <1>9, <1>11, <1>12, <1>13
      <3> QED BY <1>7, <1>24, <3>1 DEF GotFixed
    <2> QED BY <1>2, <1>10, <1>12, <2>1 DEF GotFixed, GetUpdatedValue, InWriteSet
  <1>31. RunningOK(t)' BY <1>19, <1>26 DEF RunningOK
  <1>32. s \in Refs(t) BY <1>1 DEF Refs
  <1>33. pc'[t] \in {"next", "removeSuccessor"} /\ alloc \subseteq alloc' BY <1>4, <1>6
  <1> QED BY <1>7, <1>9, <1>28, <1>29, <1>30, <1>31, <1>32, <1>33, ActReads

\* Insert links a new node.
LEMMA InsertNewReads ==
  ASSUME IInv, IInv', ListInv, KeysPrecedeDefault, ReadInv, NEW t \in Thread,
         InsertNew(t), UNCHANGED jobs
  PROVE  ReadInv' /\ Steady(t)
  <1>1. PICK op, k, p, s, n, b :
           /\ op = frame[t].op /\ k = op.key /\ p = frame[t].pred /\ s = frame[t].succ
           /\ n = FreshNode /\ b = [key |-> op.key, value |-> op.value, next |-> s]
    OBVIOUS
  <1>2. PICK value, w, r : value = GetUpdatedValue(t, p) /\ w = Put(t, p, n, FALSE, value) /\ r = Null
    OBVIOUS
  <1>3. PICK y, e : /\ y = [txn[t] EXCEPT !.writeSet = w, !.indexAdd = Append(txn[t].indexAdd, n),
                                          !.fresh = txn[t].fresh \cup {n}]
                    /\ e = [op |-> op, result |-> r]
    OBVIOUS
  <1>4. /\ pc[t] = "apply" /\ alloc # Node /\ ~Found(t) /\ op.kind = "Insert"
        /\ alloc' = alloc \cup {n} /\ node' = [node EXCEPT ![n] = b]
        /\ lock' = [lock EXCEPT ![n] = NewWord] /\ UNCHANGED <<gvc, index, commitVars>>
        /\ txn' = [txn EXCEPT ![t] = y] /\ Goto(t, "next")
        /\ frame' = [frame EXCEPT ![t] = [EmptyFrame EXCEPT !.results = Append(frame[t].results, r)]]
    BY <1>1, <1>2, <1>3 DEF InsertNew, Construct, Return
  <1>5. n \in Node \ alloc BY <1>1, <1>4, FreshNodeIsFree DEF IInv
  <1>6. Alone(t) /\ pc'[t] = "next" /\ frame'[t].results = Append(frame[t].results, r)
    BY <1>4 DEF Goto, Alone, IInv, Types, TxnLabel, EmptyFrame
  <1>7. /\ txn'[t].writeSet = w /\ txn'[t].fresh = txn[t].fresh \cup {n}
        /\ txn'[t].readVersion = txn[t].readVersion /\ txn'[t].readSet = txn[t].readSet
    BY <1>3, <1>4 DEF IInv, Types, ThreadOK, TxnTyped, Txn
  <1>8. pc[t] \in Running /\ pc[t] \in Operating /\ pc[t] \notin Validating /\ ~Removing(t)
    BY <1>4 DEF Running, Operating, Placed, Validating, Removing
  <1>9. /\ Silent(t) /\ Live' = Live /\ n \notin Live \cup txn[t].fresh
        /\ node'[n] = b /\ DecidedValue(n)' = b.value
        /\ \A m \in alloc : Same(m) /\ SameValue(m) /\ node'[m] = node[m]
        /\ \A m \in alloc : Old(t, m)' <=> Old(t, m)
    <2>1. /\ alloc' = alloc \cup {n} /\ node' = [node EXCEPT ![n] = b]
          /\ lock' = [lock EXCEPT ![n] = NewWord] /\ UNCHANGED <<gvc, index, commitVars>>
          /\ txn'[t].fresh = txn[t].fresh \cup {n} /\ txn'[t].readVersion = txn[t].readVersion
      BY <1>4, <1>7
    <2>2. pc[t] \in Running /\ pc'[t] = "next" /\ Alone(t) BY <1>6, <1>8
    <2>3. IInv /\ IInv' /\ ListInv /\ t \in Thread OBVIOUS
    <2> QED BY ONLY <1>5, <2>1, <2>2, <2>3, ConstructReads
  <1>10. /\ RoutineOK(t) /\ PlaceClear(t) /\ EffectOK(t) /\ LocksOK(t) /\ ReadSeen(t) /\ GotFixed(t)
         /\ ReadsOK(t) /\ ResultsOK(t)
    BY <1>8 DEF ReadInv, ThreadReads, RunningOK
  <1>11. /\ ThreadShape(t) /\ p \in Node /\ s \in Node \cup {Null} /\ k \in Key /\ op \in Operation
         /\ p \in txn[t].readSet /\ DOMAIN txn[t].writeSet \subseteq txn[t].readSet
         /\ (s = Null \/ node[s].key # k) /\ op.value \in Value
    BY <1>1, <1>4, FoundPlace DEF Found, Operation
  <1>12. /\ DOMAIN w = DOMAIN txn[t].writeSet \cup {p}
         /\ w[p].value = value /\ w[p].deleted = FALSE
         /\ \A m \in DOMAIN txn[t].writeSet : m # p => w[m] = txn[t].writeSet[m]
    BY <1>2 DEF Put
  <1>13. /\ Live \subseteq alloc /\ alloc \subseteq Node /\ txn[t].fresh \subseteq alloc
         /\ DOMAIN txn[t].writeSet \subseteq alloc /\ Null \notin Node /\ p \in alloc
         /\ \A m \in Node : KeyOf[m] = node[m].key
    <2>1. p \in alloc BY <1>1, <1>11, NodeAssumption DEF IInv, References, Refs
    <2> QED BY <2>1, LiveNodes, ViewNodes, NodeAssumption
  <1>14. Gone(t) = {} /\ Gone(t)' = {} BY <1>4, <1>6 DEF Gone
  <1>15. Touched(t)' = Touched(t) \cup {p} /\ Touched(t) = DOMAIN txn[t].writeSet
    BY <1>7, <1>12, <1>14 DEF Touched
  <1>16. Own(t)' = Own(t) \cup {n} /\ b.key = k /\ b.value = op.value
    <2>1. k # DefaultKey BY <1>11, KeyAssumption DEF KeysPrecedeDefault
    <2>2. b.key = k /\ b.value = op.value BY ONLY <1>1
    <2> QED BY <1>7, <1>9, <1>13, <2>1, <2>2 DEF Own
  <1>17. Removed(t)' \subseteq Removed(t) /\ (p \notin Removed(t) => Removed(t)' = Removed(t))
    BY <1>7, <1>12, <1>14 DEF Removed
  <1>18. View(t) \subseteq alloc /\ n \notin View(t) /\ n \notin Removed(t)
    BY <1>5, <1>13, <1>14 DEF View, Own, Removed
  <1>19. /\ RoutineOK(t)' /\ PlaceClear(t)' /\ ~Removing(t)' /\ Appended(Calls(t), Calls(t)', e)
    <2>1. op = frame[t].op /\ op.kind # "Throw" BY <1>1, <1>4
    <2> QED BY <1>3, <1>6, <1>8, <2>1, ReturnRoutine
  <1>20. PICK c, d : c = Calls(t) /\ d = Calls(t)' OBVIOUS
  <1>21. /\ Calling(c) /\ Calling(d) /\ Len(d) = Len(c) + 1 /\ \A i \in 1 .. Len(c) : d[i] = c[i]
         /\ d[Len(d)].op = op /\ d[Len(d)].result = r
         /\ CalledKeys(d) = CalledKeys(c) \cup {k} /\ ChangedKeys(d) = ChangedKeys(c) \cup {k}
         /\ KeysWith(d, {"Remove"}) = KeysWith(c, {"Remove"})
    <2>1. e.op = op /\ e.result = r BY ONLY <1>3
    <2>2. Changes(e) /\ e.op.kind \notin {"Remove"} BY <1>4, <2>1 DEF Changes
    <2>3. Appended(c, d, e) BY <1>19, <1>20
    <2>4. /\ Calling(c) /\ Calling(d) /\ Len(d) = Len(c) + 1 /\ \A i \in 1 .. Len(c) : d[i] = c[i]
          /\ d[Len(d)] = e
      BY ONLY <2>3 DEF Appended
    <2>5. CalledKeys(d) = CalledKeys(c) \cup {e.op.key} BY ONLY <2>3 DEF Appended
    <2>6. ChangedKeys(d) = ChangedKeys(c) \cup {e.op.key} BY ONLY <2>2, <2>3 DEF Appended
    <2>7. KeysWith(d, {"Remove"}) = KeysWith(c, {"Remove"}) \cup
            (IF e.op.kind \in {"Remove"} THEN {e.op.key} ELSE {})
      BY ONLY <2>3, Zenon DEF Appended
    <2>8. KeysWith(d, {"Remove"}) = KeysWith(c, {"Remove"}) BY ONLY <2>2, <2>7
    <2>9. e.op.key = k BY <1>1, <2>1
    <2> QED BY ONLY <2>1, <2>4, <2>5, <2>6, <2>8, <2>9
  <1>22. Effective(t)' = Effective(t) \cup {k}
    <2>1. Effective(t)' = ChangedKeys(d) BY <1>19, <1>20 DEF Effective, ChangedKeys, ChangedBy
    <2> QED BY <1>8, <1>20, <1>21, <2>1 DEF Effective
  <1>23. Got' = Got BY DEF Got
  <1>24. ASSUME Consistent(t)'
         PROVE  /\ Consistent(t) /\ Old(t, p) /\ ViewValues(t)[p] = value /\ p \in View(t)
                /\ \A m \in View(t) : node[m].key # k
                /\ \A m \in Live : node[m].key = k => m \in DOMAIN txn[t].writeSet
                /\ \E q : Precedes(q, k) /\ (q = p \/ q \in DOMAIN txn[t].writeSet)
    <2>1. Consistent(t) /\ Old(t, p) BY <1>9, <1>13, <1>15, <1>24 DEF Consistent
    <2>2. Clear(t, p) BY <1>1, <1>4, <1>10 DEF PlaceClear, Between
    <2>3. ViewValues(t)[p] = value BY <1>2, <1>8, <1>11, <2>1, <2>2, ReadValue
    <2>4. pc[t] \in {"apply", "removePredecessor", "insertDeleted"} BY <1>4
    <2>5. /\ p \in View(t) /\ \A m \in View(t) : node[m].key = k => m = s
          /\ \E q : Precedes(q, k) /\ (q = p \/ q \in DOMAIN txn[t].writeSet)
          /\ \A m \in Live : node[m].key = k => m = s \/ m \in DOMAIN txn[t].writeSet
      BY <1>1, <1>11, <2>1, <2>4, PlaceBefore
    <2> QED BY <1>11, <1>13, <1>18, <2>1, <2>3, <2>5
  <1>25. Consistent(t)' => /\ ViewMap(t) \in Map /\ ViewMap(t)' \in Map
                           /\ \A j \in Key : j # k => ViewMap(t)'[j] = ViewMap(t)[j]
                           /\ ViewMap(t)'[k] = op.value
    <2>1. SUFFICES ASSUME Consistent(t)'
                   PROVE  /\ ViewMap(t) \in Map /\ ViewMap(t)' \in Map
                          /\ \A j \in Key : j # k => ViewMap(t)'[j] = ViewMap(t)[j]
                          /\ ViewMap(t)'[k] = op.value
      OBVIOUS
    <2>2. /\ Consistent(t) /\ ViewValues(t)[p] = value /\ p \in View(t)
          /\ \A m \in View(t) : node[m].key # k
      BY <1>24, <2>1
    <2>3. View(t)' = View(t) \cup {n}
      <3>1. p \notin Removed(t) BY <2>2 DEF View
      <3> QED BY <1>9, <1>16, <1>17, <1>18, <3>1 DEF View
    <2>4. Distinct(View(t), KeyOf) BY <1>8, <2>2, ViewList DEF ListOf
    <2>5. PICK S, K2, v2 : S = View(t)' /\ K2 = KeyOf' /\ v2 = ViewValues(t)' OBVIOUS
    <2>6. K2[n] = k /\ \A m \in View(t) : K2[m] = KeyOf[m]
      BY <1>5, <1>9, <1>13, <1>16, <1>18, <2>5 DEF KeyOf
    <2>7. \A m \in View(t) : KeyOf[m] # k BY <1>13, <1>18, <2>2
    <2>8. Distinct(S, K2) BY <2>3, <2>4, <2>5, <2>6, <2>7 DEF Distinct
    <2>9. ViewMap(t)' = MapOf(S, K2, v2) /\ ViewMap(t) = MapOf(View(t), KeyOf, ViewValues(t))
      BY <2>5 DEF ViewMap, MapOf
    <2>10. \A m \in View(t) : v2[m] = ViewValues(t)[m]
      <3>1. SUFFICES ASSUME NEW m \in View(t) PROVE ViewValues(t)'[m] = ViewValues(t)[m] BY <2>5
      <3>2. m \in Node /\ DecidedValue(m)' = DecidedValue(m) BY <1>9, <1>13, <1>18 DEF SameValue
      <3>3. ViewValues(t)'[m] = IF m \in DOMAIN w THEN w[m].value ELSE DecidedValue(m)'
        BY <1>7, <3>2 DEF ViewValues, InWriteSet
      <3>4. ViewValues(t)[m] =
              IF m \in DOMAIN txn[t].writeSet THEN txn[t].writeSet[m].value ELSE DecidedValue(m)
        BY <3>2 DEF ViewValues, InWriteSet
      <3> QED BY <1>12, <2>2, <3>2, <3>3, <3>4
    <2>11. v2[n] = op.value
      <3>1. n \notin DOMAIN w BY <1>5, <1>12, <1>13
      <3> QED BY <1>5, <1>7, <1>9, <1>16, <2>5, <3>1 DEF ViewValues, InWriteSet
    <2>12. ASSUME NEW j \in Key, j # k PROVE ViewMap(t)'[j] = ViewMap(t)[j]
      <3>1. \A m : (m \in S /\ K2[m] = j) <=> (m \in View(t) /\ KeyOf[m] = j)
        BY <2>3, <2>5, <2>6, <2>12
      <3>2. \A m \in S : K2[m] = j => v2[m] = ViewValues(t)[m] BY <2>3, <2>5, <2>6, <2>10, <2>12
      <3> QED BY <2>4, <2>8, <2>9, <2>12, <3>1, <3>2, MapAgrees
    <2>13. ViewMap(t)'[k] = op.value
      <3>1. n \in S /\ K2[n] \in Key BY <1>11, <2>3, <2>5, <2>6
      <3> QED BY <2>6, <2>8, <2>9, <2>11, <3>1, MapHas
    <2>14. ViewMap(t) \in Map BY MapsTyped
    <2>15. ViewMap(t)' \in Map
      <3>1. \A m \in S : v2[m] \in Value \cup {Null}
        BY <1>11, <1>13, <1>18, <2>3, <2>5, <2>10, <2>11, ViewValueTyped
      <3> QED BY <2>9, <3>1, MapTyped
    <2> QED BY <2>12, <2>13, <2>14, <2>15
  <1>26. /\ DecidedMap' = DecidedMap /\ \A x, j : Precedes(x, j)' <=> Precedes(x, j)
         /\ Consistent(t)' => Consistent(t)
         /\ AllOld(t)' => AllOld(t)
         /\ EffectOK(t)' /\ LocksOK(t)'
    <2>1. /\ Touched(t) \subseteq Touched(t)' /\ txn[t].readSet \subseteq txn'[t].readSet
          /\ DOMAIN txn[t].writeSet \subseteq DOMAIN txn'[t].writeSet
          /\ Effective(t) \subseteq Effective(t)' /\ Effective(t)' \subseteq Effective(t) \cup {k}
      BY <1>7, <1>12, <1>15, <1>22
    <2>2. \A m \in Own(t)' \cup Removed(t)' :
            m \in Own(t) \cup Removed(t) \/ node'[m].key \in Effective(t)'
      BY <1>9, <1>16, <1>17, <1>22
    <2>3. Consistent(t)' =>
            \A m \in DOMAIN txn'[t].writeSet :
                  \/ m \in DOMAIN txn[t].writeSet
                        /\ txn'[t].writeSet[m].value = txn[t].writeSet[m].value
                  \/ txn'[t].writeSet[m].value = DecidedValue(m)
      <3>1. SUFFICES ASSUME Consistent(t)', NEW m \in DOMAIN w
                     PROVE  \/ m \in DOMAIN txn[t].writeSet /\ w[m].value = txn[t].writeSet[m].value
                            \/ w[m].value = DecidedValue(m)
        BY <1>7
      <3>2. CASE m # p BY <1>12, <3>1, <3>2
      <3>3. CASE m = p /\ m \in DOMAIN txn[t].writeSet
        BY <1>2, <1>12, <3>3 DEF GetUpdatedValue, InWriteSet
      <3>4. CASE m = p /\ m \notin DOMAIN txn[t].writeSet
        BY <1>11, <1>12, <1>24, <3>1, <3>4, ViewValueTyped DEF InWriteSet
      <3> QED BY <3>2, <3>3, <3>4
    <2>4. Consistent(t)' => \A m \in Live : node[m].key = k => m \in Touched(t)'
      BY <1>15, <1>24
    <2>5. Consistent(t)' => \E x \in DOMAIN txn'[t].writeSet : Precedes(x, k)
      BY <1>7, <1>12, <1>24
    <2> QED BY <1>8, <1>9, <1>10, <1>11, <1>23, <1>25, <2>1, <2>2, <2>3, <2>4, <2>5, ActStep
  <1>27. ReadsOK(t)'
    <2>a. CalledKeys(Calls(t))' = CalledKeys(d) /\ KeysWith(Calls(t), {"Remove"})' = KeysWith(d, {"Remove"})
      BY <1>20 DEF CalledKeys, KeysOf, KeysWith
    <2>1. SUFFICES ASSUME AllOld(t)'
                   PROVE  /\ \A j \in CalledKeys(d) : \E x \in txn[t].readSet : Precedes(x, j)
                          /\ \A j \in KeysWith(d, {"Remove"}) : \A m \in Live :
                                node[m].key = j => m \in txn[t].readSet
      <3>1. \A m \in Live : node'[m] = node[m] BY <1>9, <1>13
      <3> QED BY <1>7, <1>9, <1>26, <2>a, <3>1 DEF ReadsOK
    <2>2. AllOld(t) /\ Consistent(t)' BY <1>26, <2>1 DEF AllOld
    <2>3. /\ \A j \in CalledKeys(c) : \E x \in txn[t].readSet : Precedes(x, j)
          /\ \A j \in KeysWith(c, {"Remove"}) : \A m \in Live : node[m].key = j => m \in txn[t].readSet
      BY <1>10, <1>20, <2>2 DEF ReadsOK
    <2>4. \E x \in txn[t].readSet : Precedes(x, k) BY <1>11, <1>24, <2>2
    <2> QED BY <1>21, <2>3, <2>4
  <1>28. ResultsOK(t)'
    <2>1. SUFFICES ASSUME AllOld(t)' PROVE Replays(d, DecidedMap, ViewMap(t)')
      BY <1>19, <1>20, <1>26 DEF ResultsOK, Replays, Steps
    <2>2. AllOld(t) /\ Consistent(t)' BY <1>26, <2>1 DEF AllOld
    <2>3. PICK m, m2 : m = ViewMap(t) /\ m2 = ViewMap(t)' OBVIOUS
    <2>4. Replays(c, DecidedMap, m) BY <1>8, <1>10, <1>20, <2>2, <2>3 DEF ResultsOK
    <2>5. /\ m \in Map /\ m2 \in Map /\ \A j \in Key : j # k => m2[j] = m[j]
          /\ m2[k] = op.value
      BY <1>25, <2>2, <2>3
    <2>6. PICK m3 : m3 = Effect(m, op) OBVIOUS
    <2>7. /\ m3 \in Map /\ m3[k] = op.value /\ ResultOf(m, op) = Null
          /\ \A j \in Key \ {k} : m3[j] = m[j]
      <3>1. op.kind # "Throw" BY <1>4
      <3> QED BY <1>1, <1>4, <1>11, <2>5, <2>6, <3>1, EffectMap
    <2>8. \A j \in Key : m3[j] = m2[j] BY <2>5, <2>7
    <2>9. m3 = m2 BY <2>5, <2>7, <2>8 DEF Map
    <2>10. ResultOf(m, d[Len(d)].op) = d[Len(d)].result BY <1>2, <1>21, <2>7
    <2>11. Replays(d, DecidedMap, Effect(m, d[Len(d)].op)) BY <1>21, <2>4, <2>10, ReplayMore
    <2> QED BY <1>21, <2>3, <2>6, <2>9, <2>11
  <1>29. GotFixed(t)'
    <2>1. SUFFICES ASSUME NEW m \in DOMAIN w, node[m].key \in Got PROVE w[m].value = node[m].value
      <3>1. \A m \in DOMAIN w : node'[m] = node[m] BY <1>9, <1>12, <1>13
      <3> QED BY <1>7, <1>23, <3>1 DEF GotFixed
    <2> QED BY <1>2, <1>10, <1>12, <2>1 DEF GotFixed, GetUpdatedValue, InWriteSet
  <1>30. RunningOK(t)' BY <1>19, <1>26 DEF RunningOK
  <1>31. pc'[t] \in {"next", "removeSuccessor"} /\ alloc \subseteq alloc' BY <1>4, <1>6
  <1> QED BY <1>7, <1>9, <1>27, <1>28, <1>29, <1>30, <1>31, ActReads

-----------------------------------------------------------------------------
(* The validation passes. *)

\* Only one node is before a key.
LEMMA BeforeUnique ==
  ASSUME IInv, ListInv, KeysPrecedeDefault, NEW k \in Key, NEW x, NEW y,
         Precedes(x, k), Precedes(y, k)
  PROVE  x = y
  <1>1. k \in Int BY KeyAssumption
  <1>2. Linked(Live, DecidedNexts, KeyOf) /\ Keyed(Live, KeyOf) BY LiveList DEF ListOf
  <1> QED BY <1>1, <1>2, OneBefore DEF Precedes

\* What a transaction has called Get for is in its routine.
LEMMA GotKeys ==
  ASSUME IInv, NEW t \in Thread, pc[t] \in Running, RoutineOK(t)
  PROVE  KeysWith(Calls(t), {"Get"}) \subseteq Got
  <1>1. PICK m, body, c : m = Len(frame[t].results) /\ body = Job(t).body /\ c = Calls(t) OBVIOUS
  <1>2. /\ m \in Nat /\ jobs[t] # <<>> /\ frame[t].results = [i \in 1 .. m |-> frame[t].results[i]]
        /\ jobs[t] \in Seq([call : {"Dispatch", "TryDispatch"}, body : Seq(Operation)])
    BY <1>1 DEF IInv, Types, ThreadOK, FrameFits, IsSeq, TxnJobs, Running, Operating, Placed, Validating
  <1>3. 1 \in DOMAIN jobs[t] /\ jobs[t][1].body = body /\ body \in Seq(Operation)
    <2>1. PICK J, j : J = [call : {"Dispatch", "TryDispatch"}, body : Seq(Operation)] /\ j = jobs[t]
      OBVIOUS
    <2>2. j \in Seq(J) /\ j # <<>> BY <1>2, <2>1
    <2>3. j[1] \in J BY <2>2, NonEmpty
    <2>4. 1 \in DOMAIN j
      <3>1. Len(j) # 0 BY <2>2, EmptySeq
      <3> QED BY <2>2, <3>1
    <2> QED BY <1>1, <2>1, <2>3, <2>4 DEF Job
  <1>4. m <= Len(body)
    <2>1. pc[t] \in {"next", "lock"} \cup Operating \cup Validating BY DEF Running
    <2> QED BY <1>1, <1>2, <1>3, <2>1 DEF RoutineOK
  <1>5. DOMAIN frame[t].results = 1 .. m BY <1>2
  <1>6. c = [i \in 1 .. m |-> [op |-> body[i], result |-> frame[t].results[i]]]
    BY <1>1, <1>5 DEF Calls, Results
  <1>7. Len(c) = m BY <1>2, <1>6
  <1>8. SUFFICES ASSUME NEW i \in 1 .. m, c[i].op.kind = "Get" PROVE c[i].op.key \in Got
    BY <1>1, <1>7 DEF KeysWith
  <1>9. c[i].op = body[i] BY <1>6
  <1>10. i \in DOMAIN body /\ body[i] \in Operation BY <1>2, <1>3, <1>4
  <1> QED BY <1>3, <1>8, <1>9, <1>10 DEF Got, Operation

\* The keys of some calls are among those of all.
LEMMA CallKeys ==
  ASSUME NEW c, Calling(c)
  PROVE  /\ \A kinds : KeysWith(c, kinds) \subseteq CalledKeys(c)
         /\ ChangedKeys(c) \subseteq CalledKeys(c) /\ CalledKeys(c) \subseteq Key
  BY DEF KeysWith, CalledKeys, KeysOf, ChangedKeys, ChangedBy, Calling, Operation

\* Calls do not notice what a transaction changes, if it has locked nothing that they
\* have read.
LEMMA ApartFrom ==
  ASSUME IInv, ListInv, NEW t \in Thread, KeysPrecedeDefault, Consistent(t), LocksOK(t),
         Touched(t) \subseteq DOMAIN txn[t].writeSet,
         NEW c, Calling(c), KeysWith(c, {"Get"}) \subseteq Got,
         \A n \in DOMAIN txn[t].writeSet :
            /\ \A k \in CalledKeys(c) : ~Precedes(n, k)
            /\ n \in Live => node[n].key \notin KeysWith(c, {"Remove"}),
         NEW k \in Effective(t)
  PROVE  /\ k \notin KeysWith(c, {"Get", "Remove"})
         /\ k \in CalledKeys(c) => DecidedMap[k] # Null /\ ViewMap(t)[k] # Null
  <1>1. k \in CalledKeys(c) => /\ k \in Key /\ k \notin Got
                               /\ DecidedMap[k] # Null /\ ViewMap(t)[k] # Null
    BY CallKeys DEF LocksOK
  <1>2. k \notin KeysWith(c, {"Get"}) BY <1>1, CallKeys
  <1>3. k \notin KeysWith(c, {"Remove"})
    <2>1. SUFFICES ASSUME k \in KeysWith(c, {"Remove"}) PROVE FALSE OBVIOUS
    <2>2. k \in CalledKeys(c) BY <2>1, CallKeys
    <2>3. PICK n \in Live : node[n].key = k BY <1>1, <2>2, DecidedHas
    <2>4. n \in DOMAIN txn[t].writeSet BY <2>3 DEF LocksOK
    <2> QED BY <2>1, <2>3, <2>4
  <1>4. k \notin KeysWith(c, {"Get", "Remove"}) BY <1>2, <1>3 DEF KeysWith
  <1> QED BY <1>1, <1>4

\* Transactions that have locked different nodes have changed different keys.
LEMMA KeysApart ==
  ASSUME IInv, ListInv, KeysPrecedeDefault, NEW t \in Thread, NEW u \in Thread,
         Consistent(t), Consistent(u), LocksOK(t), LocksOK(u), RoutineOK(t),
         Touched(t) \cap Touched(u) = {}
  PROVE  Effective(t) \cap Effective(u) = {}
  <1>1. SUFFICES ASSUME NEW k \in Effective(t), k \in Effective(u) PROVE FALSE OBVIOUS
  <1>2. k \in Key BY EffectiveKeys
  <1>3. DOMAIN txn[t].writeSet \subseteq Touched(t) /\ DOMAIN txn[u].writeSet \subseteq Touched(u)
    BY DEF Touched
  <1>4. CASE \E n \in Live : node[n].key = k BY <1>1, <1>4 DEF LocksOK
  <1>5. CASE ~\E n \in Live : node[n].key = k
    <2>1. DecidedMap[k] = Null BY <1>2, <1>5, DecidedHas
    <2>2. PICK x \in DOMAIN txn[t].writeSet : Precedes(x, k) BY <1>1, <2>1 DEF LocksOK
    <2>3. PICK y \in DOMAIN txn[u].writeSet : Precedes(y, k) BY <1>1, <2>1 DEF LocksOK
    <2>4. x = y BY <1>2, <2>2, <2>3, BeforeUnique
    <2> QED BY <1>3, <2>2, <2>3, <2>4
  <1> QED BY <1>4, <1>5

\* A transaction that passes the validation decides the values of its view.
LEMMA DecideValues ==
  ASSUME IInv, IInv', NEW t \in Thread, PassValidation(t), NEW n \in Node
  PROVE  /\ n \notin held[t] => SameValue(n)
         /\ DecidedValue(n)' = ViewValues(t)[n]
  <1>1. /\ pc[t] = "validate" /\ pc'[t] = "write" /\ DOMAIN txn[t].writeSet = held[t]
        /\ UNCHANGED <<lock, node, alloc, held>>
        /\ \A u \in Thread \ {t} : pc'[u] = pc[u] /\ txn'[u] = txn[u]
        /\ txn'[t].writeSet = txn[t].writeSet
    BY Decides
  <1>2. n \notin held[t] => SameValue(n)
    <2>1. SUFFICES ASSUME n \notin held[t] PROVE SameValue(n) OBVIOUS
    <2>2. \A u \in Thread : Pending(u, n)' <=> Pending(u, n) BY <1>1, <2>1 DEF Pending
    <2>3. \A u \in Thread : Pending(u, n) => txn'[u] = txn[u] BY <1>1, <2>1 DEF Pending
    <2>4. node'[n].value = node[n].value BY <1>1
    <2> QED BY <2>2, <2>3, <2>4, SameDecidedValue
  <1>3. n \in held[t] => DecidedValue(n)' = txn[t].writeSet[n].value
    <2>1. (IInv => WriterUnique)' BY WriterOf, PTL
    <2>2. n \in held[t] => Pending(t, n)' BY <1>1 DEF Pending, Committing
    <2>3. n \in held[t] => Decided(n)' /\ Writer(n)' = t BY <2>1, <2>2 DEF WriterUnique
    <2> QED BY <1>1, <2>3 DEF DecidedValue, Decision
  <1>4. ViewValues(t)[n] = IF n \in held[t] THEN txn[t].writeSet[n].value ELSE DecidedValue(n)
    BY <1>1 DEF ViewValues, InWriteSet
  <1> QED BY <1>2, <1>3, <1>4 DEF SameValue

\* The decision makes the map that the transaction has in mind the decided one.
LEMMA DecideMap ==
  ASSUME IInv, IInv', ListInv, KeysPrecedeDefault, NEW t \in Thread, PassValidation(t)
  PROVE  DecidedMap' = ViewMap(t)
  <1>1. UNCHANGED node BY Decides
  <1>2. pc[t] \in Running /\ Consistent(t) BY DeciderConsistent, Decides DEF Running, Validating
  <1>3. Distinct(View(t), KeyOf) /\ View(t) \subseteq Node BY <1>2, ViewList DEF ListOf
  <1>4. PICK S, K2, v2 : S = View(t) /\ K2 = KeyOf' /\ v2 = DecidedValues' OBVIOUS
  <1>5. \A n \in S : K2[n] = KeyOf[n] /\ v2[n] = ViewValues(t)[n]
    <2>1. SUFFICES ASSUME NEW n \in S PROVE K2[n] = KeyOf[n] /\ v2[n] = ViewValues(t)[n] OBVIOUS
    <2>2. n \in Node BY <1>3, <1>4
    <2>3. KeyOf'[n] = KeyOf[n] BY <1>1, <2>2 DEF KeyOf
    <2>4. DecidedValues'[n] = DecidedValue(n)' BY <2>2 DEF DecidedValues
    <2> QED BY <1>4, <2>2, <2>3, <2>4, DecideValues
  <1>6. Live' = S BY <1>4, DecideLive
  <1>7. DecidedMap' = MapOf(S, K2, v2) BY <1>4, <1>6 DEF DecidedMap, MapOf
  <1>8. ViewMap(t) = MapOf(S, KeyOf, ViewValues(t)) BY <1>4 DEF ViewMap
  <1> QED BY <1>3, <1>4, <1>5, <1>7, <1>8, MapSame

\* It moves no node before a key but those that it has locked and created.
LEMMA DecidePrecedes ==
  ASSUME IInv, IInv', ListInv, NEW t \in Thread, PassValidation(t),
         NEW n, n \notin held[t], n \notin Own(t), NEW k
  PROVE  Precedes(n, k)' <=> Precedes(n, k)
  <1>1. UNCHANGED node BY Decides
  <1>2. Touched(t) = held[t] /\ Live' = (Live \cup Own(t)) \ Removed(t) /\ Removed(t) \subseteq Touched(t)
    BY DeciderConsistent, DecideLive DEF View, Removed, Touched
  <1>3. n \in Live' <=> n \in Live BY <1>2
  <1>4. KeyOf' = KeyOf BY <1>1 DEF KeyOf
  <1>5. n \in Live => DecidedNexts'[n] = DecidedNexts[n]
    <2>1. n \in Live => n \in Node BY LiveNodes
    <2>2. n \in Node => DecidedNexts'[n] = DecidedNext(n)' /\ DecidedNexts[n] = DecidedNext(n)
      BY DEF DecidedNexts
    <2> QED BY <2>1, <2>2, DecideNodes DEF Same
  <1> QED BY <1>3, <1>4, <1>5 DEF Precedes, LastBefore

\* It changes nothing about the keys that it has not changed.
LEMMA DecideElsewhere ==
  ASSUME IInv, IInv', ListInv, KeysPrecedeDefault, NEW t \in Thread, PassValidation(t),
         EffectOK(t), NEW k \in Key \ Effective(t)
  PROVE  /\ DecidedMap'[k] = DecidedMap[k]
         /\ \A n \in Node : node[n].key = k => /\ n \in Live' <=> n \in Live
                                               /\ n \in Live => SameValue(n)
  <1>1. pc[t] \in Running /\ Consistent(t) /\ DOMAIN txn[t].writeSet = held[t]
    BY DeciderConsistent, Decides DEF Running, Validating
  <1>2. DecidedMap'[k] = DecidedMap[k] BY <1>1, DecideMap, ViewElsewhere
  <1>3. SUFFICES ASSUME NEW n \in Node, node[n].key = k
                 PROVE  (n \in Live' <=> n \in Live) /\ (n \in Live => SameValue(n))
    BY <1>2
  <1>4. n \notin Own(t) \cup Removed(t) BY <1>3 DEF EffectOK
  <1>5. n \in Live' <=> n \in Live BY <1>4, DecideLive DEF View
  <1>6. ASSUME n \in Live, n \in held[t] PROVE SameValue(n)
    <2>1. txn[t].writeSet[n].value = DecidedValue(n) BY <1>1, <1>3, <1>6 DEF EffectOK
    <2>2. ViewValues(t)[n] = txn[t].writeSet[n].value BY <1>1, <1>6 DEF ViewValues, InWriteSet
    <2> QED BY <2>1, <2>2, DecideValues DEF SameValue
  <1> QED BY <1>5, <1>6, DecideValues

\* Outside the keys that it has changed, the map of a view is the decided one.
ViewsFollow ==
    KeysPrecedeDefault => \A u \in Thread :
        /\ DecidedMap \in Map /\ ViewMap(u) \in Map
        /\ pc[u] \in Running /\ Consistent(u) =>
              /\ Distinct(View(u), KeyOf)
              /\ EffectOK(u) => \A k \in Key \ Effective(u) : ViewMap(u)[k] = DecidedMap[k]
\* Because the lists are.
LEMMA ViewsFollowList == IInv /\ ListInv => ViewsFollow
  <1>1. SUFFICES ASSUME IInv, ListInv, KeysPrecedeDefault, NEW u \in Thread
                 PROVE  /\ DecidedMap \in Map /\ ViewMap(u) \in Map
                        /\ pc[u] \in Running /\ Consistent(u) =>
                              /\ Distinct(View(u), KeyOf)
                              /\ EffectOK(u) => \A k \in Key \ Effective(u) : ViewMap(u)[k] = DecidedMap[k]
    BY DEF ViewsFollow
  <1>2. DecidedMap \in Map /\ ViewMap(u) \in Map BY <1>1, MapsTyped
  <1>3. ASSUME pc[u] \in Running, Consistent(u) PROVE Distinct(View(u), KeyOf)
    BY <1>1, <1>3, ViewList DEF ListOf
  <1>4. ASSUME pc[u] \in Running, Consistent(u), EffectOK(u), NEW k \in Key \ Effective(u)
        PROVE  ViewMap(u)[k] = DecidedMap[k]
    BY ONLY <1>1, <1>4, ViewElsewhere
  <1> QED BY <1>2, <1>3, <1>4

\* What a decision of t leaves alone of another transaction.
LEMMA DecideAlone ==
  ASSUME IInv, ListInv, NEW t \in Thread, PassValidation(t), NEW u \in Thread \ {t}, pc[u] \in Running
  PROVE  /\ pc'[u] = pc[u] /\ txn'[u] = txn[u] /\ frame' = frame /\ jobs' = jobs /\ node' = node
         /\ Calls(u)' = Calls(u) /\ Effective(u)' = Effective(u) /\ Touched(u)' = Touched(u)
         /\ Got' = Got /\ RoutineOK(u)' = RoutineOK(u)
         /\ DOMAIN txn[u].writeSet \cap Own(t) = {} /\ Own(u) \cap held[t] = {}
         /\ \A n : Clear(u, n) => Clear(u, n)'
  <1>1. /\ pc'[u] = pc[u] /\ txn'[u] = txn[u] /\ frame' = frame /\ node' = node /\ held' = held
        /\ pc[t] = "validate" /\ Hidden(t) = txn[t].fresh /\ txn'[t].writeVersion = gvc + 1
        /\ \A v \in Thread \ {t} : pc'[v] = pc[v] /\ txn'[v] = txn[v]
    BY Decides
  <1>2. jobs' = jobs BY DEF PassValidation
  <1>3. Calls(u)' = Calls(u) /\ Job(u)' = Job(u) BY <1>1, <1>2 DEF Calls, Results, Job
  <1>4. Effective(u)' = Effective(u)
    BY <1>1, <1>3 DEF Effective, ChangedKeys, ChangedBy, Removing
  <1>5. Touched(u)' = Touched(u) BY <1>1 DEF Touched, Gone
  <1>6. Got' = Got BY <1>2 DEF Got
  <1>7. RoutineOK(u)' = RoutineOK(u)
    <2>1. PICK c, job, f : c = Calls(u) /\ job = Job(u) /\ f = frame[u] OBVIOUS
    <2>2. c = Calls(u)' /\ job = Job(u)' /\ f = frame'[u] BY <1>1, <1>3, <2>1
    <2>3. Calling(Calls(u))' = Calling(c) BY <2>2 DEF Calling
    <2>4. Calling(Calls(u)) = Calling(c) BY <2>1
    <2> QED BY <1>1, <1>6, <2>1, <2>2, <2>3, <2>4 DEF RoutineOK
  <1>8. DOMAIN txn[u].writeSet \cap Own(t) = {}
    <2>1. Refs(u) \cap Hidden(t) = {} BY DEF IInv, References
    <2> QED BY <1>1, <2>1 DEF Refs, Own
  <1>9. Own(u) \cap held[t] = {}
    <2>1. Refs(t) \cap Hidden(u) = {} BY DEF IInv, References
    <2>2. Hidden(u) = txn[u].fresh
      BY DEF Hidden, Running, Operating, Placed, Validating, Committing
    <2> QED BY <2>1, <2>2 DEF Refs, Own
  <1>10. ASSUME NEW n, Clear(u, n) PROVE Clear(u, n)'
    <2>1. InWriteSet(u, n)' <=> InWriteSet(u, n) BY <1>1 DEF InWriteSet
    <2>2. txn[u].readVersion <= gvc BY DEF ListInv, ListMemory
    <2>3. txn[u].readVersion \in Nat /\ gvc \in Nat
      BY DEF IInv, Types, MemoryOK, ThreadOK, TxnTyped, Txn
    <2>4. ASSUME Settled(u, n), NEW v \in Thread, Pending(v, n)'
          PROVE  txn'[v].writeVersion > txn'[u].readVersion
      <3>1. CASE v = t BY <1>1, <2>2, <2>3, <3>1
      <3>2. CASE v # t
        <4>1. Pending(v, n) BY <1>1, <2>4, <3>2 DEF Pending
        <4>2. txn[v].writeVersion > txn[u].readVersion BY <2>4, <4>1 DEF Settled
        <4> QED BY <1>1, <3>2, <4>2
      <3> QED BY <3>1, <3>2
    <2>5. Settled(u, n) => Settled(u, n)' BY <2>4 DEF Settled
    <2> QED BY <1>10, <2>1, <2>5 DEF Clear
  <1> QED BY <1>1, <1>2, <1>3, <1>4, <1>5, <1>6, <1>7, <1>8, <1>9, <1>10

\* The decision of t leaves alone what another transaction makes of the keys that t
\* has not changed.
LEMMA DecideViewMap ==
  ASSUME IInv, IInv', ListInv, ListInv', KeysPrecedeDefault, NEW t \in Thread, PassValidation(t),
         EffectOK(t), NEW u \in Thread \ {t}, pc[u] \in Running, Consistent(u)',
         NEW k \in Key \ Effective(t)
  PROVE  ViewMap(u)'[k] = ViewMap(u)[k]
  <1>1. /\ pc'[u] = pc[u] /\ txn'[u] = txn[u] /\ node' = node /\ Own(u) \cap held[t] = {}
    BY DecideAlone
  <1>2. /\ Consistent(u)' => Consistent(u) /\ Touched(u) \cap held[t] = {}
        /\ ViewOK(u)' /\ Own(u)' = Own(u) /\ Removed(u)' = Removed(u)
    BY DecideView
  <1>3. Distinct(View(u), KeyOf) BY <1>2, ViewList DEF ListOf
  <1>4. PICK S1, K1, v1 : S1 = View(u)' /\ K1 = KeyOf' /\ v1 = ViewValues(u)' OBVIOUS
  <1>5. PICK S2, K2, v2 : S2 = View(u) /\ K2 = KeyOf /\ v2 = ViewValues(u) OBVIOUS
  <1>6. Distinct(S1, K1)
    <2>1. (IInv /\ ListInv => ViewsFollow)' BY ViewsFollowList, PTL
    <2>2. Distinct(View(u), KeyOf)' BY <1>1, <2>1 DEF ViewsFollow, KeysPrecedeDefault
    <2> QED BY <1>4, <2>2 DEF Distinct
  <1>7. S2 \subseteq Node BY <1>5, ViewNodes
  <1>8. S1 \subseteq Node
    <2>1. Live' \subseteq Node BY DecideLive, ViewNodes
    <2>2. Own(u) \subseteq Node BY ViewNodes, LiveNodes
    <2> QED BY <1>2, <1>4, <2>1, <2>2 DEF View
  <1>9. \A n \in Node : K1[n] = node[n].key /\ K2[n] = node[n].key
    BY <1>1, <1>4, <1>5 DEF KeyOf
  <1>10. \A n \in Node : node[n].key = k =>
            (n \in Live' <=> n \in Live) /\ (n \in Live => SameValue(n))
    BY DecideElsewhere
  <1>11. \A n : (n \in S1 /\ K1[n] = k) <=> (n \in S2 /\ K2[n] = k)
    BY <1>2, <1>4, <1>5, <1>7, <1>8, <1>9, <1>10 DEF View
  <1>12. ASSUME NEW n \in S1, K1[n] = k PROVE v1[n] = v2[n]
    <2>1. n \in Node /\ n \in S2 /\ node[n].key = k BY <1>7, <1>9, <1>11, <1>12
    <2>2. n \in Live \cup Own(u) BY <1>5, <2>1 DEF View
    <2>3. SameValue(n) BY <1>1, <1>10, <2>1, <2>2, DecideValues
    <2>4. InWriteSet(u, n)' <=> InWriteSet(u, n) BY <1>1 DEF InWriteSet
    <2>5. v1[n] = IF InWriteSet(u, n)' THEN txn'[u].writeSet[n].value ELSE DecidedValue(n)'
      BY <1>4, <2>1 DEF ViewValues
    <2>6. v2[n] = IF InWriteSet(u, n) THEN txn[u].writeSet[n].value ELSE DecidedValue(n)
      BY <1>5, <2>1 DEF ViewValues
    <2> QED BY <1>1, <2>3, <2>4, <2>5, <2>6 DEF SameValue
  <1>13. MapOf(S1, K1, v1)[k] = MapOf(S2, K2, v2)[k]
    <2>1. Distinct(S2, K2) BY <1>3, <1>5
    <2> HIDE DEF MapOf
    <2> QED BY ONLY <1>6, <1>11, <1>12, <2>1, k \in Key, MapAgrees
  <1>14. ViewMap(u)' = MapOf(S1, K1, v1) BY <1>4 DEF ViewMap, MapOf
  <1>15. ViewMap(u) = MapOf(S2, K2, v2) BY <1>5 DEF ViewMap
  <1> QED BY <1>13, <1>14, <1>15

\* A decision is right for the locks and the effects of the others.
LEMMA DecideRunning ==
  ASSUME IInv, IInv', ListInv, ListInv', KeysPrecedeDefault, ReadInv,
         NEW t \in Thread, PassValidation(t), NEW u \in Thread \ {t}, pc[u] \in Running
  PROVE  /\ RunningOK(u)'
         /\ Consistent(u)' => /\ Consistent(u) /\ Effective(t) \cap Effective(u) = {}
                              /\ \A k \in Effective(u) : ViewMap(u)'[k] = ViewMap(u)[k]
  <1>1. /\ pc'[u] = pc[u] /\ txn'[u] = txn[u] /\ frame' = frame /\ jobs' = jobs /\ node' = node
        /\ Calls(u)' = Calls(u) /\ Effective(u)' = Effective(u) /\ Touched(u)' = Touched(u)
        /\ Got' = Got /\ RoutineOK(u)' = RoutineOK(u)
        /\ DOMAIN txn[u].writeSet \cap Own(t) = {} /\ Own(u) \cap held[t] = {}
        /\ \A n : Clear(u, n) => Clear(u, n)'
    BY DecideAlone
  <1>2. /\ Consistent(u)' => Consistent(u) /\ Touched(u) \cap held[t] = {}
        /\ Own(u)' = Own(u) /\ Removed(u)' = Removed(u)
    BY DecideView
  <1>3. RoutineOK(u) /\ PlaceClear(u) /\ EffectOK(u) /\ LocksOK(u) BY InRoutine
  <1>4. pc[t] \in Running /\ Consistent(t) /\ Touched(t) = held[t]
    BY DeciderConsistent, Decides DEF Running, Validating
  <1>5. RoutineOK(t) /\ EffectOK(t) /\ LocksOK(t) BY <1>4, InRoutine
  <1>6. DOMAIN txn[u].writeSet \subseteq Touched(u) BY DEF Touched
  <1>7. ASSUME Consistent(u)' PROVE Consistent(u) /\ Effective(t) \cap Effective(u) = {}
    <2>1. Consistent(u) /\ Touched(t) \cap Touched(u) = {} BY <1>2, <1>4, <1>7
    <2> QED BY <1>3, <1>4, <1>5, <2>1, KeysApart
  <1>8. Effective(u) \subseteq Key BY <1>3, EffectiveKeys
  <1>9. ASSUME Consistent(u)', NEW k \in Effective(u) PROVE ViewMap(u)'[k] = ViewMap(u)[k]
    <2>1. k \in Key \ Effective(t) BY <1>7, <1>8, <1>9
    <2> QED BY ONLY IInv, IInv', ListInv, ListInv', KeysPrecedeDefault, t \in Thread, PassValidation(t),
                    u \in Thread \ {t}, pc[u] \in Running, <1>5, <1>9, <2>1, DecideViewMap
  <1>10. PlaceClear(u)'
    <2>1. frame'[u] = frame[u] BY <1>1
    <2>2. Between(u)' <=> Between(u) BY <1>1, <2>1 DEF Between
    <2>3. Removing(u)' <=> Removing(u) BY <1>1 DEF Removing
    <2> QED BY <1>1, <1>3, <2>1, <2>2, <2>3 DEF PlaceClear
  <1>11. EffectOK(u)'
    <2>1. \A n \in Own(u)' \cup Removed(u)' : node'[n].key \in Effective(u)'
      BY <1>1, <1>2, <1>3 DEF EffectOK
    <2>2. ASSUME Consistent(u)', NEW n \in DOMAIN txn'[u].writeSet, n \in Live',
                 node'[n].key \notin Effective(u)'
          PROVE  txn'[u].writeSet[n].value = DecidedValue(n)'
      <3>1. n \in DOMAIN txn[u].writeSet /\ n \notin held[t] /\ n \notin Own(t)
        BY <1>1, <1>2, <1>6, <2>2
      <3>2. n \in Live BY <2>2, <3>1, DecideLive DEF View
      <3>3. n \in Node BY <3>2, LiveNodes
      <3>4. SameValue(n) BY <3>1, <3>3, DecideValues
      <3>5. txn[u].writeSet[n].value = DecidedValue(n)
        BY <1>1, <1>3, <1>7, <2>2, <3>1, <3>2 DEF EffectOK
      <3> QED BY <1>1, <3>4, <3>5 DEF SameValue
    <2> QED BY <2>1, <2>2 DEF EffectOK
  <1>12. LocksOK(u)'
    <2>1. ASSUME Consistent(u)', NEW k \in Effective(u)'
          PROVE  /\ \A n \in Live' : node'[n].key = k => n \in Touched(u)'
                 /\ DecidedMap'[k] = Null \/ ViewMap(u)'[k] = Null \/ k \in Got' =>
                       \E x \in DOMAIN txn'[u].writeSet : Precedes(x, k)'
      <3>1. k \in Effective(u) /\ k \in Key \ Effective(t) BY <1>1, <1>7, <1>8, <2>1
      <3>2. /\ DecidedMap'[k] = DecidedMap[k]
            /\ \A n \in Node : node[n].key = k => (n \in Live' <=> n \in Live)
        BY <1>5, <3>1, DecideElsewhere
      <3>3. Live' \subseteq Node BY DecideLive, ViewNodes
      <3>4. /\ \A n \in Live : node[n].key = k => n \in Touched(u)
            /\ DecidedMap[k] = Null \/ ViewMap(u)[k] = Null \/ k \in Got =>
                  \E x \in DOMAIN txn[u].writeSet : Precedes(x, k)
        BY <1>3, <1>7, <2>1, <3>1 DEF LocksOK
      <3>5. \A n \in Live' : node'[n].key = k => n \in Touched(u)'
        BY <1>1, <3>2, <3>3, <3>4
      <3>6. ViewMap(u)'[k] = ViewMap(u)[k] BY <1>9, <2>1, <3>1
      <3>7. ASSUME NEW x \in DOMAIN txn[u].writeSet, Precedes(x, k) PROVE Precedes(x, k)'
        <4>1. x \notin held[t] /\ x \notin Own(t) BY <1>1, <1>2, <1>6, <2>1
        <4> QED BY <3>7, <4>1, DecidePrecedes
      <3>8. ASSUME DecidedMap'[k] = Null \/ ViewMap(u)'[k] = Null \/ k \in Got'
            PROVE  \E x \in DOMAIN txn'[u].writeSet : Precedes(x, k)'
        <4>1. PICK x \in DOMAIN txn[u].writeSet : Precedes(x, k)
          BY <1>1, <3>2, <3>4, <3>6, <3>8
        <4> QED BY <1>1, <3>7, <4>1
      <3> QED BY <3>5, <3>8
    <2> QED BY <2>1 DEF LocksOK
  <1> QED BY <1>1, <1>3, <1>7, <1>9, <1>10, <1>11, <1>12 DEF RunningOK

\* What u has read and nobody has decided on since, t has neither locked nor created.
LEMMA DecideAllOld ==
  ASSUME IInv, IInv', ListInv, ReadInv, NEW t \in Thread, PassValidation(t),
         NEW u \in Thread \ {t}, pc[u] \in Running, AllOld(u)'
  PROVE  AllOld(u) /\ Consistent(u)' /\ txn[u].readSet \cap (held[t] \cup Own(t)) = {}
  <1>1. txn'[u] = txn[u] /\ Hidden(t) = txn[t].fresh BY Decides
  <1>2. Consistent(u)' /\ Consistent(u) BY DecideView DEF AllOld
  <1>3. ASSUME NEW n \in txn[u].readSet PROVE Old(u, n) /\ n \notin held[t]
    <2>1. Old(u, n)' BY <1>1, <1>3 DEF AllOld
    <2>2. n \in Node BY <1>3, LiveNodes DEF ReadInv, ReadSeen
    <2> QED BY <2>1, <2>2, OldAfter
  <1>4. txn[u].readSet \cap Own(t) = {} BY <1>1 DEF ReadInv, ReadSeen, Own
  <1> QED BY <1>2, <1>3, <1>4 DEF AllOld

\* If u has read nothing that t has locked, its calls do not notice what t changes.
LEMMA DecideApart ==
  ASSUME IInv, IInv', ListInv, KeysPrecedeDefault, ReadInv,
         NEW t \in Thread, PassValidation(t), NEW u \in Thread \ {t}, pc[u] \in Running \ Validating,
         AllOld(u)', NEW k \in Effective(t)
  PROVE  /\ k \notin KeysWith(Calls(u), {"Get", "Remove"})
         /\ k \in CalledKeys(Calls(u)) => DecidedMap[k] # Null /\ ViewMap(t)[k] # Null
  <1>1. AllOld(u) /\ Consistent(u)' /\ txn[u].readSet \cap (held[t] \cup Own(t)) = {}
    BY DecideAllOld
  <1>2. pc[t] \in Running /\ Consistent(t) /\ Touched(t) = held[t] /\ DOMAIN txn[t].writeSet = held[t]
    BY DeciderConsistent, Decides DEF Running, Validating
  <1>3. LocksOK(t) BY <1>2, InRoutine
  <1>4. RoutineOK(u) /\ ReadsOK(u) BY InRoutine DEF ThreadReads
  <1>5. PICK c : c = Calls(u) OBVIOUS
  <1>6. Calling(c) /\ KeysWith(c, {"Get"}) \subseteq Got BY <1>4, <1>5, GotKeys DEF RoutineOK
  <1>7. CalledKeys(c) \subseteq Key BY <1>6, CallKeys
  <1>8. ASSUME NEW n \in DOMAIN txn[t].writeSet
        PROVE  /\ \A j \in CalledKeys(c) : ~Precedes(n, j)
               /\ n \in Live => node[n].key \notin KeysWith(c, {"Remove"})
    <2>1. n \notin txn[u].readSet BY <1>1, <1>2, <1>8
    <2>2. ASSUME NEW j \in CalledKeys(c), Precedes(n, j) PROVE FALSE
      <3>1. PICK x \in txn[u].readSet : Precedes(x, j) BY <1>1, <1>4, <1>5, <2>2 DEF ReadsOK
      <3>2. j \in Key BY <1>7, <2>2
      <3>3. x = n BY <2>2, <3>1, <3>2, BeforeUnique
      <3> QED BY <2>1, <3>1, <3>3
    <2>3. ASSUME n \in Live, node[n].key \in KeysWith(c, {"Remove"}) PROVE FALSE
      BY <1>1, <1>4, <1>5, <2>1, <2>3 DEF ReadsOK
    <2> QED BY <2>2, <2>3
  <1>9. /\ k \notin KeysWith(c, {"Get", "Remove"})
        /\ k \in CalledKeys(c) => DecidedMap[k] # Null /\ ViewMap(t)[k] # Null
    <2>1. Touched(t) \subseteq DOMAIN txn[t].writeSet BY <1>2
    <2> QED BY ONLY IInv, ListInv, t \in Thread, KeysPrecedeDefault, <1>2, <1>3, <1>6, <1>8, <2>1,
                    k \in Effective(t), ApartFrom
  <1> QED BY <1>5, <1>9

\* The others have then still read what they are to have read, or something that is outdated now.
LEMMA DecideReads ==
  ASSUME IInv, IInv', ListInv, KeysPrecedeDefault, ReadInv,
         NEW t \in Thread, PassValidation(t), NEW u \in Thread \ {t}, pc[u] \in Running \ Validating
  PROVE  ReadsOK(u)'
  <1>1. PICK c : c = Calls(u) OBVIOUS
  <1>2. txn'[u] = txn[u] /\ node' = node /\ Calls(u)' = c BY <1>1, DecideAlone
  <1>3. pc[t] \in Running BY Decides DEF Running, Validating
  <1>4. EffectOK(t) /\ ReadsOK(u) BY <1>3, InRoutine DEF ThreadReads
  <1>5. SUFFICES ASSUME AllOld(u)'
        PROVE  /\ \A k \in CalledKeys(c) : \E x \in txn[u].readSet : Precedes(x, k)'
               /\ \A k \in KeysWith(c, {"Remove"}) : \A n \in Live' :
                     node[n].key = k => n \in txn[u].readSet
    <2>1. ReadsOK(u)' <=> (AllOld(u)' =>
            /\ \A k \in CalledKeys(Calls(u)') : \E x \in txn'[u].readSet : Precedes(x, k)'
            /\ \A k \in KeysWith(Calls(u)', {"Remove"}) : \A n \in Live' :
                  node'[n].key = k => n \in txn'[u].readSet)
      BY DEF ReadsOK, CalledKeys, KeysOf, KeysWith
    <2> QED BY <1>2, <1>5, <2>1
  <1>6. AllOld(u) /\ txn[u].readSet \cap (held[t] \cup Own(t)) = {} BY <1>5, DecideAllOld
  <1>7. ASSUME NEW k \in CalledKeys(c) PROVE \E x \in txn[u].readSet : Precedes(x, k)'
    <2>1. PICK x \in txn[u].readSet : Precedes(x, k) BY <1>1, <1>4, <1>6, <1>7 DEF ReadsOK
    <2> QED BY <1>6, <2>1, DecidePrecedes
  <1>8. ASSUME NEW k \in KeysWith(c, {"Remove"}), NEW n \in Live', node[n].key = k
        PROVE  n \in txn[u].readSet
    <2>1. n \in Live \cup Own(t) BY <1>8, DecideLive DEF View
    <2>2. CASE n \in Live BY <1>1, <1>4, <1>6, <1>8, <2>2 DEF ReadsOK
    <2>3. CASE n \in Own(t)
      <3>1. k \in Effective(t) BY <1>4, <1>8, <2>3 DEF EffectOK
      <3>2. k \in KeysWith(c, {"Get", "Remove"}) BY <1>8 DEF KeysWith
      <3> QED BY <1>1, <1>5, <3>1, <3>2, DecideApart
    <2> QED BY <2>1, <2>2, <2>3
  <1> QED BY <1>7, <1>8

\* Calls that do not notice what has changed replay from the new map.
LEMMA ReplayOn ==
  ASSUME NEW c, Calling(c), NEW d \in Map, NEW d2 \in Map, NEW m, Replays(c, d, m), NEW m2 \in Map,
         NEW changed, \A k \in Key \ changed : d2[k] = d[k],
         \A k \in changed : /\ k \notin KeysWith(c, {"Get", "Remove"})
                            /\ k \in CalledKeys(c) => d[k] # Null /\ d2[k] # Null,
         \A k \in ChangedKeys(c) : m2[k] = m[k],
         \A k \in Key \ ChangedKeys(c) : m2[k] = d2[k]
  PROVE  Replays(c, d2, m2)
  <1>1. CalledKeys(c) \subseteq Key /\ KeysWith(c, {"Get", "Remove"}) \subseteq Key BY CallKeys
  <1>2. \A k \in CalledKeys(c) : d[k] = Null <=> d2[k] = Null BY <1>1
  <1>3. \A k \in KeysWith(c, {"Get", "Remove"}) : d[k] = d2[k] BY <1>1
  <1>4. Replays(c, d2, Over(d2, m, c))
    BY ONLY Calling(c), d2 \in Map, Replays(c, d, m), <1>2, <1>3, ReplayElsewhere
  <1>5. \A k \in Key : Over(d2, m, c)[k] = m2[k] BY DEF Over
  <1>6. Over(d2, m, c) = m2 BY <1>5 DEF Over, Map
  <1> QED BY <1>4, <1>6

\* So their calls return on the new decided map what they have returned.
LEMMA DecideResults ==
  ASSUME IInv, IInv', ListInv, ListInv', KeysPrecedeDefault, ReadInv,
         NEW t \in Thread, PassValidation(t), NEW u \in Thread \ {t}, pc[u] \in Running \ Validating
  PROVE  ResultsOK(u)'
  <1>1. PICK c, gone, changed : c = Calls(u) /\ gone = Effective(u) /\ changed = Effective(t) OBVIOUS
  <1>2. /\ txn'[u] = txn[u] /\ node' = node /\ Calls(u)' = c /\ pc'[u] = pc[u]
        /\ frame'[u] = frame[u] /\ Effective(u)' = gone
    BY <1>1, DecideAlone
  <1>3. PICK d, d2, v, v2 : d = DecidedMap /\ d2 = DecidedMap' /\ v = ViewMap(u) /\ v2 = ViewMap(u)'
    OBVIOUS
  <1>4. PICK k, x : k = frame[u].op.key /\ x = GetUpdatedValue(u, frame[u].succ) OBVIOUS
  <1>5. /\ k = frame'[u].op.key /\ x = GetUpdatedValue(u, frame[u].succ)'
        /\ Removing(u)' <=> Removing(u)
    BY <1>2, <1>4 DEF GetUpdatedValue, InWriteSet, Removing
  <1>6. SUFFICES ASSUME AllOld(u)'
        PROVE  IF Removing(u)
               THEN v2[k] = Null /\ Replays(c, d2, [v2 EXCEPT ![k] = x])
               ELSE Replays(c, d2, v2)
    <2>1. frame'[u].succ = frame[u].succ BY <1>2
    <2>2. ResultsOK(u)' <=> (AllOld(u)' =>
            IF Removing(u)'
            THEN /\ ViewMap(u)'[frame'[u].op.key] = Null
                 /\ Replays(Calls(u)', DecidedMap',
                        [ViewMap(u)' EXCEPT ![frame'[u].op.key] = GetUpdatedValue(u, frame[u].succ)'])
            ELSE Replays(Calls(u)', DecidedMap', ViewMap(u)'))
      BY <2>1 DEF ResultsOK, Replays, Steps, GetUpdatedValue, InWriteSet
    <2> QED BY <1>2, <1>3, <1>5, <1>6, <2>2
  <1>7. AllOld(u) /\ Consistent(u)' BY <1>6, DecideAllOld
  <1>8. RoutineOK(u) /\ ResultsOK(u) BY InRoutine DEF ThreadReads
  <1>9. Calling(c) BY <1>1, <1>8 DEF RoutineOK
  <1>10. /\ RunningOK(u)' /\ changed \cap gone = {}
         /\ \A j \in gone : v2[j] = v[j]
    BY <1>1, <1>3, <1>7, DecideRunning
  <1>11. d \in Map /\ v \in Map BY <1>3, MapsTyped
  <1>12. /\ d2 \in Map /\ v2 \in Map
         /\ \A j \in Key \ gone : v2[j] = d2[j]
    <2>1. (IInv /\ ListInv => ViewsFollow)' BY ViewsFollowList, PTL
    <2>2. /\ DecidedMap' \in Map /\ ViewMap(u)' \in Map
          /\ EffectOK(u)' => \A j \in Key \ Effective(u)' : ViewMap(u)'[j] = DecidedMap'[j]
      BY <1>2, <1>7, <2>1 DEF ViewsFollow, KeysPrecedeDefault, Map
    <2> QED BY <1>2, <1>3, <1>10, <2>2 DEF RunningOK
  <1>13. pc[t] \in Running BY Decides DEF Running, Validating
  <1>14. EffectOK(t) BY <1>13, InRoutine
  <1>15. \A j \in Key \ changed : d2[j] = d[j] BY <1>1, <1>3, <1>14, DecideElsewhere
  <1>16. ASSUME NEW j \in changed
         PROVE  /\ j \notin KeysWith(c, {"Get", "Remove"})
                /\ j \in CalledKeys(c) => d[j] # Null /\ d2[j] # Null
    BY <1>1, <1>3, <1>6, <1>16, DecideApart, DecideMap
  <1>17. gone = ChangedKeys(c) \cup (IF Removing(u) THEN {k} ELSE {})
    BY <1>1, <1>4 DEF Effective
  <1>18. ChangedKeys(c) \subseteq gone BY <1>17
  <1>19. ASSUME NEW m, Replays(c, d, m), NEW m2 \in Map, \A j \in ChangedKeys(c) : m2[j] = m[j],
                \A j \in Key \ ChangedKeys(c) : m2[j] = d2[j]
         PROVE  Replays(c, d2, m2)
    BY ONLY <1>9, <1>11, <1>12, <1>15, <1>16, <1>19, ReplayOn
  <1>20. CASE ~Removing(u)
    <2>1. Replays(c, d, v) BY <1>1, <1>3, <1>7, <1>8, <1>20 DEF ResultsOK
    <2>2. gone = ChangedKeys(c) BY <1>17, <1>20
    <2>3. Replays(c, d2, v2) BY <1>10, <1>12, <1>19, <2>1, <2>2
    <2> QED BY <1>20, <2>3
  <1>21. CASE Removing(u)
    <2>1. v[k] = Null /\ Replays(c, d, [v EXCEPT ![k] = x])
      BY <1>1, <1>3, <1>4, <1>7, <1>8, <1>21 DEF ResultsOK
    <2>2. frame[u].op \in Operation /\ frame[u].succ \in Node
      BY <1>21 DEF Removing, IInv, Types, ThreadOK, FrameFits, Operating, Placed, AtFound
    <2>3. k \in Key BY <1>4, <2>2 DEF Operation
    <2>4. x \in Value
      BY <1>4, <2>2 DEF GetUpdatedValue, InWriteSet, IInv, Types, MemoryOK, ThreadOK, TxnTyped, Txn,
                        WriteSetElement
    <2>5. gone = ChangedKeys(c) \cup {k} BY <1>17, <1>21
    <2>6. v2[k] = Null BY <1>10, <2>1, <2>5
    <2>7. PICK m, m2 : m = [v EXCEPT ![k] = x] /\ m2 = [v2 EXCEPT ![k] = x] OBVIOUS
    <2>8. m[k] = x /\ m2[k] = x /\ \A j \in Key : j # k => m[j] = v[j] /\ m2[j] = v2[j]
      BY <1>11, <1>12, <2>3, <2>7 DEF Map
    <2>9. m2 \in Map BY <1>12, <2>4, <2>7 DEF Map
    <2>10. Replays(c, d, m) BY <2>1, <2>7
    <2>11. k \notin ChangedKeys(c) => m[k] = d[k] BY <1>9, <2>3, <2>10, ReplayKeeps
    <2>12. d2[k] = d[k] BY <1>10, <1>15, <2>3, <2>5
    <2>13. \A j \in ChangedKeys(c) : m2[j] = m[j]
      <3>1. ChangedKeys(c) \subseteq Key BY <1>9, CallKeys
      <3> QED BY <1>10, <2>5, <2>8, <3>1
    <2>14. \A j \in Key \ ChangedKeys(c) : m2[j] = d2[j] BY <1>12, <2>5, <2>8, <2>11, <2>12
    <2>15. Replays(c, d2, m2) BY <1>19, <2>9, <2>10, <2>13, <2>14
    <2> QED BY <1>21, <2>6, <2>7, <2>15
  <1> QED BY <1>20, <1>21

\* A transaction that passes the validation leaves ReadInv.
LEMMA PassValidationReads ==
  ASSUME IInv, IInv', ListInv, ListInv', KeysPrecedeDefault, ReadInv,
         NEW t \in Thread, PassValidation(t)
  PROVE  ReadInv'
  <1>1. /\ pc[t] = "validate" /\ pc'[t] = "write" /\ node' = node /\ alloc' = alloc
        /\ DOMAIN txn[t].writeSet = held[t] /\ held' = held /\ cur' = cur
        /\ txn'[t].writeSet = txn[t].writeSet /\ todo'[t] = held[t]
        /\ \A u \in Thread \ {t} : pc'[u] = pc[u] /\ txn'[u] = txn[u] /\ todo'[u] = todo[u]
        /\ Hidden(t)' = {} /\ \A u \in Thread \ {t} : Hidden(u)' = Hidden(u)
    BY Decides
  <1>2. Got' = Got BY DEF Got, PassValidation
  <1>3. txn'[t].readSet = {} BY DEF PassValidation, IncrementWriteVersion, IInv, Types
  <1>4. ASSUME NEW u \in Thread PROVE GotFixed(u)' /\ Stored(u)' /\ ReadSeen(u)'
    <2>1. GotFixed(u) /\ Stored(u) /\ ReadSeen(u) BY DEF ReadInv
    <2>2. GotFixed(u)'
      <3>1. txn'[u].writeSet = txn[u].writeSet BY <1>1
      <3> QED BY <1>1, <1>2, <2>1, <3>1 DEF GotFixed
    <2>3. Stored(u)'
      <3>1. CASE u = t BY <1>1, <3>1 DEF Stored
      <3>2. CASE u # t BY <1>1, <2>1, <3>2 DEF Stored
      <3> QED BY <3>1, <3>2
    <2>4. ReadSeen(u)'
      <3>1. CASE u = t BY <1>3, <3>1 DEF ReadSeen
      <3>2. CASE u # t
        <4>1. \A w \in Thread : Hidden(w)' \subseteq Hidden(w) BY <1>1
        <4> QED BY <1>1, <2>1, <3>2, <4>1 DEF ReadSeen
      <3> QED BY <3>1, <3>2
    <2> QED BY <2>2, <2>3, <2>4
  <1>5. ASSUME NEW u \in Thread, pc'[u] \in Running PROVE ThreadReads(u)'
    <2>1. u # t BY <1>1, <1>5 DEF Running, Operating, Placed, Validating
    <2>2. u \in Thread \ {t} /\ pc[u] \in Running /\ pc'[u] = pc[u] BY <1>1, <1>5, <2>1
    <2>3. RunningOK(u)' BY <2>2, DecideRunning
    <2>4. pc[u] \notin Validating => ReadsOK(u)' /\ ResultsOK(u)'
      BY <2>2, DecideReads, DecideResults
    <2> QED BY <2>2, <2>3, <2>4 DEF ThreadReads
  <1> QED BY <1>4, <1>5 DEF ReadInv

-----------------------------------------------------------------------------
(* The invariant of what has been read. *)

\* Nothing has been read at first.
LEMMA InitReads ==
  ASSUME Init
  PROVE  ReadInv
  <1>1. \A t \in Thread : pc[t] = "idle" /\ txn[t] = EmptyTxn BY DEF Init, StorageInit
  <1>2. \A t \in Thread : pc[t] \notin Running /\ pc[t] \notin Committing
    BY <1>1 DEF Running, Operating, Placed, Validating, Committing
  <1>3. \A t \in Thread : txn[t].readSet = {} /\ DOMAIN txn[t].writeSet = {} BY <1>1 DEF EmptyTxn
  <1>4. \A t \in Thread : GotFixed(t) /\ Stored(t) /\ ReadSeen(t)
    BY <1>2, <1>3 DEF GotFixed, Stored, ReadSeen
  <1> QED BY <1>2, <1>4 DEF ReadInv

\* Every step keeps what running transactions have read.
LEMMA StepReadInv ==
  ASSUME IInv, IInv', ListInv, ListInv', KeysPrecedeDefault, ReadInv,
         NEW t \in Thread, TransactionStep(t), InsertExisting(t) => frame[t].op.key \notin Got
  PROVE  ReadInv' /\ (PassValidation(t) \/ Steady(t))
  <1>1. CASE Begin(t) BY <1>1, BeginReads
  <1>2. CASE Execute(t) BY <1>2, ExecuteReads
  <1>3. CASE Commit(t) BY <1>3, BeginCommitReads
  <1>4. CASE PassValidation(t) BY <1>4, PassValidationReads
  <1>5. CASE Succeed(t) BY <1>5, SucceedReads
  <1>6. CASE Fail(t) BY <1>6, FailReads
  <1>7. CASE UNCHANGED jobs
             /\ (FindPrevious(t) \/ PredecessorVersion(t) \/ PredecessorDeleted(t))
    BY <1>7, FindPreviousReads, PredecessorVersionReads, PredecessorDeletedReads
  <1>8. CASE UNCHANGED jobs /\ (SuccessorLocked(t) \/ SuccessorVersion(t) \/ SuccessorNext(t))
    BY <1>8, SuccessorLockedReads, SuccessorVersionReads, SuccessorNextReads
  <1>9. CASE UNCHANGED jobs /\ (Contains(t) \/ Get(t) \/ RemoveNothing(t))
    BY <1>9, AnswerReads
  <1>10. CASE UNCHANGED jobs /\ (RemoveFound(t) \/ RemovePredecessor(t) \/ RemoveSuccessor(t))
    BY <1>10, RemoveFoundReads, RemovePredecessorReads, RemoveSuccessorReads
  <1>11. CASE UNCHANGED jobs /\ InsertExisting(t) BY <1>11, InsertExistingReads
  <1>12. CASE UNCHANGED jobs /\ (InsertExistingDeleted(t) \/ InsertNew(t))
    BY <1>12, InsertExistingDeletedReads, InsertNewReads
  <1>13. CASE UNCHANGED <<frame, jobs>>
              /\ (LockNode(t) \/ ValidateReadSet(t) \/ ValidateNode(t) \/ ValidateVersion(t)
                  \/ ValidateEqual(t) \/ ValidateSingleton(t) \/ ValidateRelocked(t))
    BY <1>13, LockNodeReads, ValidateReadSetReads, ValidateNodeReads, ValidateReads
  <1>14. CASE UNCHANGED <<frame, jobs>>
              /\ (WriteNext(t) \/ WriteValue(t) \/ WriteDeleted(t) \/ WriteVersion(t)
                  \/ WriteSingleton(t) \/ UpdateWriteSetDone(t))
    BY <1>14, WriteNextReads, WriteValueReads, WriteWordReads, WriteDoneReads
  <1>15. CASE UNCHANGED <<frame, jobs>>
              /\ (Release(t) \/ LazyUpdateIndexAdd(t) \/ LazyUpdateIndexRemove(t))
    BY <1>15, ReleaseReads, IndexReads
  <1> QED BY <1>1, <1>2, <1>3, <1>4, <1>5, <1>6, <1>7, <1>8, <1>9, <1>10, <1>11, <1>12,
             <1>13, <1>14, <1>15 DEF TransactionStep

\* A step that changes nothing leaves the decided list and the lists of the transactions.
LEMMA IdleSame ==
  ASSUME IInv, IInv', UNCHANGED vars
  PROVE  /\ \A n \in Node : Same(n) /\ SameValue(n)
         /\ Live' = Live
         /\ \A u \in Thread :
               /\ View(u)' = View(u) /\ Own(u)' = Own(u) /\ Removed(u)' = Removed(u)
               /\ Touched(u)' = Touched(u)
               /\ \A n \in Node : Old(u, n)' <=> Old(u, n)
               /\ Consistent(u)' <=> Consistent(u)
               /\ Own(u) \cup Touched(u) \subseteq Node
  <1>1. UNCHANGED <<gvc, lock, node, alloc, index, txn, held, pc, todo, cur, frame>>
    BY DEF vars, sharedVars, commitVars
  <1>2. ASSUME NEW n \in Node PROVE Same(n) /\ SameValue(n)
    <2>1. \A u \in Thread : Pending(u, n)' <=> Pending(u, n) BY <1>1 DEF Pending
    <2>2. \A u \in Thread : Pending(u, n) => txn'[u] = txn[u] BY <1>1
    <2>3. node'[n].next = node[n].next /\ node'[n].key = node[n].key
          /\ lock'[n].deleted = lock[n].deleted /\ lock'[n].version = lock[n].version
          /\ node'[n].value = node[n].value
      BY <1>1
    <2> QED BY <2>1, <2>2, <2>3, SameDecision, SameDecidedValue
  <1>3. \A u \in Thread : Hidden(u)' = Hidden(u) BY <1>1 DEF Hidden
  <1>4. Live' = Live
    <2>1. \A n \in alloc : n \in Node BY LiveNodes
    <2>2. \A n \in alloc : /\ DecidedMark(n)' = DecidedMark(n)
                           /\ (Visible(n)' <=> Visible(n)) /\ node'[n].key = node[n].key
      BY <1>2, <1>3, <2>1 DEF Same, Visible
    <2> QED BY <1>1, <2>2 DEF Live
  <1>5. ASSUME NEW u \in Thread
        PROVE  /\ View(u)' = View(u) /\ Own(u)' = Own(u) /\ Removed(u)' = Removed(u)
               /\ Touched(u)' = Touched(u)
               /\ \A n \in Node : Old(u, n)' <=> Old(u, n)
               /\ Consistent(u)' <=> Consistent(u)
               /\ Own(u) \cup Touched(u) \subseteq Node
    <2> DEFINE S == Node
    <2>2. S \in SUBSET Node /\ Live \subseteq S BY LiveNodes
    <2>3. /\ DOMAIN txn[u].writeSet \subseteq Node /\ txn[u].fresh \subseteq Node
          /\ \A n \in DOMAIN txn[u].writeSet : txn[u].writeSet[n].next \in Node \cup {Null}
      BY DEF IInv, Types, ThreadOK, TxnTyped, Txn, WriteSetElement
    <2>4. Touched(u) \subseteq S
      BY <2>3 DEF IInv, Types, ThreadOK, FrameFits, Gone, AtFound, Touched
    <2>5. Gone(u)' = Gone(u) BY <1>1 DEF Gone
    <2>6. /\ View(u)' = View(u) /\ Touched(u)' = Touched(u) /\ Own(u)' = Own(u)
          /\ \A n \in S : (Old(u, n)' <=> Old(u, n))
          /\ Consistent(u)' <=> Consistent(u)
      BY <1>1, <1>2, <1>4, <2>2, <2>3, <2>4, <2>5, SameView
    <2>7. Removed(u)' = Removed(u) BY <1>1, <2>5 DEF Removed
    <2>8. Own(u) \subseteq Node BY <2>3 DEF Own
    <2> QED BY <2>4, <2>6, <2>7, <2>8
  <1> QED BY <1>2, <1>4, <1>5

\* A step that changes nothing.
LEMMA IdleReadInv ==
  ASSUME IInv, IInv', ListInv, KeysPrecedeDefault, ReadInv, UNCHANGED vars
  PROVE  ReadInv'
  <1>1. /\ node' = node /\ alloc' = alloc /\ txn' = txn /\ held' = held /\ pc' = pc
        /\ todo' = todo /\ cur' = cur /\ frame' = frame /\ jobs' = jobs
    BY DEF vars, sharedVars, commitVars
  <1>2. Got' = Got BY <1>1 DEF Got
  <1>3. \A u \in Thread : Hidden(u)' = Hidden(u) BY <1>1 DEF Hidden
  <1>4. ASSUME NEW u \in Thread PROVE GotFixed(u)' /\ Stored(u)' /\ ReadSeen(u)'
    <2>1. GotFixed(u) /\ Stored(u) /\ ReadSeen(u) BY DEF ReadInv
    <2>2. GotFixed(u)' BY <1>1, <1>2, <2>1 DEF GotFixed
    <2>3. Stored(u)' BY <1>1, <2>1 DEF Stored
    <2>4. ReadSeen(u)' BY <1>1, <1>3, <2>1 DEF ReadSeen
    <2> QED BY <2>2, <2>3, <2>4
  <1>5. ASSUME NEW u \in Thread, pc[u] \in Running PROVE ThreadReads(u)'
    <2> DEFINE S == Node
    <2>1. ThreadReads(u) BY <1>5 DEF ReadInv
    <2>2. /\ \A n \in Node : Same(n) /\ SameValue(n)
          /\ Live' = Live
          /\ View(u)' = View(u) /\ Own(u)' = Own(u) /\ Removed(u)' = Removed(u)
          /\ Touched(u)' = Touched(u)
          /\ \A n \in Node : Old(u, n)' <=> Old(u, n)
          /\ Consistent(u)' <=> Consistent(u)
          /\ Own(u) \cup Touched(u) \subseteq Node
      BY IdleSame
    <2>3. Calls(u)' = Calls(u) /\ Job(u)' = Job(u) /\ (Calling(Calls(u)) => Calling(Calls(u))')
      BY <1>1, CallsSame
    <2>4. Effective(u)' = Effective(u)
      BY <1>1, <2>3 DEF Effective, ChangedKeys, ChangedBy, Removing
    <2>5. txn[u].readSet \subseteq Node BY DEF IInv, Types, ThreadOK, TxnTyped, Txn
    <2>6. /\ DecidedMap' = DecidedMap
          /\ Consistent(u) => ViewMap(u)' = ViewMap(u)
          /\ EffectOK(u) => EffectOK(u)'
          /\ LocksOK(u) => LocksOK(u)'
          /\ AllOld(u)' => AllOld(u)
          /\ ReadsOK(u) => ReadsOK(u)'
      <3>1. S \in SUBSET Node /\ Live \subseteq S BY LiveNodes
      <3> QED BY <3>1, <1>1, <1>2, <1>5, <2>2, <2>3, <2>4, <2>5, SameReads
    <2>7. RoutineOK(u) => RoutineOK(u)' BY <1>1, <1>2, <2>3 DEF RoutineOK
    <2>8. PlaceClear(u) => PlaceClear(u)'
      <3>1. \A n : Clear(u, n) => Clear(u, n)'
        BY <1>1 DEF Clear, Settled, Pending, InWriteSet
      <3> QED BY <1>1, <3>1 DEF PlaceClear, Between, Removing
    <2>9. ResultsOK(u) => ResultsOK(u)'
      <3>1. SUFFICES ASSUME ResultsOK(u), AllOld(u)'
            PROVE  IF Removing(u)
                   THEN /\ ViewMap(u)'[frame[u].op.key] = Null
                        /\ Replays(Calls(u)', DecidedMap',
                              [ViewMap(u)' EXCEPT ![frame[u].op.key] = GetUpdatedValue(u, frame[u].succ)])
                   ELSE Replays(Calls(u)', DecidedMap', ViewMap(u)')
        <4>1. GetUpdatedValue(u, frame[u].succ)' = GetUpdatedValue(u, frame[u].succ)
          BY <1>1 DEF GetUpdatedValue, InWriteSet
        <4>2. Removing(u)' <=> Removing(u) BY <1>1 DEF Removing
        <4>3. frame'[u] = frame[u] BY <1>1
        <4>4. ResultsOK(u)' <=> (AllOld(u)' =>
                IF Removing(u)'
                THEN /\ ViewMap(u)'[frame'[u].op.key] = Null
                     /\ Replays(Calls(u)', DecidedMap',
                            [ViewMap(u)' EXCEPT ![frame'[u].op.key] = GetUpdatedValue(u, frame[u].succ)'])
                ELSE Replays(Calls(u)', DecidedMap', ViewMap(u)'))
          BY DEF ResultsOK, Replays, Steps, GetUpdatedValue, InWriteSet
        <4> QED BY <3>1, <4>1, <4>2, <4>3, <4>4
      <3>2. AllOld(u) /\ Consistent(u) BY <2>6, <3>1 DEF AllOld
      <3>3. Calls(u)' = Calls(u) /\ DecidedMap' = DecidedMap /\ ViewMap(u)' = ViewMap(u)
        BY <2>3, <2>6, <3>2
      <3> QED BY <3>1, <3>2, <3>3 DEF ResultsOK
    <2> QED BY <1>1, <2>1, <2>6, <2>7, <2>8, <2>9 DEF ThreadReads, RunningOK
  <1> QED BY <1>1, <1>4, <1>5 DEF ReadInv

\* In every reachable state a transaction that has read nothing outdated has returned
\* what it should have.
THEOREM ReadInvariance ==
  ASSUME OnlyTransactions, KeysPrecedeDefault
  PROVE  Spec /\ CopiesCurrent /\ GotUnchanged => [](IInv /\ ListInv /\ ReadInv)
  <1>1. Spec /\ CopiesCurrent => [](IInv /\ ListInv) BY ListInvariance
  <1>2. Init => ReadInv BY InitReads
  <1>3. ASSUME IInv, IInv', ListInv, ListInv', ReadInv, [Next]_vars,
               [\A t \in Thread : InsertExisting(t) => frame[t].op.key \notin Got]_vars
        PROVE  ReadInv'
    <2>1. CASE UNCHANGED vars BY <1>3, <2>1, IdleReadInv
    <2>2. CASE ~UNCHANGED vars
      <3>1. PICK t \in Thread : Step(t) BY <1>3, <2>2 DEF Next, Finished
      <3>2. TransactionStep(t) BY <1>3, <3>1, OnlyTransactionSteps
      <3>3. InsertExisting(t) => frame[t].op.key \notin Got BY <1>3, <2>2
      <3> QED BY <1>3, <3>2, <3>3, StepReadInv
    <2> QED BY <2>1, <2>2
  <1> QED BY <1>1, <1>2, <1>3, PTL DEF Spec, GotUnchanged

\* Calls that return what they should, when they are replayed.
LEMMA ReplayIs ==
  ASSUME NEW c, Calling(c), NEW f, NEW m, Replays(c, f, m)
  PROVE  Replay([map |-> f, ok |-> TRUE], c) = [map |-> m, ok |-> TRUE]
  <1>1. PICK g : Steps(c, g) /\ g[0] = f /\ g[Len(c)] = m BY DEF Replays
  <1>2. PICK h : h = Len(c) /\ h \in Nat BY DEF Calling
  <1>3. /\ g \in [0 .. h -> Map]
        /\ \A i \in 1 .. h : g[i] = Effect(g[i - 1], c[i].op) /\ ResultOf(g[i - 1], c[i].op) = c[i].result
    BY <1>1, <1>2 DEF Steps
  <1> DEFINE first == [map |-> f, ok |-> TRUE]
             Is(s) == s = [i \in 0 .. Len(c) |->
                        IF i = 0 THEN first
                        ELSE [map |-> Effect(s[i - 1].map, c[i].op),
                              ok |-> s[i - 1].ok /\ ResultOf(s[i - 1].map, c[i].op) = c[i].result]]
             r == [i \in 0 .. h |-> [map |-> g[i], ok |-> TRUE]]
             s0 == CHOOSE s : Is(s)
  <1>4. Replay(first, c) = s0[Len(c)] BY DEF Replay
  <1>5. ASSUME NEW i \in 1 .. h, NEW s, s[i - 1] = [map |-> g[i - 1], ok |-> TRUE]
        PROVE  [map |-> Effect(s[i - 1].map, c[i].op),
                ok |-> s[i - 1].ok /\ ResultOf(s[i - 1].map, c[i].op) = c[i].result]
                  = [map |-> g[i], ok |-> TRUE]
    <2>1. s[i - 1].map = g[i - 1] /\ s[i - 1].ok = TRUE BY <1>5
    <2>2. (s[i - 1].ok /\ ResultOf(s[i - 1].map, c[i].op) = c[i].result) = TRUE
      BY <1>3, <2>1
    <2>3. Effect(s[i - 1].map, c[i].op) = g[i] BY <1>3, <2>1
    <2> QED BY <2>2, <2>3
  <1>6. Is(r)
    <2>1. \A i \in 1 .. h : i - 1 \in 0 .. h /\ r[i - 1] = [map |-> g[i - 1], ok |-> TRUE] BY <1>2
    <2>2. \A i \in 0 .. h : r[i] = [map |-> g[i], ok |-> TRUE] OBVIOUS
    <2>3. r[0] = first
      <3>1. 0 \in 0 .. h BY <1>2
      <3>2. r[0] = [map |-> g[0], ok |-> TRUE] BY <3>1
      <3> QED BY <1>1, <3>2
    <2>4. \A i \in 0 .. h : i = 0 \/ i \in 1 .. h BY <1>2
    <2>5. r = [i \in 0 .. h |-> r[i]] OBVIOUS
    <2> HIDE DEF r, first
    <2>6. ASSUME NEW i \in 0 .. h
          PROVE  r[i] = IF i = 0 THEN first
                        ELSE [map |-> Effect(r[i - 1].map, c[i].op),
                              ok |-> r[i - 1].ok /\ ResultOf(r[i - 1].map, c[i].op) = c[i].result]
      <3>1. CASE i = 0 BY <2>3, <3>1
      <3>2. CASE i # 0
        <4>1. i \in 1 .. h BY <2>4, <3>2
        <4>2. [map |-> Effect(r[i - 1].map, c[i].op),
               ok |-> r[i - 1].ok /\ ResultOf(r[i - 1].map, c[i].op) = c[i].result]
                  = [map |-> g[i], ok |-> TRUE]
          BY <1>5, <2>1, <4>1
        <4> QED BY <2>2, <3>2, <4>2
      <3> QED BY <3>1, <3>2
    <2> QED BY <1>2, <2>5, <2>6
  <1>7. Is(s0)
    <2> HIDE DEF Is, r
    <2> QED BY <1>6
  <1>8. PICK s : s = s0 OBVIOUS
  <1>9. \A i \in 0 .. h :
          s[i] = IF i = 0 THEN first
                 ELSE [map |-> Effect(s[i - 1].map, c[i].op),
                       ok |-> s[i - 1].ok /\ ResultOf(s[i - 1].map, c[i].op) = c[i].result]
    <2> HIDE DEF s0, first
    <2>1. Is(s) BY <1>7, <1>8
    <2> QED BY <1>2, <2>1
  <1> DEFINE S == {i \in Nat : i <= h => s[i] = [map |-> g[i], ok |-> TRUE]}
  <1>10. 0 \in S
    <2>1. 0 \in 0 .. h BY <1>2
    <2>2. s[0] = first
      <3> HIDE DEF first
      <3> QED BY <1>9, <2>1
    <2> QED BY <1>1, <2>2
  <1>11. ASSUME NEW i \in Nat, i \in S PROVE i + 1 \in S
    <2>1. SUFFICES ASSUME i + 1 <= h PROVE s[i + 1] = [map |-> g[i + 1], ok |-> TRUE] OBVIOUS
    <2>2. PICK j : j = i + 1 /\ j - 1 = i OBVIOUS
    <2>3. j \in 1 .. h /\ j \in 0 .. h /\ j # 0 BY <1>2, <2>1, <2>2
    <2>4. s[j - 1] = [map |-> g[j - 1], ok |-> TRUE] BY <1>2, <1>11, <2>1, <2>2
    <2> HIDE DEF first
    <2>5. s[j] = [map |-> Effect(s[j - 1].map, c[j].op),
                  ok |-> s[j - 1].ok /\ ResultOf(s[j - 1].map, c[j].op) = c[j].result]
      BY <1>9, <2>3
    <2>6. [map |-> Effect(s[j - 1].map, c[j].op),
           ok |-> s[j - 1].ok /\ ResultOf(s[j - 1].map, c[j].op) = c[j].result]
             = [map |-> g[j], ok |-> TRUE]
      BY <1>5, <2>3, <2>4
    <2> QED BY <2>2, <2>5, <2>6
  <1>12. Nat \subseteq S
    <2> HIDE DEF S
    <2> QED BY <1>10, <1>11, NatSets
  <1>13. s[h] = [map |-> g[h], ok |-> TRUE] BY <1>2, <1>12
  <1> QED BY <1>1, <1>2, <1>4, <1>8, <1>13

\* What the invariant says of the calls, as they are replayed.
LEMMA ReadsReplayed ==
  ASSUME IInv, ReadInv
  PROVE  CallsReplayable
  <1>1. SUFFICES ASSUME NEW t \in Thread, pc[t] \in Running \ Validating, AllOld(t), ~Removing(t)
                 PROVE  Replay([map |-> DecidedMap, ok |-> TRUE], Calls(t)) = [map |-> ViewMap(t), ok |-> TRUE]
    BY DEF CallsReplayable
  <1>2. RoutineOK(t) /\ ThreadReads(t) BY <1>1, InRoutine
  <1>3. Calling(Calls(t)) BY <1>2 DEF RoutineOK
  <1>4. ResultsOK(t) BY <1>1, <1>2 DEF ThreadReads
  <1>5. Replays(Calls(t), DecidedMap, ViewMap(t)) BY <1>1, <1>4 DEF ResultsOK
  <1> QED BY <1>3, <1>5, ReplayIs

\* In every reachable state, a running transaction that has read nothing outdated has
\* returned what its calls return one after the other on the decided map, and its list
\* holds what they leave.
THEOREM CallsAreReplayable ==
  ASSUME OnlyTransactions, KeysPrecedeDefault
  PROVE  Spec /\ CopiesCurrent /\ GotUnchanged => []CallsReplayable
  <1>1. IInv /\ ReadInv => CallsReplayable BY ReadsReplayed
  <1> QED BY <1>1, ReadInvariance, PTL

-----------------------------------------------------------------------------
(* Transactions that are validating. *)

\* One that may still pass sees a list.
LEMMA PassingConsistent ==
  ASSUME IInv, ListInv, NEW t \in Thread, pc[t] \in Validating
  PROVE  /\ pc[t] \in Running /\ Gone(t) = {} /\ ~Removing(t)
         /\ DOMAIN txn[t].writeSet = held[t] /\ Touched(t) = held[t]
         /\ Passing(t) => Consistent(t)
  <1>1. pc[t] \in Running BY DEF Running
  <1>2. Gone(t) = {} /\ ~Removing(t) BY DEF Gone, Removing, Validating
  <1>3. DOMAIN txn[t].writeSet = held[t] BY DEF IInv, Ownership, HoldsOK
  <1>4. Touched(t) = held[t] BY <1>2, <1>3 DEF Touched
  <1>5. ASSUME Passing(t), NEW n \in held[t] PROVE Old(t, n)
    <2>1. /\ n \in txn[t].readSet /\ (n \in todo[t] \/ Old(t, n))
          /\ pc[t] \in {"validateEqual", "validateSingleton", "validateRelocked"} /\ n = cur[t]
                => Old(t, n)
      BY <1>1, <1>3, <1>5 DEF ListInv, ThreadShape, Checked
    <2>2. CanPass(t, n) BY <1>5, <2>1 DEF Passing
    <2>3. lock[n].version <= txn[t].readVersion => Old(t, n)
      BY <1>3, <1>5, HeldUndecided DEF Old, DecidedVersion
    <2> QED BY <2>1, <2>2, <2>3 DEF CanPass
  <1> QED BY <1>1, <1>2, <1>3, <1>4, <1>5 DEF Consistent

\* Who may still pass the validation sees a list.
PassersConsistent == \A t \in Thread : pc[t] \in Validating /\ Passing(t) => Consistent(t)
\* In every state of the invariants.
LEMMA PassersSee == IInv /\ ListInv => PassersConsistent
  BY PassingConsistent DEF PassersConsistent

\* What it takes for a transaction to fit after a step.
LEMMA FitsThen ==
  ASSUME NEW t \in Thread, NEW q, NEW order, NEW maps, q \in 0 .. Len(hist'),
         \A i \in q + 1 .. Len(hist') : order[i] \notin since'[t],
         Passing(t)' =>
            /\ Replays(Calls(t)', maps[q], Over(maps[q], ViewMap(t)', Calls(t)'))
            /\ \A i \in q + 1 .. Len(hist') :
                  Indifferent(hist'[order[i]].calls, Calls(t)', DecidedMap', ViewMap(t)')
  PROVE  Fits(t, q, order, maps)'
  BY DEF Fits, Replays, Steps, Over, Indifferent, ChangedKeys, ChangedBy, CalledKeys, KeysOf, KeysWith

\* What it takes for t to hinder u after a step.
LEMMA HindersThen ==
  ASSUME NEW t \in Thread, NEW u \in Thread,
         \A n \in held'[t] :
            /\ n \in txn'[u].readSet => n \in todo'[u] /\ (n = cur'[u] => pc'[u] = "validate")
            /\ Passing(u)' =>
                  /\ \A k \in CalledKeys(Calls(u)') : Precedes(n, k)' => n \in txn'[u].readSet
                  /\ n \in Live' /\ node'[n].key \in KeysWith(Calls(u)', {"Remove"})
                        => n \in txn'[u].readSet
  PROVE  Hinders(t, u)'
  BY DEF Hinders, CalledKeys, KeysOf, KeysWith

\* The step keeps what t is to validate and whether it may pass.
Continues(t) ==
    /\ pc[t] \in Validating /\ held'[t] = held[t] /\ txn'[t].readSet = txn[t].readSet
    /\ Calls(t)' = Calls(t)
    /\ Passing(t)' => Passing(t) /\ ViewMap(t)' = ViewMap(t)
    /\ \A u \in Thread \ {t} : \A n \in held[u] :
          n \in todo[t] /\ (n = cur[t] => pc[t] = "validate") =>
              n \in todo'[t] /\ (n = cur'[t] => pc'[t] = "validate")

\* A transaction keeps its place when nothing is decided and it only loses hope,
LEMMA FitsOn ==
  ASSUME NEW t \in Thread, NEW q, NEW order, NEW maps, Fits(t, q, order, maps), Continues(t),
         hist' = hist, since'[t] = since[t], DecidedMap' = DecidedMap
  PROVE  Fits(t, q, order, maps)'
  <1>1. PICK c, d : c = Calls(t) /\ d = DecidedMap OBVIOUS
  <1>2. Calls(t)' = c /\ DecidedMap' = d BY <1>1 DEF Continues
  <1>3. q \in 0 .. Len(hist') /\ \A i \in q + 1 .. Len(hist') : order[i] \notin since'[t]
    BY DEF Fits
  <1>4. ASSUME Passing(t)'
        PROVE  /\ Replays(Calls(t)', maps[q], Over(maps[q], ViewMap(t)', Calls(t)'))
               /\ \A i \in q + 1 .. Len(hist') :
                     Indifferent(hist'[order[i]].calls, Calls(t)', DecidedMap', ViewMap(t)')
    <2>1. PICK v : v = ViewMap(t) OBVIOUS
    <2>2. Passing(t) /\ ViewMap(t)' = v BY <1>4, <2>1 DEF Continues
    <2>3. /\ Replays(c, maps[q], Over(maps[q], v, c))
          /\ \A i \in q + 1 .. Len(hist) : Indifferent(hist[order[i]].calls, c, d, v)
      BY <1>1, <2>1, <2>2 DEF Fits
    <2> QED BY <1>2, <2>2, <2>3
  <1> QED BY <1>3, <1>4, FitsThen

\* and goes on to hinder the same others.
LEMMA HindersOn ==
  ASSUME NEW t \in Thread, NEW u \in Thread \ {t}, Hinders(t, u), held'[t] = held[t], Continues(u),
         \A n \in held[t] : /\ \A k \in CalledKeys(Calls(u)) : Precedes(n, k)' => Precedes(n, k)
                            /\ n \in Live' => n \in Live /\ node'[n].key = node[n].key
  PROVE  Hinders(t, u)'
  <1>1. PICK c : c = Calls(u) OBVIOUS
  <1>2. Calls(u)' = c /\ txn'[u].readSet = txn[u].readSet BY <1>1 DEF Continues
  <1>3. ASSUME NEW n \in held'[t]
        PROVE  /\ n \in txn'[u].readSet => n \in todo'[u] /\ (n = cur'[u] => pc'[u] = "validate")
               /\ Passing(u)' =>
                     /\ \A k \in CalledKeys(Calls(u)') : Precedes(n, k)' => n \in txn'[u].readSet
                     /\ n \in Live' /\ node'[n].key \in KeysWith(Calls(u)', {"Remove"})
                           => n \in txn'[u].readSet
    <2>1. n \in held[t] /\ t \in Thread \ {u} BY <1>3
    <2>2. n \in txn[u].readSet => n \in todo[u] /\ (n = cur[u] => pc[u] = "validate")
      BY <2>1 DEF Hinders
    <2>3. n \in txn'[u].readSet => n \in todo'[u] /\ (n = cur'[u] => pc'[u] = "validate")
      BY <1>2, <2>1, <2>2 DEF Continues
    <2>4. ASSUME Passing(u)'
          PROVE  /\ \A k \in CalledKeys(c) : Precedes(n, k)' => n \in txn'[u].readSet
                 /\ n \in Live' /\ node'[n].key \in KeysWith(c, {"Remove"}) => n \in txn'[u].readSet
      <3>1. Passing(u) BY <2>4 DEF Continues
      <3>2. /\ \A k \in CalledKeys(c) : Precedes(n, k) => n \in txn[u].readSet
            /\ n \in Live /\ node[n].key \in KeysWith(c, {"Remove"}) => n \in txn[u].readSet
        BY <1>1, <2>1, <3>1 DEF Hinders
      <3>3. \A k \in CalledKeys(c) : Precedes(n, k)' => Precedes(n, k) BY <1>1, <2>1
      <3> QED BY <1>2, <2>1, <3>2, <3>3
    <2> QED BY <1>2, <2>3, <2>4
  <1> QED BY <1>3, HindersThen

-----------------------------------------------------------------------------
(* The invariant of the serial order, step by step. *)

\* An order after a step, by the values it has then.
LEMMA OrderedThen ==
  ASSUME NEW order, NEW maps, NEW h, h = Len(hist'),
         order \in [1 .. h -> 1 .. h], \A i, j \in 1 .. h : order[i] = order[j] => i = j,
         \A i, j \in 1 .. h : i < j => order[j] \notin hist'[order[i]].after,
         maps \in [0 .. h -> Map], maps[0] = initial', maps[h] = DecidedMap',
         \A i \in 1 .. h : Replays(hist'[order[i]].calls, maps[i - 1], maps[i])
  PROVE  Ordered(order, maps)'
  BY DEF Ordered, Replays, Steps

\* The invariant after a step, by those values.
LEMMA SerialThen ==
  ASSUME NEW order, NEW maps, NEW place, NEW rank, NEW top \in Nat, HistoryOK', Ordered(order, maps)',
         place \in [Thread -> Nat], rank \in [Thread -> 0 .. top],
         \A t \in Thread : pc'[t] \in Validating => Fits(t, place[t], order, maps)',
         \A t, u \in Thread : pc'[t] \in Validating /\ pc'[u] \in Validating /\ t # u =>
            /\ rank[t] # rank[u]
            /\ rank[t] < rank[u] => place[t] <= place[u] /\ Hinders(t, u)'
  PROVE  SerialInv'
  <1>1. Queued(place, rank)' BY DEF Queued
  <1>2. ASSUME NEW t \in Thread, pc'[t] \in Validating PROVE Fits(t, place[t], order, maps)'
    BY <1>2
  <1>3. SerialOrder(order, maps, place, rank, top)' BY <1>1, <1>2 DEF SerialOrder
  <1> QED BY <1>3 DEF SerialInv

\* The step leaves what has been decided, and lets the others go on.
LEMMA OrderedOn ==
  ASSUME NEW order, NEW maps, Ordered(order, maps), hist' = hist, initial' = initial,
         DecidedMap' = DecidedMap
  PROVE  Ordered(order, maps)'
  <1>1. PICK h : h = Len(hist) OBVIOUS
  <1>2. h = Len(hist') BY <1>1
  <1>3. /\ order \in [1 .. h -> 1 .. h] /\ \A i, j \in 1 .. h : order[i] = order[j] => i = j
        /\ maps \in [0 .. h -> Map] /\ maps[0] = initial' /\ maps[h] = DecidedMap'
    BY <1>1 DEF Ordered
  <1>4. \A i, j \in 1 .. h : i < j => order[j] \notin hist'[order[i]].after BY <1>1 DEF Ordered
  <1>5. \A i \in 1 .. h : Replays(hist'[order[i]].calls, maps[i - 1], maps[i]) BY <1>1 DEF Ordered
  <1>6. /\ h = Len(hist')
        /\ order \in [1 .. h -> 1 .. h]
        /\ \A i, j \in 1 .. h : order[i] = order[j] => i = j
        /\ \A i, j \in 1 .. h : i < j => order[j] \notin hist'[order[i]].after
        /\ maps \in [0 .. h -> Map]
        /\ maps[0] = initial'
        /\ maps[h] = DecidedMap'
        /\ \A i \in 1 .. h : Replays(hist'[order[i]].calls, maps[i - 1], maps[i])
    BY <1>2, <1>3, <1>4, <1>5
  <1> QED BY ONLY <1>6, OrderedThen

\* Everybody who validates after the step did so before.
LEMMA ContinueSerial ==
  ASSUME SerialInv, HistoryOK', hist' = hist, initial' = initial, DecidedMap' = DecidedMap,
         Live' = Live, \A n \in Live : node'[n].key = node[n].key,
         \A n, k : Precedes(n, k)' <=> Precedes(n, k),
         \A w \in Thread : pc'[w] \in Validating => Continues(w) /\ since'[w] = since[w]
  PROVE  SerialInv'
  <1>1. PICK order, maps, place, rank, top : SerialOrder(order, maps, place, rank, top) BY DEF SerialInv
  <1>2. Ordered(order, maps)' BY <1>1, OrderedOn DEF SerialOrder
  <1>3. ASSUME NEW w \in Thread, pc'[w] \in Validating
        PROVE  pc[w] \in Validating /\ Continues(w) /\ Fits(w, place[w], order, maps)'
    <2>1. Continues(w) /\ since'[w] = since[w] BY <1>3
    <2>2. pc[w] \in Validating BY <2>1 DEF Continues
    <2>3. Fits(w, place[w], order, maps) BY <1>1, <2>2 DEF SerialOrder
    <2> QED BY <2>1, <2>2, <2>3, FitsOn
  <1>4. ASSUME NEW t \in Thread, NEW u \in Thread, pc'[t] \in Validating, pc'[u] \in Validating, t # u
        PROVE  /\ rank[t] # rank[u]
               /\ rank[t] < rank[u] => place[t] <= place[u] /\ Hinders(t, u)'
    <2>1. pc[t] \in Validating /\ pc[u] \in Validating /\ Continues(t) /\ Continues(u) BY <1>3, <1>4
    <2>2. /\ rank[t] # rank[u]
          /\ rank[t] < rank[u] => place[t] <= place[u] /\ Hinders(t, u)
      BY <1>1, <1>4, <2>1 DEF SerialOrder, Queued
    <2>3. held'[t] = held[t] /\ u \in Thread \ {t} BY <1>4, <2>1 DEF Continues
    <2>4. Hinders(t, u) => Hinders(t, u)' BY <2>1, <2>3, HindersOn
    <2> QED BY <2>2, <2>4
  <1>5. place \in [Thread -> Nat] /\ top \in Nat /\ rank \in [Thread -> 0 .. top] BY <1>1 DEF SerialOrder
  <1> QED BY <1>2, <1>3, <1>4, <1>5, SerialThen

\* Thread t begins to validate: it is the last in the queue.
LEMMA EnterSerial ==
  ASSUME SerialInv, HistoryOK', hist' = hist, initial' = initial, DecidedMap' = DecidedMap,
         Live' = Live, \A n \in Live : node'[n].key = node[n].key,
         \A n, k : Precedes(n, k)' <=> Precedes(n, k),
         NEW t \in Thread, pc[t] \notin Validating,
         \A w \in Thread \ {t} : pc'[w] \in Validating => Continues(w) /\ since'[w] = since[w],
         Passing(t)' => Replays(Calls(t)', DecidedMap', Over(DecidedMap', ViewMap(t)', Calls(t)')),
         \A w \in Thread \ {t} : Hinders(w, t)'
  PROVE  SerialInv'
  <1>1. PICK order, maps, place, rank, top : SerialOrder(order, maps, place, rank, top) BY DEF SerialInv
  <1>2. Ordered(order, maps)' BY <1>1, OrderedOn DEF SerialOrder
  <1>3. PICK h \in Nat : h = Len(hist) BY DEF SerialInv, HistoryOK, IsSeq
  <1>4. PICK place2, rank2 : /\ place2 = [place EXCEPT ![t] = h] /\ rank2 = [rank EXCEPT ![t] = top + 1]
    OBVIOUS
  <1>5. /\ place \in [Thread -> Nat] /\ top \in Nat /\ rank \in [Thread -> 0 .. top]
        /\ place2 \in [Thread -> Nat] /\ top + 1 \in Nat /\ rank2 \in [Thread -> 0 .. top + 1]
        /\ place2[t] = h /\ rank2[t] = top + 1
        /\ \A w \in Thread \ {t} : place2[w] = place[w] /\ rank2[w] = rank[w]
    BY <1>1, <1>3, <1>4 DEF SerialOrder
  <1>6. ASSUME NEW w \in Thread \ {t}, pc'[w] \in Validating
        PROVE  /\ pc[w] \in Validating /\ Continues(w) /\ Fits(w, place2[w], order, maps)'
               /\ place2[w] <= h
    <2>1. Continues(w) /\ since'[w] = since[w] BY <1>6
    <2>2. pc[w] \in Validating BY <2>1 DEF Continues
    <2>3. Fits(w, place[w], order, maps) BY <1>1, <2>2 DEF SerialOrder
    <2>4. place[w] \in 0 .. h BY <1>3, <2>3 DEF Fits
    <2> QED BY <1>5, <2>1, <2>2, <2>3, <2>4, FitsOn
  <1>7. Fits(t, place2[t], order, maps)'
    <2>1. h \in 0 .. Len(hist') /\ \A i \in h + 1 .. Len(hist') : FALSE BY <1>3
    <2>2. maps[h] = DecidedMap' BY <1>1, <1>3 DEF SerialOrder, Ordered
    <2>3. ASSUME Passing(t)'
          PROVE  /\ Replays(Calls(t)', maps[h], Over(maps[h], ViewMap(t)', Calls(t)'))
                 /\ \A i \in h + 1 .. Len(hist') :
                       Indifferent(hist'[order[i]].calls, Calls(t)', DecidedMap', ViewMap(t)')
      BY <2>1, <2>2, <2>3
    <2>4. \A i \in h + 1 .. Len(hist') : order[i] \notin since'[t] BY <2>1
    <2>5. Fits(t, h, order, maps)' BY <2>1, <2>3, <2>4, FitsThen
    <2> QED BY <1>5, <2>5
  <1>8. ASSUME NEW w \in Thread, pc'[w] \in Validating PROVE Fits(w, place2[w], order, maps)'
    BY <1>6, <1>7, <1>8
  <1>9. ASSUME NEW v \in Thread, NEW w \in Thread, pc'[v] \in Validating, pc'[w] \in Validating, v # w
        PROVE  /\ rank2[v] # rank2[w]
               /\ rank2[v] < rank2[w] => place2[v] <= place2[w] /\ Hinders(v, w)'
    <2>1. CASE w = t
      <3>1. v \in Thread \ {t} BY <1>9, <2>1
      <3> QED BY <1>5, <1>6, <1>9, <2>1, <3>1
    <2>2. CASE v = t
      <3>1. w \in Thread \ {t} BY <1>9, <2>2
      <3> QED BY <1>5, <2>2, <3>1
    <2>3. CASE v # t /\ w # t
      <3>1. pc[v] \in Validating /\ pc[w] \in Validating /\ Continues(v) /\ Continues(w)
        BY <1>6, <1>9, <2>3
      <3>2. /\ rank[v] # rank[w]
            /\ rank[v] < rank[w] => place[v] <= place[w] /\ Hinders(v, w)
        BY <1>1, <1>9, <3>1 DEF SerialOrder, Queued
      <3>3. held'[v] = held[v] /\ w \in Thread \ {v} BY <1>9, <3>1 DEF Continues
      <3>4. Hinders(v, w) => Hinders(v, w)' BY <3>1, <3>3, HindersOn
      <3> QED BY <1>5, <2>3, <3>2, <3>4
    <2> QED BY <2>1, <2>2, <2>3
  <1> QED BY <1>2, <1>5, <1>8, <1>9, SerialThen

\* A step that decides nothing leaves the history.
LEMMA StepHistory ==
  ASSUME IInv, HistoryOK, NEW t \in Thread, TransactionStep(t), ~PassValidation(t)
  PROVE  /\ HistoryOK' /\ hist' = hist /\ initial' = initial
         /\ \A w \in Thread \ {t} : since'[w] = since[w] /\ jobs'[w] = jobs[w]
  <1>1. /\ IsSeq(hist) /\ ended \subseteq 1 .. Len(hist)
        /\ \A i \in 1 .. Len(hist) : hist[i].after \subseteq 1 .. Len(hist) /\ Calling(hist[i].calls)
        /\ DOMAIN since = Thread /\ \A u \in Thread : since[u] \subseteq 1 .. Len(hist)
        /\ DOMAIN hist = 1 .. Len(hist)
    BY DEF HistoryOK, IsSeq
  <1>2. CASE UNCHANGED <<jobs, historyVars>>
    BY <1>1, <1>2 DEF historyVars, HistoryOK, IsSeq, Calling
  <1>3. CASE Begin(t)
    <2>1. since' = [since EXCEPT ![t] = ended] /\ UNCHANGED <<jobs, initial, hist, ended>>
      BY <1>3 DEF Begin
    <2> QED BY <1>1, <2>1 DEF HistoryOK, IsSeq, Calling
  <1>4. CASE Succeed(t)
    <2>1. /\ ended' = ended \cup {i \in DOMAIN hist : hist[i].thread = t}
          /\ since' = [since EXCEPT ![t] = {}] /\ UNCHANGED <<initial, hist>>
          /\ jobs' = [jobs EXCEPT ![t] = Tail(@)]
      BY <1>4 DEF Succeed
    <2>2. ended' \subseteq 1 .. Len(hist) BY <1>1, <2>1
    <2>3. \A w \in Thread \ {t} : jobs'[w] = jobs[w] BY <2>1 DEF IInv, Types
    <2> QED BY <1>1, <2>1, <2>2, <2>3 DEF HistoryOK, IsSeq, Calling
  <1>5. CASE Fail(t)
    <2>1. /\ since' = [since EXCEPT ![t] = {}] /\ UNCHANGED <<initial, hist, ended>>
          /\ jobs' = jobs \/ jobs' = [jobs EXCEPT ![t] = Tail(@)]
      BY <1>5 DEF Fail
    <2>3. \A w \in Thread \ {t} : jobs'[w] = jobs[w] BY <2>1 DEF IInv, Types
    <2> QED BY <1>1, <2>1, <2>3 DEF HistoryOK, IsSeq, Calling
  <1> QED BY <1>2, <1>3, <1>4, <1>5 DEF TransactionStep, Execute, Commit, historyVars

\* The steps after which t is validating.
LEMMA ValidatingStep ==
  ASSUME IInv, NEW t \in Thread, TransactionStep(t), pc'[t] \in Validating
  PROVE  /\ UNCHANGED <<frame, jobs, historyVars>>
         /\ ValidateReadSet(t) \/ ValidateNode(t) \/ ValidateVersion(t)
            \/ ValidateEqual(t) \/ ValidateSingleton(t) \/ ValidateRelocked(t)
  <1>1. DOMAIN pc = Thread BY DEF IInv, Types
  <1>2. ~(Begin(t) \/ Execute(t) \/ Commit(t) \/ PassValidation(t) \/ Succeed(t) \/ Fail(t))
    BY <1>1 DEF Begin, Execute, Commit, PassValidation, Succeed, Fail, LocalTxnPrologue, CallOperation,
           LockWriteSet, IncrementWriteVersion, LocalTxnCleanup, Rollback, Cleanup, Goto, Validating
  <1>3. ~(FindPrevious(t) \/ PredecessorVersion(t) \/ PredecessorDeleted(t)
          \/ SuccessorLocked(t) \/ SuccessorVersion(t) \/ SuccessorNext(t))
    BY <1>1 DEF FindPrevious, PredecessorVersion, PredecessorDeleted, SuccessorLocked, SuccessorVersion,
           SuccessorNext, GotSuccessor, Traversed, Goto, Validating
  <1>4. ~(Contains(t) \/ Get(t) \/ RemoveNothing(t) \/ RemoveFound(t) \/ RemovePredecessor(t)
          \/ RemoveSuccessor(t) \/ InsertExisting(t) \/ InsertExistingDeleted(t) \/ InsertNew(t))
    BY <1>1 DEF Contains, Get, RemoveNothing, RemoveFound, RemovePredecessor, RemoveSuccessor,
           InsertExisting, InsertExistingDeleted, InsertNew, Return, Goto, Validating
  <1>5. ~(LockNode(t) \/ WriteNext(t) \/ WriteValue(t) \/ WriteDeleted(t) \/ WriteVersion(t)
          \/ WriteSingleton(t) \/ UpdateWriteSetDone(t) \/ Release(t)
          \/ LazyUpdateIndexAdd(t) \/ LazyUpdateIndexRemove(t))
    BY <1>1 DEF LockNode, WriteNext, WriteValue, WriteDeleted, WriteVersion, WriteSingleton,
           UpdateWriteSetDone, Release, LazyUpdateIndexAdd, LazyUpdateIndexRemove, Abort, Goto, Validating
  <1> QED BY <1>2, <1>3, <1>4, <1>5 DEF TransactionStep

\* A step of t that is not a commit lets the others go on.
LEMMA OthersContinue ==
  ASSUME IInv, IInv', ListInv, KeysPrecedeDefault, ReadInv, NEW t \in Thread, Steady(t),
         TransactionStep(t), NEW w \in Thread \ {t}, jobs'[w] = jobs[w], pc'[w] \in Validating
  PROVE  Continues(w)
  <1>1. PICK S : S = alloc \ Hidden(t) OBVIOUS
  <1>2. Untouched(w, S) BY <1>1, OtherSame
  <1>3. /\ pc'[w] = pc[w] /\ txn'[w] = txn[w] /\ frame'[w] = frame[w]
        /\ held'[w] = held[w] /\ todo'[w] = todo[w] /\ cur'[w] = cur[w]
        /\ \A n \in S : Old(w, n)' <=> Old(w, n)
        /\ pc[w] \in Running /\ Consistent(w) => ViewMap(w)' = ViewMap(w)
    BY <1>2 DEF Untouched
  <1>4. Calls(w)' = Calls(w) BY <1>3 DEF Calls, Job, Results
  <1>5. pc[w] \in Validating BY <1>3
  <1>6. txn[w].readSet \subseteq S BY <1>1 DEF ReadInv, ReadSeen
  <1>7. S \subseteq alloc \cap alloc' BY <1>1 DEF Steady, Silent
  <1>8. ASSUME Passing(w)' PROVE Passing(w) /\ ViewMap(w)' = ViewMap(w)
    <2>1. ASSUME NEW n \in txn[w].readSet PROVE CanPass(w, n)
      <3>1. n \in S /\ n \in alloc \cap alloc' BY <1>6, <1>7, <2>1
      <3>2. lock'[n].version >= lock[n].version BY <3>1, LockAdvance
      <3>3. CanPass(w, n)' BY <1>3, <1>8, <2>1 DEF Passing
      <3>4. Old(w, n)' <=> Old(w, n) BY <1>3, <3>1
      <3>5. /\ lock[n].version \in Int /\ lock'[n].version \in Int /\ txn[w].readVersion \in Int
        <4>1. n \in Node BY <3>1, LiveNodes
        <4> QED BY <4>1 DEF IInv, Types, MemoryOK, Word, ThreadOK, TxnTyped, Txn
      <3>6. CASE n \notin todo'[w] \/ Old(w, n)' BY <1>3, <3>4, <3>6 DEF CanPass
      <3>7. CASE /\ n = cur'[w]
                 /\ \/ pc'[w] = "validateVersion" /\ lock'[n].version <= txn'[w].readVersion
                    \/ pc'[w] \in {"validateEqual", "validateSingleton", "validateRelocked"}
        BY <1>3, <3>2, <3>5, <3>7 DEF CanPass
      <3> QED BY <3>3, <3>6, <3>7 DEF CanPass
    <2>2. Passing(w) BY <2>1 DEF Passing
    <2>3. pc[w] \in Running /\ Consistent(w) BY <1>5, <2>2, PassingConsistent
    <2> QED BY <1>3, <2>2, <2>3
  <1> QED BY <1>3, <1>4, <1>5, <1>8 DEF Continues

\* The steps of ValidateReadSet but for the last.
Validates(t) ==
    \/ ValidateReadSet(t) \/ ValidateNode(t) \/ ValidateVersion(t)
    \/ ValidateEqual(t) \/ ValidateSingleton(t) \/ ValidateRelocked(t)

\* The validation changes nothing that anybody sees.
LEMMA ValidatingSame ==
  ASSUME IInv, IInv', ListInv, KeysPrecedeDefault, NEW t \in Thread, Validates(t), UNCHANGED <<frame, jobs>>
  PROVE  /\ UNCHANGED <<sharedVars, txn, held>> /\ pc[t] \in Running /\ Calls(t)' = Calls(t)
         /\ Quiet(t) /\ Live' = Live /\ \A n \in Node : Old(t, n)' <=> Old(t, n)
         /\ DecidedMap' = DecidedMap /\ \A n, k : Precedes(n, k)' <=> Precedes(n, k)
         /\ Consistent(t) => ViewMap(t)' = ViewMap(t)
  <1>1. /\ pc[t] \in {"lock"} \cup Validating /\ UNCHANGED <<sharedVars, txn, held, saw, frame>>
    BY DEF Validates, ValidateReadSet, ValidateNode, ValidateVersion, ValidateEqual, ValidateSingleton,
           ValidateRelocked, Validating, commitVars
  <1>2. ~lock[cur[t]].singleton /\ cur[t] \in Node BY DEF IInv, Types, MemoryOK, CommitOK
  <1>3. \E label \in {"abort"} \cup Validating : Goto(t, label)
    BY <1>2 DEF Validates, ValidateReadSet, ValidateNode, ValidateVersion, ValidateEqual, ValidateSingleton,
           ValidateRelocked, Abort, Validating
  <1>4. pc'[t] \in {"abort"} \cup Validating /\ Alone(t)
    BY <1>1, <1>3, AloneAt DEF TxnLabel, Holding
  <1>5. \A u \in Thread \ {t} : todo'[u] = todo[u] /\ cur'[u] = cur[u]
    BY DEF Validates, ValidateReadSet, ValidateNode, ValidateVersion, ValidateEqual, ValidateSingleton,
           ValidateRelocked, commitVars, Visit, Visited, IInv, Types, CommitOK
  <1>6. Quiet(t) /\ Hidden(t)' = Hidden(t)
    BY <1>1, <1>4, <1>5 DEF Quiet, sharedVars, Committing, Validating, Hidden
  <1>7. Live' = Live /\ \A n \in Node : Same(n) BY <1>6, QuietSame
  <1>8. \A n \in Node : SameValue(n) BY <1>6, QuietValues
  <1>9. Gone(t)' = Gone(t) BY <1>1, <1>4 DEF Gone, Validating
  <1>10. View(t)' = View(t) /\ \A n \in Node : Old(t, n)' <=> Old(t, n)
    BY <1>1, <1>6, <1>9, QuietView
  <1>11. pc[t] \in Running BY <1>1 DEF Running
  <1>12. Calls(t)' = Calls(t) BY DEF Calls, Job, Results
  <1>13. PICK S \in SUBSET Node : S = Node OBVIOUS
  <1>14. Live \subseteq S /\ \A n \in S : Same(n) /\ SameValue(n) BY <1>7, <1>8, <1>13, LiveNodes
  <1>15. DecidedMap' = DecidedMap /\ \A n, k : Precedes(n, k)' <=> Precedes(n, k)
    BY <1>7, <1>14, SameMap
  <1>16. ASSUME Consistent(t) PROVE ViewMap(t)' = ViewMap(t)
    <2>1. View(t) \subseteq S BY <1>13, ViewNodes
    <2> QED BY <1>1, <1>10, <1>11, <1>14, <1>16, <2>1, SameViewMap
  <1> QED BY <1>1, <1>6, <1>7, <1>10, <1>11, <1>12, <1>15, <1>16

\* One that goes on validating may pass only if it could before.
LEMMA SelfContinues ==
  ASSUME IInv, IInv', ListInv, KeysPrecedeDefault, NEW t \in Thread, Validates(t), UNCHANGED <<frame, jobs>>,
         pc[t] \in Validating, pc'[t] \in Validating
  PROVE  Continues(t)
  <1>1. /\ UNCHANGED <<sharedVars, txn, held>> /\ Calls(t)' = Calls(t)
        /\ \A n \in Node : Old(t, n)' <=> Old(t, n)
        /\ Consistent(t) => ViewMap(t)' = ViewMap(t)
    BY ValidatingSame
  <1>2. lock' = lock /\ txn' = txn /\ held' = held BY <1>1 DEF sharedVars
  <1>3. DOMAIN pc = Thread /\ DOMAIN todo = Thread /\ DOMAIN cur = Thread /\ todo[t] \subseteq Node
    BY DEF IInv, Types, CommitOK
  <1>4. txn[t].readSet \subseteq Node BY DEF IInv, Types, ThreadOK, TxnTyped, Txn
  <1>5. ASSUME NEW u \in Thread \ {t}, NEW n \in held[u]
        PROVE  lock[n].locked /\ ~InWriteSet(t, n)
    <2>1. n \in Node BY DEF IInv, Types, CommitOK
    <2>2. DOMAIN txn[t].writeSet = held[t] BY PassingConsistent
    <2> QED BY <2>1, <2>2 DEF IInv, Ownership, InWriteSet
  \* what is to be shown of the labels
  <1>6. ASSUME \A n \in txn[t].readSet : CanPass(t, n)' => CanPass(t, n),
               \A u \in Thread \ {t} : \A n \in held[u] :
                  n \in todo[t] /\ (n = cur[t] => pc[t] = "validate") =>
                     n \in todo'[t] /\ (n = cur'[t] => pc'[t] = "validate")
        PROVE  Continues(t)
    <2>1. Passing(t)' => Passing(t) BY <1>2, <1>6 DEF Passing
    <2>2. Passing(t) => Consistent(t) BY PassingConsistent
    <2> QED BY <1>1, <1>2, <1>6, <2>1, <2>2 DEF Continues
  <1>7. CASE ValidateReadSet(t) BY <1>7 DEF ValidateReadSet, Validating
  <1>8. CASE ValidateNode(t)
    <2>1. PICK n \in todo[t] : /\ pc[t] = "validate" /\ cur' = [cur EXCEPT ![t] = n]
                               /\ Goto(t, IF LockedByOther(t, n) THEN "abort" ELSE "validateVersion")
                               /\ todo' = todo
      BY <1>8 DEF ValidateNode
    <2>2. ~LockedByOther(t, n) /\ pc'[t] = "validateVersion" /\ cur'[t] = n /\ n \in Node
      BY <1>3, <2>1 DEF Goto, Validating
    <2>3. ~Decided(n)
      <3>1. CASE InWriteSet(t, n) BY <3>1, HeldUndecided DEF InWriteSet
      <3>2. CASE ~InWriteSet(t, n) BY <2>2, <3>2, UnlockedUndecided DEF LockedByOther
      <3> QED BY <3>1, <3>2
    <2>4. lock[n].version <= txn[t].readVersion => Old(t, n) BY <2>3 DEF Old, DecidedVersion
    <2>5. \A m \in txn[t].readSet : CanPass(t, m)' => CanPass(t, m)
      BY <1>1, <1>2, <1>4, <2>1, <2>2, <2>4 DEF CanPass
    <2>6. \A u \in Thread \ {t} : n \notin held[u] BY <1>5, <2>2 DEF LockedByOther
    <2> QED BY <1>6, <2>1, <2>2, <2>5, <2>6
  <1>9. CASE ValidateVersion(t)
    <2>1. /\ pc[t] = "validateVersion" /\ todo' = todo /\ cur' = cur /\ pc'[t] = "validateEqual"
          /\ ~(lock[cur[t]].version > txn[t].readVersion)
      BY <1>3, <1>9 DEF ValidateVersion, Goto, Validating, commitVars
    <2>2. lock[cur[t]].version <= txn[t].readVersion
      BY <1>3, <2>1 DEF IInv, Types, MemoryOK, Word, ThreadOK, TxnTyped, Txn, CommitOK
    <2>3. \A m \in txn[t].readSet : CanPass(t, m)' => CanPass(t, m)
      BY <1>1, <1>2, <1>4, <2>1, <2>2 DEF CanPass
    <2> QED BY <1>6, <2>1, <2>3
  <1>10. CASE ValidateEqual(t) \/ ValidateSingleton(t)
    <2>1. ~lock[cur[t]].singleton BY DEF IInv, Types, MemoryOK, CommitOK
    <2>2. /\ pc[t] \in {"validateEqual", "validateSingleton"} /\ todo' = todo /\ cur' = cur
          /\ pc'[t] \in {"validateSingleton", "validateRelocked"}
      BY <1>3, <1>10, <2>1 DEF ValidateEqual, ValidateSingleton, Goto, commitVars
    <2>3. \A m \in txn[t].readSet : CanPass(t, m)' => CanPass(t, m)
      BY <1>1, <1>2, <1>4, <2>2 DEF CanPass
    <2> QED BY <1>6, <2>2, <2>3
  <1>11. CASE ValidateRelocked(t)
    <2>1. /\ pc[t] = "validateRelocked" /\ cur' = cur /\ pc'[t] = "validate" /\ Visited(t)
      BY <1>3, <1>11 DEF ValidateRelocked, Goto, Abort, Validating
    <2>2. todo'[t] = todo[t] \ {cur[t]} BY <1>3, <2>1 DEF Visited, Visit
    <2>3. \A m \in txn[t].readSet : CanPass(t, m)' => CanPass(t, m)
      BY <1>1, <1>2, <1>4, <2>1, <2>2 DEF CanPass
    <2> QED BY <1>6, <2>1, <2>2, <2>3
  <1> QED BY <1>7, <1>8, <1>9, <1>10, <1>11 DEF Validates

\* One that has locked its write set begins to validate what it has read.
LEMMA EnterReads ==
  ASSUME IInv, IInv', ListInv, KeysPrecedeDefault, ReadInv, NEW t \in Thread, ValidateReadSet(t),
         UNCHANGED <<frame, jobs>>
  PROVE  /\ Passing(t)' => Replays(Calls(t)', DecidedMap', Over(DecidedMap', ViewMap(t)', Calls(t)'))
         /\ \A w \in Thread \ {t} : Hinders(w, t)'
  <1>1. /\ UNCHANGED <<sharedVars, txn, held>> /\ pc[t] \in Running /\ Calls(t)' = Calls(t)
        /\ Quiet(t) /\ Live' = Live /\ \A n \in Node : Old(t, n)' <=> Old(t, n)
        /\ DecidedMap' = DecidedMap /\ \A n, k : Precedes(n, k)' <=> Precedes(n, k)
        /\ Consistent(t) => ViewMap(t)' = ViewMap(t)
    BY ValidatingSame DEF Validates
  <1>2. node' = node /\ txn' = txn /\ held' = held BY <1>1 DEF sharedVars
  <1>3. DOMAIN pc = Thread /\ DOMAIN todo = Thread BY DEF IInv, Types, CommitOK
  <1>4. pc[t] = "lock" /\ pc'[t] = "validate" /\ todo'[t] = txn[t].readSet /\ cur' = cur
    BY <1>3 DEF ValidateReadSet, Goto, Visit
  <1>5. txn[t].readSet \subseteq Node BY DEF IInv, Types, ThreadOK, TxnTyped, Txn
  <1>6. ThreadReads(t) BY <1>1 DEF ReadInv
  <1>7. EffectOK(t) /\ RoutineOK(t) /\ ReadsOK(t) /\ ResultsOK(t) /\ Calling(Calls(t))
    BY <1>4, <1>6 DEF ThreadReads, RunningOK, RoutineOK, Validating
  <1>8. ~Removing(t) /\ Gone(t) = {} BY <1>4 DEF Removing, Gone
  <1>9. ASSUME Passing(t)' PROVE AllOld(t) /\ Consistent(t)
    <2>1. \A n \in txn[t].readSet : Old(t, n)
      BY <1>1, <1>2, <1>4, <1>5, <1>9 DEF Passing, CanPass
    <2>2. DOMAIN txn[t].writeSet \subseteq txn[t].readSet
      BY <1>1 DEF ListInv, ThreadShape, Checked
    <2>3. Consistent(t) BY <1>8, <2>1, <2>2 DEF Consistent, Touched
    <2> QED BY <2>1, <2>3 DEF AllOld
  <1>10. PICK c, d, v : c = Calls(t) /\ d = DecidedMap /\ v = ViewMap(t) OBVIOUS
  <1>11. ASSUME Passing(t)'
         PROVE  Replays(Calls(t)', DecidedMap', Over(DecidedMap', ViewMap(t)', Calls(t)'))
    <2>1. Replays(c, d, v) BY <1>7, <1>8, <1>9, <1>10, <1>11 DEF ResultsOK
    <2>2. Effective(t) = ChangedKeys(c) BY <1>8, <1>10 DEF Effective
    <2>3. \A k \in Key \ ChangedKeys(c) : v[k] = d[k]
      BY <1>1, <1>7, <1>9, <1>10, <1>11, <2>2, ViewElsewhere
    <2>4. v \in Map /\ d \in Map BY <1>10, MapsTyped
    <2>5. Over(d, v, c) = v
      <3>1. PICK o : o = Over(d, v, c) OBVIOUS
      <3>2. \A k \in Key : o[k] = v[k] BY <2>3, <3>1 DEF Over
      <3>3. o = [k \in Key |-> IF k \in ChangedKeys(c) THEN v[k] ELSE d[k]] BY <3>1 DEF Over
      <3>4. o \in Map BY <2>4, <3>3 DEF Map
      <3>5. o = v BY <2>4, <3>2, <3>4 DEF Map
      <3> QED BY <3>1, <3>5
    <2>6. Calls(t)' = c /\ DecidedMap' = d /\ ViewMap(t)' = v BY <1>1, <1>9, <1>10, <1>11
    <2> QED BY <2>1, <2>5, <2>6
  <1>12. ASSUME NEW w \in Thread \ {t} PROVE Hinders(w, t)'
    <2>1. ASSUME NEW n \in held'[w]
          PROVE  /\ n \in txn'[t].readSet => n \in todo'[t] /\ (n = cur'[t] => pc'[t] = "validate")
                 /\ Passing(t)' =>
                       /\ \A k \in CalledKeys(Calls(t)') : Precedes(n, k)' => n \in txn'[t].readSet
                       /\ n \in Live' /\ node'[n].key \in KeysWith(Calls(t)', {"Remove"})
                             => n \in txn'[t].readSet
      <3>1. n \in txn'[t].readSet => n \in todo'[t] /\ (n = cur'[t] => pc'[t] = "validate")
        BY <1>2, <1>4
      <3>2. ASSUME Passing(t)', NEW k \in CalledKeys(c), Precedes(n, k)' PROVE n \in txn[t].readSet
        <4>1. k \in Key BY <1>7, <1>10, <3>2, CallKeys
        <4>2. PICK x \in txn[t].readSet : Precedes(x, k)
          BY <1>7, <1>9, <1>10, <3>2 DEF ReadsOK
        <4>3. Precedes(n, k) BY <1>1, <3>2
        <4> QED BY <4>1, <4>2, <4>3, BeforeUnique
      <3>3. ASSUME Passing(t)', n \in Live', node'[n].key \in KeysWith(c, {"Remove"})
            PROVE  n \in txn[t].readSet
        BY <1>1, <1>2, <1>7, <1>9, <1>10, <3>3 DEF ReadsOK
      <3>4. Calls(t)' = c /\ txn' = txn BY <1>1, <1>2, <1>10
      <3> QED BY <3>1, <3>2, <3>3, <3>4
    <2> QED BY <2>1, HindersThen
  <1> QED BY <1>11, <1>12

\* A step that decides nothing keeps the serial order; who begins to validate is put
\* behind all the others.
LEMMA SteadySerial ==
  ASSUME IInv, IInv', ListInv, KeysPrecedeDefault, ReadInv, SerialInv,
         NEW t \in Thread, TransactionStep(t), ~PassValidation(t), Steady(t)
  PROVE  SerialInv'
  <1>1. /\ HistoryOK' /\ hist' = hist /\ initial' = initial
        /\ \A w \in Thread \ {t} : since'[w] = since[w] /\ jobs'[w] = jobs[w]
    BY StepHistory DEF SerialInv
  <1>2. PICK S : S = alloc \ Hidden(t) OBVIOUS
  <1>3. Live \subseteq S /\ S \in SUBSET Node /\ \A n \in S : Same(n) /\ SameValue(n)
    BY <1>2, LiveNodes DEF Steady, Silent
  <1>4. Live' = Live BY SilentMemory DEF Steady, ListInv, ListMemory
  <1>5. DecidedMap' = DecidedMap /\ \A n, k : Precedes(n, k)' <=> Precedes(n, k)
    BY <1>3, <1>4, SameMap
  <1>6. \A n \in Live : node'[n].key = node[n].key BY <1>3 DEF Same
  <1>7. \A w \in Thread \ {t} : pc'[w] \in Validating => Continues(w) /\ since'[w] = since[w]
    BY <1>1, OthersContinue
  <1>8. CASE pc'[t] \notin Validating
    <2>1. \A w \in Thread : pc'[w] \in Validating => Continues(w) /\ since'[w] = since[w]
      BY <1>7, <1>8
    <2> QED BY <1>1, <1>4, <1>5, <1>6, <2>1, ContinueSerial
  <1>9. CASE pc'[t] \in Validating
    <2>1. UNCHANGED <<frame, jobs, historyVars>> /\ Validates(t)
      BY <1>9, ValidatingStep DEF Validates
    <2>2. CASE pc[t] \in Validating
      <3>1. Continues(t) BY <1>9, <2>1, <2>2, SelfContinues
      <3>2. since' = since BY <2>1 DEF historyVars
      <3>3. \A w \in Thread : pc'[w] \in Validating => Continues(w) /\ since'[w] = since[w]
        BY <1>7, <3>1, <3>2
      <3> QED BY <1>1, <1>4, <1>5, <1>6, <3>3, ContinueSerial
    <2>3. CASE pc[t] \notin Validating
      <3>1. ValidateReadSet(t)
        BY <2>1, <2>3 DEF Validates, ValidateNode, ValidateVersion, ValidateEqual, ValidateSingleton,
               ValidateRelocked, Validating
      <3>2. /\ Passing(t)' => Replays(Calls(t)', DecidedMap', Over(DecidedMap', ViewMap(t)', Calls(t)'))
            /\ \A w \in Thread \ {t} : Hinders(w, t)'
        BY <2>1, <3>1, EnterReads
      <3> QED BY <1>1, <1>4, <1>5, <1>6, <1>7, <2>3, <3>2, EnterSerial
    <2> QED BY <2>2, <2>3
  <1> QED BY <1>8, <1>9

-----------------------------------------------------------------------------
(* A transaction takes its place among those that have been decided. *)

\* Transactions with the calls cs[1], ..., cs[h] lead from maps[0] to maps[h].
Course(h, cs, maps) ==
    /\ h \in Nat /\ maps \in [0 .. h -> Map]
    /\ \A i \in 1 .. h : Calling(cs[i]) /\ Replays(cs[i], maps[i - 1], maps[i])

\* Calls c fit in behind the first q of them, and change into v what does not
\* matter to the others.
Inserts(h, cs, maps, q, c, v) ==
    /\ q \in 0 .. h /\ Calling(c) /\ v \in Map
    /\ Replays(c, maps[q], Over(maps[q], v, c))
    /\ \A i \in q + 1 .. h : Indifferent(cs[i], c, maps[h], v)

\* A map with changes, key by key.
LEMMA OverMap ==
  ASSUME NEW c, NEW m \in Map, NEW f \in Map
  PROVE  /\ Over(m, f, c) \in Map
         /\ \A k \in Key : Over(m, f, c)[k] = IF k \in ChangedKeys(c) THEN f[k] ELSE m[k]
  BY DEF Over, Map

\* What c changes has the same value from its place on.
LEMMA ChangedAlike ==
  ASSUME NEW h, NEW cs, NEW maps, Course(h, cs, maps),
         NEW q, NEW c, NEW v, Inserts(h, cs, maps, q, c, v),
         NEW k \in Key, k \in ChangedKeys(c)
  PROVE  \A i \in q .. h : maps[i][k] = maps[h][k]
  <1> DEFINE S == {n \in Nat : q + n <= h => maps[q + n][k] = maps[q][k]}
  <1>1. q \in Nat /\ h \in Nat /\ q <= h BY DEF Course, Inserts
  <1>2. 0 \in S BY <1>1
  <1>3. ASSUME NEW n \in Nat, n \in S PROVE n + 1 \in S
    <2>1. SUFFICES ASSUME q + (n + 1) <= h PROVE maps[q + (n + 1)][k] = maps[q][k] OBVIOUS
    <2>2. PICK j : j = q + n + 1 OBVIOUS
    <2>3. j \in 1 .. h /\ j \in q + 1 .. h /\ j - 1 = q + n BY <1>1, <2>1, <2>2
    <2>4. maps[q + n][k] = maps[q][k] BY <1>1, <1>3, <2>1
    <2>5. Replays(cs[j], maps[j - 1], maps[j]) /\ Calling(cs[j]) BY <2>3 DEF Course
    <2>6. k \notin ChangedKeys(cs[j]) BY <2>3 DEF Inserts, Indifferent
    <2>7. maps[j][k] = maps[j - 1][k] BY <2>5, <2>6, ReplayKeeps
    <2> QED BY <1>1, <2>2, <2>3, <2>4, <2>7
  <1> HIDE DEF S
  <1>4. Nat \subseteq S BY <1>2, <1>3, NatSets
  <1>5. \A n \in Nat : q + n <= h => maps[q + n][k] = maps[q][k] BY <1>4 DEF S
  <1>6. ASSUME NEW i \in q .. h PROVE maps[i][k] = maps[q][k]
    <2>1. i - q \in Nat /\ q + (i - q) = i /\ i <= h BY <1>1
    <2> QED BY <1>5, <2>1
  <1>7. h \in q .. h BY <1>1
  <1> QED BY <1>6, <1>7

\* The maps with those of the inserted calls.
WiderMaps(h, maps, q, c, v) ==
    [i \in 0 .. h + 1 |-> IF i <= q THEN maps[i] ELSE Over(maps[i - 1], v, c)]

\* The course with c inserted.
Widened(h, cs, maps, q, c, v, cs2, maps2) ==
    /\ \A i \in 1 .. q : cs2[i] = cs[i]
    /\ cs2[q + 1] = c
    /\ \A i \in q + 2 .. h + 1 : cs2[i] = cs[i - 1]
    /\ maps2 = WiderMaps(h, maps, q, c, v)

\* Calls that can be put in behind the first q, and do not matter to the others, leave behind
\* all what the others leave, with their changes.
LEMMA CourseWidens ==
  ASSUME NEW h, NEW cs, NEW maps, Course(h, cs, maps),
         NEW q, NEW c, NEW v, Inserts(h, cs, maps, q, c, v),
         NEW cs2, NEW maps2, Widened(h, cs, maps, q, c, v, cs2, maps2)
  PROVE  /\ Course(h + 1, cs2, maps2)
         /\ maps2[0] = maps[0] /\ maps2[h + 1] = Over(maps[h], v, c)
  <1>1. /\ q \in 0 .. h /\ q \in Nat /\ h \in Nat /\ maps \in [0 .. h -> Map] /\ v \in Map
        /\ Calling(c)
    BY DEF Course, Inserts
  <1>2. /\ \A i \in 0 .. q : maps2[i] = maps[i]
        /\ \A i \in q + 1 .. h + 1 : maps2[i] = Over(maps[i - 1], v, c)
    BY <1>1 DEF Widened, WiderMaps
  <1>3. maps2 \in [0 .. h + 1 -> Map]
    <2>1. ASSUME NEW i \in 0 .. h + 1
          PROVE  (IF i <= q THEN maps[i] ELSE Over(maps[i - 1], v, c)) \in Map
      <3>1. i <= q => maps[i] \in Map BY <1>1
      <3>2. ~(i <= q) => maps[i - 1] \in Map BY <1>1
      <3> QED BY <1>1, <3>1, <3>2, OverMap
    <2> QED BY <2>1 DEF Widened, WiderMaps
  <1>4. ASSUME NEW i \in 1 .. h + 1
        PROVE  Calling(cs2[i]) /\ Replays(cs2[i], maps2[i - 1], maps2[i])
    <2>1. CASE i <= q
      <3>1. i \in 1 .. h /\ i \in 1 .. q /\ i - 1 \in 0 .. q /\ i \in 0 .. q BY <1>1, <2>1
      <3> QED BY <1>2, <3>1 DEF Course, Widened
    <2>2. CASE i = q + 1
      <3>1. i - 1 = q /\ q \in 0 .. q /\ i \in q + 1 .. h + 1 BY <1>1, <2>2
      <3>2. maps2[i - 1] = maps[q] /\ maps2[i] = Over(maps[q], v, c) /\ cs2[i] = c
        BY <1>2, <2>2, <3>1 DEF Widened
      <3> QED BY <3>2 DEF Inserts
    <2>3. CASE i > q + 1
      <3>1. PICK j : j = i - 1 OBVIOUS
      <3>2. /\ j \in 1 .. h /\ j \in q + 1 .. h /\ i \in q + 2 .. h + 1 /\ j - 1 \in 0 .. h /\ j \in 0 .. h
            /\ i \in q + 1 .. h + 1 /\ j \in q + 1 .. h + 1 /\ j - 1 \in q .. h
        BY <1>1, <2>3, <3>1
      <3>3. PICK e, d, m : e = cs[j] /\ d = maps[j - 1] /\ m = maps[j] OBVIOUS
      <3>4. Calling(e) /\ Replays(e, d, m) /\ cs2[i] = e BY <3>1, <3>2, <3>3 DEF Course, Widened
      <3>5. maps2[i] = Over(m, v, c) /\ maps2[i - 1] = Over(d, v, c) BY <1>2, <3>1, <3>2, <3>3
      <3>6. d \in Map /\ m \in Map BY <1>1, <3>2, <3>3
      <3>7. PICK d2, m2 : d2 = Over(d, v, c) /\ m2 = Over(m, v, c) OBVIOUS
      <3>8. /\ d2 \in Map /\ \A k \in Key : d2[k] = IF k \in ChangedKeys(c) THEN v[k] ELSE d[k]
            /\ m2 \in Map /\ \A k \in Key : m2[k] = IF k \in ChangedKeys(c) THEN v[k] ELSE m[k]
        <4>1. /\ Over(d, v, c) \in Map
              /\ \A k \in Key : Over(d, v, c)[k] = IF k \in ChangedKeys(c) THEN v[k] ELSE d[k]
          BY <1>1, <3>6, OverMap
        <4>2. /\ Over(m, v, c) \in Map
              /\ \A k \in Key : Over(m, v, c)[k] = IF k \in ChangedKeys(c) THEN v[k] ELSE m[k]
          BY <1>1, <3>6, OverMap
        <4> QED BY <3>7, <4>1, <4>2
      <3>9. Indifferent(e, c, maps[h], v) BY <3>2, <3>3 DEF Inserts
      <3>10. ChangedKeys(c) \subseteq Key /\ ChangedKeys(e) \subseteq Key BY <1>1, <3>4, CallKeys
      <3>11. ASSUME NEW k \in ChangedKeys(c)
             PROVE  /\ k \notin KeysWith(e, {"Get", "Remove"})
                    /\ k \in CalledKeys(e) => d[k] # Null /\ d2[k] # Null
        <4>1. k \in Key BY <3>10
        <4>2. \A x \in q .. h : maps[x][k] = maps[h][k] BY <4>1, ChangedAlike
        <4>3. d[k] = maps[h][k] BY <3>2, <3>3, <4>2
        <4> QED BY <3>8, <3>9, <4>1, <4>3 DEF Indifferent
      <3>12. \A k \in Key \ ChangedKeys(c) : d2[k] = d[k] BY <3>8
      <3>13. ASSUME NEW k \in ChangedKeys(e) PROVE m2[k] = m[k]
        BY <3>8, <3>9, <3>10 DEF Indifferent
      <3>14. ASSUME NEW k \in Key \ ChangedKeys(e) PROVE m2[k] = d2[k]
        <4>1. m[k] = d[k] BY <3>4, ReplayKeeps
        <4> QED BY <3>8, <4>1
      <3>15. \A k \in ChangedKeys(c) : /\ k \notin KeysWith(e, {"Get", "Remove"})
                                       /\ k \in CalledKeys(e) => d[k] # Null /\ d2[k] # Null
        BY <3>11
      <3>16. Replays(e, d2, m2)
        <4>1. PICK changed : changed = ChangedKeys(c) OBVIOUS
        <4>2. /\ \A k \in Key \ changed : d2[k] = d[k]
              /\ \A k \in changed : /\ k \notin KeysWith(e, {"Get", "Remove"})
                                    /\ k \in CalledKeys(e) => d[k] # Null /\ d2[k] # Null
              /\ \A k \in ChangedKeys(e) : m2[k] = m[k]
              /\ \A k \in Key \ ChangedKeys(e) : m2[k] = d2[k]
          BY <3>12, <3>13, <3>14, <3>15, <4>1
        <4> QED BY <3>4, <3>6, <3>8, <4>2, ReplayOn
      <3> QED BY <3>4, <3>5, <3>7, <3>16
    <2> QED BY <1>1, <2>1, <2>2, <2>3
  <1>5. maps2[0] = maps[0] /\ maps2[h + 1] = Over(maps[h], v, c)
    <2>1. 0 \in 0 .. q /\ h + 1 \in q + 1 .. h + 1 BY <1>1
    <2> QED BY <1>1, <1>2, <2>1
  <1> QED BY <1>1, <1>3, <1>4, <1>5 DEF Course

\* Another transaction, with calls e that turn the last map into w, stays where it was.
Waits(h, cs, maps, p, e, w) ==
    /\ p \in 0 .. h /\ Replays(e, maps[p], Over(maps[p], w, e))
    /\ \A i \in p + 1 .. h : Indifferent(cs[i], e, maps[h], w)

\* Whether changes matter depends only on the maps at the changed keys,
LEMMA IndifferentStill ==
  ASSUME NEW o, NEW e, Calling(e), NEW d, NEW w, Indifferent(o, e, d, w), NEW d2, NEW w2,
         \A k \in ChangedKeys(e) : d2[k] = d[k] /\ w2[k] = w[k]
  PROVE  Indifferent(o, e, d2, w2)
  BY DEF Indifferent

\* as do the changes.
LEMMA OverStill ==
  ASSUME NEW e, NEW m, NEW w, NEW w2, \A k \in ChangedKeys(e) : w2[k] = w[k]
  PROVE  Over(m, w2, e) = Over(m, w, e)
  BY DEF Over

\* The last map of the widened course has what e changes as it was.
LEMMA LastMap ==
  ASSUME NEW h, NEW cs, NEW maps, Course(h, cs, maps),
         NEW q, NEW c, NEW v, Inserts(h, cs, maps, q, c, v),
         NEW cs2, NEW maps2, Widened(h, cs, maps, q, c, v, cs2, maps2),
         NEW e, Calling(e), ChangedKeys(e) \cap ChangedKeys(c) = {}
  PROVE  \A k \in ChangedKeys(e) : maps2[h + 1][k] = maps[h][k]
  <1>1. maps2[h + 1] = Over(maps[h], v, c) BY CourseWidens
  <1>2. maps[h] \in Map /\ v \in Map BY DEF Course, Inserts
  <1>3. ChangedKeys(e) \subseteq Key BY CallKeys
  <1> QED BY <1>1, <1>2, <1>3, OverMap

\* Calls that wait at an earlier place stay there when others are put in,
LEMMA WaitsBefore ==
  ASSUME NEW h, NEW cs, NEW maps, Course(h, cs, maps),
         NEW q, NEW c, NEW v, Inserts(h, cs, maps, q, c, v),
         NEW cs2, NEW maps2, Widened(h, cs, maps, q, c, v, cs2, maps2),
         NEW e, Calling(e), ChangedKeys(e) \cap ChangedKeys(c) = {},
         NEW p, NEW w, Waits(h, cs, maps, p, e, w), p <= q,
         NEW w2, \A k \in ChangedKeys(e) : w2[k] = w[k],
         Indifferent(c, e, maps2[h + 1], w2)
  PROVE  Waits(h + 1, cs2, maps2, p, e, w2)
  <1>1. p \in Nat /\ q \in Nat /\ h \in Nat /\ q <= h BY DEF Waits, Inserts, Course
  <1>2. maps2[p] = maps[p] BY <1>1 DEF Widened, WiderMaps
  <1>3. Over(maps[p], w2, e) = Over(maps[p], w, e) BY OverStill
  <1>4. \A k \in ChangedKeys(e) : maps2[h + 1][k] = maps[h][k] BY LastMap
  <1>5. ASSUME NEW i \in p + 1 .. h + 1 PROVE Indifferent(cs2[i], e, maps2[h + 1], w2)
    <2>1. CASE i <= q
      <3>1. i \in 1 .. q /\ i \in p + 1 .. h BY <1>1, <2>1
      <3>2. cs2[i] = cs[i] /\ Indifferent(cs[i], e, maps[h], w) BY <3>1 DEF Widened, Waits
      <3> QED BY <1>4, <3>2, IndifferentStill
    <2>2. CASE i = q + 1 BY <2>2 DEF Widened
    <2>3. CASE i > q + 1
      <3>1. i \in q + 2 .. h + 1 /\ i - 1 \in p + 1 .. h BY <1>1, <2>3
      <3>2. cs2[i] = cs[i - 1] /\ Indifferent(cs[i - 1], e, maps[h], w) BY <3>1 DEF Widened, Waits
      <3> QED BY <1>4, <3>2, IndifferentStill
    <2> QED BY <1>1, <2>1, <2>2, <2>3
  <1>6. p \in 0 .. h + 1 BY <1>1 DEF Waits
  <1> QED BY <1>2, <1>3, <1>5, <1>6 DEF Waits

\* and those at a later place come one later.
LEMMA WaitsBehind ==
  ASSUME NEW h, NEW cs, NEW maps, Course(h, cs, maps),
         NEW q, NEW c, NEW v, Inserts(h, cs, maps, q, c, v),
         NEW cs2, NEW maps2, Widened(h, cs, maps, q, c, v, cs2, maps2),
         NEW e, Calling(e), ChangedKeys(e) \cap ChangedKeys(c) = {},
         NEW p, NEW w, Waits(h, cs, maps, p, e, w), q <= p,
         NEW w2, \A k \in ChangedKeys(e) : w2[k] = w[k],
         Indifferent(e, c, maps[h], v)
  PROVE  Waits(h + 1, cs2, maps2, p + 1, e, w2)
  <1>1. /\ p \in Nat /\ q \in Nat /\ h \in Nat /\ p <= h /\ p \in 0 .. h /\ p \in q .. h
        /\ p + 1 \in 0 .. h + 1
    BY DEF Waits, Inserts, Course
  <1>2. PICK m, f : m = maps[p] /\ f = Over(m, v, c) OBVIOUS
  <1>3. maps2[p + 1] = f
    <2>1. ~(p + 1 <= q) /\ (p + 1) - 1 = p BY <1>1
    <2> QED BY <1>1, <1>2, <2>1 DEF Widened, WiderMaps
  <1>4. m \in Map /\ v \in Map BY <1>1, <1>2 DEF Course, Inserts
  <1>5. f \in Map /\ \A k \in Key : f[k] = IF k \in ChangedKeys(c) THEN v[k] ELSE m[k]
    BY <1>2, <1>4, OverMap
  <1>6. CalledKeys(e) \subseteq Key /\ KeysWith(e, {"Get", "Remove"}) \subseteq Key
        /\ ChangedKeys(c) \subseteq Key /\ ChangedKeys(e) \subseteq Key /\ ChangedKeys(e) \subseteq CalledKeys(e)
    BY CallKeys DEF Inserts
  <1>7. \A k \in ChangedKeys(c) : m[k] = maps[h][k] BY <1>1, <1>2, <1>6, ChangedAlike
  <1>8. PICK g : g = Over(m, w, e) OBVIOUS
  <1>9. Replays(e, m, g) BY <1>2, <1>8 DEF Waits
  <1>10. ASSUME NEW k \in CalledKeys(e) PROVE m[k] = Null <=> f[k] = Null
    <2>1. CASE k \in ChangedKeys(c)
      <3>1. maps[h][k] # Null /\ v[k] # Null BY <1>10, <2>1 DEF Indifferent
      <3> QED BY <1>5, <1>6, <1>7, <2>1, <3>1
    <2>2. CASE k \notin ChangedKeys(c) BY <1>5, <1>6, <2>2
    <2> QED BY <2>1, <2>2
  <1>11. ASSUME NEW k \in KeysWith(e, {"Get", "Remove"}) PROVE m[k] = f[k]
    <2>1. k \notin ChangedKeys(c) BY DEF Indifferent
    <2> QED BY <1>5, <1>6, <2>1
  <1>12. Replays(e, f, Over(f, g, e)) BY <1>5, <1>9, <1>10, <1>11, ReplayElsewhere
  <1>13. Over(f, g, e) = Over(f, w2, e)
    <2>1. g = [k \in Key |-> IF k \in ChangedKeys(e) THEN w[k] ELSE m[k]] BY <1>8 DEF Over
    <2>2. \A k \in ChangedKeys(e) : w2[k] = g[k] BY <1>6, <2>1
    <2> QED BY <2>2, OverStill
  <1>14. \A k \in ChangedKeys(e) : maps2[h + 1][k] = maps[h][k] BY LastMap
  <1>15. ASSUME NEW i \in p + 2 .. h + 1 PROVE Indifferent(cs2[i], e, maps2[h + 1], w2)
    <2>1. i \in q + 2 .. h + 1 /\ i - 1 \in p + 1 .. h BY <1>1
    <2>2. cs2[i] = cs[i - 1] /\ Indifferent(cs[i - 1], e, maps[h], w) BY <2>1 DEF Widened, Waits
    <2> QED BY <1>14, <2>2, IndifferentStill
  <1>16. \A i \in (p + 1) + 1 .. h + 1 : Indifferent(cs2[i], e, maps2[h + 1], w2) BY <1>1, <1>15
  <1> QED BY <1>1, <1>3, <1>12, <1>13, <1>16 DEF Waits

-----------------------------------------------------------------------------

\* The order with h + 1 at place q + 1.
Wider(h, order, q) ==
    [i \in 1 .. h + 1 |-> IF i <= q THEN order[i] ELSE IF i = q + 1 THEN h + 1 ELSE order[i - 1]]

\* An order of 1 .. h.
IsOrder(h, order) ==
    order \in [1 .. h -> 1 .. h] /\ \A i, j \in 1 .. h : order[i] = order[j] => i = j

\* The order with one more behind the first q.
OrderWidened(h, order, q, order2) ==
    /\ IsOrder(h + 1, order2)
    /\ \A i \in 1 .. q : order2[i] = order[i] /\ order[i] \in 1 .. h
    /\ order2[q + 1] = h + 1
    /\ \A i \in q + 2 .. h + 1 : order2[i] = order[i - 1] /\ order[i - 1] \in 1 .. h

\* Wider makes it.
LEMMA OrderWidens ==
  ASSUME NEW h \in Nat, NEW order, IsOrder(h, order), NEW q \in 0 .. h, NEW order2, order2 = Wider(h, order, q)
  PROVE  OrderWidened(h, order, q, order2)
  <1>0. order \in [1 .. h -> 1 .. h] BY DEF IsOrder
  <1>1. \A i \in 1 .. q : i \in 1 .. h /\ i \in 1 .. h + 1 /\ i <= q OBVIOUS
  <1>2. \A i \in 1 .. q : order2[i] = order[i] BY <1>1 DEF Wider
  <1>3. q + 1 \in 1 .. h + 1 /\ ~(q + 1 <= q) OBVIOUS
  <1>4. order2[q + 1] = h + 1 BY <1>3 DEF Wider
  <1>5. \A i \in q + 2 .. h + 1 : i - 1 \in 1 .. h /\ i \in 1 .. h + 1 /\ ~(i <= q) /\ i # q + 1
    OBVIOUS
  <1>6. \A i \in q + 2 .. h + 1 : order2[i] = order[i - 1] BY <1>5 DEF Wider
  <1>7. \A i \in 1 .. h + 1 : i \in 1 .. q \/ i = q + 1 \/ i \in q + 2 .. h + 1 OBVIOUS
  <1>8. \A i \in 1 .. h : order[i] \in 1 .. h /\ order[i] \in 1 .. h + 1 /\ order[i] # h + 1 BY <1>0
  <1>9. ASSUME NEW i \in 1 .. h + 1 PROVE order2[i] \in 1 .. h + 1
    <2>1. h + 1 \in 1 .. h + 1 OBVIOUS
    <2>2. CASE i \in 1 .. q BY <1>1, <1>2, <1>8, <2>2
    <2>3. CASE i = q + 1 BY <1>4, <2>1, <2>3
    <2>4. CASE i \in q + 2 .. h + 1 BY <1>5, <1>6, <1>8, <2>4
    <2> QED BY <1>7, <2>2, <2>3, <2>4
  <1>10. order2 \in [1 .. h + 1 -> 1 .. h + 1]
    <2>1. order2 = [i \in 1 .. h + 1 |-> order2[i]] BY DEF Wider
    <2> QED BY <1>9, <2>1
  <1>11. ASSUME NEW i \in 1 .. h + 1, i # q + 1
         PROVE  \E x \in 1 .. h : order2[i] = order[x] /\ x = IF i <= q THEN i ELSE i - 1
    <2>1. CASE i \in 1 .. q BY <1>1, <1>2, <2>1
    <2>2. CASE i \in q + 2 .. h + 1 BY <1>5, <1>6, <2>2
    <2> QED BY <1>7, <1>11, <2>1, <2>2
  <1>12. ASSUME NEW i \in 1 .. h + 1, NEW j \in 1 .. h + 1, order2[i] = order2[j] PROVE i = j
    <2>1. CASE i = q + 1 /\ j # q + 1
      <3>1. PICK y \in 1 .. h : order2[j] = order[y] BY <1>11, <2>1
      <3> QED BY <1>4, <1>8, <1>12, <2>1, <3>1
    <2>2. CASE j = q + 1 /\ i # q + 1
      <3>1. PICK y \in 1 .. h : order2[i] = order[y] BY <1>11, <2>2
      <3> QED BY <1>4, <1>8, <1>12, <2>2, <3>1
    <2>3. CASE i # q + 1 /\ j # q + 1
      <3>1. PICK x \in 1 .. h : order2[i] = order[x] /\ x = IF i <= q THEN i ELSE i - 1
        BY <1>11, <2>3
      <3>2. PICK y \in 1 .. h : order2[j] = order[y] /\ y = IF j <= q THEN j ELSE j - 1
        BY <1>11, <2>3
      <3>3. x = y BY <1>12, <3>1, <3>2 DEF IsOrder
      <3> QED BY <2>3, <3>1, <3>2, <3>3
    <2> QED BY <2>1, <2>2, <2>3
  <1>13. IsOrder(h + 1, order2) BY <1>10, <1>12 DEF IsOrder
  <1> QED BY <1>1, <1>2, <1>4, <1>5, <1>6, <1>8, <1>13 DEF OrderWidened

\* A transaction that passes the validation enters the history with its calls.
LEMMA DecideHistory ==
  ASSUME HistoryOK, NEW t \in Thread, PassValidation(t), NEW h, h = Len(hist),
         NEW c, c = Calls(t), Calling(c)
  PROVE  /\ h \in Nat /\ Len(hist') = h + 1 /\ \A i \in 1 .. h : hist'[i] = hist[i]
         /\ hist'[h + 1].calls = c /\ hist'[h + 1].after = since[t]
         /\ HistoryOK' /\ initial' = initial /\ since' = since
  <1>1. PICK e : e = [thread |-> t, calls |-> c, after |-> since[t]] OBVIOUS
  <1>2. hist' = Append(hist, e) /\ UNCHANGED <<initial, ended, since>> BY <1>1 DEF PassValidation
  <1>3. IsSeq(hist) /\ h \in Nat BY DEF HistoryOK, IsSeq
  <1>4. /\ Len(hist') = h + 1 /\ \A i \in 1 .. h : hist'[i] = hist[i]
        /\ hist'[h + 1] = e
    BY <1>2, <1>3, AppendIs
  <1>5. IsSeq(hist') BY <1>2, <1>3, AppendIsSeq
  <1>6. e.calls = c /\ e.after = since[t] BY <1>1
  <1>7. 1 .. h \subseteq 1 .. h + 1 BY <1>3
  <1>8. ASSUME NEW i \in 1 .. h + 1
        PROVE  hist'[i].after \subseteq 1 .. h + 1 /\ Calling(hist'[i].calls)
    <2>1. CASE i \in 1 .. h BY <1>4, <1>7, <2>1 DEF HistoryOK
    <2>2. CASE i = h + 1 BY <1>4, <1>6, <1>7, <2>2 DEF HistoryOK
    <2> QED BY <1>3, <2>1, <2>2
  <1>9. /\ ended' \subseteq 1 .. h + 1 /\ DOMAIN since' = Thread
        /\ \A u \in Thread : since'[u] \subseteq 1 .. h + 1
    BY <1>2, <1>7 DEF HistoryOK
  <1>10. HistoryOK' BY <1>4, <1>5, <1>8, <1>9 DEF HistoryOK, IsSeq, Calling
  <1> QED BY <1>2, <1>3, <1>4, <1>6, <1>10

\* Who may still pass when t has decided could before, and changes other keys.
LEMMA StillPassing ==
  ASSUME IInv, IInv', ListInv, ListInv', KeysPrecedeDefault, ReadInv,
         NEW t \in Thread, PassValidation(t), NEW u \in Thread \ {t}, pc[u] \in Validating, Passing(u)'
  PROVE  /\ Passing(u) /\ Consistent(u) /\ Effective(u) = ChangedKeys(Calls(u))
         /\ ChangedKeys(Calls(u)) \cap ChangedKeys(Calls(t)) = {}
         /\ \A k \in ChangedKeys(Calls(u)) : ViewMap(u)'[k] = ViewMap(u)[k]
         /\ \A n \in held[t] \cap txn[u].readSet : ~(n \in todo[u] /\ (n = cur[u] => pc[u] = "validate"))
  <1>1. pc[u] \in Running BY DEF Running
  <1>2. pc'[u] = pc[u] /\ txn'[u] = txn[u] BY <1>1, DecideAlone
  <1>3. /\ UNCHANGED <<lock, cur>> /\ todo'[u] = todo[u] BY Decides
  <1>4. txn[u].readSet \subseteq Node BY DEF IInv, Types, ThreadOK, TxnTyped, Txn
  <1>5. ASSUME NEW n \in txn[u].readSet PROVE CanPass(u, n)' BY <1>2, <1>5 DEF Passing
  <1>6. ASSUME NEW n \in txn[u].readSet, Old(u, n)' PROVE Old(u, n) /\ n \notin held[t]
    BY <1>1, <1>4, <1>6, OldAfter
  <1>7. Passing(u)
    <2>1. ASSUME NEW n \in txn[u].readSet PROVE CanPass(u, n)
      BY <1>2, <1>3, <1>5, <1>6 DEF CanPass
    <2> QED BY <2>1 DEF Passing
  <1>8. Consistent(u)'
    <2>1. PassersConsistent' BY PassersSee, PTL
    <2> QED BY <1>2, <2>1 DEF PassersConsistent
  <1>9. ~Removing(u) /\ ~Removing(t) BY Decides DEF Removing, Validating
  <1>10. Effective(u) = ChangedKeys(Calls(u)) /\ Effective(t) = ChangedKeys(Calls(t))
    BY <1>9 DEF Effective
  <1>11. /\ Consistent(u) /\ Effective(t) \cap Effective(u) = {}
         /\ \A k \in Effective(u) : ViewMap(u)'[k] = ViewMap(u)[k]
    BY <1>1, <1>8, DecideRunning
  <1>12. ASSUME NEW n \in held[t] \cap txn[u].readSet
         PROVE  ~(n \in todo[u] /\ (n = cur[u] => pc[u] = "validate"))
    <2>1. CanPass(u, n)' /\ ~Old(u, n)' BY <1>5, <1>6
    <2> QED BY <1>2, <1>3, <2>1 DEF CanPass
  <1> QED BY <1>7, <1>10, <1>11, <1>12

\* Nodes that a transaction has locked, and that others have not used: what it
\* changes does not matter to them.
LEMMA HinderedIndifferent ==
  ASSUME IInv, ListInv, KeysPrecedeDefault, ReadInv, NEW t \in Thread, NEW u \in Thread,
         pc[t] \in Validating, pc[u] \in Validating, Passing(t),
         ChangedKeys(Calls(t)) \cap ChangedKeys(Calls(u)) = {},
         \A n \in held[t] : /\ \A k \in CalledKeys(Calls(u)) : ~Precedes(n, k)
                            /\ n \in Live => node[n].key \notin KeysWith(Calls(u), {"Remove"})
  PROVE  Indifferent(Calls(u), Calls(t), DecidedMap, ViewMap(t))
  <1>1. PICK c : c = Calls(u) OBVIOUS
  <1>2. pc[t] \in Running /\ pc[u] \in Running BY DEF Running
  <1>3. Consistent(t) /\ Touched(t) = held[t] /\ DOMAIN txn[t].writeSet = held[t]
    BY PassingConsistent
  <1>4. LocksOK(t) /\ RoutineOK(u) BY <1>2, InRoutine
  <1>5. Calling(c) /\ KeysWith(c, {"Get"}) \subseteq Got BY <1>1, <1>2, <1>4, GotKeys DEF RoutineOK
  <1>6. Touched(t) \subseteq DOMAIN txn[t].writeSet BY <1>3
  <1>7. \A n \in DOMAIN txn[t].writeSet :
            /\ \A k \in CalledKeys(c) : ~Precedes(n, k)
            /\ n \in Live => node[n].key \notin KeysWith(c, {"Remove"})
    BY <1>1, <1>3
  <1>8. Effective(t) = ChangedKeys(Calls(t)) BY DEF Effective, Removing, Validating
  <1>9. ASSUME NEW k \in ChangedKeys(Calls(t))
        PROVE  /\ k \notin ChangedKeys(c) \cup KeysWith(c, {"Get", "Remove"})
               /\ k \in CalledKeys(c) => DecidedMap[k] # Null /\ ViewMap(t)[k] # Null
    <2>1. k \in Effective(t) BY <1>8
    <2>2. /\ k \notin KeysWith(c, {"Get", "Remove"})
          /\ k \in CalledKeys(c) => DecidedMap[k] # Null /\ ViewMap(t)[k] # Null
      BY ONLY IInv, ListInv, t \in Thread, KeysPrecedeDefault, <1>3, <1>4, <1>6, <1>5, <1>7, <2>1, ApartFrom
    <2> QED BY <1>1, <2>2
  <1> QED BY <1>1, <1>9 DEF Indifferent

\* u has its place before t, and t has validated everything.
LEMMA BeforeIndifferent ==
  ASSUME IInv, IInv', ListInv, ListInv', KeysPrecedeDefault, ReadInv,
         NEW t \in Thread, PassValidation(t), NEW u \in Thread \ {t}, pc[u] \in Validating, Passing(u)',
         Hinders(u, t)
  PROVE  Indifferent(Calls(t), Calls(u), DecidedMap, ViewMap(u))
  <1>1. /\ Passing(u) /\ ChangedKeys(Calls(u)) \cap ChangedKeys(Calls(t)) = {}
    BY StillPassing
  <1>2. pc[t] \in Validating /\ todo[t] = {} BY Decides DEF Validating
  <1>3. Passing(t) BY <1>2 DEF Passing, CanPass
  <1>4. \A n \in held[u] : /\ \A k \in CalledKeys(Calls(t)) : ~Precedes(n, k)
                           /\ n \in Live => node[n].key \notin KeysWith(Calls(t), {"Remove"})
    BY <1>2, <1>3 DEF Hinders
  <1>5. t \in Thread /\ u \in Thread OBVIOUS
  <1> QED BY <1>1, <1>2, <1>4, <1>5, HinderedIndifferent

\* u has its place behind t, and can still pass when t has decided.
LEMMA BehindIndifferent ==
  ASSUME IInv, IInv', ListInv, ListInv', KeysPrecedeDefault, ReadInv,
         NEW t \in Thread, PassValidation(t), NEW u \in Thread \ {t}, pc[u] \in Validating, Passing(u)',
         Hinders(t, u)
  PROVE  Indifferent(Calls(u), Calls(t), DecidedMap, ViewMap(t))
  <1>1. /\ Passing(u) /\ ChangedKeys(Calls(u)) \cap ChangedKeys(Calls(t)) = {}
        /\ \A n \in held[t] \cap txn[u].readSet : ~(n \in todo[u] /\ (n = cur[u] => pc[u] = "validate"))
    BY StillPassing
  <1>2. pc[t] \in Validating /\ todo[t] = {} BY Decides DEF Validating
  <1>3. Passing(t) BY <1>2 DEF Passing, CanPass
  <1>4. \A n \in held[t] : /\ \A k \in CalledKeys(Calls(u)) : ~Precedes(n, k)
                           /\ n \in Live => node[n].key \notin KeysWith(Calls(u), {"Remove"})
    BY <1>1 DEF Hinders
  <1>5. t \in Thread /\ u \in Thread OBVIOUS
  <1> QED BY <1>1, <1>2, <1>3, <1>4, <1>5, HinderedIndifferent

\* Who hindered somebody else still does.
LEMMA DecideHinders ==
  ASSUME IInv, IInv', ListInv, ListInv', KeysPrecedeDefault, ReadInv,
         NEW t \in Thread, PassValidation(t), NEW u \in Thread \ {t}, NEW w \in Thread \ {t},
         pc[u] \in Validating, pc[w] \in Validating, Hinders(u, w)
  PROVE  Hinders(u, w)'
  <1>1. pc[u] \in Running /\ pc[w] \in Running BY DEF Running
  <1>2. /\ pc'[w] = pc[w] /\ txn'[w] = txn[w] /\ Calls(w)' = Calls(w) BY <1>1, DecideAlone
  <1>3. /\ UNCHANGED <<node, held, cur>> /\ todo'[w] = todo[w] BY Decides
  <1>4. ASSUME NEW n \in held[u] PROVE n \notin held[t] /\ n \notin Own(t)
    <2>1. n \notin held[t] BY DEF IInv, Ownership
    <2>2. DOMAIN txn[u].writeSet = held[u] BY PassingConsistent
    <2>3. DOMAIN txn[u].writeSet \cap Own(t) = {} BY <1>1, DecideAlone
    <2> QED BY <2>1, <2>2, <2>3
  <1>5. PICK c : c = Calls(w) OBVIOUS
  <1>6. ASSUME NEW n \in held'[u]
        PROVE  /\ n \in txn'[w].readSet => n \in todo'[w] /\ (n = cur'[w] => pc'[w] = "validate")
               /\ Passing(w)' =>
                     /\ \A k \in CalledKeys(Calls(w)') : Precedes(n, k)' => n \in txn'[w].readSet
                     /\ n \in Live' /\ node'[n].key \in KeysWith(Calls(w)', {"Remove"})
                           => n \in txn'[w].readSet
    <2>1. n \in held[u] BY <1>3
    <2>2. n \in txn'[w].readSet => n \in todo'[w] /\ (n = cur'[w] => pc'[w] = "validate")
      BY <1>2, <1>3, <2>1 DEF Hinders
    <2>3. ASSUME Passing(w)'
          PROVE  /\ \A k \in CalledKeys(c) : Precedes(n, k)' => n \in txn[w].readSet
                 /\ n \in Live' /\ node'[n].key \in KeysWith(c, {"Remove"}) => n \in txn[w].readSet
      <3>1. Passing(w) BY <2>3, StillPassing
      <3>2. /\ \A k \in CalledKeys(c) : Precedes(n, k) => n \in txn[w].readSet
            /\ n \in Live /\ node[n].key \in KeysWith(c, {"Remove"}) => n \in txn[w].readSet
        BY <1>5, <2>1, <3>1 DEF Hinders
      <3>3. \A k : Precedes(n, k)' <=> Precedes(n, k) BY <1>4, <2>1, DecidePrecedes
      <3>4. n \in Live' => n \in Live
        <4>1. Live' = View(t) BY DecideLive
        <4> QED BY <1>4, <2>1, <4>1 DEF View
      <3> QED BY <1>3, <3>2, <3>3, <3>4
    <2>4. Calls(w)' = c /\ txn'[w] = txn[w] BY <1>2, <1>5
    <2> QED BY <2>2, <2>3, <2>4
  <1> QED BY <1>6, HindersThen

\* The calls of the transactions in an order.
CallsIn(h, H, order) == [i \in 1 .. h |-> H[order[i]].calls]

\* The maps of an order are the course of its calls.
LEMMA OrderedCourse ==
  ASSUME HistoryOK, NEW order, NEW maps, Ordered(order, maps), NEW h, h = Len(hist),
         NEW cs, cs = CallsIn(h, hist, order)
  PROVE  Course(h, cs, maps) /\ maps[h] = DecidedMap /\ maps[0] = initial
  <1>1. h \in Nat BY DEF HistoryOK, IsSeq
  <1>2. /\ order \in [1 .. h -> 1 .. h] /\ maps \in [0 .. h -> Map] /\ maps[h] = DecidedMap
        /\ maps[0] = initial
        /\ \A i \in 1 .. h : Replays(hist[order[i]].calls, maps[i - 1], maps[i])
    BY DEF Ordered
  <1>3. ASSUME NEW i \in 1 .. h PROVE Calling(cs[i]) /\ Replays(cs[i], maps[i - 1], maps[i])
    <2>1. order[i] \in 1 .. h /\ cs[i] = hist[order[i]].calls BY <1>2 DEF CallsIn
    <2>2. Calling(hist[order[i]].calls) BY <2>1 DEF HistoryOK
    <2> QED BY <1>2, <2>1, <2>2
  <1> QED BY <1>1, <1>2, <1>3 DEF Course

\* The decided list becomes what t has made of it, and that is what t changes.
LEMMA DecideOver ==
  ASSUME IInv, IInv', ListInv, KeysPrecedeDefault, ReadInv, NEW t \in Thread, PassValidation(t)
  PROVE  /\ DecidedMap' = Over(DecidedMap, ViewMap(t), Calls(t)) /\ Calling(Calls(t))
         /\ Passing(t) /\ pc[t] \in Validating /\ DecidedMap \in Map /\ ViewMap(t) \in Map
  <1>1. pc[t] \in Validating /\ todo[t] = {} BY Decides DEF Validating
  <1>2. Passing(t) BY <1>1 DEF Passing, CanPass
  <1>3. pc[t] \in Running BY <1>1 DEF Running
  <1>4. Consistent(t) BY DeciderConsistent
  <1>5. EffectOK(t) /\ RoutineOK(t) BY <1>3, InRoutine
  <1>6. PICK c, d, v : c = Calls(t) /\ d = DecidedMap /\ v = ViewMap(t) OBVIOUS
  <1>7. Effective(t) = ChangedKeys(c) BY <1>1, <1>6 DEF Effective, Removing, Validating
  <1>8. \A k \in Key \ ChangedKeys(c) : v[k] = d[k] BY <1>3, <1>4, <1>5, <1>6, <1>7, ViewElsewhere
  <1>9. v \in Map /\ d \in Map BY <1>6, MapsTyped
  <1>10. Over(d, v, c) = v
    <2>1. PICK o : o = Over(d, v, c) OBVIOUS
    <2>2. o \in Map /\ \A k \in Key : o[k] = IF k \in ChangedKeys(c) THEN v[k] ELSE d[k]
      BY <1>9, <2>1, OverMap
    <2>3. \A k \in Key : o[k] = v[k] BY <1>8, <2>2
    <2>4. o = v BY <1>9, <2>2, <2>3 DEF Map
    <2> QED BY <2>1, <2>4
  <1>11. DecidedMap' = ViewMap(t) BY DecideMap
  <1> QED BY <1>1, <1>2, <1>5, <1>6, <1>9, <1>10, <1>11 DEF RoutineOK

\* A transaction that fits and may pass can be put in.
LEMMA FitInserts ==
  ASSUME NEW t \in Thread, NEW q, NEW order, NEW maps, Fits(t, q, order, maps), Passing(t),
         NEW h, h = Len(hist), NEW cs, cs = CallsIn(h, hist, order),
         NEW c, c = Calls(t), Calling(c), NEW v \in Map, v = ViewMap(t), maps[h] = DecidedMap, h \in Nat
  PROVE  Inserts(h, cs, maps, q, c, v)
  <1>1. /\ q \in 0 .. h
        /\ Replays(c, maps[q], Over(maps[q], v, c))
        /\ \A i \in q + 1 .. h : Indifferent(hist[order[i]].calls, c, maps[h], v)
    BY DEF Fits
  <1>2. \A i \in q + 1 .. h : i \in 1 .. h BY <1>1
  <1>3. ASSUME NEW i \in q + 1 .. h PROVE Indifferent(cs[i], c, maps[h], v)
    BY <1>1, <1>2 DEF CallsIn
  <1> QED BY <1>1, <1>3 DEF Inserts

\* The order and the maps with t at its place.
LEMMA DecideWidened ==
  ASSUME NEW h \in Nat, NEW order, NEW q \in 0 .. h, NEW order2, OrderWidened(h, order, q, order2),
         NEW c, NEW v, NEW maps,
         NEW H, NEW H2, \A i \in 1 .. h : H2[i] = H[i], H2[h + 1].calls = c,
         NEW cs, cs = CallsIn(h, H, order),
         NEW cs2, cs2 = CallsIn(h + 1, H2, order2),
         NEW maps2, maps2 = WiderMaps(h, maps, q, c, v)
  PROVE  Widened(h, cs, maps, q, c, v, cs2, maps2)
  <1>1. /\ \A i \in 1 .. q : order2[i] = order[i] /\ order[i] \in 1 .. h
        /\ order2[q + 1] = h + 1
        /\ \A i \in q + 2 .. h + 1 : order2[i] = order[i - 1] /\ order[i - 1] \in 1 .. h
    BY DEF OrderWidened
  <1>2. ASSUME NEW i \in 1 .. q PROVE cs2[i] = cs[i]
    <2>1. i \in 1 .. h + 1 /\ i \in 1 .. h OBVIOUS
    <2>2. order2[i] = order[i] /\ order[i] \in 1 .. h BY <1>1, <2>1
    <2> QED BY <2>1, <2>2 DEF CallsIn
  <1>3. cs2[q + 1] = c
    <2>1. q + 1 \in 1 .. h + 1 OBVIOUS
    <2> QED BY <1>1, <2>1 DEF CallsIn
  <1>4. ASSUME NEW i \in q + 2 .. h + 1 PROVE cs2[i] = cs[i - 1]
    <2>1. i \in 1 .. h + 1 /\ i - 1 \in 1 .. h OBVIOUS
    <2>2. order2[i] = order[i - 1] /\ order[i - 1] \in 1 .. h BY <1>1, <2>1
    <2> QED BY <2>1, <2>2 DEF CallsIn
  <1> QED BY <1>2, <1>3, <1>4 DEF Widened

\* With it put in, the transactions have an order again.
LEMMA DecideOrdered ==
  ASSUME HistoryOK, NEW order, NEW maps, Ordered(order, maps), NEW h, h = Len(hist), h \in Nat,
         NEW t \in Thread, NEW q, Fits(t, q, order, maps), NEW c, NEW v, NEW cs,
         cs = CallsIn(h, hist, order),
         Inserts(h, cs, maps, q, c, v), DecidedMap' = Over(maps[h], v, c),
         Len(hist') = h + 1, \A i \in 1 .. h : hist'[i] = hist[i], initial' = initial,
         hist'[h + 1].calls = c, hist'[h + 1].after = since[t],
         NEW order2, order2 = Wider(h, order, q),
         NEW maps2, maps2 = WiderMaps(h, maps, q, c, v),
         NEW cs2, cs2 = CallsIn(h + 1, hist', order2)
  PROVE  Ordered(order2, maps2)' /\ Widened(h, cs, maps, q, c, v, cs2, maps2)
  <1>1. /\ order \in [1 .. h -> 1 .. h] /\ maps[0] = initial /\ Course(h, cs, maps) /\ q \in 0 .. h
        /\ \A i \in q + 1 .. h : order[i] \notin since[t]
    BY OrderedCourse DEF Ordered, Inserts, Fits
  <1>2. \A i, j \in 1 .. h : order[i] = order[j] => i = j BY DEF Ordered
  <1>3. \A i, j \in 1 .. h : i < j => order[j] \notin hist[order[i]].after BY DEF Ordered
  <1>4. OrderWidened(h, order, q, order2)
    <2>1. IsOrder(h, order) BY <1>1, <1>2 DEF IsOrder
    <2> QED BY <1>1, <2>1, OrderWidens
  <1>5. PICK H2 : H2 = hist' OBVIOUS
  <1>6. PICK H : H = hist OBVIOUS
  <1>7. Widened(h, cs, maps, q, c, v, cs2, maps2)
    <2>1. \A i \in 1 .. h : H2[i] = H[i] BY <1>5, <1>6
    <2>2. H2[h + 1].calls = c BY <1>5
    <2>3. cs = CallsIn(h, H, order) BY <1>6
    <2>4. cs2 = CallsIn(h + 1, H2, order2) BY <1>5
    <2> QED BY ONLY h \in Nat, <1>1, <1>4, <2>1, <2>2, <2>3, <2>4, DecideWidened,
         maps2 = WiderMaps(h, maps, q, c, v)
  <1>8. /\ Course(h + 1, cs2, maps2)
        /\ maps2[0] = maps[0] /\ maps2[h + 1] = Over(maps[h], v, c)
    BY <1>1, <1>7, CourseWidens
  <1>9. ASSUME NEW i \in 1 .. h + 1, NEW j \in 1 .. h + 1, i < j
        PROVE  order2[j] \notin hist'[order2[i]].after
    <2>1. \A x \in 1 .. h : H[order[x]].after \subseteq 1 .. h BY <1>1, <1>6 DEF HistoryOK
    <2>2. \A x \in 1 .. h + 1 : x \in 1 .. q \/ x = q + 1 \/ x \in q + 2 .. h + 1 BY <1>1
    <2>3. \A x \in 1 .. q : order2[x] = order[x] /\ order[x] \in 1 .. h /\ x \in 1 .. h
      BY <1>1, <1>4 DEF OrderWidened
    <2>4. \A x \in q + 2 .. h + 1 : order2[x] = order[x - 1] /\ order[x - 1] \in 1 .. h /\ x - 1 \in 1 .. h
      BY <1>1, <1>4 DEF OrderWidened
    <2>7. order2[q + 1] = h + 1 BY <1>4 DEF OrderWidened
    <2>5. \A x \in 1 .. h : H2[x] = H[x] BY <1>5, <1>6
    <2>6. order2[j] \notin H2[order2[i]].after
      <3>1. CASE i = q + 1
        <4>1. j \in q + 2 .. h + 1 /\ j - 1 \in q + 1 .. h BY <1>1, <1>9, <3>1
        <4> QED BY <1>1, <1>5, <2>4, <2>7, <3>1, <4>1
      <3>2. CASE i # q + 1 /\ j = q + 1
        <4>1. i \in 1 .. q BY <1>1, <1>9, <3>2
        <4>2. order2[j] = h + 1 /\ H2[order2[i]] = H[order[i]] BY <2>3, <2>5, <2>7, <3>2, <4>1
        <4>3. H[order[i]].after \subseteq 1 .. h BY <2>1, <2>3, <4>1
        <4> QED BY <4>2, <4>3
      <3>3. CASE i # q + 1 /\ j # q + 1
        <4>1. PICK x \in 1 .. h : order2[i] = order[x] /\ order[x] \in 1 .. h /\ x = IF i <= q THEN i ELSE i - 1
          BY <1>1, <2>2, <2>3, <2>4, <3>3
        <4>2. PICK y \in 1 .. h : order2[j] = order[y] /\ y = IF j <= q THEN j ELSE j - 1
          BY <1>1, <2>2, <2>3, <2>4, <3>3
        <4>3. x < y BY <1>1, <1>9, <3>3, <4>1, <4>2
        <4>4. order[y] \notin H[order[x]].after BY <1>3, <1>6, <4>3
        <4> QED BY <2>5, <4>1, <4>2, <4>4
      <3> QED BY <3>1, <3>2, <3>3
    <2> QED BY <1>5, <2>6
  <1>10. PICK g : g = h + 1 OBVIOUS
  <1>11. /\ \A i \in 1 .. g : Replays(hist'[order2[i]].calls, maps2[i - 1], maps2[i])
         /\ maps2 \in [0 .. g -> Map]
    BY <1>8, <1>10 DEF Course, CallsIn
  <1>12. /\ g = Len(hist')
         /\ order2 \in [1 .. g -> 1 .. g]
         /\ \A i, j \in 1 .. g : order2[i] = order2[j] => i = j
         /\ \A i, j \in 1 .. g : i < j => order2[j] \notin hist'[order2[i]].after
         /\ maps2 \in [0 .. g -> Map]
         /\ maps2[0] = initial'
         /\ maps2[g] = DecidedMap'
         /\ \A i \in 1 .. g : Replays(hist'[order2[i]].calls, maps2[i - 1], maps2[i])
    BY <1>1, <1>4, <1>8, <1>9, <1>10, <1>11 DEF OrderWidened, IsOrder
  <1>13. Ordered(order2, maps2)' BY ONLY <1>12, OrderedThen
  <1> QED BY <1>7, <1>13

\* Whoever waits for its place keeps it, or moves up by one behind t.
LEMMA DecideFits ==
  ASSUME IInv, IInv', ListInv, ListInv', KeysPrecedeDefault, ReadInv, HistoryOK,
         NEW t \in Thread, PassValidation(t), NEW h, h = Len(hist), h \in Nat,
         NEW order, NEW maps, Ordered(order, maps), NEW q, Fits(t, q, order, maps),
         NEW c, c = Calls(t), NEW v, v = ViewMap(t), NEW cs, cs = CallsIn(h, hist, order),
         Inserts(h, cs, maps, q, c, v), NEW order2, order2 = Wider(h, order, q),
         NEW cs2, cs2 = CallsIn(h + 1, hist', order2), NEW maps2,
         Widened(h, cs, maps, q, c, v, cs2, maps2), DecidedMap' = Over(maps[h], v, c),
         Len(hist') = h + 1, since' = since,
         NEW u \in Thread \ {t}, pc[u] \in Validating, NEW p, Fits(u, p, order, maps),
         NEW p2, \/ p2 = p /\ p <= q /\ Hinders(u, t)
                 \/ p2 = p + 1 /\ q <= p /\ Hinders(t, u)
  PROVE  Fits(u, p2, order2, maps2)'
  <1>1. Course(h, cs, maps) /\ maps[h] = DecidedMap BY OrderedCourse
  <1>2. /\ Course(h + 1, cs2, maps2) /\ maps2[h + 1] = Over(maps[h], v, c) BY <1>1, CourseWidens
  <1>3. pc[u] \in Running BY DEF Running
  <1>4. Calls(u)' = Calls(u) BY <1>3, DecideAlone
  <1>5. PICK e, w, d : e = Calls(u) /\ w = ViewMap(u) /\ d = DecidedMap OBVIOUS
  <1>6. PICK w2 : w2 = ViewMap(u)' OBVIOUS
  <1>7. Calling(e) BY <1>3, <1>5, InRoutine DEF RoutineOK
  <1>8. /\ p \in 0 .. h /\ p \in Nat /\ q \in 0 .. h /\ q \in Nat /\ p2 \in 0 .. h + 1 /\ p2 \in Nat
        /\ (p2 = p /\ p <= q) \/ (p2 = p + 1 /\ q <= p)
    <2>1. p \in 0 .. h /\ q \in 0 .. h BY DEF Fits
    <2>2. (p2 = p /\ p <= q) \/ (p2 = p + 1 /\ q <= p) OBVIOUS
    <2> QED BY ONLY h \in Nat, <2>1, <2>2
  <1>9. ASSUME NEW i \in p2 + 1 .. h + 1 PROVE order2[i] \notin since[u]
    <2>1. OrderWidened(h, order, q, order2)
      <3>1. IsOrder(h, order) BY DEF Ordered, IsOrder
      <3> QED BY <1>8, <3>1, OrderWidens
    <2>2. since[u] \subseteq 1 .. h /\ \A j \in p + 1 .. h : order[j] \notin since[u]
      BY DEF Fits, HistoryOK
    <2>3. CASE i \in 1 .. q
      <3>1. i \in p + 1 .. h BY <1>8, <2>3
      <3> QED BY <2>1, <2>2, <2>3, <3>1 DEF OrderWidened
    <2>4. CASE i = q + 1
      <3>1. order2[i] = h + 1 BY <2>1, <2>4 DEF OrderWidened
      <3> QED BY <2>2, <3>1
    <2>5. CASE i \in q + 2 .. h + 1
      <3>1. i - 1 \in p + 1 .. h BY <1>8, <2>5
      <3> QED BY <2>1, <2>2, <2>5, <3>1 DEF OrderWidened
    <2> QED BY <1>8, <2>3, <2>4, <2>5
  <1>10. ASSUME Passing(u)' PROVE Waits(h + 1, cs2, maps2, p2, e, w2)
    <2>1. /\ Passing(u) /\ ChangedKeys(e) \cap ChangedKeys(c) = {}
          /\ \A k \in ChangedKeys(e) : w2[k] = w[k]
      BY <1>5, <1>6, <1>10, StillPassing
    <2>2. Waits(h, cs, maps, p, e, w)
      <3>1. /\ Replays(e, maps[p], Over(maps[p], w, e))
            /\ \A i \in p + 1 .. h : Indifferent(hist[order[i]].calls, e, d, w)
        BY <1>5, <2>1 DEF Fits
      <3>2. \A i \in p + 1 .. h : i \in 1 .. h BY <1>8
      <3>3. \A i \in p + 1 .. h : Indifferent(cs[i], e, maps[h], w)
        BY <1>1, <1>5, <3>1, <3>2 DEF CallsIn
      <3> QED BY <1>8, <3>1, <3>3 DEF Waits
    <2>3. CASE p2 = p /\ p <= q /\ Hinders(u, t)
      <3>1. Indifferent(c, e, d, w) BY <1>5, <1>10, <2>3, BeforeIndifferent
      <3>2. \A k \in ChangedKeys(e) : maps2[h + 1][k] = d[k]
        BY <1>1, <1>5, <1>7, <2>1, LastMap
      <3>3. Indifferent(c, e, maps2[h + 1], w2) BY <1>7, <2>1, <3>1, <3>2, IndifferentStill
      <3>4. Waits(h + 1, cs2, maps2, p, e, w2) BY <1>1, <1>7, <2>1, <2>2, <2>3, <3>3, WaitsBefore
      <3> QED BY <2>3, <3>4
    <2>4. CASE p2 = p + 1 /\ q <= p /\ Hinders(t, u)
      <3>1. Indifferent(e, c, maps[h], v) BY <1>1, <1>5, <1>10, <2>4, BehindIndifferent
      <3>2. Waits(h + 1, cs2, maps2, p + 1, e, w2) BY <1>1, <1>7, <2>1, <2>2, <2>4, <3>1, WaitsBehind
      <3> QED BY <2>4, <3>2
    <2> QED BY <2>3, <2>4
  <1>11. PICK g : g = h + 1 OBVIOUS
  <1>12. ASSUME Passing(u)'
         PROVE  /\ Replays(Calls(u)', maps2[p2], Over(maps2[p2], ViewMap(u)', Calls(u)'))
                /\ \A i \in p2 + 1 .. Len(hist') :
                      Indifferent(hist'[order2[i]].calls, Calls(u)', DecidedMap', ViewMap(u)')
    <2>1. /\ Replays(e, maps2[p2], Over(maps2[p2], w2, e))
          /\ \A i \in p2 + 1 .. g : Indifferent(cs2[i], e, maps2[g], w2)
      BY <1>10, <1>11, <1>12 DEF Waits
    <2>2. Calls(u)' = e /\ DecidedMap' = maps2[g] /\ ViewMap(u)' = w2 /\ Len(hist') = g
      BY <1>2, <1>4, <1>5, <1>6, <1>11
    <2>3. \A i \in p2 + 1 .. g : cs2[i] = hist'[order2[i]].calls
      BY <1>8, <1>11 DEF CallsIn
    <2> QED BY <2>1, <2>2, <2>3
  <1>13. /\ p2 \in 0 .. Len(hist') /\ \A i \in p2 + 1 .. Len(hist') : order2[i] \notin since'[u]
    BY <1>8, <1>9
  <1> QED BY <1>12, <1>13, FitsThen

\* When t decides it takes its place in the order.
LEMMA DecideSerial ==
  ASSUME IInv, IInv', ListInv, ListInv', KeysPrecedeDefault, ReadInv, SerialInv,
         NEW t \in Thread, PassValidation(t)
  PROVE  SerialInv'
  <1>1. PICK order, maps, place, rank, top : SerialOrder(order, maps, place, rank, top) BY DEF SerialInv
  <1>2. HistoryOK BY DEF SerialInv
  <1>3. Ordered(order, maps) BY <1>1 DEF SerialOrder
  <1>4. PICK h, c, v, q, r : h = Len(hist) /\ c = Calls(t) /\ v = ViewMap(t) /\ q = place[t] /\ r = rank[t]
    OBVIOUS
  <1>5. /\ DecidedMap' = Over(DecidedMap, v, c) /\ Calling(c) /\ Passing(t) /\ pc[t] \in Validating
        /\ DecidedMap \in Map /\ v \in Map
    BY <1>4, DecideOver
  <1>6. /\ h \in Nat /\ Len(hist') = h + 1 /\ \A i \in 1 .. h : hist'[i] = hist[i]
        /\ hist'[h + 1].calls = c /\ hist'[h + 1].after = since[t]
        /\ HistoryOK' /\ initial' = initial /\ since' = since
    BY <1>2, <1>4, <1>5, DecideHistory
  <1>7. Fits(t, q, order, maps) BY <1>1, <1>4, <1>5 DEF SerialOrder
  <1>8. PICK cs : cs = CallsIn(h, hist, order) OBVIOUS
  <1>9. PICK order2 : order2 = Wider(h, order, q) OBVIOUS
  <1>10. PICK cs2 : cs2 = CallsIn(h + 1, hist', order2) OBVIOUS
  <1>11. PICK maps2 : maps2 = WiderMaps(h, maps, q, c, v) OBVIOUS
  <1>12. maps[h] = DecidedMap /\ DecidedMap' = Over(maps[h], v, c) BY <1>3, <1>4, <1>5 DEF Ordered
  <1>13. Inserts(h, cs, maps, q, c, v) BY <1>4, <1>5, <1>6, <1>7, <1>8, <1>12, FitInserts
  <1>14. Ordered(order2, maps2)' /\ Widened(h, cs, maps, q, c, v, cs2, maps2)
    <2>1. h = Len(hist) /\ h \in Nat /\ DecidedMap' = Over(maps[h], v, c) BY <1>4, <1>6, <1>12
    <2>2. Len(hist') = h + 1 BY <1>6
    <2>3. \A i \in 1 .. h : hist'[i] = hist[i] BY <1>6
    <2>4. initial' = initial /\ hist'[h + 1].calls = c /\ hist'[h + 1].after = since[t] BY <1>6
    <2> QED BY ONLY t \in Thread, <1>2, <1>3, <1>7, <1>8, <1>9, <1>10, <1>11, <1>13,
                   <2>1, <2>2, <2>3, <2>4, DecideOrdered
  <1>15. PICK place2 : place2 = [u \in Thread |-> IF r < rank[u] THEN place[u] + 1 ELSE place[u]]
    OBVIOUS
  <1>16. place \in [Thread -> Nat] /\ top \in Nat /\ rank \in [Thread -> 0 .. top] /\ Queued(place, rank)
    BY <1>1 DEF SerialOrder
  <1>17. place2 \in [Thread -> Nat] BY <1>15, <1>16
  <1>18. ASSUME NEW u \in Thread, pc'[u] \in Validating PROVE u \in Thread \ {t} /\ pc[u] \in Validating
    BY <1>18, Decides DEF Validating
  <1>19. ASSUME NEW u \in Thread, pc'[u] \in Validating PROVE Fits(u, place2[u], order2, maps2)'
    <2>1. u \in Thread \ {t} /\ pc[u] \in Validating BY <1>18, <1>19
    <2>2. PICK p, p2 : p = place[u] /\ p2 = place2[u] OBVIOUS
    <2>3. Fits(u, p, order, maps) BY <1>1, <2>1, <2>2 DEF SerialOrder
    <2>4. \/ p2 = p /\ p <= q /\ Hinders(u, t)
          \/ p2 = p + 1 /\ q <= p /\ Hinders(t, u)
      <3>1. CASE r < rank[u]
        <4>1. place[t] <= place[u] /\ Hinders(t, u) BY <1>4, <1>5, <1>16, <2>1, <3>1 DEF Queued
        <4> QED BY <1>4, <1>15, <2>2, <3>1, <4>1
      <3>2. CASE ~(r < rank[u])
        <4>1. rank[t] # rank[u] BY <1>5, <1>16, <2>1 DEF Queued
        <4>2. rank[u] < rank[t] BY <1>4, <1>16, <2>1, <3>2, <4>1
        <4>3. place[u] <= place[t] /\ Hinders(u, t) BY <1>5, <1>16, <2>1, <4>2 DEF Queued
        <4> QED BY <1>4, <1>15, <2>2, <3>2, <4>3
      <3> QED BY <3>1, <3>2
    <2>5. Fits(u, p2, order2, maps2)'
      BY <1>2, <1>3, <1>4, <1>6, <1>7, <1>8, <1>9, <1>10, <1>12, <1>13, <1>14, <2>1, <2>3, <2>4, DecideFits
    <2> QED BY <2>2, <2>5
  <1>20. ASSUME NEW u \in Thread, NEW w \in Thread, pc'[u] \in Validating, pc'[w] \in Validating, u # w
         PROVE  /\ rank[u] # rank[w]
                /\ rank[u] < rank[w] => place2[u] <= place2[w] /\ Hinders(u, w)'
    <2>1. u \in Thread \ {t} /\ w \in Thread \ {t} /\ pc[u] \in Validating /\ pc[w] \in Validating
      BY <1>18, <1>20
    <2>2. /\ rank[u] # rank[w]
          /\ rank[u] < rank[w] => place[u] <= place[w] /\ Hinders(u, w)
      BY <1>16, <1>20, <2>1 DEF Queued
    <2>3. Hinders(u, w) => Hinders(u, w)' BY <2>1, DecideHinders
    <2>4. rank[u] < rank[w] /\ place[u] <= place[w] => place2[u] <= place2[w]
      <3>1. rank[u] \in Int /\ rank[w] \in Int /\ r \in Int /\ place[u] \in Int /\ place[w] \in Int
        BY <1>4, <1>16
      <3> QED BY <1>15, <3>1
    <2> QED BY <2>2, <2>3, <2>4
  <1>21. Ordered(order2, maps2)' /\ HistoryOK' BY <1>6, <1>14
  <1> QED BY <1>16, <1>17, <1>19, <1>20, <1>21, SerialThen

-----------------------------------------------------------------------------
(* The initial states, and steps that change nothing. *)

\* In the beginning the decided list is the initial one, and nothing is in the order.
LEMMA InitSerial ==
  ASSUME OnlyTransactions, KeysPrecedeDefault, Init
  PROVE  SerialInv
  <1>1. IInv BY InitIInv
  <1>2. /\ ListInv /\ \A n \in Node : ~Decided(n)
        /\ initial \in [Key -> Value \cup {Null}]
        /\ \A k \in Key : initial[k] # Null => \E n \in Live : node[n].key = k
        /\ \A n \in Live : node[n].key \in Key => initial[node[n].key] = node[n].value
    BY InitListInv
  <1>3. hist = <<>> /\ ended = {} /\ since = [t \in Thread |-> {}]
        /\ \A t \in Thread : pc[t] = "idle"
    BY DEF Init, StorageInit
  <1>4. PICK d, m : d = DecidedMap /\ m = initial OBVIOUS
  <1>5. m \in Map /\ d \in Map
    <2>1. \A n \in Live : DecidedValues[n] \in Value \cup {Null}
      BY <1>1, LiveNodes, DecidedValueTyped DEF DecidedValues
    <2>2. MapOf(Live, KeyOf, DecidedValues) \in Map BY <2>1, MapTyped
    <2> QED BY <1>2, <1>4, <2>2 DEF Map, DecidedMap
  <1>6. ASSUME NEW k \in Key PROVE d[k] = m[k]
    <2>1. CASE \E n \in Live : node[n].key = k
      <3>1. PICK n \in Live : node[n].key = k BY <2>1
      <3>2. n \in Node BY <1>1, LiveNodes
      <3>3. d[k] = DecidedValue(n) BY <1>1, <1>2, <1>4, <3>1, DecidedHas
      <3>4. DecidedValue(n) = node[n].value BY <1>2, <3>2 DEF DecidedValue
      <3> QED BY <1>2, <1>4, <3>1, <3>3, <3>4
    <2>2. CASE ~\E n \in Live : node[n].key = k
      <3>1. d[k] = Null BY <1>1, <1>2, <1>4, <2>2, DecidedHas
      <3> QED BY <1>2, <1>4, <2>2, <3>1
    <2> QED BY <2>1, <2>2
  <1>7. d = m BY <1>5, <1>6 DEF Map
  <1>8. Len(hist) = 0 BY <1>3
  <1>9. HistoryOK
    <2>1. IsSeq(hist) BY <1>3 DEF IsSeq
    <2> QED BY <1>3, <1>8, <2>1 DEF HistoryOK
  <1> DEFINE order == [i \in 1 .. 0 |-> i]
             maps == [i \in 0 .. 0 |-> m]
             none == [t \in Thread |-> 0]
  <1>10. Ordered(order, maps)
    <2>1. order \in [1 .. 0 -> 1 .. 0] /\ maps \in [0 .. 0 -> Map] /\ maps[0] = m BY <1>5
    <2>2. \A i \in 1 .. 0 : FALSE OBVIOUS
    <2> HIDE DEF order, maps
    <2> QED BY <1>4, <1>7, <1>8, <2>1, <2>2 DEF Ordered
  <1>11. \A t \in Thread : pc[t] \notin Validating BY <1>3 DEF Validating
  <1>12. none \in [Thread -> Nat] /\ none \in [Thread -> 0 .. 0] OBVIOUS
  <1> HIDE DEF order, maps, none
  <1>13. Queued(none, none) BY <1>11 DEF Queued
  <1>14. SerialOrder(order, maps, none, none, 0) BY <1>10, <1>11, <1>12, <1>13 DEF SerialOrder
  <1> QED BY <1>9, <1>14 DEF SerialInv

\* A step that changes nothing changes nothing here.
LEMMA IdleSerial ==
  ASSUME IInv, IInv', ListInv, KeysPrecedeDefault, ReadInv, SerialInv, UNCHANGED vars
  PROVE  SerialInv'
  <1>1. /\ node' = node /\ alloc' = alloc /\ txn' = txn /\ held' = held /\ pc' = pc
        /\ todo' = todo /\ cur' = cur /\ frame' = frame /\ jobs' = jobs /\ lock' = lock
        /\ hist' = hist /\ ended' = ended /\ since' = since /\ initial' = initial
    BY DEF vars, sharedVars, commitVars, historyVars
  <1>2. HistoryOK'
    <2>1. HistoryOK BY DEF SerialInv
    <2> QED BY <1>1, <2>1 DEF HistoryOK, Calling, IsSeq
  <1>3. /\ \A n \in Node : Same(n) /\ SameValue(n)
        /\ Live' = Live
    BY IdleSame
  <1> DEFINE S == Node
  <1>4. S \in SUBSET Node /\ Live \subseteq S BY LiveNodes
  <1>5. \A n \in Live : node'[n].key = node[n].key BY <1>1
  <1>6. DecidedMap' = DecidedMap /\ \A n, k : Precedes(n, k)' <=> Precedes(n, k)
    BY <1>3, <1>4, SameMap
  <1>7. \A w \in Thread : \A n \in txn[w].readSet : Old(w, n)' <=> Old(w, n)
    <2>1. \A w \in Thread : txn[w].readSet \subseteq Node
      BY DEF IInv, Types, ThreadOK, TxnTyped, Txn
    <2> QED BY <2>1, IdleSame
  <1>8. \A w \in Thread : View(w)' = View(w) BY IdleSame
  <1>9. ASSUME NEW w \in Thread, pc'[w] \in Validating PROVE Continues(w) /\ since'[w] = since[w]
    <2>1. pc[w] \in Validating BY <1>1, <1>9
    <2>2. Calls(w)' = Calls(w) BY <1>1, CallsSame
    <2>3. Passing(w)' <=> Passing(w) BY <1>1, <1>7 DEF Passing, CanPass
    <2>4. ASSUME Passing(w) PROVE ViewMap(w)' = ViewMap(w)
      <3>1. pc[w] \in Running /\ Consistent(w) BY <2>1, <2>4, PassingConsistent
      <3>2. View(w)' = View(w) /\ View(w) \subseteq S BY <1>8, ViewNodes
      <3>3. txn'[w].writeSet = txn[w].writeSet BY <1>1
      <3> QED BY <1>3, <1>4, <3>1, <3>2, <3>3, SameViewMap
    <2> QED BY <1>1, <2>1, <2>2, <2>3, <2>4 DEF Continues
  <1> QED BY <1>1, <1>2, <1>3, <1>5, <1>6, <1>9, ContinueSerial

-----------------------------------------------------------------------------
(* The invariant of the serial order. *)

\* In every reachable state the decided transactions have an order, and those that
\* validate a place in it.
THEOREM SerialInvariance ==
  ASSUME OnlyTransactions, KeysPrecedeDefault
  PROVE  Spec /\ CopiesCurrent /\ GotUnchanged => [](IInv /\ ListInv /\ ReadInv /\ SerialInv)
  <1>1. Spec /\ CopiesCurrent /\ GotUnchanged => [](IInv /\ ListInv /\ ReadInv) BY ReadInvariance
  <1>2. Init => SerialInv BY InitSerial
  <1>3. ASSUME IInv, IInv', ListInv, ListInv', ReadInv, SerialInv, [Next]_vars,
               [\A t \in Thread : InsertExisting(t) => frame[t].op.key \notin Got]_vars
        PROVE  SerialInv'
    <2>1. CASE UNCHANGED vars BY <1>3, <2>1, IdleSerial
    <2>2. CASE ~UNCHANGED vars
      <3>1. PICK t \in Thread : Step(t) BY <1>3, <2>2 DEF Next, Finished
      <3>2. TransactionStep(t) BY <1>3, <3>1, OnlyTransactionSteps
      <3>3. InsertExisting(t) => frame[t].op.key \notin Got BY <1>3, <2>2
      <3>4. PassValidation(t) \/ Steady(t) BY <1>3, <3>2, <3>3, StepReadInv
      <3>5. CASE PassValidation(t) BY <1>3, <3>5, DecideSerial
      <3>6. CASE ~PassValidation(t)
        <4>1. Steady(t) BY <3>4, <3>6
        <4> QED BY <1>3, <3>2, <3>6, <4>1, SteadySerial
      <3> QED BY <3>5, <3>6
    <2> QED BY <2>1, <2>2
  <1> QED BY <1>1, <1>2, <1>3, PTL DEF Spec, GotUnchanged

-----------------------------------------------------------------------------
(* What it says of the history, and of the list in memory. *)

\* What the transactions leave behind in their order.
LEMMA AfterIs ==
  ASSUME HistoryOK, NEW order, NEW maps, Ordered(order, maps)
  PROVE  After(hist, order) = [map |-> DecidedMap, ok |-> TRUE]
  <1>1. PICK h : h = Len(hist) /\ h \in Nat BY DEF HistoryOK, IsSeq
  <1>2. /\ order \in [1 .. h -> 1 .. h] /\ maps \in [0 .. h -> Map] /\ maps[0] = initial
        /\ maps[h] = DecidedMap
        /\ \A i \in 1 .. h : Replays(hist[order[i]].calls, maps[i - 1], maps[i])
    BY <1>1 DEF Ordered
  <1>3. Len(order) = h
    <2>1. order \in Seq(1 .. h) /\ DOMAIN order = 1 .. h BY <1>1, <1>2
    <2> QED BY <1>1, <2>1
  <1> DEFINE first == [map |-> initial, ok |-> TRUE]
             Is(s) == s = [i \in 0 .. Len(order) |->
                        IF i = 0 THEN first ELSE Replay(s[i - 1], hist[order[i]].calls)]
             r == [i \in 0 .. h |-> [map |-> maps[i], ok |-> TRUE]]
             s0 == CHOOSE s : Is(s)
  <1>4. After(hist, order) = s0[Len(order)] BY DEF After
  <1>5. ASSUME NEW i \in 1 .. h
        PROVE  Replay([map |-> maps[i - 1], ok |-> TRUE], hist[order[i]].calls)
                  = [map |-> maps[i], ok |-> TRUE]
    <2>1. PICK c : c = hist[order[i]].calls OBVIOUS
    <2>2. Calling(c) BY <1>1, <1>2, <2>1 DEF HistoryOK
    <2>3. Replays(c, maps[i - 1], maps[i]) BY <1>2, <2>1
    <2> QED BY <2>1, <2>2, <2>3, ReplayIs
  <1>6. Is(r)
    <2>1. \A i \in 1 .. h : i - 1 \in 0 .. h /\ r[i - 1] = [map |-> maps[i - 1], ok |-> TRUE] BY <1>1
    <2>2. \A i \in 0 .. h : r[i] = [map |-> maps[i], ok |-> TRUE] OBVIOUS
    <2>3. r[0] = first
      <3>1. 0 \in 0 .. h BY <1>1
      <3>2. r[0] = [map |-> maps[0], ok |-> TRUE] BY <3>1
      <3> QED BY <1>2, <3>2
    <2>4. \A i \in 0 .. h : i = 0 \/ i \in 1 .. h BY <1>1
    <2>5. r = [i \in 0 .. h |-> r[i]] OBVIOUS
    <2> HIDE DEF r, first
    <2>6. ASSUME NEW i \in 0 .. h
          PROVE  r[i] = IF i = 0 THEN first ELSE Replay(r[i - 1], hist[order[i]].calls)
      BY <1>5, <2>1, <2>2, <2>3, <2>4
    <2> QED BY <1>3, <2>5, <2>6
  <1>7. Is(s0)
    <2> HIDE DEF Is, r
    <2> QED BY <1>6
  <1>8. PICK s : s = s0 OBVIOUS
  <1>9. \A i \in 0 .. h : s[i] = IF i = 0 THEN first ELSE Replay(s[i - 1], hist[order[i]].calls)
    <2> HIDE DEF s0, first
    <2>1. Is(s) BY <1>7, <1>8
    <2> QED BY <1>3, <2>1
  <1> DEFINE S == {i \in Nat : i <= h => s[i] = [map |-> maps[i], ok |-> TRUE]}
  <1>10. 0 \in S
    <2>1. 0 \in 0 .. h BY <1>1
    <2>2. s[0] = first
      <3> HIDE DEF first
      <3> QED BY <1>9, <2>1
    <2> QED BY <1>2, <2>2
  <1>11. ASSUME NEW i \in Nat, i \in S PROVE i + 1 \in S
    <2>1. SUFFICES ASSUME i + 1 <= h PROVE s[i + 1] = [map |-> maps[i + 1], ok |-> TRUE] OBVIOUS
    <2>2. PICK j : j = i + 1 /\ j - 1 = i OBVIOUS
    <2>3. j \in 1 .. h /\ j \in 0 .. h /\ j # 0 BY <1>1, <2>1, <2>2
    <2>4. s[j - 1] = [map |-> maps[j - 1], ok |-> TRUE] BY <1>1, <1>11, <2>1, <2>2
    <2>5. s[j] = Replay(s[j - 1], hist[order[j]].calls)
      <3> HIDE DEF first
      <3> QED BY <1>9, <2>3
    <2> QED BY <1>5, <2>2, <2>3, <2>4, <2>5
  <1>12. Nat \subseteq S
    <2> HIDE DEF S
    <2> QED BY <1>10, <1>11, NatSets
  <1>13. s[h] = [map |-> maps[h], ok |-> TRUE] BY <1>1, <1>12
  <1> QED BY <1>2, <1>3, <1>4, <1>8, <1>13

\* While nothing runs, no node is locked and nothing is decided.
LEMMA NothingDecided ==
  ASSUME IInv, NothingRuns
  PROVE  NothingLocked /\ \A n \in Node : ~Decided(n)
  <1>1. \A t \in Thread : pc[t] = "idle" BY DEF NothingRuns
  <1>2. \A n \in Node : ~Decided(n) BY <1>1 DEF Decided, Pending, Committing
  <1>3. ASSUME NEW t \in Thread PROVE held[t] = {}
    <2>1. "idle" \notin Holding BY DEF Holding, Validating, Committing
    <2>2. HoldsOK(t) BY DEF IInv, Ownership
    <2> QED BY <1>1, <2>1, <2>2 DEF HoldsOK
  <1>4. NothingLocked BY <1>3 DEF NothingLocked, IInv, Ownership
  <1> QED BY <1>2, <1>4

\* The chain reaches every node of the decided list.
LEMMA ChainReaches ==
  ASSUME IInv, ListInv, KeysPrecedeDefault, NothingLocked, \A n \in Node : ~Decided(n),
         NEW n \in Live
  PROVE  \E i \in Nat : Chain[i] = n
  <1>1. ListOf(Live, DecidedNexts, KeyOf) BY LiveList
  <1>2. /\ Sentinel \in Live /\ Live \subseteq Node /\ Null \notin Live
        /\ \A m \in Live \ {Sentinel} : \E p \in Live : DecidedNexts[p] = m
        /\ \A p \in Live : DecidedNexts[p] # Null /\ p # Sentinel => KeyOf[p] < KeyOf[DecidedNexts[p]]
        /\ \A m \in Live \ {Sentinel} : KeyOf[m] \in Key
    BY <1>1 DEF ListOf, Linked, Keyed
  <1>3. \A p \in Live : DecidedNexts[p] = node[p].next
    BY <1>2 DEF DecidedNexts, DecidedNext
  <1>4. /\ Chain[0] = Sentinel
        /\ \A i \in Nat : Chain[i + 1] = IF Chain[i] = Null THEN Null ELSE node[Chain[i]].next
    <2>1. \A m \in Node : node[m].next \in Node \cup {Null} BY DEF IInv, Types, MemoryOK, Link
    <2> QED BY <2>1, ChainIs
  <1> DEFINE Off == {m \in Live : \A i \in Nat : Chain[i] # m}
             keys == {KeyOf[m] : m \in Off}
  <1>5. SUFFICES ASSUME n \in Off PROVE FALSE OBVIOUS
  <1>6. \A m \in Off : m \in Live \ {Sentinel} BY <1>4
  <1>7. keys \in SUBSET Key /\ keys # {} BY <1>2, <1>5, <1>6
  <1>8. PICK k \in keys : \A j \in keys : k <= j
    <2> HIDE DEF keys
    <2> QED BY <1>7, KeyOrderAssumption
  <1>9. PICK m \in Off : KeyOf[m] = k BY <1>8
  <1>10. PICK p \in Live : DecidedNexts[p] = m BY <1>2, <1>6, <1>9
  <1>11. p \in Off
    <2>1. SUFFICES ASSUME NEW i \in Nat, Chain[i] = p PROVE FALSE OBVIOUS
    <2>2. Chain[i + 1] = m BY <1>2, <1>3, <1>4, <1>10, <2>1
    <2>3. i + 1 \in Nat OBVIOUS
    <2> QED BY <1>9, <2>2, <2>3
  <1>12. KeyOf[p] < k /\ KeyOf[p] \in keys /\ KeyOf[p] \in Int /\ k \in Int
    <2>1. p # Sentinel /\ m # Null /\ KeyOf[p] \in keys BY <1>2, <1>6, <1>9, <1>11
    <2>2. KeyOf[p] \in Key /\ k \in Key BY <1>2, <1>6, <1>9, <1>11
    <2> HIDE DEF keys
    <2> QED BY <1>2, <1>9, <1>10, <2>1, <2>2, KeyAssumption
  <1> HIDE DEF keys
  <1> QED BY <1>8, <1>12

\* No node is twice on the chain, so it reaches each within as many steps as there
\* are nodes.
LEMMA ChainShort ==
  ASSUME IInv, ListInv, KeysPrecedeDefault, NothingLocked, NEW i \in Nat, Chain[i] # Null
  PROVE  i < Cardinality(Node)
  <1>1. /\ \A j \in Nat : Chain[j] # Null => Chain[j] \in Live /\ (j # 0 => Chain[j] # Sentinel)
        /\ \A j \in Nat : Chain[j + 1] # Null => Chain[j] # Null /\ Chain[j + 1] = DecidedNexts[Chain[j]]
    BY ChainLive
  <1>2. ListOf(Live, DecidedNexts, KeyOf) BY LiveList
  <1>3. /\ Live \subseteq Node /\ \A m \in Live \ {Sentinel} : KeyOf[m] \in Key
        /\ \A p \in Live : DecidedNexts[p] # Null /\ p # Sentinel => KeyOf[p] < KeyOf[DecidedNexts[p]]
    BY <1>2 DEF ListOf, Linked, Keyed
  <1>4. Chain[0] = Sentinel
    <2>1. \A m \in Node : node[m].next \in Node \cup {Null} BY DEF IInv, Types, MemoryOK, Link
    <2> QED BY <2>1, ChainIs
  <1> DEFINE S == {j \in Nat : Chain[j] # Null =>
                \A l \in 0 .. j - 1 : Chain[l] # Null /\ (l # 0 => KeyOf[Chain[l]] < KeyOf[Chain[j]])}
  <1>5. 0 \in S OBVIOUS
  <1>6. ASSUME NEW j \in Nat, j \in S PROVE j + 1 \in S
    <2>1. SUFFICES ASSUME Chain[j + 1] # Null, NEW l \in 0 .. j
                   PROVE  Chain[l] # Null /\ (l # 0 => KeyOf[Chain[l]] < KeyOf[Chain[j + 1]])
      OBVIOUS
    <2>2. Chain[j] # Null /\ Chain[j + 1] = DecidedNexts[Chain[j]] BY <1>1, <2>1
    <2>3. CASE l = j
      <3>1. ASSUME l # 0 PROVE KeyOf[Chain[j]] < KeyOf[Chain[j + 1]]
        BY <1>1, <1>3, <2>1, <2>2, <2>3, <3>1
      <3> QED BY <2>2, <2>3, <3>1
    <2>4. CASE l # j
      <3>1. l \in 0 .. j - 1 /\ j # 0 BY <2>4
      <3>2. Chain[l] # Null /\ (l # 0 => KeyOf[Chain[l]] < KeyOf[Chain[j]]) BY <1>6, <2>2, <3>1
      <3>3. ASSUME l # 0 PROVE KeyOf[Chain[l]] < KeyOf[Chain[j + 1]]
        <4>1. Chain[j] \in Live \ {Sentinel} /\ Chain[l] \in Live \ {Sentinel}
              /\ Chain[j + 1] \in Live \ {Sentinel}
          BY <1>1, <2>1, <2>2, <3>1, <3>2, <3>3
        <4>2. /\ KeyOf[Chain[j]] \in Int /\ KeyOf[Chain[l]] \in Int /\ KeyOf[Chain[j + 1]] \in Int
          BY <1>3, <4>1, KeyAssumption
        <4>3. KeyOf[Chain[j]] < KeyOf[Chain[j + 1]] BY <1>3, <2>1, <2>2, <4>1
        <4>4. KeyOf[Chain[l]] < KeyOf[Chain[j]] BY <3>2, <3>3
        <4> QED BY <4>2, <4>3, <4>4
      <3> QED BY <3>2, <3>3
    <2> QED BY <2>3, <2>4
  <1>7. Nat \subseteq S
    <2> HIDE DEF S
    <2> QED BY <1>5, <1>6, NatSets
  <1>8. \A j \in 0 .. i : Chain[j] # Null
    <2>1. i \in S BY <1>7
    <2> QED BY <2>1
  <1>9. \A j \in 0 .. i : Chain[j] \in Node
    BY <1>1, <1>3, <1>8
  <1>10. ASSUME NEW l \in 0 .. i, NEW j \in 0 .. i, l < j PROVE Chain[l] # Chain[j]
    <2>1. j \in Nat /\ l \in Nat /\ j # 0 /\ l \in 0 .. j - 1 BY <1>10
    <2>2. Chain[j] # Null /\ Chain[j] # Sentinel BY <1>1, <1>8, <2>1
    <2>3. CASE l = 0 BY <1>4, <2>2, <2>3
    <2>4. CASE l # 0
      <3>1. j \in S BY <1>7, <2>1
      <3>2. KeyOf[Chain[l]] < KeyOf[Chain[j]] BY <2>1, <2>2, <2>4, <3>1
      <3>3. Chain[j] \in Live \ {Sentinel} BY <1>1, <2>1, <2>2
      <3>4. KeyOf[Chain[j]] \in Int BY <1>3, <3>3, KeyAssumption
      <3> QED BY <3>2, <3>4
    <2> QED BY <2>3, <2>4
  <1> DEFINE f == [j \in 0 .. i |-> Chain[j]]
  <1>11. f \in Fun!Injection(0 .. i, Node)
    <2>1. f \in [0 .. i -> Node] BY <1>9
    <2>2. \A l, j \in 0 .. i : f[l] = f[j] => l = j
      <3>1. SUFFICES ASSUME NEW l \in 0 .. i, NEW j \in 0 .. i, l # j PROVE Chain[l] # Chain[j]
        OBVIOUS
      <3>2. l < j \/ j < l BY <3>1
      <3> HIDE DEF f
      <3> QED BY <1>10, <3>2
    <2> HIDE DEF f
    <2>3. DOMAIN f = 0 .. i BY <2>1
    <2> QED BY <2>1, <2>2, <2>3 DEF Fun!Injection, Fun!IsInjective
  <1>12. Cardinality(0 .. i) <= Cardinality(Node)
    <2> HIDE DEF f
    <2>1. f \in Injection(0 .. i, Node) BY <1>11 DEF Fun!Injection, Fun!IsInjective, Injection, IsInjective
    <2> QED BY <2>1, MemoryAssumption, FS_Injection
  <1>13. Cardinality(0 .. i) = i + 1
    <2>1. 0 \in Int /\ i \in Int /\ ~(0 > i) OBVIOUS
    <2> QED BY <2>1, FS_Interval
  <1>14. Cardinality(Node) \in Nat BY MemoryAssumption, FS_CardinalityType
  <1> QED BY <1>12, <1>13, <1>14

\* While nothing runs, the chain holds the decided map.
LEMMA ContentsAre ==
  ASSUME IInv, ListInv, KeysPrecedeDefault, NothingRuns
  PROVE  Contents = DecidedMap
  <1>1. NothingLocked /\ \A n \in Node : ~Decided(n) BY NothingDecided
  <1>2. Cardinality(Node) \in Nat BY MemoryAssumption, FS_CardinalityType
  <1>3. \A i \in Places : Chain[i] \in Live /\ i \in Nat BY <1>1, <1>2, ChainLive DEF Places
  <1>4. Live \subseteq Node BY LiveNodes
  <1>5. PICK d : d = DecidedMap OBVIOUS
  <1>6. d \in Map
    <2>1. \A n \in Live : DecidedValues[n] \in Value \cup {Null}
      BY LiveNodes, DecidedValueTyped DEF DecidedValues
    <2>2. MapOf(Live, KeyOf, DecidedValues) \in Map BY <2>1, MapTyped
    <2> QED BY <1>5, <2>2 DEF DecidedMap
  <1>7. ASSUME NEW k \in Key PROVE Contents[k] = d[k]
    <2>1. CASE \E i \in Places : node[Chain[i]].key = k
      <3>1. PICK i \in Places : /\ node[Chain[i]].key = k
                                /\ i = CHOOSE j \in Places : node[Chain[j]].key = k
        BY <2>1
      <3>2. Contents[k] = node[Chain[i]].value BY <2>1, <3>1 DEF Contents
      <3>3. PICK n : n = Chain[i] OBVIOUS
      <3>4. n \in Live /\ node[n].key = k BY <1>3, <3>1, <3>3
      <3>5. d[k] = DecidedValue(n) BY <1>5, <3>4, DecidedHas
      <3>6. DecidedValue(n) = node[n].value BY <1>1, <1>4, <3>4 DEF DecidedValue
      <3> QED BY <3>2, <3>3, <3>5, <3>6
    <2>2. CASE ~\E i \in Places : node[Chain[i]].key = k
      <3>1. Contents[k] = Null BY <2>2 DEF Contents
      <3>2. ASSUME d[k] # Null PROVE FALSE
        <4>1. PICK n \in Live : node[n].key = k BY <1>5, <3>2, DecidedHas
        <4>2. PICK i \in Nat : Chain[i] = n BY <1>1, <4>1, ChainReaches
        <4>3. n # Null BY <1>4, <4>1, NodeAssumption
        <4>4. i < Cardinality(Node) BY <1>1, <4>2, <4>3, ChainShort
        <4>5. i # 0
          <5>1. KeyOf[Sentinel] \notin Key BY SentinelKey
          <5>2. n # Sentinel BY <1>4, <4>1, <5>1 DEF KeyOf
          <5>3. Chain[0] = Sentinel
            <6>1. \A m \in Node : node[m].next \in Node \cup {Null} BY DEF IInv, Types, MemoryOK, Link
            <6> QED BY <6>1, ChainIs
          <5> QED BY <4>2, <5>2, <5>3
        <4>6. i \in Places BY <1>2, <4>2, <4>3, <4>4, <4>5 DEF Places
        <4> QED BY <2>2, <4>1, <4>2, <4>6
      <3> QED BY <3>1, <3>2
    <2> QED BY <2>1, <2>2
  <1>8. Contents = [k \in Key |-> Contents[k]] BY DEF Contents
  <1>9. d = [k \in Key |-> d[k]] BY <1>6 DEF Map
  <1> QED BY <1>5, <1>7, <1>8, <1>9

\* The order that the invariant speaks of is one in which the transactions could have
\* been called one after the other.
LEMMA SerialInvSerializable ==
  ASSUME IInv, ListInv, KeysPrecedeDefault, SerialInv
  PROVE  Serializable
  <1>1. SUFFICES ASSUME NothingRuns
                 PROVE  \E order \in Orders(hist) :
                            LET final == After(hist, order) IN final.ok /\ final.map = Contents
    BY DEF Serializable
  <1>2. PICK order, maps, place, rank, top : SerialOrder(order, maps, place, rank, top) BY DEF SerialInv
  <1>3. HistoryOK /\ Ordered(order, maps) BY <1>2 DEF SerialInv, SerialOrder
  <1>4. After(hist, order) = [map |-> DecidedMap, ok |-> TRUE] BY <1>3, AfterIs
  <1>5. Contents = DecidedMap BY <1>1, ContentsAre
  <1>6. order \in Orders(hist)
    <2>1. PICK h : h = Len(hist) OBVIOUS
    <2>2. DOMAIN hist = 1 .. h BY <1>3, <2>1 DEF HistoryOK, IsSeq
    <2>3. /\ order \in [1 .. h -> 1 .. h]
          /\ \A i, j \in 1 .. h : order[i] = order[j] => i = j
          /\ \A i, j \in 1 .. h : i < j => order[j] \notin hist[order[i]].after
      BY <1>3, <2>1 DEF Ordered
    <2>4. order \in Fun!Injection(DOMAIN hist, DOMAIN hist)
      BY <2>2, <2>3 DEF Fun!Injection, Fun!IsInjective
    <2> QED BY <2>2, <2>3, <2>4 DEF Orders
  <1> QED BY <1>4, <1>5, <1>6

\* When nothing runs, the committed transactions have returned, and left in the list,
\* what they would have in some sequential order that respects real time.
THEOREM TransactionsSerializable ==
  ASSUME OnlyTransactions, KeysPrecedeDefault
  PROVE  Spec /\ CopiesCurrent /\ GotUnchanged => []Serializable
  <1>1. IInv /\ ListInv /\ SerialInv => Serializable BY SerialInvSerializable
  <1> QED BY <1>1, SerialInvariance, PTL
===============================================================================
