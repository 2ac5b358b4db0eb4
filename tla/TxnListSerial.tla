----------------------------- MODULE TxnListSerial -----------------------------
(***************************************************************************)
(* Why transactions are serializable: the map that the decided list holds, *)
(* the map that each transaction makes of it, and the place of each        *)
(* transaction in the serial order, which it has from the moment when it   *)
(* has locked its write set.                                               *)
(***************************************************************************)
EXTENDS TxnListShape

Map == [Key -> Value \cup {Null}]

-----------------------------------------------------------------------------
(* What a list holds. *)

\* The map of these nodes, with their keys and values.
MapOf(nodes, key, value) ==
    [k \in Key |-> IF \E n \in nodes : key[n] = k
                   THEN value[CHOOSE n \in nodes : key[n] = k] ELSE Null]

DecidedValue(n) == IF Decided(n) THEN Decision(n).value ELSE node[n].value
DecidedValues == [n \in Node |-> DecidedValue(n)]
DecidedMap == MapOf(Live, KeyOf, DecidedValues)

ViewValues(t) ==
    [n \in Node |-> IF InWriteSet(t, n) THEN txn[t].writeSet[n].value ELSE DecidedValue(n)]
ViewMap(t) == MapOf(View(t), KeyOf, ViewValues(t))

\* Node x of a list is the last one before key k.
LastBefore(nodes, next, key, x, k) ==
    /\ x \in nodes
    /\ x = Sentinel \/ key[x] < k
    /\ next[x] = Null \/ key[next[x]] >= k

Precedes(x, k) == LastBefore(Live, DecidedNexts, KeyOf, x, k)

-----------------------------------------------------------------------------
(* The calls of a transaction. *)

\* A sequence of calls.
Calling(c) ==
    /\ Len(c) \in Nat
    /\ \A i \in 1 .. Len(c) : c[i].op \in Operation /\ c[i].op.kind # "Throw"

Changes(c) == c.op.kind = "Insert" \/ (c.op.kind = "Remove" /\ c.result # Null)

KeysOf(calls, i) == {calls[j].op.key : j \in 1 .. i}
CalledKeys(calls) == KeysOf(calls, Len(calls))

\* The keys that the first i calls have changed, and those whose values they tell.
ChangedBy(calls, i) == {calls[j].op.key : j \in {m \in 1 .. i : Changes(calls[m])}}
ChangedKeys(calls) == ChangedBy(calls, Len(calls))
KeysWith(calls, kinds) ==
    {calls[j].op.key : j \in {m \in 1 .. Len(calls) : calls[m].op.kind \in kinds}}

\* Called one after the other on the map "from", they return their results and
\* leave the map "to".
Steps(calls, g) ==
    /\ g \in [0 .. Len(calls) -> Map]
    /\ \A i \in 1 .. Len(calls) : /\ g[i] = Effect(g[i - 1], calls[i].op)
                                  /\ ResultOf(g[i - 1], calls[i].op) = calls[i].result
Replays(calls, from, to) ==
    \E g : Steps(calls, g) /\ g[0] = from /\ g[Len(calls)] = to

\* Map m with what "calls" change as in f.
Over(m, f, calls) == [k \in Key |-> IF k \in ChangedKeys(calls) THEN f[k] ELSE m[k]]

\* The keys that somebody is still to call Get for.
Got ==
    {k \in Key : \E u \in Thread : \E i \in DOMAIN jobs[u] : \E j \in DOMAIN jobs[u][i].body :
        jobs[u][i].body[j].kind = "Get" /\ jobs[u][i].body[j].key = k}

-----------------------------------------------------------------------------
(* What a running transaction has read and changed. *)

Removing(t) == pc[t] = "removeSuccessor"

\* The keys that it has changed; a Remove has begun to.
Effective(t) ==
    ChangedKeys(Calls(t)) \cup (IF Removing(t) THEN {frame[t].op.key} ELSE {})

\* The operation is the next one of the routine.
RoutineOK(t) ==
    LET f == frame[t] IN
    /\ Calling(Calls(t))
    /\ pc[t] = "next" => Len(f.results) <= Len(Job(t).body)
    /\ pc[t] \in Operating => /\ Len(f.results) < Len(Job(t).body)
                              /\ f.op = Job(t).body[Len(f.results) + 1]
                              /\ f.op.kind # "Throw"
    /\ pc[t] \in {"lock"} \cup Validating => Len(f.results) = Len(Job(t).body)
    /\ pc[t] \in {"removePredecessor", "removeSuccessor"} \/ (pc[t] \in AtNode /\ f.removing)
        => f.op.kind = "Remove"
    /\ pc[t] = "insertDeleted" => f.op.kind = "Insert" /\ f.op.key \notin Got

\* Nobody who decided before it began is still to write to the nodes it has found.
Clear(t, n) == InWriteSet(t, n) \/ Settled(t, n)
PlaceClear(t) ==
    /\ Between(t) \/ Removing(t) => Clear(t, frame[t].pred)
    /\ pc[t] \in {"removePredecessor", "removeSuccessor"} => Clear(t, frame[t].succ)

\* The nodes it has created or removed belong to keys that it has changed; the
\* values of the others are as they were.
EffectOK(t) ==
    /\ \A n \in Own(t) \cup Removed(t) : node[n].key \in Effective(t)
    /\ Consistent(t) => \A n \in DOMAIN txn[t].writeSet :
          n \in Live /\ node[n].key \notin Effective(t) =>
              txn[t].writeSet[n].value = DecidedValue(n)

\* Of a key that it has changed it will lock the node, and, unless it has only
\* overwritten the value, the one before it.
LocksOK(t) ==
    Consistent(t) => \A k \in Effective(t) :
        /\ \A n \in Live : node[n].key = k => n \in Touched(t)
        /\ DecidedMap[k] = Null \/ ViewMap(t)[k] = Null \/ k \in Got =>
              \E x \in DOMAIN txn[t].writeSet : Precedes(x, k)

AllOld(t) == Consistent(t) /\ \A n \in txn[t].readSet : Old(t, n)

\* The read set covers what its calls have told: of each key the node before it
\* and, if its value mattered, its own.
ReadsOK(t) ==
    AllOld(t) =>
        /\ \A k \in CalledKeys(Calls(t)) : \E x \in txn[t].readSet : Precedes(x, k)
        /\ \A k \in KeysWith(Calls(t), {"Remove"}) : \A n \in Live :
              node[n].key = k => n \in txn[t].readSet

\* As long as nothing it has read is overwritten, its calls have returned what they
\* return on the decided map, and make of it the map of its view.
ResultsOK(t) ==
    AllOld(t) =>
        IF Removing(t)
        THEN LET k == frame[t].op.key
                 value == GetUpdatedValue(t, frame[t].succ)
             IN  ViewMap(t)[k] = Null /\ Replays(Calls(t), DecidedMap, [ViewMap(t) EXCEPT ![k] = value])
        ELSE Replays(Calls(t), DecidedMap, ViewMap(t))

\* A value that a Get may read is never overwritten.
GotFixed(t) ==
    \A n \in DOMAIN txn[t].writeSet :
        node[n].key \in Got => txn[t].writeSet[n].value = node[n].value

\* The nodes in the read set exist, and nobody else hides them.
ReadSeen(t) ==
    /\ txn[t].readSet \subseteq alloc
    /\ \A u \in Thread \ {t} : txn[t].readSet \cap Hidden(u) = {}

\* UpdateWriteSet has stored the values of the nodes it is past.
Stored(u) ==
    pc[u] \in Committing => \A n \in held[u] :
        n \notin todo[u] \/ (n = cur[u] /\ pc[u] \notin {"write", "writeValue"})
            => node[n].value = txn[u].writeSet[n].value

RunningOK(t) == RoutineOK(t) /\ PlaceClear(t) /\ EffectOK(t) /\ LocksOK(t)

\* A transaction that is validating tells no more what it has read.
ThreadReads(t) == RunningOK(t) /\ (pc[t] \notin Validating => ReadsOK(t) /\ ResultsOK(t))

ReadInv ==
    /\ \A t \in Thread : GotFixed(t) /\ Stored(t) /\ ReadSeen(t)
    /\ \A t \in Thread : pc[t] \in Running => ThreadReads(t)

-----------------------------------------------------------------------------
(* The serial order. *)

\* The transaction may still pass the validation of node n, and of all.
CanPass(t, n) ==
    \/ n \notin todo[t] \/ Old(t, n)
    \/ /\ n = cur[t]
       /\ \/ pc[t] = "validateVersion" /\ lock[n].version <= txn[t].readVersion
          \/ pc[t] \in {"validateEqual", "validateSingleton", "validateRelocked"}
Passing(t) == \A n \in txn[t].readSet : CanPass(t, n)

\* What the calls c change of map m, into v, does not matter to other calls.
Indifferent(others, c, m, v) ==
    \A k \in ChangedKeys(c) :
        /\ k \notin ChangedKeys(others) \cup KeysWith(others, {"Get", "Remove"})
        /\ k \in CalledKeys(others) => m[k] # Null /\ v[k] # Null

\* The transactions that have been decided, in an order in which each returned what
\* it did; maps[i] is what the first i leave behind.
Ordered(order, maps) ==
    LET h == Len(hist) IN
    /\ order \in [1 .. h -> 1 .. h]
    /\ \A i, j \in 1 .. h : order[i] = order[j] => i = j
    /\ \A i, j \in 1 .. h : i < j => order[j] \notin hist[order[i]].after
    /\ maps \in [0 .. h -> Map] /\ maps[0] = initial /\ maps[h] = DecidedMap
    /\ \A i \in 1 .. h : Replays(hist[order[i]].calls, maps[i - 1], maps[i])

\* Transaction t can be put in behind the first q.
Fits(t, q, order, maps) ==
    /\ q \in 0 .. Len(hist)
    /\ \A i \in q + 1 .. Len(hist) : order[i] \notin since[t]
    /\ Passing(t) =>
          /\ Replays(Calls(t), maps[q], Over(maps[q], ViewMap(t), Calls(t)))
          /\ \A i \in q + 1 .. Len(hist) :
                Indifferent(hist[order[i]].calls, Calls(t), DecidedMap, ViewMap(t))

\* Transaction t has locked nodes before u validated them, so that u cannot pass if
\* it has read what t changes.
Hinders(t, u) ==
    \A n \in held[t] :
        /\ n \in txn[u].readSet => n \in todo[u] /\ (n = cur[u] => pc[u] = "validate")
        /\ Passing(u) =>
              /\ \A k \in CalledKeys(Calls(u)) : Precedes(n, k) => n \in txn[u].readSet
              /\ n \in Live /\ node[n].key \in KeysWith(Calls(u), {"Remove"}) => n \in txn[u].readSet

\* Those that are validating, in the order in which they have begun to.
Queued(place, rank) ==
    \A t, u \in Thread : pc[t] \in Validating /\ pc[u] \in Validating /\ t # u =>
        /\ rank[t] # rank[u]
        /\ rank[t] < rank[u] => place[t] <= place[u] /\ Hinders(t, u)

SerialOrder(order, maps, place, rank, top) ==
    /\ Ordered(order, maps)
    /\ \A t \in Thread : pc[t] \in Validating => Fits(t, place[t], order, maps)
    /\ place \in [Thread -> Nat] /\ top \in Nat /\ rank \in [Thread -> 0 .. top]
    /\ Queued(place, rank)

HistoryOK ==
    /\ IsSeq(hist)
    /\ \A i \in 1 .. Len(hist) : hist[i].after \subseteq 1 .. Len(hist) /\ Calling(hist[i].calls)
    /\ ended \subseteq 1 .. Len(hist)
    /\ DOMAIN since = Thread /\ \A t \in Thread : since[t] \subseteq 1 .. Len(hist)

SerialInv ==
    /\ HistoryOK
    /\ \E order, maps, place, rank, top : SerialOrder(order, maps, place, rank, top)

-----------------------------------------------------------------------------

\* While nothing that it has read is outdated, a running transaction has returned what
\* its calls return one after the other on the decided map, and its list holds what
\* they leave: only a transaction that cannot commit any more has seen anything else.
CallsReplayable ==
    \A t \in Thread :
        pc[t] \in Running \ Validating /\ AllOld(t) /\ ~Removing(t) =>
            Replay([map |-> DecidedMap, ok |-> TRUE], Calls(t)) = [map |-> ViewMap(t), ok |-> TRUE]

\* A value that a Get may read is not overwritten: Get does not put the node into
\* the read set, so nothing would tell.
GotUnchanged ==
    [][\A t \in Thread : InsertExisting(t) => frame[t].op.key \notin Got]_vars
===============================================================================
