---------------------------- MODULE SkipListPromise ----------------------------
(***************************************************************************)
(* What a call on the skip list knows of the keys, at each place of the    *)
(* code: the invariant with which the map implements OrderedIndex.         *)
(***************************************************************************)
EXTENDS SkipListInvariant

\* The calls in which "then" says where a search returns to.
Operations(then) ==
    CASE then = "insertFound" -> {"insert"}
      [] then \in {"eraseFound", "eraseNode"} -> {"erase"}
      [] then = "previousFound" -> {"previous"}
      [] then = "advance" -> {"sum"}
      [] OTHER -> {"sum", "empty"}

\* A call is in progress unless the thread is idle, and what it has seen always and
\* ever is what it sees now, and less and more.
CallIs(t) ==
    LET c == call[t] IN
    /\ c = [op |-> c.op, key |-> c.key, acted |-> c.acted, always |-> c.always,
            ever |-> c.ever, answer |-> c.answer]
    /\ c.acted \in BOOLEAN
    /\ c.op = "none" <=> pc[t] = "idle"
    /\ c.op # "none" => /\ c.op \in Operations(F(t).then)
                        /\ c.always \subseteq Contents /\ Contents \subseteq c.ever

\* What a thread works on is what it was called for.
ThenIs(t) ==
    LET then == F(t).then IN
    /\ Where(t) \in {"new", "insertFound"} \/ Creating(t) \/ Created(t) => then = "insertFound"
    /\ Erases(t) => then = "eraseNode"
    /\ Where(t) = "eraseFound" => then \in {"eraseFound", "eraseNode"}
    /\ Where(t) = "previousFound" => then = "previousFound"
    /\ Visiting(t) => then = "advance"
    /\ Where(t) \in {"begin", "first", "size"} => then = "idle"
    /\ Where(t) = "size" => call[t].op = "empty"

Queries == {"insertFound", "eraseFound", "previousFound"}

\* What it searches for.
QueryIs(t) ==
    LET f == F(t) IN
    /\ f.then \in Queries \cup {"eraseNode"} => f.key = call[t].key /\ f.key \in Key
    /\ Visiting(t) => f.node # Null /\ f.key = snode[f.node].key
    /\ f.then \in {"insertFound", "eraseFound"} => f.mode = "EQ"
    /\ f.then = "previousFound" => f.mode = "SM"
    /\ Where(t) \in {"find", "findMove"} =>
            IF f.then \in Queries THEN f.node = Null ELSE f.mode = "GT"

\* Its effect is that the node is linked or unlinked.
ActedIs(t) ==
    LET c == call[t] IN
    /\ c.acted <=> \/ Created(t) \/ Erased(t)
                   \/ Where(t) = "eraseFound" /\ F(t).then = "eraseNode"
    /\ c.acted /\ c.op = "erase" => c.key \notin c.always

-----------------------------------------------------------------------------

\* Key k has its place after node n, or before it.
IsAfter(k, n) == n = head \/ (n # tail /\ Below(snode[n].key, k))
IsBefore(k, n) == n = tail \/ (n # head /\ Below(k, snode[n].key))

\* The keys that were there all the time and are between two nodes.
Missed(t, m, n) == {k \in call[t].always : IsAfter(k, m) /\ IsBefore(k, n)}

Seeking == {"findMove", "successor", "first"}

\* A search misses none in the bottom layer, and it comes to nodes that were there.
WalkIs(t) ==
    LET f == F(t)
        c == call[t]
    IN  Where(t) \in Seeking =>
            /\ f.cur = head \/ snode[f.cur].key \in c.ever
            /\ Where(t) = "findMove" => f.cur = head \/ Below(snode[f.cur].key, f.key)
            /\ f.layer = 0 /\ pc[t] # "next" /\ f.next # Null => Missed(t, f.cur, f.next) = {}
            /\ f.layer = 0 /\ pc[t] = "check" /\ snode[f.next].key \in c.always => Linked(f.next)
            /\ f.layer = 0 /\ pc[t] = "skip" => snode[f.next].key \notin c.always
            /\ pc[t] \in Returns /\ f.next \notin {Null, tail} => snode[f.next].key \in c.ever

\* What it has found.
CursorIs(t) ==
    LET c == call[t]
        f == F(t)
        found == snode[f.cursor].key
    IN  /\ Where(t) = "insertFound" /\ f.cursor # Null => c.key \in c.ever
        /\ Where(t) = "eraseFound" /\ f.then = "eraseFound" =>
                IF f.cursor = Null THEN c.key \notin c.always ELSE found = c.key
        /\ \/ Where(t) = "eraseFound" /\ f.then = "eraseNode"
           \/ Erases(t) /\ Where(t) \notin Searching
           => (f.cursor = Null \/ Below(c.key, found))
        /\ Where(t) = "previousFound" /\ f.cursor # Null =>
                /\ found \in c.ever /\ Below(found, c.key)
                /\ ~\E k \in c.always : Below(found, k) /\ Below(k, c.key)
        /\ Where(t) = "advance" =>
                /\ f.cursor # Null => found \in c.ever
                /\ \A k \in c.always : Below(f.key, k) => f.cursor # Null /\ ~Below(k, found)

\* A sum has all the keys up to the one that it has come to.
VisitedIs(t) ==
    LET s == F(t).visited
        seen == {s[i] : i \in 1 .. Len(s)}
    IN  /\ Where(t) \in {"begin", "first"} => s = <<>>
        /\ Visiting(t) =>
                /\ s # <<>> /\ s[Len(s)] = F(t).key
                /\ Index!Ascending(s) /\ seen \subseteq call[t].ever \cap (Key \cup {SentinelKey})
                /\ \A k \in call[t].always : k \in seen \/ Below(F(t).key, k)

Knows(t) ==
    /\ CallIs(t) /\ ThenIs(t) /\ QueryIs(t) /\ ActedIs(t)
    /\ WalkIs(t) /\ CursorIs(t) /\ VisitedIs(t)

\* The invariant: each call has the effect and the view that its place in the code
\* says, and no search has passed a key that was in the index since the call began.
PInv == call = [t \in Thread |-> call[t]] /\ \A t \in Thread : Knows(t)
=============================================================================
