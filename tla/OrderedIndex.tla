----------------------------- MODULE OrderedIndex -----------------------------
(***************************************************************************)
(* What the index promises its callers, whatever runs at the same time.    *)
(*                                                                         *)
(* An insert or an erase takes effect at one instant, or finds that there  *)
(* is nothing to do at some instant of the call.  An answer is about the   *)
(* whole call: a search or an iteration looks at one key after the other,  *)
(* so it may miss what came while it ran and name what has just gone, but  *)
(* never misses a key that was there from its start to its end.            *)
(***************************************************************************)
EXTENDS Integers, Sequences

CONSTANTS Thread,
          Key,            \* what the index can hold
          Before(_, _),   \* their order
          Nothing         \* no answer

VARIABLES contents,   \* the keys in the index
          call        \* the call each thread is in

\* "always" and "ever" are the keys that were in the index at every and at some
\* moment of the call, "acted" that it has had its effect.
NoCall == [op |-> "none", key |-> Nothing, acted |-> FALSE,
           always |-> {}, ever |-> {}, answer |-> Nothing]

Operation == {"insert", "erase", "previous", "sum", "empty"}

TypeOK ==
    /\ contents \subseteq Key
    /\ DOMAIN call = Thread
    /\ \A t \in Thread : call[t].op \in Operation \cup {"none"}

Init == contents \subseteq Key /\ call = [t \in Thread |-> NoCall]

\* What every call in progress has seen once the index holds "held".
Seen(calls, held) ==
    [t \in Thread |->
        IF calls[t].op = "none" THEN calls[t]
        ELSE [calls[t] EXCEPT !.always = @ \cap held, !.ever = @ \cup held]]

Begin(t) ==
    /\ call[t].op = "none"
    /\ \E op \in Operation, key \in Key :
        call' = [call EXCEPT ![t] = [NoCall EXCEPT !.op = op, !.key = key,
                                                   !.always = contents, !.ever = contents]]
    /\ UNCHANGED contents

Insert(t) ==
    /\ call[t].op = "insert" /\ ~call[t].acted /\ call[t].key \notin contents
    /\ contents' = contents \cup {call[t].key}
    /\ call' = Seen([call EXCEPT ![t].acted = TRUE], contents')

Erase(t) ==
    /\ call[t].op = "erase" /\ ~call[t].acted /\ call[t].key \in contents
    /\ contents' = contents \ {call[t].key}
    /\ call' = Seen([call EXCEPT ![t].acted = TRUE], contents')

Ascending(s) ==
    \A i, j \in 1 .. Len(s) : i < j => Before(s[i], s[j])

\* The answers a call may end with.  A sum goes through all keys in their order;
\* whether the index is empty is not told reliably while others change it.
Fits(c, answer) ==
    CASE c.op = "insert" -> c.acted \/ c.key \in c.ever
      [] c.op = "erase" -> c.key \notin c.always
      [] c.op = "previous" ->
            /\ answer \in c.ever /\ Before(answer, c.key)
            /\ ~\E k \in c.always : Before(answer, k) /\ Before(k, c.key)
      [] c.op = "sum" ->
            /\ Ascending(answer)
            /\ c.always \subseteq {answer[i] : i \in 1 .. Len(answer)}
            /\ {answer[i] : i \in 1 .. Len(answer)} \subseteq c.ever
      [] OTHER -> answer \in BOOLEAN

End(t) ==
    /\ call[t].op # "none"
    /\ call' = [call EXCEPT ![t] = [NoCall EXCEPT !.answer = call'[t].answer]]
    /\ Fits(call[t], call'[t].answer)
    /\ UNCHANGED contents

Next == \E t \in Thread : Begin(t) \/ Insert(t) \/ Erase(t) \/ End(t)

Spec == Init /\ [][Next]_<<contents, call>>
===============================================================================
