------------------------------- MODULE MCSkipList -------------------------------
EXTENDS SkipListPromise, TLC

CONSTANTS t1, t2

Job(op, key) == [op |-> op, key |-> key]

\* The keys 2 and 4 are there; 2 reaches the layer above, like the sentinel, whose
\* height keeps slist->top_layer from falling.
Tops == (SentinelKey :> MaxLayer) @@ (2 :> 1) @@ (4 :> 0)

Together(one, other) == [tops |-> Tops, jobs |-> (t1 :> one) @@ (t2 :> other)]

\* Changes next to each other, of one key, and of a key while others search for it,
\* go through it, or read the size.
PassScenario == {
    Together(<<Job("insert", 3)>>, <<Job("insert", 3)>>),
    Together(<<Job("insert", 3)>>, <<Job("insert", 5)>>),
    Together(<<Job("insert", 3)>>, <<Job("erase", 2)>>),
    Together(<<Job("insert", 3)>>, <<Job("erase", 4)>>),
    Together(<<Job("insert", 2)>>, <<Job("erase", 2)>>),
    Together(<<Job("insert", 1), Job("erase", 2)>>, <<Job("previous", 3)>>),
    Together(<<Job("erase", 4), Job("insert", 4)>>, <<Job("previous", 5)>>),
    Together(<<Job("insert", 3)>>, <<Job("sum", SentinelKey)>>),
    Together(<<Job("erase", 4), Job("insert", 4)>>, <<Job("empty", SentinelKey)>>)}

\* Two erases next to each other: the one looks for the node after its own while
\* the other one unlinks that node.
EraseScenario == {Together(<<Job("erase", 2)>>, <<Job("erase", 4)>>)}

\* The node an insert has found to come next is erased, and its memory holds the
\* next key that the other thread inserts.
ReuseScenario == {
    [tops |-> (SentinelKey :> MaxLayer) @@ (5 :> 0),
     jobs |-> (t1 :> <<Job("insert", 4)>>) @@ (t2 :> <<Job("erase", 5), Job("insert", 3)>>)]}

\* The theorems of SkipListProofs are about these scenarios too.
ASSUME ScenarioAssumption == SentinelStays
=================================================================================
