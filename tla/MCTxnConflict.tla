---------------------------- MODULE MCTxnConflict ----------------------------
(***************************************************************************)
(* Two conflicting transactions, each retried until it commits.  On the    *)
(* populated list no transaction inserts a key that another one may unlink *)
(* or link a node to meanwhile (MCTxnInsertExisting is about that).        *)
(***************************************************************************)
EXTENDS MCTxnList, TxnListSerial

\* Every two of a sequence of routines, one in each thread.
Pairs(bodies) ==
    {<<bodies[i], bodies[j]>> : <<i, j>> \in
        {ij \in (DOMAIN bodies) \X (DOMAIN bodies) : ij[1] <= ij[2]}}

GrowingBodies == << <<Ins(-2, 1), Rem(-1)>>,
                    <<Ins(-1, 1), Rem(-2)>>,
                    <<Ins(-1, 1), Ins(-2, 1)>>,
                    <<Has(-2), Has(-1)>>,
                    <<Has(-1), Ins(-2, 0)>> >>

ShrinkingBodies == << <<Rem(-2), Ins(-2, 1)>>,
                      <<Rem(-1), Rem(-2)>>,
                      <<Has(-2), Has(-1)>>,
                      <<Val(-1), Val(-2)>>,
                      <<Has(-2), Rem(-1)>> >>

OverwritingBodies == << <<Ins(-2, 1), Ins(-1, 0)>>, <<Ins(-1, 1), Ins(-2, 0)>> >>

Retried(pairs) == {<< <<Dispatch(p[1])>>, <<Dispatch(p[2])>> >> : p \in pairs}

\* Two removals of the whole list against each other are left out for their size.
ShrinkingPairs == Pairs(ShrinkingBodies) \ {<<ShrinkingBodies[2], ShrinkingBodies[2]>>}

ConflictScenario ==
    {OnEmpty(p[1], p[2]) : p \in Retried(Pairs(GrowingBodies))}
        \cup {OnTxnList(p[1], p[2]) :
                p \in Retried(ShrinkingPairs \cup Pairs(OverwritingBodies))}
        \cup {OnEmpty(<<Dispatch(<<Ins(-2, 1)>>), Dispatch(<<Has(-1)>>)>>,
                      <<Dispatch(<<Ins(-1, 1), Rem(-2)>>)>>)}

\* The run is an instance of the theorems of TxnListProofs and TxnListReadProofs.
ASSUME ScenarioAssumption == OnlyTransactions
ASSUME MCKeys == KeysPrecedeDefault
=============================================================================
