------------------------------ MODULE MCTxnList ------------------------------
(***************************************************************************)
(* Instances of the list for TLC: small routines and single operations,    *)
(* the assignments of jobs to two threads that each run considers, and the *)
(* initial lists.                                                          *)
(***************************************************************************)
EXTENDS TxnListProperties, TLC

CONSTANTS t1, t2

\* Keys below and above TKey{}, the key of the node a removed node links to.
KeysBelowDefault == {-2, -1}
KeysAboveDefault == {1, 2}
ThreeKeysBelowDefault == {-3, -2, -1}

Ins(k, v) == [kind |-> "Insert", key |-> k, value |-> v]
Rem(k) == [kind |-> "Remove", key |-> k, value |-> DefaultValue]
Has(k) == [kind |-> "Contains", key |-> k, value |-> DefaultValue]
Val(k) == [kind |-> "Get", key |-> k, value |-> DefaultValue]
Throw == [kind |-> "Throw", key |-> CHOOSE k \in Key : TRUE, value |-> DefaultValue]

Dispatch(body) == [call |-> "Dispatch", body |-> body]
TryDispatch(body) == [call |-> "TryDispatch", body |-> body]
Single(op) == [call |-> "single", body |-> <<op>>]

Pair(jobs1, jobs2) == (t1 :> jobs1) @@ (t2 :> jobs2)

On(keys, by, jobs1, jobs2) == [keys |-> keys, by |-> by, jobs |-> Pair(jobs1, jobs2)]
OnEmpty(jobs1, jobs2) == On({}, "transaction", jobs1, jobs2)
OnTxnList(jobs1, jobs2) == On(Key, "transaction", jobs1, jobs2)
OnSinglesList(jobs1, jobs2) == On(Key, "singles", jobs1, jobs2)

-----------------------------------------------------------------------------
(* Attempts that fail, end or have to be repeated: routines that throw,      *)
(* TryDispatch, and nodes left by single operations.  No key is inserted or  *)
(* removed by both threads, and on the singles' list one thread only writes. *)

OnTwo(jobs1, jobs2) == On({-2, -1}, "transaction", jobs1, jobs2)
OnTwoSingles(jobs1, jobs2) == On({-2, -1}, "singles", jobs1, jobs2)

LifecycleScenario ==
    { OnTwo(<<TryDispatch(<<Ins(-2, 1), Rem(-2), Throw>>), TryDispatch(<<Rem(-2)>>)>>,
                <<TryDispatch(<<Rem(-1), Val(-2)>>)>>),
      OnTwo(<<TryDispatch(<<Rem(-2), Has(-1)>>)>>, <<TryDispatch(<<Has(-2), Rem(-1)>>)>>),
      OnEmpty(<<Dispatch(<<Ins(-2, 1), Rem(-2)>>)>>, <<Dispatch(<<Ins(-1, 1), Rem(-1)>>)>>),
      OnEmpty(<<Dispatch(<<Ins(-2, 1), Has(-1)>>)>>, <<Dispatch(<<Ins(-1, 1), Has(-2)>>)>>),
      OnTwoSingles(<<Dispatch(<<Has(-1), Ins(-2, 1), Rem(-1)>>)>>, << >>),
      OnTwoSingles(<<Dispatch(<<Rem(-1)>>), Dispatch(<<Ins(-1, 1), Val(-1)>>)>>, << >>),
      OnTwoSingles(<<Dispatch(<<Rem(-1), Has(-2)>>)>>, << >>),
      OnTwoSingles(<<Dispatch(<<Val(-2), Has(-1)>>)>>, <<Dispatch(<<Has(-1)>>)>>) }

-----------------------------------------------------------------------------
(* Single operations, on lists in which the last key is never removed.  No   *)
(* key is linked right before a present one that the other thread looks up   *)
(* (SingleContainsScenario), and none is inserted that is there while the other    *)
(* thread removes it.                                                        *)

Singles(ops) == [i \in DOMAIN ops |-> Single(ops[i])]

Both(keys, by, ops1, ops2) == On(keys, by, Singles(ops1), Singles(ops2))

SingleScenario ==
    { Both(Key, "singles", <<Rem(-2), Has(-2)>>, <<Rem(-3), Val(-2)>>),
      Both(Key, "singles", <<Rem(-3), Has(-1)>>, <<Ins(-2, 1), Val(-2)>>),
      Both(Key, "singles", <<Rem(-2)>>, <<Rem(-2), Has(-3)>>),
      Both(Key, "singles", <<Ins(-1, 1), Rem(-2)>>, <<Rem(-2), Val(-1)>>),
      Both(Key, "singles", <<Rem(-3), Val(-3)>>, <<Rem(-3), Rem(-2)>>),
      Both({-3, -1}, "transaction", <<Rem(-3)>>, <<Ins(-2, 1), Has(-3)>>),
      Both({-3, -1}, "transaction", <<Ins(-2, 1), Val(-2)>>, <<Ins(-2, 0), Has(-2)>>),
      Both({-3, -1}, "singles", <<Ins(-2, 1), Rem(-2)>>, <<Rem(-3)>>),
      Both({-3}, "singles", <<Ins(-2, 1), Val(-2)>>, <<Rem(-1), Has(-2)>>),
      OnTxnList(<<Single(Ins(-1, 1)), Single(Val(-1))>>, <<Dispatch(<<Has(-3), Rem(-3)>>)>>),
      OnEmpty(<<Single(Ins(-2, 1)), Dispatch(<<Has(-2), Rem(-2), Ins(-1, 1)>>),
                Single(Ins(-3, 0)), Dispatch(<<Has(-3), Rem(-1)>>), Single(Val(-3))>>, << >>) }

MixedScenario == LifecycleScenario \cup SingleScenario

-----------------------------------------------------------------------------
(* Where the code departs from what it documents. *)

\* The value of a key is overwritten while a transaction inserts it.
InsertExistingScenario ==
    { OnTxnList(<<Dispatch(<<Rem(-1)>>)>>, <<Dispatch(<<Ins(-2, 1), Rem(-1)>>)>>) }

\* Each transaction reads a value that the other overwrites.
WriteSkewScenario ==
    { OnTxnList(<<Dispatch(<<Val(-2), Ins(-1, 1)>>)>>, <<Dispatch(<<Val(-1), Ins(-2, 1)>>)>>) }

\* A key is looked up behind a node that is being removed.
RemovedNodeScenario == { OnTxnList(<<Dispatch(<<Has(2)>>)>>, <<Dispatch(<<Rem(1)>>)>>) }

\* One thread removes a key that the other one inserts again.
IndexScenario == { OnTxnList(<<Dispatch(<<Rem(-1)>>)>>, <<Dispatch(<<Ins(-1, 1)>>)>>) }

\* A reader and a writer on a list that single operations populated.
SinglesScenario ==
    { OnSinglesList(<<Dispatch(<<Has(-1)>>)>>, <<Dispatch(<<Rem(-1)>>)>>) }

\* A key is looked up while another one is inserted right before it.
SingleContainsScenario ==
    { Both({-3, -1}, "singles", <<Has(-1)>>, <<Ins(-2, 1)>>) }

\* A key is looked up while another single operation has locked the sentinel.
SingleThrowsScenario ==
    { Both({-3, -2}, "singles", <<Has(-3)>>, <<Rem(-3)>>) }
=============================================================================
