------------------------------ MODULE MCTxnMixed ------------------------------
(***************************************************************************)
(* Instances for TLC of programs that use transactions and operations      *)
(* outside transactions.                                                   *)
(***************************************************************************)
EXTENDS MCTxnList, TxnListMixed

\* The run is an instance of the theorems of TxnListMixedProofs.
ASSUME ScenarioAssumption == AnyPrograms
=============================================================================
