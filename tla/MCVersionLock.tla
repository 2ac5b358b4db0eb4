---------------------------- MODULE MCVersionLock ----------------------------
(* Instances of VersionLock for TLC. *)
EXTENDS VersionLock, TLC

MCVersion == {0, 1}

\* Threads are interchangeable, and no liveness is checked here.
Symmetry == Permutations(Thread)
=============================================================================
