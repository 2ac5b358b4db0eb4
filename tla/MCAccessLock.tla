----------------------------- MODULE MCAccessLock -----------------------------
(***************************************************************************)
(* The reader-writer spin lock with as many threads as its counts hold.    *)
(***************************************************************************)
EXTENDS AccessLock
=============================================================================
