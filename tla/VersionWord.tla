----------------------------- MODULE VersionWord -----------------------------
(***************************************************************************)
(* The 64-bit word of a VersionLock (Infrastructure/VersionLock.cpp): the  *)
(* lock, delete and singleton flags and the version, as a record, and what *)
(* each method of the class does to a loaded value.  Pure operators only:  *)
(* how the loads, stores and compare-exchanges interleave is in the        *)
(* modules that use them.  The version is unbounded here; in the code it   *)
(* has 60 usable bits below the flags.                                     *)
(***************************************************************************)
EXTENDS Integers

Word == [locked : BOOLEAN, deleted : BOOLEAN, singleton : BOOLEAN, version : Nat]

\* VersionLock::VersionLock
NewWord == [locked |-> FALSE, deleted |-> FALSE, singleton |-> FALSE, version |-> 0]

\* The value TryAcquire swaps in, and the value Release swaps in.
Acquired(w) == [w EXCEPT !.locked = TRUE]
Released(w) == [w EXCEPT !.locked = FALSE]

\* Mutants: SetVersion off by one; SetVersion and SetDeleted with a mask that
\* covers the lock flag as well.
WithVersionOffByOne(w, v) == [w EXCEPT !.version = v - 1]
WithVersionWrongMask(w, v) == [w EXCEPT !.version = v, !.locked = FALSE]
WithDeletedWrongMask(w, b) == [w EXCEPT !.deleted = b, !.locked = FALSE]

\* What the setters store, given the word they loaded.
WithVersion(w, v) == [w EXCEPT !.version = v]
WithDeleted(w, b) == [w EXCEPT !.deleted = b]
WithSingleton(w, b) == [w EXCEPT !.singleton = b]

\* VersionLock::ValidVersionAndReleased, one load.
ValidVersionAndReleased(w, v) == ~w.locked /\ w.version <= v

\* VersionLock::IsLockedOrDeleted, one load.
IsLockedOrDeleted(w) == w.locked \/ w.deleted
=============================================================================
