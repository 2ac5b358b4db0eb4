-------------------------- MODULE AtomicVersionLock --------------------------
(***************************************************************************)
(* What a VersionLock promises to the code that takes it through a Locker: *)
(* every method takes effect at one instant, at most one thread possesses  *)
(* the lock, only the possessor changes the version and the flags, and the *)
(* lock flag is set exactly while somebody possesses the lock.             *)
(***************************************************************************)
EXTENDS VersionWord

CONSTANTS Thread, Version

VARIABLES word, possessors

Init == word = NewWord /\ possessors = {}

Acquire(t) ==
    /\ possessors = {}
    /\ word' = Acquired(word)
    /\ possessors' = {t}

\* The three setters, in the hands of the possessor.
Set(t) ==
    /\ t \in possessors
    /\ \/ \E v \in Version : word' = WithVersion(word, v)
       \/ \E b \in BOOLEAN : word' = WithDeleted(word, b)
       \/ \E b \in BOOLEAN : word' = WithSingleton(word, b)
    /\ UNCHANGED possessors

Release(t) ==
    /\ t \in possessors
    /\ word' = Released(word)
    /\ possessors' = possessors \ {t}

Next == \E t \in Thread : Acquire(t) \/ Set(t) \/ Release(t)

Spec == Init /\ [][Next]_<<word, possessors>>
=============================================================================
