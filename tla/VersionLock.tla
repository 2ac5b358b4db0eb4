----------------------------- MODULE VersionLock -----------------------------
(***************************************************************************)
(* Infrastructure/VersionLock.cpp taken through Infrastructure/Locker.cpp, *)
(* one atomic access of the 64-bit word at a time: a method that loads the *)
(* word and then stores or compare-exchanges it is two actions, so that    *)
(* the methods of different threads interleave between them.  A thread     *)
(* calls the setters and Release only while its Locker has acquired the    *)
(* lock (TxnStorage.tla models the one caller that does not).              *)
(*                                                                         *)
(* The compare-exchange of Release stands inside TIXEL_ASSERT              *)
(* (VersionLock.cpp:32), which expands to nothing without _DEBUG: in the   *)
(* build without assertions Release changes nothing.                       *)
(***************************************************************************)
EXTENDS VersionWord

CONSTANTS Thread,     \* the threads that share the lock
          Version,    \* the versions SetVersion is called with
          Asserts     \* TIXEL_ASSERT evaluates its argument (_DEBUG builds)

ASSUME VersionAssumption == Version \subseteq Nat
ASSUME AssertsAssumption == Asserts \in BOOLEAN

VARIABLES word,       \* _versionAndFlags
          pc,         \* where each thread is inside a method
          saw,        \* lockValue, the word each method loaded
          isLocked    \* Locker::_isLocked of each thread's Locker

vars == <<word, pc, saw, isLocked>>

Init ==
    /\ word = NewWord
    /\ pc = [t \in Thread |-> "idle"]
    /\ saw = [t \in Thread |-> NewWord]
    /\ isLocked = [t \in Thread |-> FALSE]

-----------------------------------------------------------------------------

Load(t) == saw' = [saw EXCEPT ![t] = word]

Goto(t, label) == pc' = [pc EXCEPT ![t] = label]

\* Mutant: TryAcquire that does not look at the lock flag of the loaded word.
TryAcquireLoadUnchecked(t) ==
    /\ pc[t] = "idle" /\ ~isLocked[t]
    /\ Load(t)
    /\ Goto(t, "acquire")
    /\ UNCHANGED <<word, isLocked>>

\* Locker's constructor calls TryAcquire, which gives up on a locked word.
TryAcquireLoad(t) ==
    /\ pc[t] = "idle" /\ ~isLocked[t]
    /\ Load(t)
    /\ Goto(t, IF word.locked THEN "idle" ELSE "acquire")
    /\ UNCHANGED <<word, isLocked>>

\* Mutant: TryAcquire that stores the acquired value without comparing.
TryAcquireStore(t) ==
    /\ pc[t] = "acquire"
    /\ word' = Acquired(saw[t])
    /\ isLocked' = [isLocked EXCEPT ![t] = TRUE]
    /\ Goto(t, "idle")
    /\ UNCHANGED saw

\* Mutant: TryAcquire that swaps in the bare lock flag and loses the version.
TryAcquireBare(t) ==
    /\ pc[t] = "acquire"
    /\ word' = IF word = saw[t] THEN Acquired(NewWord) ELSE word
    /\ isLocked' = [isLocked EXCEPT ![t] = (word = saw[t])]
    /\ Goto(t, "idle")
    /\ UNCHANGED saw

TryAcquireCas(t) ==
    /\ pc[t] = "acquire"
    /\ word' = IF word = saw[t] THEN Acquired(saw[t]) ELSE word
    /\ isLocked' = [isLocked EXCEPT ![t] = (word = saw[t])]
    /\ Goto(t, "idle")
    /\ UNCHANGED saw

\* SetVersion, SetDeleted and SetSingleton: load, then an unconditional store.
SetLoad(t) ==
    /\ pc[t] = "idle" /\ isLocked[t]
    /\ Load(t)
    /\ Goto(t, "set")
    /\ UNCHANGED <<word, isLocked>>

SetStore(t) ==
    /\ pc[t] = "set"
    /\ \/ \E v \in Version : word' = WithVersion(saw[t], v)
       \/ \E b \in BOOLEAN : word' = WithDeleted(saw[t], b)
       \/ \E b \in BOOLEAN : word' = WithSingleton(saw[t], b)
    /\ Goto(t, "idle")
    /\ UNCHANGED <<saw, isLocked>>

\* Locker's destructor calls Release when the Locker acquired the lock.
ReleaseLoad(t) ==
    /\ pc[t] = "idle" /\ isLocked[t]
    /\ Load(t)
    /\ Goto(t, "release")
    /\ UNCHANGED <<word, isLocked>>

\* The compare-exchange is the argument of an assertion.  The branch where it
\* fails is kept although no reachable state takes it (PossessorSeesLatest).
ReleaseCas(t) ==
    /\ pc[t] = "release"
    /\ word' = IF Asserts /\ word = saw[t] THEN Released(saw[t]) ELSE word
    /\ isLocked' = [isLocked EXCEPT ![t] = FALSE]
    /\ Goto(t, "idle")
    /\ UNCHANGED saw

Next ==
    \E t \in Thread :
        \/ TryAcquireLoad(t) \/ TryAcquireCas(t)
        \/ SetLoad(t) \/ SetStore(t)
        \/ ReleaseLoad(t) \/ ReleaseCas(t)

Spec == Init /\ [][Next]_vars

-----------------------------------------------------------------------------

TypeOK ==
    /\ word \in Word
    /\ pc \in [Thread -> {"idle", "acquire", "set", "release"}]
    /\ saw \in [Thread -> Word]
    /\ isLocked \in [Thread -> BOOLEAN]

\* At most one Locker has acquired the lock, whatever the interleaving of the
\* loads, stores and compare-exchanges of TryAcquire, the setters and Release.
MutualExclusion ==
    \A t, u \in Thread : isLocked[t] /\ isLocked[u] => t = u

\* Locker.hpp, "RAII over a possession scope": the lock flag of the word is set
\* exactly while some Locker is in possession.
LockedWhilePossessed == word.locked <=> \E t \in Thread : isLocked[t]

\* While the possessor is between the load and the store of a setter, or between
\* the load and the compare-exchange of Release, nobody changes the word: no
\* update is lost, and both assertions of Release (VersionLock.cpp:28,32) hold.
PossessorSeesLatest ==
    \A t \in Thread :
        pc[t] \in {"set", "release"} => saw[t] = word /\ saw[t].locked

\* Every method takes effect at one instant, as AtomicVersionLock promises.
possessors == {t \in Thread : isLocked[t]}
Abstract == INSTANCE AtomicVersionLock
Linearizable == Abstract!Spec
=============================================================================
