-------------------------- MODULE VersionLockProofs --------------------------
(***************************************************************************)
(* Proofs about VersionLock for any set of threads and versions: mutual    *)
(* exclusion, that the lock flag says who is in possession, that the       *)
(* assertions of Release hold, and that every method is atomic             *)
(* (VersionLock implements AtomicVersionLock).  The last two need a build  *)
(* in which TIXEL_ASSERT evaluates its argument.                           *)
(***************************************************************************)
EXTENDS VersionLock, TLAPS

\* A thread about to compare-exchange in TryAcquire saw a free word; a thread
\* inside a setter or Release has the lock and saw the word as it still is;
\* whoever has the lock has it alone, and the word says so.
Possession ==
    /\ \A t \in Thread : isLocked[t] => word.locked
    /\ \A t \in Thread : pc[t] = "acquire" => ~saw[t].locked /\ ~isLocked[t]
    /\ \A t \in Thread : pc[t] \in {"set", "release"} => isLocked[t] /\ saw[t] = word

IInv == TypeOK /\ MutualExclusion /\ Possession

-----------------------------------------------------------------------------
(* The operators on the word. *)

LEMMA NewWordType == NewWord \in Word /\ ~NewWord.locked
  BY DEF NewWord, Word

\* Every value a method stores is a word; the setters keep the lock flag.
LEMMA AcquiredReleased ==
  ASSUME NEW w \in Word
  PROVE  /\ Acquired(w) \in Word /\ Acquired(w).locked
         /\ Released(w) \in Word /\ ~Released(w).locked
  BY DEF Word, Acquired, Released

LEMMA SetVersionWord ==
  ASSUME NEW w \in Word, NEW v \in Nat
  PROVE  WithVersion(w, v) \in Word /\ WithVersion(w, v).locked = w.locked
  BY DEF Word, WithVersion

LEMMA SetFlagWord ==
  ASSUME NEW w \in Word, NEW b \in BOOLEAN
  PROVE  /\ WithDeleted(w, b) \in Word /\ WithDeleted(w, b).locked = w.locked
         /\ WithSingleton(w, b) \in Word /\ WithSingleton(w, b).locked = w.locked
  BY DEF Word, WithDeleted, WithSingleton

\* What a setter stores keeps the lock flag of the word it loaded.
LEMMA SetStoreKeepsLock ==
  ASSUME NEW t \in Thread, SetStore(t), saw[t] \in Word
  PROVE  word' \in Word /\ word'.locked = saw[t].locked
  <1>1. \/ \E v \in Version : word' = WithVersion(saw[t], v)
        \/ \E b \in BOOLEAN : word' = WithDeleted(saw[t], b)
        \/ \E b \in BOOLEAN : word' = WithSingleton(saw[t], b)
    BY DEF SetStore
  <1>2. CASE \E v \in Version : word' = WithVersion(saw[t], v)
    BY <1>2, SetVersionWord, VersionAssumption
  <1>3. CASE \E b \in BOOLEAN : word' = WithDeleted(saw[t], b)
    BY <1>3, SetFlagWord
  <1>4. CASE \E b \in BOOLEAN : word' = WithSingleton(saw[t], b)
    BY <1>4, SetFlagWord
  <1> QED BY <1>1, <1>2, <1>3, <1>4

-----------------------------------------------------------------------------
(* The inductive invariant. *)

LEMMA InitIInv == Init => IInv
  BY NewWordType DEF Init, IInv, TypeOK, MutualExclusion, Possession

LEMMA NextIInv == IInv /\ [Next]_vars => IInv'
  <1> SUFFICES ASSUME IInv, [Next]_vars PROVE IInv'
    OBVIOUS
  <1> USE DEF IInv, TypeOK
  <1>1. ASSUME NEW t \in Thread, TryAcquireLoad(t) PROVE IInv'
    <2>1. TypeOK' BY <1>1 DEF TryAcquireLoad, Load, Goto
    <2>2. MutualExclusion' BY <1>1 DEF TryAcquireLoad, MutualExclusion
    <2>3. Possession' BY <1>1 DEF TryAcquireLoad, Load, Goto, Possession
    <2> QED BY <2>1, <2>2, <2>3
  <1>2. ASSUME NEW t \in Thread, TryAcquireCas(t) PROVE IInv'
    <2>1. saw[t] \in Word /\ Acquired(saw[t]) \in Word /\ Acquired(saw[t]).locked
      BY AcquiredReleased
    <2>2. TypeOK' BY <1>2, <2>1 DEF TryAcquireCas, Goto
    <2>3. CASE word = saw[t]
      <3>1. \A u \in Thread : ~isLocked[u]
        BY <1>2, <2>3 DEF TryAcquireCas, Possession
      <3>2. MutualExclusion' BY <1>2, <2>3, <3>1 DEF TryAcquireCas, MutualExclusion
      <3>3. Possession' BY <1>2, <2>1, <2>3, <3>1 DEF TryAcquireCas, Goto, Possession
      <3> QED BY <2>2, <3>2, <3>3
    <2>4. CASE word # saw[t]
      <3>1. ~isLocked[t] BY <1>2 DEF TryAcquireCas, Possession
      <3>2. MutualExclusion' BY <1>2, <2>4, <3>1 DEF TryAcquireCas, MutualExclusion
      <3>3. Possession' BY <1>2, <2>4, <3>1 DEF TryAcquireCas, Goto, Possession
      <3> QED BY <2>2, <3>2, <3>3
    <2> QED BY <2>3, <2>4
  <1>3. ASSUME NEW t \in Thread, SetLoad(t) PROVE IInv'
    <2>1. TypeOK' BY <1>3 DEF SetLoad, Load, Goto
    <2>2. MutualExclusion' BY <1>3 DEF SetLoad, MutualExclusion
    <2>3. Possession' BY <1>3 DEF SetLoad, Load, Goto, Possession
    <2> QED BY <2>1, <2>2, <2>3
  <1>4. ASSUME NEW t \in Thread, SetStore(t) PROVE IInv'
    <2>1. isLocked[t] /\ saw[t] = word /\ word.locked
      BY <1>4 DEF SetStore, Possession
    <2>2. word' \in Word /\ word'.locked
      BY <1>4, <2>1, SetStoreKeepsLock
    <2>3. TypeOK' BY <1>4, <2>2 DEF SetStore, Goto
    <2>4. MutualExclusion' BY <1>4 DEF SetStore, MutualExclusion
    <2>5. \A u \in Thread : pc[u] \in {"set", "release"} => u = t
      BY <2>1 DEF Possession, MutualExclusion
    <2>6. Possession' BY <1>4, <2>2, <2>5 DEF SetStore, Goto, Possession
    <2> QED BY <2>3, <2>4, <2>6
  <1>5. ASSUME NEW t \in Thread, ReleaseLoad(t) PROVE IInv'
    <2>1. TypeOK' BY <1>5 DEF ReleaseLoad, Load, Goto
    <2>2. MutualExclusion' BY <1>5 DEF ReleaseLoad, MutualExclusion
    <2>3. Possession' BY <1>5 DEF ReleaseLoad, Load, Goto, Possession
    <2> QED BY <2>1, <2>2, <2>3
  <1>6. ASSUME NEW t \in Thread, ReleaseCas(t) PROVE IInv'
    <2>1. isLocked[t] /\ Released(saw[t]) \in Word
      BY <1>6, AcquiredReleased DEF ReleaseCas, Possession
    <2>2. TypeOK' BY <1>6, <2>1 DEF ReleaseCas, Goto
    <2>3. MutualExclusion' BY <1>6 DEF ReleaseCas, MutualExclusion
    <2>4. \A u \in Thread : isLocked[u] => u = t
      BY <2>1 DEF MutualExclusion
    <2>5. Possession' BY <1>6, <2>4 DEF ReleaseCas, Goto, Possession
    <2> QED BY <2>2, <2>3, <2>5
  <1>7. CASE UNCHANGED vars
    BY <1>7 DEF vars, MutualExclusion, Possession
  <1> QED BY <1>1, <1>2, <1>3, <1>4, <1>5, <1>6, <1>7 DEF Next

\* The types of the word, the loaded words and the lockers, and the strengthening
\* the other theorems rest on, hold in every build.
THEOREM Invariance == Spec => []IInv
  <1>1. Init => IInv BY InitIInv
  <1>2. IInv /\ [Next]_vars => IInv' BY NextIInv
  <1> QED BY <1>1, <1>2, PTL DEF Spec

\* Every variable of the lock keeps its type.
THEOREM TypeCorrect == Spec => []TypeOK
  <1>1. IInv => TypeOK BY DEF IInv
  <1> QED BY <1>1, Invariance, PTL

\* At most one Locker is in possession, in every build.
THEOREM MutualExclusionHolds == Spec => []MutualExclusion
  <1>1. IInv => MutualExclusion BY DEF IInv
  <1> QED BY <1>1, Invariance, PTL

\* Nobody changes the word under the possessor, so no setter loses an update and
\* the assertions of Release hold.
THEOREM PossessorSeesLatestHolds == Spec => []PossessorSeesLatest
  <1>1. IInv => PossessorSeesLatest BY DEF IInv, Possession, PossessorSeesLatest
  <1> QED BY <1>1, Invariance, PTL

-----------------------------------------------------------------------------
(* The build with assertions: the lock is released, and methods are atomic. *)

\* With assertions evaluated, the lock flag is set exactly while a Locker is in
\* possession.
THEOREM LockedWhilePossessedHolds ==
  ASSUME Asserts
  PROVE  Spec => []LockedWhilePossessed
  <1>1. Init => LockedWhilePossessed
    BY NewWordType DEF Init, LockedWhilePossessed
  <1>2. IInv /\ LockedWhilePossessed /\ [Next]_vars => LockedWhilePossessed'
    <2> SUFFICES ASSUME IInv, LockedWhilePossessed, [Next]_vars
                 PROVE  LockedWhilePossessed'
      OBVIOUS
    <2> USE DEF IInv, TypeOK, LockedWhilePossessed
    <2>1. ASSUME NEW t \in Thread, TryAcquireLoad(t) PROVE LockedWhilePossessed'
      BY <2>1 DEF TryAcquireLoad
    <2>2. ASSUME NEW t \in Thread, TryAcquireCas(t) PROVE LockedWhilePossessed'
      <3>1. saw[t] \in Word /\ Acquired(saw[t]).locked
        BY AcquiredReleased
      <3>2. ~isLocked[t] BY <2>2 DEF TryAcquireCas, Possession
      <3>3. CASE word = saw[t] BY <2>2, <3>1, <3>3 DEF TryAcquireCas
      <3>4. CASE word # saw[t]
        <4>1. word' = word /\ isLocked' = [isLocked EXCEPT ![t] = FALSE]
          BY <2>2, <3>4 DEF TryAcquireCas
        <4>2. isLocked' = isLocked BY <3>2, <4>1
        <4> QED BY <4>1, <4>2
      <3> QED BY <3>3, <3>4
    <2>3. ASSUME NEW t \in Thread, SetLoad(t) PROVE LockedWhilePossessed'
      BY <2>3 DEF SetLoad
    <2>4. ASSUME NEW t \in Thread, SetStore(t) PROVE LockedWhilePossessed'
      <3>1. isLocked[t] /\ saw[t] = word BY <2>4 DEF SetStore, Possession
      <3>2. word'.locked = word.locked BY <2>4, <3>1, SetStoreKeepsLock
      <3> QED BY <2>4, <3>2 DEF SetStore
    <2>5. ASSUME NEW t \in Thread, ReleaseLoad(t) PROVE LockedWhilePossessed'
      BY <2>5 DEF ReleaseLoad
    <2>6. ASSUME NEW t \in Thread, ReleaseCas(t) PROVE LockedWhilePossessed'
      <3>1. isLocked[t] /\ saw[t] = word BY <2>6 DEF ReleaseCas, Possession
      <3>2. word' = Released(word) BY <2>6, <3>1 DEF ReleaseCas
      <3>3. ~word'.locked BY <3>2, AcquiredReleased
      <3>4. \A u \in Thread : isLocked[u] => u = t BY <3>1 DEF MutualExclusion
      <3>5. \A u \in Thread : ~isLocked'[u] BY <2>6, <3>4 DEF ReleaseCas
      <3> QED BY <3>3, <3>5
    <2>7. CASE UNCHANGED vars BY <2>7 DEF vars
    <2> QED BY <2>1, <2>2, <2>3, <2>4, <2>5, <2>6, <2>7 DEF Next
  <1> QED BY <1>1, <1>2, Invariance, PTL DEF Spec

\* The abstract lock applies the same operators to the word.
LEMMA SameOperators ==
  /\ \A w : Abstract!Acquired(w) = Acquired(w) /\ Abstract!Released(w) = Released(w)
  /\ \A w, v : Abstract!WithVersion(w, v) = WithVersion(w, v)
  /\ \A w, b : Abstract!WithDeleted(w, b) = WithDeleted(w, b)
  /\ \A w, b : Abstract!WithSingleton(w, b) = WithSingleton(w, b)
  BY DEF Abstract!Acquired, Acquired, Abstract!Released, Released,
         Abstract!WithVersion, WithVersion, Abstract!WithDeleted, WithDeleted,
         Abstract!WithSingleton, WithSingleton

\* With assertions evaluated, VersionLock implements AtomicVersionLock: a method
\* takes effect at its store or compare-exchange, and every other access is a
\* stutter.
THEOREM Refinement ==
  ASSUME Asserts
  PROVE  Spec => Linearizable
  <1>1. Init => Abstract!Init
    BY DEF Init, Abstract!Init, NewWord, Abstract!NewWord, possessors
  <1>2. IInv /\ [Next]_vars => [Abstract!Next]_<<word, possessors>>
    <2> SUFFICES ASSUME IInv, [Next]_vars
                 PROVE  Abstract!Next \/ UNCHANGED <<word, possessors>>
      OBVIOUS
    <2> USE DEF IInv, TypeOK
    <2>1. ASSUME NEW t \in Thread, TryAcquireLoad(t)
          PROVE  UNCHANGED <<word, possessors>>
      BY <2>1 DEF TryAcquireLoad, possessors
    <2>2. ASSUME NEW t \in Thread, TryAcquireCas(t)
          PROVE  Abstract!Acquire(t) \/ UNCHANGED <<word, possessors>>
      <3>1. CASE word = saw[t]
        <4>1. \A u \in Thread : ~isLocked[u]
          BY <2>2, <3>1 DEF TryAcquireCas, Possession
        <4>2. word' = Acquired(word) /\ possessors = {} /\ possessors' = {t}
          BY <2>2, <3>1, <4>1 DEF TryAcquireCas, possessors
        <4> QED BY <4>2, SameOperators DEF Abstract!Acquire
      <3>2. CASE word # saw[t]
        <4>1. ~isLocked[t] BY <2>2 DEF TryAcquireCas, Possession
        <4> QED BY <2>2, <3>2, <4>1 DEF TryAcquireCas, possessors
      <3> QED BY <3>1, <3>2
    <2>3. ASSUME NEW t \in Thread, SetLoad(t)
          PROVE  UNCHANGED <<word, possessors>>
      BY <2>3 DEF SetLoad, possessors
    <2>4. ASSUME NEW t \in Thread, SetStore(t) PROVE Abstract!Set(t)
      <3>1. t \in possessors /\ saw[t] = word
        BY <2>4 DEF SetStore, Possession, possessors
      <3>2. possessors' = possessors BY <2>4 DEF SetStore, possessors
      <3> QED BY <2>4, <3>1, <3>2, SameOperators DEF SetStore, Abstract!Set
    <2>5. ASSUME NEW t \in Thread, ReleaseLoad(t)
          PROVE  UNCHANGED <<word, possessors>>
      BY <2>5 DEF ReleaseLoad, possessors
    <2>6. ASSUME NEW t \in Thread, ReleaseCas(t) PROVE Abstract!Release(t)
      <3>1. t \in possessors /\ saw[t] = word
        BY <2>6 DEF ReleaseCas, Possession, possessors
      <3>2. word' = Released(word) BY <2>6, <3>1 DEF ReleaseCas
      <3>3. possessors' = possessors \ {t} BY <2>6 DEF ReleaseCas, possessors
      <3> QED BY <3>1, <3>2, <3>3, SameOperators DEF Abstract!Release
    <2>7. CASE UNCHANGED vars BY <2>7 DEF vars, possessors
    <2> QED
      BY <2>1, <2>2, <2>3, <2>4, <2>5, <2>6, <2>7 DEF Next, Abstract!Next
  <1> QED BY <1>1, <1>2, Invariance, PTL DEF Spec, Linearizable, Abstract!Spec
=============================================================================
