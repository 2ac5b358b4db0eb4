--------------------------- MODULE AccessLockProofs ---------------------------
(***************************************************************************)
(* Proofs about AccessLock for any number of threads that the bits of its  *)
(* counts can hold: no count overflows, a writer is alone, and each thread *)
(* gets in and out at one instant (AccessLock implements AtomicAccessLock).*)
(***************************************************************************)
EXTENDS AccessLock, FiniteSetTheorems, TLAPS

\* Whoever has found itself the only writer is the only one that has; a reader
\* inside and a writer inside exclude each other.
Holders ==
    /\ \A t, u \in Thread : pc[t] \in {"drain", "writing"} /\ pc[u] \in {"drain", "writing"}
                                => t = u
    /\ \A t, u \in Thread : pc[t] = "writing" => pc[u] # "reading"

IInv == TypeOK /\ CountsMatch /\ Holders

-----------------------------------------------------------------------------
(* The counts. *)

LEMMA Finite ==
  ASSUME NEW L
  PROVE  IsFiniteSet(At(L)) /\ Cardinality(At(L)) \in Nat
  <1>1. At(L) \in SUBSET Thread BY DEF At
  <1> QED BY <1>1, ThreadAssumption, FS_Subset, FS_CardinalityType

\* A thread that is not counted leaves room for one more.
LEMMA Room ==
  ASSUME NEW L, NEW t \in Thread, t \notin At(L)
  PROVE  Cardinality(At(L)) < MaxWriters /\ Cardinality(At(L)) < MaxReaders
  <1>1. At(L) \in SUBSET Thread /\ At(L) # Thread BY DEF At
  <1>2. /\ Cardinality(At(L)) <= Cardinality(Thread)
        /\ Cardinality(At(L)) # Cardinality(Thread)
    BY <1>1, ThreadAssumption, FS_Subset
  <1>3. Cardinality(Thread) \in Nat BY ThreadAssumption, FS_CardinalityType
  <1> QED BY <1>2, <1>3, Finite, ThreadAssumption, WidthAssumption

\* What a step of one thread does to the threads counted at some labels.
LEMMA Moved ==
  ASSUME TypeOK, NEW t \in Thread, NEW from, NEW to, Goto(t, from, to), NEW L
  PROVE  /\ from \notin L /\ to \in L => Cardinality(At(L))' = Cardinality(At(L)) + 1
         /\ from \in L /\ to \notin L => Cardinality(At(L))' = Cardinality(At(L)) - 1
         /\ (from \in L <=> to \in L) => Cardinality(At(L))' = Cardinality(At(L))
         /\ t \in At(L) <=> from \in L
  <1>1. At(L)' = IF to \in L THEN At(L) \cup {t} ELSE At(L) \ {t}
    BY DEF TypeOK, Goto, At
  <1>2. t \in At(L) <=> from \in L BY DEF Goto, At
  <1>3. CASE to \in L
    <2>1. Cardinality(At(L) \cup {t}) =
              IF t \in At(L) THEN Cardinality(At(L)) ELSE Cardinality(At(L)) + 1
      BY Finite, FS_AddElement
    <2> QED BY <1>1, <1>2, <1>3, <2>1
  <1>4. CASE to \notin L
    <2>1. Cardinality(At(L) \ {t}) =
              IF t \in At(L) THEN Cardinality(At(L)) - 1 ELSE Cardinality(At(L))
      BY Finite, FS_RemoveElement
    <2> QED BY <1>1, <1>2, <1>4, <2>1
  <1> QED BY <1>3, <1>4

\* A thread that counts itself, or takes itself back, changes its count by one and
\* leaves the other count alone.
LEMMA Added ==
  ASSUME NEW w \in Word
  PROVE  /\ w.readers < MaxReaders =>
                AddReader(w) = [writers |-> w.writers, readers |-> w.readers + 1]
         /\ w.readers > 0 =>
                SubReader(w) = [writers |-> w.writers, readers |-> w.readers - 1]
         /\ w.writers < MaxWriters =>
                AddWriter(w) = [writers |-> w.writers + 1, readers |-> w.readers]
         /\ w.writers > 0 =>
                SubWriter(w) = [writers |-> w.writers - 1, readers |-> w.readers]
  BY WidthAssumption DEF Word, AddReader, SubReader, AddWriter, SubWriter

LEMMA Nobody ==
  ASSUME NEW L
  PROVE  /\ Cardinality(At(L)) = 0 => At(L) = {}
         /\ Cardinality(At(L)) = 1 => \E u : At(L) = {u}
  BY Finite, FS_EmptySet, FS_Singleton

-----------------------------------------------------------------------------
(* The inductive invariant. *)

LEMMA InitIInv == Init => IInv
  <1> SUFFICES ASSUME Init PROVE IInv
    OBVIOUS
  <1>1. TypeOK BY WidthAssumption DEF Init, TypeOK, Word, Label
  <1>2. At(Counted) = {} /\ At(CountedWriter) = {}
    BY DEF Init, At, Counted, CountedWriter
  <1>3. CountsMatch BY <1>2, FS_EmptySet DEF Init, CountsMatch
  <1>4. Holders BY DEF Init, Holders
  <1> QED BY <1>1, <1>3, <1>4 DEF IInv

\* A step that leaves the word alone and does not leave or enter the counted labels.
LEMMA Quiet ==
  ASSUME IInv, NEW t \in Thread, NEW from, NEW to \in Label, Goto(t, from, to),
         UNCHANGED word,
         from \in Counted <=> to \in Counted,
         from \in CountedWriter <=> to \in CountedWriter
  PROVE  TypeOK' /\ CountsMatch'
  <1>1. TypeOK' BY DEF IInv, TypeOK, Goto
  <1>2. Cardinality(At(Counted))' = Cardinality(At(Counted))
    BY Moved DEF IInv
  <1>3. Cardinality(At(CountedWriter))' = Cardinality(At(CountedWriter))
    BY Moved DEF IInv
  <1>4. CountsMatch' BY <1>2, <1>3 DEF IInv, CountsMatch
  <1> QED BY <1>1, <1>4

\* A step that neither lets a thread in nor makes it the only writer.
LEMMA NobodyEnters ==
  ASSUME IInv, NEW t \in Thread, NEW from, NEW to, Goto(t, from, to),
         to \notin {"reading", "drain", "writing"}
  PROVE  Holders'
  BY DEF IInv, TypeOK, Goto, Holders

LEMMA NextIInv == IInv /\ [Next]_vars => IInv'
  <1> SUFFICES ASSUME IInv, [Next]_vars PROVE IInv'
    OBVIOUS
  <1> USE DEF Counted, CountedWriter, Label
  <1>1. ASSUME NEW t \in Thread, ReadCall(t) PROVE IInv'
    BY <1>1, Quiet, NobodyEnters DEF ReadCall, IInv
  <1>2. ASSUME NEW t \in Thread, WriteCall(t) PROVE IInv'
    BY <1>2, Quiet, NobodyEnters DEF WriteCall, IInv
  <1>3. ASSUME NEW t \in Thread, ReadWait(t) PROVE IInv'
    BY <1>3, Quiet, NobodyEnters DEF ReadWait, IInv
  <1>4. ASSUME NEW t \in Thread, WriteWait(t) PROVE IInv'
    BY <1>4, Quiet, NobodyEnters DEF WriteWait, IInv
  <1>5. ASSUME NEW t \in Thread, ReadAdd(t) PROVE IInv'
    <2>1. Goto(t, "readAdd", "readLook") /\ word' = AddReader(word) BY <1>5 DEF ReadAdd
    <2>2. t \notin At(Counted) BY <2>1 DEF At, Goto
    <2>3. word \in Word /\ word.readers < MaxReaders
      BY <2>2, Room DEF IInv, TypeOK, CountsMatch
    <2>4. word' = [writers |-> word.writers, readers |-> word.readers + 1]
      BY <2>1, <2>3, Added
    <2>5. TypeOK' BY <2>1, <2>3, <2>4, WidthAssumption DEF IInv, TypeOK, Word, Goto
    <2>6. /\ Cardinality(At(Counted))' = Cardinality(At(Counted)) + 1
          /\ Cardinality(At(CountedWriter))' = Cardinality(At(CountedWriter))
      BY <2>1, Moved DEF IInv
    <2>7. CountsMatch' BY <2>4, <2>6 DEF IInv, CountsMatch
    <2> QED BY <2>1, <2>5, <2>7, NobodyEnters DEF IInv
  <1>6. ASSUME NEW t \in Thread, ReadUndo(t) \/ ReadUnlock(t) PROVE IInv'
    <2>1. PICK from \in {"readUndo", "reading"}, to \in {"readWait", "idle"} :
            Goto(t, from, to) /\ word' = SubReader(word)
      BY <1>6 DEF ReadUndo, ReadUnlock
    <2>2. /\ Cardinality(At(Counted))' = Cardinality(At(Counted)) - 1
          /\ Cardinality(At(CountedWriter))' = Cardinality(At(CountedWriter))
          /\ t \in At(Counted)
      BY <2>1, Moved DEF IInv
    <2>3. word \in Word /\ word.readers > 0
      BY <2>2, Finite, FS_EmptySet DEF IInv, TypeOK, CountsMatch
    <2>4. word' = [writers |-> word.writers, readers |-> word.readers - 1]
      BY <2>1, <2>3, Added
    <2>5. TypeOK' BY <2>1, <2>3, <2>4, WidthAssumption DEF IInv, TypeOK, Word, Goto
    <2>6. CountsMatch' BY <2>2, <2>4 DEF IInv, CountsMatch
    <2> QED BY <2>1, <2>5, <2>6, NobodyEnters DEF IInv
  <1>7. ASSUME NEW t \in Thread, WriteAdd(t) PROVE IInv'
    <2>1. Goto(t, "writeAdd", "writeLook") /\ word' = AddWriter(word) BY <1>7 DEF WriteAdd
    <2>2. t \notin At(CountedWriter) BY <2>1 DEF At, Goto
    <2>3. word \in Word /\ word.writers < MaxWriters
      BY <2>2, Room DEF IInv, TypeOK, CountsMatch
    <2>4. word' = [writers |-> word.writers + 1, readers |-> word.readers]
      BY <2>1, <2>3, Added
    <2>5. TypeOK' BY <2>1, <2>3, <2>4, WidthAssumption DEF IInv, TypeOK, Word, Goto
    <2>6. /\ Cardinality(At(CountedWriter))' = Cardinality(At(CountedWriter)) + 1
          /\ Cardinality(At(Counted))' = Cardinality(At(Counted))
      BY <2>1, Moved DEF IInv
    <2>7. CountsMatch' BY <2>4, <2>6 DEF IInv, CountsMatch
    <2> QED BY <2>1, <2>5, <2>7, NobodyEnters DEF IInv
  <1>8. ASSUME NEW t \in Thread, WriteUndo(t) \/ WriteUnlock(t) PROVE IInv'
    <2>1. PICK from \in {"writeUndo", "writing"}, to \in {"writeWait", "idle"} :
            Goto(t, from, to) /\ word' = SubWriter(word)
      BY <1>8 DEF WriteUndo, WriteUnlock
    <2>2. /\ Cardinality(At(CountedWriter))' = Cardinality(At(CountedWriter)) - 1
          /\ Cardinality(At(Counted))' = Cardinality(At(Counted))
          /\ t \in At(CountedWriter)
      BY <2>1, Moved DEF IInv
    <2>3. word \in Word /\ word.writers > 0
      BY <2>2, Finite, FS_EmptySet DEF IInv, TypeOK, CountsMatch
    <2>4. word' = [writers |-> word.writers - 1, readers |-> word.readers]
      BY <2>1, <2>3, Added
    <2>5. TypeOK' BY <2>1, <2>3, <2>4, WidthAssumption DEF IInv, TypeOK, Word, Goto
    <2>6. CountsMatch' BY <2>2, <2>4 DEF IInv, CountsMatch
    <2> QED BY <2>1, <2>5, <2>6, NobodyEnters DEF IInv
  \* The steps that let a thread in, or make it the only writer.
  <1>9. ASSUME NEW t \in Thread, ReadLook(t) PROVE IInv'
    <2>1. CASE word.writers = 0
      <3>1. Goto(t, "readLook", "reading") /\ UNCHANGED word BY <1>9, <2>1 DEF ReadLook
      <3>2. At(CountedWriter) = {} BY <2>1, Nobody DEF IInv, CountsMatch
      <3>3. \A u \in Thread : pc[u] # "writing" BY <3>2 DEF At
      <3>4. Holders' BY <3>1, <3>3 DEF IInv, TypeOK, Holders, Goto
      <3> QED BY <3>1, <3>4, Quiet DEF IInv
    <2>2. CASE word.writers # 0
      BY <1>9, <2>2, Quiet, NobodyEnters DEF ReadLook, IInv
    <2> QED BY <2>1, <2>2
  <1>10. ASSUME NEW t \in Thread, WriteLook(t) PROVE IInv'
    <2>1. CASE word.writers = 1
      <3>1. PICK to \in {"writing", "drain"} :
              /\ Goto(t, "writeLook", to) /\ UNCHANGED word
              /\ to = "writing" => word.readers = 0
        BY <1>10, <2>1 DEF WriteLook
      <3>2. PICK u : At(CountedWriter) = {u}
        BY <2>1, Nobody DEF IInv, CountsMatch
      <3>3. t \in At(CountedWriter) BY <3>1 DEF At, Goto
      <3>4. \A v \in Thread : pc[v] \notin {"drain", "writing"}
        BY <3>1, <3>2, <3>3 DEF At, Goto
      <3>5. to = "writing" => \A v \in Thread : pc[v] # "reading"
        <4>1. to = "writing" => At(Counted) = {} BY <3>1, Nobody DEF IInv, CountsMatch
        <4> QED BY <4>1 DEF At
      <3>6. Holders' BY <3>1, <3>4, <3>5 DEF IInv, TypeOK, Holders, Goto
      <3> QED BY <3>1, <3>6, Quiet DEF IInv
    <2>2. CASE word.writers # 1
      BY <1>10, <2>2, Quiet, NobodyEnters DEF WriteLook, IInv
    <2> QED BY <2>1, <2>2
  <1>11. ASSUME NEW t \in Thread, Drain(t) PROVE IInv'
    <2>1. Goto(t, "drain", "writing") /\ UNCHANGED word /\ word.readers = 0
      BY <1>11 DEF Drain
    <2>2. At(Counted) = {} BY <2>1, Nobody DEF IInv, CountsMatch
    <2>3. \A v \in Thread : pc[v] # "reading" BY <2>2 DEF At
    <2>4. Holders' BY <2>1, <2>3 DEF IInv, TypeOK, Holders, Goto
    <2> QED BY <2>1, <2>4, Quiet DEF IInv
  <1>12. CASE UNCHANGED vars
    BY <1>12 DEF IInv, TypeOK, CountsMatch, Holders, vars, At
  <1> QED BY <1>1, <1>2, <1>3, <1>4, <1>5, <1>6, <1>7, <1>8, <1>9, <1>10, <1>11, <1>12
        DEF Next, Continue

THEOREM Invariance == Spec => []IInv
  BY InitIInv, NextIInv, PTL DEF Spec

-----------------------------------------------------------------------------
(* What follows from it. *)

\* The word stays within its bits and every thread at its labels.
THEOREM TypeCorrect == Spec => []TypeOK
  <1>1. IInv => TypeOK BY DEF IInv
  <1> QED BY <1>1, Invariance, PTL

\* The word counts the threads that have added themselves; nothing is carried.
THEOREM CountsMatchHolds == Spec => []CountsMatch
  <1>1. IInv => CountsMatch BY DEF IInv
  <1> QED BY <1>1, Invariance, PTL

\* A writer inside is alone, without readers.
THEOREM ExclusionHolds == Spec => []Exclusion
  <1>1. IInv => Exclusion BY DEF IInv, Holders, Exclusion, At
  <1> QED BY <1>1, Invariance, PTL

\* Each thread is let in and out at one instant, with the exclusion that
\* AtomicAccessLock states: what SkipList relies on.
THEOREM Refinement == Spec => Linearizable
  <1>1. Init => Abstract!Init
    BY DEF Init, Abstract!Init, At
  <1>2. IInv /\ [Next]_vars => [Abstract!Next]_<<At({"reading"}), At({"writing"})>>
    <2> SUFFICES ASSUME IInv, [Next]_vars
                 PROVE  [Abstract!Next]_<<At({"reading"}), At({"writing"})>>
      OBVIOUS
    <2> DEFINE Inside == <<At({"reading"}), At({"writing"})>>
    <2>1. ASSUME NEW t \in Thread, NEW from, NEW to, Goto(t, from, to),
                 {from, to} \cap {"reading", "writing"} = {}
          PROVE  UNCHANGED Inside
      BY <2>1 DEF IInv, TypeOK, Goto, At
    <2>2. ASSUME NEW t \in Thread, Goto(t, "readLook", "reading"), word.writers = 0
          PROVE  Abstract!ReadLock(t)
      <3>1. At(CountedWriter) = {} BY <2>2, Nobody DEF IInv, CountsMatch
      <3>2. At({"writing"}) = {} BY <3>1 DEF At, CountedWriter
      <3> QED BY <2>2, <3>2 DEF IInv, TypeOK, Goto, At, Abstract!ReadLock
    <2>3. ASSUME NEW t \in Thread, NEW from \in {"writeLook", "drain"},
                 Goto(t, from, "writing"), word.readers = 0,
                 from = "writeLook" => word.writers = 1
          PROVE  Abstract!WriteLock(t)
      <3>1. At(Counted) = {} BY <2>3, Nobody DEF IInv, CountsMatch
      <3>2. At({"reading"}) = {} BY <3>1 DEF At, Counted
      <3>3. At({"writing"}) = {}
        <4>1. CASE from = "drain" BY <2>3, <4>1 DEF IInv, Holders, At, Goto
        <4>2. CASE from = "writeLook"
          <5>1. PICK u : At(CountedWriter) = {u}
            BY <2>3, <4>2, Nobody DEF IInv, CountsMatch
          <5> QED BY <2>3, <4>2, <5>1 DEF At, CountedWriter, Goto
        <4> QED BY <2>3, <4>1, <4>2
      <3> QED BY <2>3, <3>2, <3>3 DEF IInv, TypeOK, Goto, At, Abstract!WriteLock
    <2>4. ASSUME NEW t \in Thread, ReadLook(t)
          PROVE  Abstract!ReadLock(t) \/ UNCHANGED Inside
      BY <2>1, <2>2, <2>4 DEF ReadLook
    <2>5. ASSUME NEW t \in Thread, WriteLook(t)
          PROVE  Abstract!WriteLock(t) \/ UNCHANGED Inside
      BY <2>1, <2>3, <2>5 DEF WriteLook
    <2>6. ASSUME NEW t \in Thread, Drain(t) PROVE Abstract!WriteLock(t)
      BY <2>3, <2>6 DEF Drain
    <2>7. ASSUME NEW t \in Thread, ReadUnlock(t) PROVE Abstract!ReadUnlock(t)
      BY <2>7 DEF ReadUnlock, Goto, IInv, TypeOK, At, Abstract!ReadUnlock
    <2>8. ASSUME NEW t \in Thread, WriteUnlock(t) PROVE Abstract!WriteUnlock(t)
      BY <2>8 DEF WriteUnlock, Goto, IInv, TypeOK, At, Abstract!WriteUnlock
    <2>9. ASSUME NEW t \in Thread,
                 \/ ReadCall(t) \/ ReadWait(t) \/ ReadAdd(t) \/ ReadUndo(t)
                 \/ WriteCall(t) \/ WriteWait(t) \/ WriteAdd(t) \/ WriteUndo(t)
          PROVE  UNCHANGED Inside
      BY <2>1, <2>9 DEF ReadCall, ReadWait, ReadAdd, ReadUndo,
                        WriteCall, WriteWait, WriteAdd, WriteUndo
    <2>10. CASE UNCHANGED vars BY <2>10 DEF vars, At
    <2> QED BY <2>4, <2>5, <2>6, <2>7, <2>8, <2>9, <2>10
          DEF Next, Continue, Abstract!Next
  <1> QED BY <1>1, <1>2, Invariance, PTL DEF Spec, Linearizable, Abstract!Spec
=============================================================================
