------------------------------ MODULE AccessLock ------------------------------
(***************************************************************************)
(* The reader-writer spin lock of a skip list node, the word               *)
(* accessing_next (DataTypes/SkipList.cpp, _sl_read_lock_an and            *)
(* _sl_write_lock_an): the upper 12 bits count writers, the lower 20 bits  *)
(* readers.  Each load and each fetch-and-add is an action.  A thread adds *)
(* itself, looks at the word again, and takes itself back when it finds    *)
(* somebody whom it must not meet.                                         *)
(***************************************************************************)
EXTENDS Integers, FiniteSets

CONSTANTS Thread,
          MaxWriters,   \* what fits into the bits of the writers: 2^12 - 1
          MaxReaders    \* what fits into the bits of the readers: 2^20 - 1

ASSUME WidthAssumption == MaxWriters \in Nat \ {0} /\ MaxReaders \in Nat \ {0}
\* Below this number of threads no count overflows into its neighbour.
ASSUME ThreadAssumption ==
    /\ IsFiniteSet(Thread)
    /\ Cardinality(Thread) <= MaxWriters /\ Cardinality(Thread) <= MaxReaders

VARIABLES word,    \* accessing_next
          pc       \* where each thread is

vars == <<word, pc>>

Word == [writers : 0 .. MaxWriters, readers : 0 .. MaxReaders]

Init == word = [writers |-> 0, readers |-> 0] /\ pc = [t \in Thread |-> "idle"]

-----------------------------------------------------------------------------
(* Fetch-and-add and fetch-and-sub on 32 bits: a count that leaves its bits  *)
(* is carried into, or borrowed from, the writers.                           *)

AddWriter(w) == [w EXCEPT !.writers = IF @ = MaxWriters THEN 0 ELSE @ + 1]
SubWriter(w) == [w EXCEPT !.writers = IF @ = 0 THEN MaxWriters ELSE @ - 1]

AddReader(w) == IF w.readers = MaxReaders
                THEN [writers |-> AddWriter(w).writers, readers |-> 0]
                ELSE [w EXCEPT !.readers = @ + 1]
SubReader(w) == IF w.readers = 0
                THEN [writers |-> SubWriter(w).writers, readers |-> MaxReaders]
                ELSE [w EXCEPT !.readers = @ - 1]

Goto(t, from, to) == pc[t] = from /\ pc' = [pc EXCEPT ![t] = to]

-----------------------------------------------------------------------------
(* _sl_read_lock_an and _sl_read_unlock_an *)

ReadCall(t) == Goto(t, "idle", "readWait") /\ UNCHANGED word

\* The load that ends the spinning: it sees no writer.
ReadWait(t) ==
    /\ word.writers = 0
    /\ Goto(t, "readWait", "readAdd")
    /\ UNCHANGED word

ReadAdd(t) ==
    /\ Goto(t, "readAdd", "readLook")
    /\ word' = AddReader(word)

\* Mutant: does not look again.
ReadLookAway(t) == Goto(t, "readLook", "reading") /\ UNCHANGED word

ReadLook(t) ==
    /\ Goto(t, "readLook", IF word.writers = 0 THEN "reading" ELSE "readUndo")
    /\ UNCHANGED word

\* Mutant: spins again without taking itself back.
ReadUndoNothing(t) == Goto(t, "readUndo", "readWait") /\ UNCHANGED word

ReadUndo(t) ==
    /\ Goto(t, "readUndo", "readWait")
    /\ word' = SubReader(word)

ReadUnlock(t) ==
    /\ Goto(t, "reading", "idle")
    /\ word' = SubReader(word)

-----------------------------------------------------------------------------
(* _sl_write_lock_an and _sl_write_unlock_an *)

WriteCall(t) == Goto(t, "idle", "writeWait") /\ UNCHANGED word

WriteWait(t) ==
    /\ word.writers = 0
    /\ Goto(t, "writeWait", "writeAdd")
    /\ UNCHANGED word

\* Mutant: comes in as one more reader.
WriteAddReader(t) ==
    /\ Goto(t, "writeAdd", "writeLook")
    /\ word' = AddReader(word)

WriteAdd(t) ==
    /\ Goto(t, "writeAdd", "writeLook")
    /\ word' = AddWriter(word)

\* Mutant: does not wait for the readers.
WriteLookPast(t) ==
    /\ Goto(t, "writeLook", IF word.writers = 1 THEN "writing" ELSE "writeUndo")
    /\ UNCHANGED word

\* The only writer waits for the readers that are still inside.
WriteLook(t) ==
    /\ Goto(t, "writeLook",
            IF word.writers # 1 THEN "writeUndo"
            ELSE IF word.readers = 0 THEN "writing" ELSE "drain")
    /\ UNCHANGED word

Drain(t) ==
    /\ word.readers = 0
    /\ Goto(t, "drain", "writing")
    /\ UNCHANGED word

WriteUndo(t) ==
    /\ Goto(t, "writeUndo", "writeWait")
    /\ word' = SubWriter(word)

WriteUnlock(t) ==
    /\ Goto(t, "writing", "idle")
    /\ word' = SubWriter(word)

-----------------------------------------------------------------------------

\* What a thread does once it has called.
Continue(t) ==
    \/ ReadWait(t) \/ ReadAdd(t) \/ ReadLook(t) \/ ReadUndo(t) \/ ReadUnlock(t)
    \/ WriteWait(t) \/ WriteAdd(t) \/ WriteLook(t) \/ Drain(t)
    \/ WriteUndo(t) \/ WriteUnlock(t)

Next == \E t \in Thread : ReadCall(t) \/ WriteCall(t) \/ Continue(t)

Spec == Init /\ [][Next]_vars

\* A thread that can go on is scheduled, and nobody stays inside for ever: the
\* sections under this lock read or store a pointer and a count.
FairSpec == Spec /\ \A t \in Thread : WF_vars(Continue(t))

-----------------------------------------------------------------------------

Counted == {"readLook", "readUndo", "reading"}
CountedWriter == {"writeLook", "writeUndo", "drain", "writing"}
Label == {"idle", "readWait", "readAdd", "writeWait", "writeAdd"}
            \cup Counted \cup CountedWriter

At(labels) == {t \in Thread : pc[t] \in labels}

TypeOK == word \in Word /\ pc \in [Thread -> Label]

\* The word counts the threads that have added themselves, and no count has run
\* into the other one's bits.
CountsMatch ==
    /\ word.readers = Cardinality(At(Counted))
    /\ word.writers = Cardinality(At(CountedWriter))

\* While a thread writes a next pointer nobody reads or writes it, although
\* readers and writers add themselves to the word before they look who is there.
Exclusion ==
    \A t \in At({"writing"}) : At({"writing"}) = {t} /\ At({"reading"}) = {}

\* Each thread gets in and out at one instant: what SkipList takes the lock for.
Abstract == INSTANCE AtomicAccessLock
                WITH readers <- At({"reading"}), writers <- At({"writing"})
Linearizable == Abstract!Spec

\* The one writer that has found itself alone gets in: readers that come too late
\* take themselves back.  Two writers that add themselves at the same time may
\* send each other back again and again.
WriterGetsIn == \A t \in Thread : pc[t] = "drain" ~> pc[t] = "writing"
=============================================================================
