--------------------------- MODULE AtomicAccessLock ---------------------------
(***************************************************************************)
(* What the lock on the next pointers of a skip list node promises: many   *)
(* readers or one writer, each let in and out at one instant.              *)
(***************************************************************************)
CONSTANT Thread

VARIABLES readers, writers    \* the threads that have it for reading, for writing

Init == readers = {} /\ writers = {}

ReadLock(t) ==
    /\ writers = {}
    /\ readers' = readers \cup {t}
    /\ UNCHANGED writers

ReadUnlock(t) ==
    /\ t \in readers
    /\ readers' = readers \ {t}
    /\ UNCHANGED writers

WriteLock(t) ==
    /\ writers = {} /\ readers = {}
    /\ writers' = {t}
    /\ UNCHANGED readers

WriteUnlock(t) ==
    /\ t \in writers
    /\ writers' = writers \ {t}
    /\ UNCHANGED readers

Next == \E t \in Thread :
            ReadLock(t) \/ ReadUnlock(t) \/ WriteLock(t) \/ WriteUnlock(t)

Spec == Init /\ [][Next]_<<readers, writers>>
=============================================================================
