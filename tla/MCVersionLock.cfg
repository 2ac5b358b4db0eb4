\* Three threads, versions 0 and 1, a build with assertions.
CONSTANTS
    Thread = {t1, t2, t3}
    Version <- MCVersion
    Asserts = TRUE
SYMMETRY Symmetry
SPECIFICATION Spec
INVARIANTS
    TypeOK
    MutualExclusion
    LockedWhilePossessed
    PossessorSeesLatest
PROPERTIES
    Linearizable
