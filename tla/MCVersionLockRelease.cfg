\* The build without assertions: Release does not release.
CONSTANTS
    Thread = {t1, t2}
    Version <- MCVersion
    Asserts = FALSE
SYMMETRY Symmetry
SPECIFICATION Spec
INVARIANTS
    LockedWhilePossessed
CHECK_DEADLOCK FALSE
