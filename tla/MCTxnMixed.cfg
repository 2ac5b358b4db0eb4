\* Attempts that fail, end or have to be repeated, single operations of two threads,
\* and a thread that mixes them with transactions; liveness under fair scheduling.
CONSTANTS
    t1 = t1
    t2 = t2
    Thread = {t1, t2}
    Node = {n0, n1, n2, n3, n4, n5, n6, n7}
    Sentinel = n0
    Null = Null
    Key <- ThreeKeysBelowDefault
    Value = {0, 1}
    DefaultKey = 0
    DefaultValue = 0
    Scenario <- MixedScenario
SPECIFICATION FairSpec
INVARIANTS
    MixedInv
    Serializable
    ListWellFormed
    PlaceIsRight
    LocksMatchLockers
    IndexMatchesList
PROPERTIES
    AttemptsEnd
    Termination
