\* Insert of a present key reads a node that a commit holds locked.
CONSTANTS
    t1 = t1
    t2 = t2
    Thread = {t1, t2}
    Node = {n0, n1, n2, n3, n4, n5, n6, n7}
    Sentinel = n0
    Null = Null
    Key <- KeysBelowDefault
    Value = {0, 1}
    DefaultKey = 0
    DefaultValue = 0
    Scenario <- InsertExistingScenario
SPECIFICATION Spec
INVARIANTS
    Serializable
