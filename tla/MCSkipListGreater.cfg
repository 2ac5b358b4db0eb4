CONSTANTS
    t1 = t1
    t2 = t2
    Thread = {t1, t2}
    Node = {n1, n2, n3, n4, n5}
    head = head
    tail = tail
    Null = Null
    Key = {1, 2, 3, 4, 5}
    SentinelKey = SentinelKey
    MaxLayer = 1
    Scenario <- EraseScenario
SPECIFICATION Spec
INVARIANT SuccessorIsGreater
