SPECIFICATION FairSpec
CONSTANTS
    Thread = {a1, a2, a3, a4}
    MaxWriters = 4
    MaxReaders = 4
INVARIANTS
    CountsMatch
    Exclusion
PROPERTIES
    Linearizable
    WriterGetsIn
