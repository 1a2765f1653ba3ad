SPECIFICATION Spec
CONSTANTS
    Msgs = {m1, m2, m3}
    Calls = {c1, c2}
    MaxStep = 2
    MaxDepth = 2
    MaxJobs = 1
SYMMETRY Symmetry
INVARIANTS
    PendingExactlyOnce
    LatchOnlyWhenBlocked
PROPERTIES
    AbortedTurnSaysSo
    LogWellFormed
