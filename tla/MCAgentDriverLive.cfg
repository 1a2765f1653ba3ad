SPECIFICATION FairSpec
CONSTANTS
    Msgs = {m1, m2, m3}
    Calls = {c1}
    MaxStep = 1
    MaxDepth = 2
    MaxJobs = 1
PROPERTIES
    CancelConverges
    LatchedWakeReplays
