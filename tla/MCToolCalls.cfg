SPECIFICATION FairSpec
CONSTANTS N = 3 MaxCap = 2 Retried = {2}
INVARIANTS BarriersAndPool NotDispatchedMeansNotRun
PROPERTIES ImplementsToolBatch NothingStartsLate BatchEnds
CHECK_DEADLOCK FALSE
