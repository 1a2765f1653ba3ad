SPECIFICATION FairSpec
CONSTANTS
  Callers = {c1, c2}
  MaxEvents = 4
INVARIANTS Conserved NeverStranded
PROPERTIES FlushMeansDurable PauseHolds ImplementsDurableLog FlushSettles EventuallyStored
