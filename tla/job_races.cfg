SPECIFICATION Spec
CONSTANTS
  j1 = j1
  w1 = w1
  w2 = w2
  p1 = p1
  p2 = p2
  a1 = a1
  a2 = a2
  Jobs = {j1}
  Workers = {w1, w2}
  Pollers = {p1}
  Authors = {a1}
  NoJob = NoJob
  NoWalker = NoWalker
  Races <- Never
  Keeps <- Maybe
  MaxAttempts = 1
  MaxPolls = 0
  MaxAsks = 1
  MaxParks = 1
  MaxSends = 2
  MaxFaults = 0
  Poison = FALSE
INVARIANTS TypeOK SettledWithOutcome AwaitingHasQuestion
PROPERTIES ImplementsContract
CHECK_DEADLOCK FALSE
SYMMETRY WorkerSymmetry
