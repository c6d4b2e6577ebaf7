\* Two sessions race every operation on one account with one job.
CONSTANTS
  u1 = u1
  u2 = u2
  j1 = j1
  j2 = j2
  s1 = s1
  s2 = s2
  r1 = r1
  NoJob = NoJob
  NoRef = NoRef
  Users = {u1, u2}
  Jobs = {j1}
  Owner <- FirstOwner
  Refs = {r1}
  Sessions = {s1, s2}
  Amounts = {4}
  Quotes = {2}
  Actuals = {1}
  Fees = {1}
  Limits = {3}
  MaxWrites <- ThreeWritesOne
  MaxMonth = 1
SPECIFICATION Spec
SYMMETRY SessionSymmetry
INVARIANTS TypeOK CopyIsCurrent SettledOnce LedgerReplays SpendInv TransfersAreBacked
PROPERTIES ImplementsReservations
