\* One session at a time works long enough to roll a month over with two jobs
\* reserved, settle them in either month, and move credits between accounts.
CONSTANTS
  u1 = u1
  u2 = u2
  j1 = j1
  j2 = j2
  s1 = s1
  s2 = s2
  r1 = r1
  NoJob = NoJob
  NoRef = NoRef
  Users = {u1}
  Jobs = {j1, j2}
  Owner <- OneOwner
  Refs = {r1}
  Sessions = {s1}
  Amounts = {4}
  Quotes = {2}
  Actuals = {1, 3}
  Fees = {1}
  Limits = {3}
  MaxWrites <- SixWrites
  MaxMonth = 2
SPECIFICATION Spec
INVARIANTS SettlementFollowsReserve Reconciles ReservedIsOpenHolds PeriodSpentIsNetSpend
PROPERTIES CapHonoured
