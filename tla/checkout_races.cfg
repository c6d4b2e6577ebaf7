SPECIFICATION FairSpec
CONSTANTS
  i1 = i1
  i2 = i2
  e1 = e1
  e2 = e2
  e3 = e3
  r1 = r1
  r2 = r2
  NoEvent = NoEvent
  Intents = {i1, i2}
  Events = {e1, e2, e3}
  Paid = {e1, e2}
  IntentOf <- ThreeEvents
  Requests = {r1, r2}
  MaxRivals = 1
  MaxLosses = 1
INVARIANTS TypeOK CreditedOnce RecordedIsCredited
PROPERTIES PaymentIsCredited
CHECK_DEADLOCK FALSE
