SPECIFICATION Spec
CONSTANTS
  i1 = i1
  i2 = i2
  e1 = e1
  e2 = e2
  e3 = e3
  r1 = r1
  r2 = r2
  NoEvent = NoEvent
  Intents = {i1}
  Events = {e1}
  Paid = {e1}
  IntentOf <- One
  Requests = {r1, r2}
  MaxRivals = 1
  MaxLosses = 0
INVARIANTS ConfirmedIsCredited
CHECK_DEADLOCK FALSE
