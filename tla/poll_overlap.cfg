SPECIFICATION Spec
CONSTANTS
  t1 = t1
  t2 = t2
  r1 = r1
  r2 = r2
  r3 = r3
  Ticks = {t1, t2}
  Tasks = {r1, r2}
  Broken = {r1}
  NoTick = NoTick
  Limit = 2
  MaxKills = 0
INVARIANTS OneTickPerTask
CHECK_DEADLOCK FALSE
