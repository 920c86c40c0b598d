SPECIFICATION LifeSpec
CONSTANTS
  Conns = {c1, c2, c3}
  Grace = 5
  NewIdle = 6
INVARIANTS TypeOK Graceful
PROPERTIES SignalEndsIt
CHECK_DEADLOCK FALSE
