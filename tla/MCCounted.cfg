CONSTANTS
  Account = {a1, a2}
  MaxMoved = 3
  MaxNodeChanges = 2
INIT TrafficInit
NEXT TrafficNext
CHECK_DEADLOCK FALSE
INVARIANT CountedOnce
