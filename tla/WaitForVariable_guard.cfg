\* The wait returns, and updates are bounded: the system stops.
CONSTANTS
  Waiter = Waiter
  Nobody = Nobody
  Writer = {w1}
  Value = {good, bad}
  Expected = good
  Garbage = bad
  Deadline = 1
  MaxTime = 2
  MaxWrites = 1
  Endless = FALSE
SPECIFICATION Spec
INVARIANTS
  GuardRemovesCallback
CHECK_DEADLOCK FALSE
