\* The wait may return: then nobody needs the variable.
CONSTANTS
  Waiter = Waiter
  Nobody = Nobody
  Writer = {w1}
  Value = {good, bad}
  Expected = good
  Garbage = bad
  Deadline = 1
  MaxTime = 2
  MaxWrites = 0
  Endless = TRUE
SPECIFICATION Spec
PROPERTIES
  WaitEndsAfterTimeout
CHECK_DEADLOCK FALSE
