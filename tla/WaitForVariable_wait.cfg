\* The wait returns, and updates are bounded: the system stops.
CONSTANTS
  Waiter = Waiter
  Nobody = Nobody
  Writer = {w1, w2}
  Value = {good, bad}
  Expected = good
  Garbage = bad
  Deadline = 1
  MaxTime = 2
  MaxWrites = 3
  Endless = FALSE
SPECIFICATION Spec
INVARIANTS
  TypeOK
  NoLostUpdate
  CallbackNeverOutlivesFrame
PROPERTIES
  WaitTerminates
CHECK_DEADLOCK FALSE
