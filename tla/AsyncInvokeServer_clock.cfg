CONSTANTS
  NoThread = NoThread
  Thread = {t1}
  Expiration = 1
  TimeModulus = 100
  MaxTime = 3
  MaxId = 1
  LaunchMayFail = TRUE
  ClockMayStepBack = TRUE
SPECIFICATION Spec
PROPERTIES
  DiscardedOnlyWhenUnneeded
