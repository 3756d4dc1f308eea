\* A stack that is destroyed stays so.
CONSTANTS
  NoThread = NoThread
  Never = Never
  Thread = {t1, t2}
  Expiration = 1
  CleanUpInterval = 0
  TimeModulus = 100
  MaxTime = 1
  PacketKinds = {"sync", "async"}
  MaxId = 1
  LaunchMayFail = FALSE
  ClockMayStepBack = TRUE
SPECIFICATION Spec
INVARIANTS
  CallsFindFunctor
  ProtocolOutlivesItsCallers
PROPERTIES
  DestructionEnds
CHECK_DEADLOCK FALSE
