CONSTANTS
  NoThread = NoThread
  Never = Never
  Thread = {t1, t2}
  Expiration = 0
  CleanUpInterval = 0
  TimeModulus = 100
  MaxTime = 2
  PacketKinds = {"sync", "async"}
  MaxId = 1
  LaunchMayFail = TRUE
  ClockMayStepBack = FALSE
SPECIFICATION LiveSpec
PROPERTIES
  PacketsAnswered
  GarbageReclaimed
