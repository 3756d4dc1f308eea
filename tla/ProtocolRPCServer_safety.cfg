CONSTANTS
  NoThread = NoThread
  Never = Never
  Thread = {t1, t2}
  Expiration = 0
  CleanUpInterval = 0
  TimeModulus = 100
  MaxTime = 1
  PacketKinds = {"bad_encoding", "malformed", "service", "sync", "async"}
  MaxId = 2
  LaunchMayFail = TRUE
  ClockMayStepBack = FALSE
SYMMETRY ThreadSymmetry
SPECIFICATION Spec
INVARIANTS
  TypeOK
PROPERTIES
  SweepRemovesGarbage
