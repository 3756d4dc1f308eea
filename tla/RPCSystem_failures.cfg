CONSTANTS
  NoThread = NoThread
  Never = Never
  Thread = {c1}
  Expiration = 1
  CleanUpInterval = 0
  TimeModulus = 100
  MaxTime = 3
  MaxId = 2
  PacketKinds = {"sync", "service", "async"}
  LaunchMayFail = TRUE
  ClockMayStepBack = FALSE
  Timeout = 1
  PollingInterval = 1
  Calls = {"async", "invoke", "service"}
  ServerMayRestart = TRUE
  Lossy = {c1}
  Punctual = {}
SPECIFICATION Spec
INVARIANTS
  TypeOK
PROPERTIES
  InvokeTerminates
