\* One client behaves well, the other one loses packets, is slow and gives up.
CONSTANTS
  NoThread = NoThread
  Never = Never
  Thread = {c1, c2}
  Expiration = 1
  CleanUpInterval = 0
  TimeModulus = 100
  MaxTime = 2
  MaxId = 2
  PacketKinds = {"sync", "async"}
  LaunchMayFail = FALSE
  ClockMayStepBack = FALSE
  Timeout = 1
  PollingInterval = 1
  Calls = {"async"}
  ServerMayRestart = FALSE
  Lossy = {c2}
  Punctual = {c1}
SPECIFICATION Spec
INVARIANTS
  PunctualClientIsServed
  UniqueRequestId
PROPERTIES
  OwnReply
