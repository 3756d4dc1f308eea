CONSTANTS
  NoThread = NoThread
  Thread = {t1, t2}
  Expiration = 1
  TimeModulus = 100
  MaxTime = 2
  MaxId = 2
  LaunchMayFail = TRUE
  ClockMayStepBack = FALSE
SYMMETRY ThreadSymmetry
SPECIFICATION Spec
INVARIANTS
  TypeOK
  RetrievedIsErased
PROPERTIES
  NoBlockingErase
  FreshIds
  InvalidatedNeverDelivered
  DiscardedOnlyWhenUnneeded
  ImplementsAsyncRequests
