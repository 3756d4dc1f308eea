\* Behaviours end: a call is over, a clock stands still, a structure was extracted from.
CONSTANTS
  Half = 8
  MaxTime = 7
  Duration <- MCDuration
  ConfigValue <- MCConfigValue
  AnyEncoding = {2}
  Name = {"function", "a", "b"}
  Argument <- MCArgument
  Target <- MCTarget
  Conversion <- MCConversion
  Function = {"f"}
  Value <- MCValue
  RawValue <- MCRawValue
  MaxUpdates = 2
  AppResult <- MCAppResult
  MaxPolls = 2
  App = app
  MaxStarts = 3
SPECIFICATION Spec
INVARIANTS
  WaitsAsConfigured
  AbandonedAreReclaimed
  PackedIsExtracted
  ExtractedIsField
  CallbackTellsValue
  LogsAgree
  ExceptionsAreContained
PROPERTIES
  FieldsAreKept
  ReadsAreCurrent
  ReplyIsOfLastStart
  ReadyReplyArrives
  NoReplyAfterInvalidate
  PollFailsOnlyIfUnneeded
CHECK_DEADLOCK FALSE
