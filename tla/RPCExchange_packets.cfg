\* One exchange, and it is over.
CONSTANTS
  Id = {1}
  Input <- MCInput
  Output <- MCOutput
  ResultCode = {0, 1000}
  StrangePacket <- MCStrangePacket
SPECIFICATION Spec
INVARIANTS
  CallsAreTransparent
  InfoIsTransparent
  AsyncAnswersUnderstood
  StrangersAreAnswered
CHECK_DEADLOCK FALSE
