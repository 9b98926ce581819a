SPECIFICATION JobSpec
CONSTANTS
  MaxLines = 2
  PipeLines = 1
  Long <- OneLongLine
  None = None
INVARIANTS DoneMeansStopped
CHECK_DEADLOCK FALSE
