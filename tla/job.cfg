SPECIFICATION FairJobSpec
CONSTANTS
  MaxLines = 3
  PipeLines = 2
  Long <- OneLongLine
  None = None
INVARIANTS DeliveredInOrder DoneMeansAll
PROPERTIES JobEnds
CHECK_DEADLOCK FALSE
