SPECIFICATION ChatSpec
CONSTANTS
  Sources = {s1, s2}
  FirstSource = s1
  MaxClicks = 2
  MaxPicks = 0
  MaxMoves = 0
  MaxEvents = 0
INVARIANTS AnyAnswerIsRight
CHECK_DEADLOCK FALSE
