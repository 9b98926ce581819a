SPECIFICATION ChatSpec
CONSTANTS
  Sources = {s1, s2}
  FirstSource = s1
  MaxClicks = 2
  MaxPicks = 2
  MaxMoves = 1
  MaxEvents = 1
INVARIANTS LastOneWins RightConversation DuplicatesOverlap
PROPERTIES ScreenSettles
CHECK_DEADLOCK FALSE
