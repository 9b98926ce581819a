SPECIFICATION SessionsSpec
CONSTANTS
  Callers = {c1, c2, c3}
  MaxTokens = 3
  Attempts = 3
  MaxRestarts = 3
INVARIANTS OneRenewal RetryIsNewer NothingLeaks
PROPERTIES CallsSettle StartupEnds
CHECK_DEADLOCK FALSE
