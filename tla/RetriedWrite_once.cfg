SPECIFICATION WriteSpec
CONSTANTS
  r1 = r1
  r2 = r2
  Call <- TwoCalls
  NoCall = NoCall
  MaxAttempts = 2
  UnknownMaxAttempts = 2
CHECK_DEADLOCK FALSE
INVARIANTS
  ReportIsOfThisCall
PROPERTY ImplementsCreateOnce
