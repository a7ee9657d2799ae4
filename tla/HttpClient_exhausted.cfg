SPECIFICATION FairSpec
CONSTANTS
  r1 = r1
  r2 = r2
  Call <- TwoCalls
  MaxAttempts = 3
  UnknownMaxAttempts = 2
CHECK_DEADLOCK FALSE
INVARIANT RetryableFailureIsReported
