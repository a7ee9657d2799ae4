SPECIFICATION DelayFairSpec
CONSTANTS
  r1 = r1
  Call <- OneCall
  MaxAttempts = 4
  UnknownMaxAttempts = 3
  BaseDelay = 7000
  Multiplier = 3
  Divisor = 2
  JitterPercentage = 15
  MaxDelay = 15000
  UnknownMaxDelay = 10000
  RetryAfterMaxDelay = 60000
  Timeout = 30000
  Duration = {1234, 30000}
  Window <- Windows
  MaxSkew = 300
  Skew <- Skews
CHECK_DEADLOCK FALSE
INVARIANTS
  AttemptsAreReported
  UnknownBudget
  DelayTypeOK
  NoRetryIntoThrottling
  CallIsBounded
  BackoffGrows
PROPERTY CallsEnd
