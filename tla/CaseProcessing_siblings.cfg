SPECIFICATION FairSpec
CONSTANTS
  c1 = c1
  f1 = f1
  f2 = f2
  m1 = m1
  m2 = m2
  m3 = m3
  h1 = h1
  h2 = h2
  NoFile = NoFile
  NoMessage = NoMessage
  Submission <- OneSubmission
  File <- TwoFiles
  Handler <- TwoHandlers
  Message <- TwoMessages
  SubmissionOf <- TwoSubmissionOf
  FileOf <- TwoFileOf
  Malformed = {}
  Faulty = {m1}
  MaxReceive = 2
  MaxReplays = 1
CHECK_DEADLOCK FALSE
INVARIANT NoSilentLoss
PROPERTIES
  HealthyFileIsProcessed
  HealthyDeliverySucceeds
