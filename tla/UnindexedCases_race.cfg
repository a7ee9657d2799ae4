SPECIFICATION FairSpec
CONSTANTS
  c1 = c1
  f1 = f1
  f2 = f2
  m1 = m1
  m2 = m2
  h1 = h1
  h2 = h2
  NoMessage = NoMessage
  Submission = {c1}
  File = {f1, f2}
  Message = {m1, m2}
  SubmissionOf <- TwoSubmissionOf
  FileOf <- TwoFileOf
  Malformed = {}
  Handler = {h1, h2}
  MaxCrashes = 2
CHECK_DEADLOCK FALSE
INVARIANTS
  DocumentsTellTheTruth
  IndexedMeansOne
PROPERTIES
  OneDocumentKeepsContract
  EveryFileArrives
