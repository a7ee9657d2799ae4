SPECIFICATION Spec
CONSTANTS
  c1 = c1
  f1 = f1
  f2 = f2
  m1 = m1
  m2 = m2
  m3 = m3
  h1 = h1
  h2 = h2
  NoFile = NoFile
  NoMessage = NoMessage
  Submission <- OneSubmission
  File <- TwoFiles
  Handler <- TwoHandlers
  Message <- TwoMessages
  SubmissionOf <- TwoSubmissionOf
  FileOf <- TwoFileOf
  Malformed = {}
  Faulty <- TwoMessages
  MaxReceive = 2
  MaxReplays = 0
SYMMETRY HandlerSymmetry
CHECK_DEADLOCK FALSE
INVARIANTS
  TypeOK
  CaseInv
  RecordedCaseExists
  ProcessedFileIsInCrm
  NoDuplicateRecords
  MetadataFollowsCase
  CaseHasCreatorsFile
  RecordedCaseIsAnnounced
PROPERTIES
  KeepsContract
  CaseIsCreatedOnce
