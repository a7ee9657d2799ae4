SPECIFICATION LabelSpec
CONSTANTS
  c1 = c1
  f1 = f1
  f2 = f2
  m1 = m1
  m2 = m2
  m3 = m3
  h1 = h1
  h2 = h2
  upload = upload
  claim = claim
  uploadDoc = uploadDoc
  claimDoc = claimDoc
  NoFile = NoFile
  NoMessage = NoMessage
  NoType = NoType
  Submission = {c1}
  File = {f1, f2}
  Message = {m1, m2, m3}
  SubmissionOf <- ThreeSubmissionOf
  FileOf <- ThreeFileOf
  Malformed = {}
  Handler = {h1, h2}
  Faulty = {m1}
  MaxReceive = 2
  MaxReplays = 0
  CaseType = {upload, claim}
  DocumentType = {uploadDoc, claimDoc}
  DefaultCaseType = upload
  Unnamed = Unnamed
  NamedCaseType <- OneNamed
  FirstTypes <- TwoTypes
  MaxChanges = 1
SYMMETRY HandlerSymmetry
CHECK_DEADLOCK FALSE
INVARIANTS
  CaseAgreesWithCreator
  LabelsAreOwn
PROPERTY LabelsStay
