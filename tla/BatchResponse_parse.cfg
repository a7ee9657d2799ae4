SPECIFICATION Spec
CONSTANTS
  Part = 3
  Statuses <- ThreeStatuses
CHECK_DEADLOCK FALSE
INVARIANTS
  AcceptedIsCommitted
  CommittedIsAccepted
