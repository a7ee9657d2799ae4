------------------------- MODULE SubmissionContract -------------------------
(***************************************************************************)
(* What the service promises about a submission, whatever queues, retries, *)
(* crashes and lost answers lie underneath: its case appears once,         *)
(* together with one of its files, the lead; the others are attached to it *)
(* once the case is recorded; and a file is done only when it is attached  *)
(* to a recorded case.  Nothing that has happened is undone.               *)
(***************************************************************************)
EXTENDS FileEvents

VARIABLES
  cases,     \* submissions that have their case
  attached,  \* <<submission, file>> pairs attached to a case
  recorded,  \* submissions whose case the service knows
  done       \* <<submission, file>> pairs that are not to be processed again

cvars == <<cases, attached, recorded, done>>

ContractTypeOK ==
  /\ cases \subseteq Submission
  /\ recorded \subseteq Submission
  /\ attached \subseteq Submission \X File
  /\ done \subseteq Submission \X File

ContractInit == cases = {} /\ attached = {} /\ recorded = {} /\ done = {}

OpenCase(c, f) ==
  /\ c \notin cases
  /\ cases' = cases \cup {c}
  /\ attached' = attached \cup {<<c, f>>}
  /\ UNCHANGED <<recorded, done>>

AttachFile(c, f) ==
  /\ c \in recorded /\ <<c, f>> \notin attached
  /\ attached' = attached \cup {<<c, f>>}
  /\ UNCHANGED <<cases, recorded, done>>

RecordCase(c) ==
  /\ c \in cases
  /\ recorded' = recorded \cup {c}
  /\ UNCHANGED <<cases, attached, done>>

FinishFile(c, f) ==
  /\ c \in recorded /\ <<c, f>> \in attached
  /\ done' = done \cup {<<c, f>>}
  /\ UNCHANGED <<cases, attached, recorded>>

ContractNext ==
  \E c \in Submission :
    \/ RecordCase(c)
    \/ \E f \in File : OpenCase(c, f) \/ AttachFile(c, f) \/ FinishFile(c, f)

ContractSpec == ContractInit /\ [][ContractNext]_cvars
=============================================================================
