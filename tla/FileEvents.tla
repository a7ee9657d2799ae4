----------------------------- MODULE FileEvents -----------------------------
(***************************************************************************)
(* The events on the inbound queue.  Each Message announces one file of    *)
(* one submission; a producer may announce the same file more than once.   *)
(***************************************************************************)
CONSTANTS
  Message,       \* events sent to the inbound queue
  Submission,    \* correlationIds
  File,          \* fileIds
  SubmissionOf,  \* [Message -> Submission]: data.correlationId
  FileOf,        \* [Message -> File]: data.file.fileId
  Malformed      \* messages that are not JSON or fail the inbound schema

ASSUME EventAssumption ==
  /\ SubmissionOf \in [Message -> Submission]
  /\ FileOf \in [Message -> File]
  /\ Malformed \subseteq Message
=============================================================================
