------------------------------ MODULE CaseStore ------------------------------
(***************************************************************************)
(* The MongoDB collection "cases": one document for each submission        *)
(* (correlationId), the operations the repository module exposes on it,    *)
(* and the decision that createCase takes from the document it read.       *)
(***************************************************************************)
EXTENDS FileEvents

CONSTANT NoFile

ASSUME NoFileAssumption == NoFile \notin File

VARIABLES
  creator,   \* [Submission -> File or NoFile] creatorFileId; NoFile: no document
  caseId,    \* [Submission -> BOOLEAN] caseId is set; its value is derived
  processed  \* [Submission -> SUBSET File] processedFileIds

storeVars == <<creator, caseId, processed>>

StoreTypeOK ==
  /\ creator \in [Submission -> File \cup {NoFile}]
  /\ caseId \in [Submission -> BOOLEAN]
  /\ processed \in [Submission -> SUBSET File]

StoreInit ==
  /\ creator = [c \in Submission |-> NoFile]
  /\ caseId = [c \in Submission |-> FALSE]
  /\ processed = [c \in Submission |-> {}]

UpsertCaseResettingCreator(c, f) ==  \* variant: $set in the place of $setOnInsert
  /\ creator' = [creator EXCEPT ![c] = f]
  /\ UNCHANGED <<caseId, processed>>

\* $setOnInsert: only an upsert that inserts the document writes to it.
UpsertCase(c, f) ==
  /\ creator' = IF creator[c] = NoFile THEN [creator EXCEPT ![c] = f] ELSE creator
  /\ UNCHANGED <<caseId, processed>>

UpdateCaseId(c) ==
  /\ caseId' = [caseId EXCEPT ![c] = TRUE]
  /\ UNCHANGED <<creator, processed>>

MarkFileProcessed(c, f) ==
  /\ processed' = [processed EXCEPT ![c] = @ \cup {f}]
  /\ UNCHANGED <<creator, caseId>>

\* What upsertCase reports, from the document as it was before the upsert.
IsNew(c) == creator[c] = NoFile
IsCreator(c, f) == creator[c] \in {NoFile, f}
IsDuplicateFile(c, f) == f \in processed[c]

PrepareWithoutWait(c, f) ==  \* variant: a sibling does not wait for the case
  IF IsDuplicateFile(c, f) THEN "skip"
  ELSE IF caseId[c] THEN "addMetadata" ELSE "create"

PrepareOnlyNewCreates(c, f) ==  \* variant: a redelivered creator does not resume
  IF IsDuplicateFile(c, f) THEN "skip"
  ELSE IF IsNew(c) THEN "create"
  ELSE IF caseId[c] THEN "addMetadata" ELSE "wait"

PrepareSiblingsWait(c, f) ==  \* variant: a sibling waits although the case is recorded
  IF IsDuplicateFile(c, f) THEN "skip"
  ELSE IF ~IsNew(c) /\ ~IsCreator(c, f) THEN "wait"
  ELSE IF caseId[c] THEN "addMetadata" ELSE "create"

\* prepareCase: what is to be done with file f of submission c.
Prepare(c, f) ==
  IF IsDuplicateFile(c, f) THEN "skip"
  ELSE IF ~caseId[c] /\ ~IsNew(c) /\ ~IsCreator(c, f) THEN "wait"
  ELSE IF IsNew(c) \/ (~caseId[c] /\ IsCreator(c, f)) THEN "create"
  ELSE "addMetadata"
=============================================================================
