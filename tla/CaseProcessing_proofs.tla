----------------------- MODULE CaseProcessing_proofs -----------------------
(***************************************************************************)
(* Theorems about CaseProcessing, for any messages, submissions, files and *)
(* handlers, any choice of malformed and faulty messages, and any receive  *)
(* count and number of replays.                                            *)
(***************************************************************************)
EXTENDS CaseInvariant, TLAPS

-----------------------------------------------------------------------------
(* Type correctness. *)

HandlerTypeOK ==
  /\ pc \in [Handler -> Step]
  /\ held \in [Handler -> Message \cup {NoMessage}]
  /\ job \in [Handler -> Job]

\* What a step of handler h may do to the handlers and to each other component.
Move(h) ==
  \/ UNCHANGED handlerVars
  \/ Leave(h)
  \/ \E step \in Step : Goto(h, step)
  \/ \E plan \in {"create", "addMetadata"} :
       /\ pc' = [pc EXCEPT ![h] = "token"]
       /\ job' = [job EXCEPT ![h] = plan]
       /\ UNCHANGED held
QueueEffect(h) == UNCHANGED sqsVars \/ SendDeadLetter(held[h]) \/ Delete(held[h])
StoreEffect(h) ==
  \/ UNCHANGED storeVars
  \/ UpsertCase(Sub(h), Fil(h)) \/ UpdateCaseId(Sub(h)) \/ MarkFileProcessed(Sub(h), Fil(h))
CrmEffect(h) ==
  UNCHANGED crmVars \/ ApplyChangeset(Sub(h), Fil(h)) \/ ApplyMetadata(Sub(h), Fil(h))
OtherEffect(h) ==
  /\ inFlight' = inFlight \/ inFlight' = inFlight \cup Outstanding(h)
  /\ announced' = announced \/ announced' = announced \cup {Sub(h)}
  /\ dropped' = dropped \/ dropped' = dropped \cup {held[h]}

\* A handler's move, and the sets that only grow, keep their types.
LEMMA MoveTyped ==
  ASSUME HandlerTypeOK, NEW h \in Handler, Move(h)
  PROVE  HandlerTypeOK'
BY DEF HandlerTypeOK, Move, handlerVars, Leave, Goto, Step, Job

\* The operations on the queue, the store and the CRM keep their types.
LEMMA QueueTyped ==
  ASSUME QueueTypeOK, NEW m \in Message,
         \/ UNCHANGED sqsVars
         \/ Deliver(m) \/ BecomeVisible(m) \/ MoveToDeadLetter(m)
         \/ Delete(m) \/ SendDeadLetter(m) \/ Resend(m)
  PROVE  QueueTypeOK'
BY DEF QueueTypeOK, QueueState, sqsVars, Deliver, BecomeVisible,
       MoveToDeadLetter, Delete, SendDeadLetter, Resend

\* The writes of the repository module repos/cases.js keep the types of the documents.
LEMMA StoreTyped ==
  ASSUME StoreTypeOK, NEW c \in Submission, NEW f \in File,
         UNCHANGED storeVars \/ UpsertCase(c, f) \/ UpdateCaseId(c) \/ MarkFileProcessed(c, f)
  PROVE  StoreTypeOK'
BY DEF StoreTypeOK, storeVars, UpsertCase, UpdateCaseId, MarkFileProcessed

\* The writes that Dataverse applies keep the types of its records.
LEMMA CrmTyped ==
  ASSUME CrmTypeOK, NEW c \in Submission, NEW f \in File,
         UNCHANGED crmVars \/ ApplyChangeset(c, f) \/ ApplyMetadata(c, f)
  PROVE  CrmTypeOK'
BY DEF CrmTypeOK, crmVars, ApplyChangeset, ApplyMetadata

\* The submission and file of a handler that holds a message.
LEMMA HeldTyped ==
  ASSUME NEW h \in Handler, held[h] \in Message
  PROVE  Sub(h) \in Submission /\ Fil(h) \in File
BY EventAssumption DEF Sub, Fil

\* What a handler leaves behind when it gives up is a set of requests.
LEMMA OutstandingTyped ==
  ASSUME NEW h \in Handler, held[h] \in Message
  PROVE  Outstanding(h) \subseteq Request
BY DEF Outstanding, Request

\* Every step of a handler is made with a message in hand and has these effects.
LEMMA StepEffects ==
  ASSUME HandlerTypeOK, NEW h \in Handler, Advance(h) \/ Fail(h)
  PROVE  /\ held[h] \in Message
         /\ QueueEffect(h) /\ StoreEffect(h) /\ CrmEffect(h) /\ Move(h) /\ OtherEffect(h)
<1> DEFINE Effects ==
      /\ held[h] \in Message
      /\ QueueEffect(h) /\ StoreEffect(h) /\ CrmEffect(h) /\ Move(h) /\ OtherEffect(h)
<1> USE DEF QueueEffect, StoreEffect, CrmEffect, OtherEffect, Move, At, Step,
        Retryable, NonRetryable
<1>1. CASE Upsert(h) \/ UpsertFails(h) BY <1>1 DEF Upsert, UpsertFails
<1>2. ASSUME NEW step \in Step, NEW next \in Step, NEW mayRetry \in BOOLEAN,
             Lookup(h, step, next, mayRetry)
      PROVE  Effects
  BY <1>2 DEF Lookup
<1>3. CASE GetToken(h) \/ EnsureContactAndAccount(h) \/ FindActivity(h) \/ ResolveDocumentType(h)
  BY <1>2, <1>3 DEF GetToken, EnsureContactAndAccount, FindActivity, ResolveDocumentType
<1>4. CASE ChangesetApplied(h) \/ CaseCreated(h) \/ CaseSuppressed(h) \/ CaseFails(h)
  BY <1>4 DEF ChangesetApplied, CaseCreated, CaseSuppressed, CaseFails
<1>5. CASE PublishCaseCreated(h) \/ RecordCaseId(h) \/ MarkProcessed(h)
  BY <1>5 DEF PublishCaseCreated, RecordCaseId, MarkProcessed
<1>6. CASE MetadataApplied(h) \/ MetadataAnswered(h) \/ MetadataFails(h)
  BY <1>6 DEF WritesMetadata, MetadataApplied, MetadataAnswered, MetadataFails, AfterMetadata
<1>7. CASE SendToDlq(h) \/ Acknowledge(h) BY <1>7 DEF SendToDlq, Acknowledge
<1>8. CASE Crash(h) BY <1>8, HandlerAssumption DEF Crash, FaultMay
<1> QED BY <1>1, <1>3, <1>4, <1>5, <1>6, <1>7, <1>8 DEF Advance, Fail

\* TypeOK holds initially and every step preserves it.
LEMMA TypeInit == Init => TypeOK
BY DEF Init, TypeOK, QueueInit, StoreInit, CrmInit, QueueTypeOK, StoreTypeOK,
       CrmTypeOK, QueueState, Step, Job

\* Every step of the service, its queue and Dataverse keeps the types.
LEMMA TypeNext == TypeOK /\ [Next]_vars => TypeOK'
<1> SUFFICES ASSUME TypeOK, [Next]_vars PROVE TypeOK'
  OBVIOUS
<1>0. /\ QueueTypeOK /\ StoreTypeOK /\ CrmTypeOK /\ HandlerTypeOK
      /\ inFlight \subseteq Request /\ announced \subseteq Submission /\ dropped \subseteq Message
  BY DEF TypeOK, HandlerTypeOK
<1> DEFINE Rest == inFlight \subseteq Request /\ announced \subseteq Submission /\ dropped \subseteq Message
<1>1. ASSUME NEW h \in Handler, NEW m \in Message, Receive(h, m) PROVE TypeOK'
  <2>1. QueueTypeOK' BY <1>0, <1>1, QueueTyped DEF Receive
  <2>2. StoreTypeOK' /\ CrmTypeOK' /\ Rest'
    BY <1>0, <1>1 DEF Receive, StoreTypeOK, CrmTypeOK, storeVars, crmVars
  <2>3. HandlerTypeOK' BY <1>0, <1>1 DEF Receive, HandlerTypeOK, Step
  <2> QED BY <2>1, <2>2, <2>3 DEF TypeOK, HandlerTypeOK
<1>2. ASSUME NEW m \in Message, VisibilityExpires(m) \/ Redrive(m) \/ Replay(m) PROVE TypeOK'
  <2>1. QueueTypeOK' BY <1>0, <1>2, QueueTyped DEF VisibilityExpires, Redrive, Replay
  <2>2. StoreTypeOK' /\ CrmTypeOK' /\ Rest' /\ HandlerTypeOK'
    BY <1>0, <1>2 DEF VisibilityExpires, Redrive, Replay, StoreTypeOK, CrmTypeOK,
       HandlerTypeOK, storeVars, crmVars, handlerVars
  <2> QED BY <2>1, <2>2 DEF TypeOK, HandlerTypeOK
<1>3. ASSUME NEW kind \in {"case", "metadata"}, NEW m \in Message, LateRequest(kind, m) PROVE TypeOK'
  <2>1. SubmissionOf[m] \in Submission /\ FileOf[m] \in File BY EventAssumption
  <2>2. CrmTypeOK' BY <1>0, <1>3, <2>1, CrmTyped DEF LateRequest
  <2>3. QueueTypeOK' /\ StoreTypeOK' /\ HandlerTypeOK'
    BY <1>0, <1>3 DEF LateRequest, QueueTypeOK, StoreTypeOK, HandlerTypeOK,
       sqsVars, storeVars, handlerVars
  <2>4. Rest' BY <1>0, <1>3 DEF LateRequest
  <2> QED BY <2>2, <2>3, <2>4 DEF TypeOK, HandlerTypeOK
<1>4. ASSUME NEW h \in Handler, Advance(h) \/ Fail(h) PROVE TypeOK'
  <2>1. /\ held[h] \in Message
        /\ QueueEffect(h) /\ StoreEffect(h) /\ CrmEffect(h) /\ Move(h) /\ OtherEffect(h)
    BY <1>0, <1>4, StepEffects DEF HandlerTypeOK
  <2>2. Sub(h) \in Submission /\ Fil(h) \in File BY <2>1, HeldTyped
  <2>3. QueueTypeOK' BY <1>0, <2>1, QueueTyped DEF QueueEffect
  <2>4. StoreTypeOK' BY <1>0, <2>1, <2>2, StoreTyped DEF StoreEffect
  <2>5. CrmTypeOK' BY <1>0, <2>1, <2>2, CrmTyped DEF CrmEffect
  <2>6. HandlerTypeOK' BY <1>0, <2>1, MoveTyped
  <2>7. Rest' BY <1>0, <2>1, <2>2, OutstandingTyped DEF OtherEffect
  <2> QED BY <2>3, <2>4, <2>5, <2>6, <2>7 DEF TypeOK, HandlerTypeOK
<1>5. CASE UNCHANGED vars
  BY <1>5, <1>0 DEF vars, TypeOK, QueueTypeOK, StoreTypeOK, CrmTypeOK, HandlerTypeOK,
     sqsVars, storeVars, crmVars, handlerVars
<1> QED BY <1>1, <1>2, <1>3, <1>4, <1>5 DEF Next, QueueStep

\* Type correctness: in every behaviour each variable keeps its type, so a handler
\* is always at one of the awaits and holds one of the two jobs of prepareCase.
THEOREM TypeCorrect == Spec => []TypeOK
<1>1. Init => TypeOK BY TypeInit
<1>2. TypeOK /\ [Next]_vars => TypeOK' BY TypeNext
<1> QED BY <1>1, <1>2, PTL DEF Spec

-----------------------------------------------------------------------------
(* The records: what each operation needs to preserve RecordsInv. *)

\* What never goes back: creators stay, and everything else only grows.
Grows ==
  /\ \A c \in Submission :
       /\ creator[c] \in File => creator'[c] = creator[c]
       /\ caseId[c] => caseId'[c]
       /\ HasIncident(c) => HasIncident(c)'
       /\ \A f \in File : HasMetadata(c, f) => HasMetadata(c, f)'
  /\ announced \subseteq announced'

\* upsertCase writes only to a document it inserts, so no record changes its creator.
LEMMA UpsertKeepsRecords ==
  ASSUME TypeOK, RecordsInv, NEW c \in Submission, NEW f \in File,
         UpsertCase(c, f), UNCHANGED <<crmVars, announced>>
  PROVE  RecordsInv' /\ Grows
BY NoFileAssumption DEF TypeOK, StoreTypeOK, CrmTypeOK, UpsertCase, crmVars, RecordsInv, RecordedCaseExists,
   ProcessedFileIsInCrm, NoDuplicateRecords, MetadataFollowsCase, CaseHasCreatorsFile,
   RecordedCaseIsAnnounced, Grows, HasIncident, HasMetadata

\* updateCaseId is safe for a case that exists and was announced.
LEMMA UpdateKeepsRecords ==
  ASSUME TypeOK, RecordsInv, NEW c \in Submission, HasIncident(c), c \in announced,
         UpdateCaseId(c), UNCHANGED <<crmVars, announced>>
  PROVE  RecordsInv' /\ Grows
BY DEF TypeOK, StoreTypeOK, CrmTypeOK, UpdateCaseId, crmVars, RecordsInv, RecordedCaseExists,
   ProcessedFileIsInCrm, NoDuplicateRecords, MetadataFollowsCase, CaseHasCreatorsFile,
   RecordedCaseIsAnnounced, Grows, HasIncident, HasMetadata

\* markFileProcessed is safe for a file of a recorded case that has its metadata.
LEMMA MarkKeepsRecords ==
  ASSUME TypeOK, RecordsInv, NEW c \in Submission, NEW f \in File,
         HasIncident(c), HasMetadata(c, f), caseId[c],
         MarkFileProcessed(c, f), UNCHANGED <<crmVars, announced>>
  PROVE  RecordsInv' /\ Grows
BY DEF TypeOK, StoreTypeOK, CrmTypeOK, MarkFileProcessed, crmVars, RecordsInv, RecordedCaseExists,
   ProcessedFileIsInCrm, NoDuplicateRecords, MetadataFollowsCase, CaseHasCreatorsFile,
   RecordedCaseIsAnnounced, Grows, HasIncident, HasMetadata

\* The changeset is applied for the creator's file only.
LEMMA ChangesetKeepsRecords ==
  ASSUME TypeOK, RecordsInv, NEW c \in Submission, NEW f \in File, creator[c] = f,
         ApplyChangeset(c, f), UNCHANGED <<storeVars, announced>>
  PROVE  RecordsInv' /\ Grows /\ HasIncident(c)' /\ HasMetadata(c, f)'
BY DEF TypeOK, StoreTypeOK, CrmTypeOK, ApplyChangeset, ChangesetConflicts, storeVars, RecordsInv, RecordedCaseExists,
   ProcessedFileIsInCrm, NoDuplicateRecords, MetadataFollowsCase, CaseHasCreatorsFile,
   RecordedCaseIsAnnounced, Grows, HasIncident, HasMetadata

\* Metadata is applied for the creator's file, or once the case is recorded.
LEMMA MetadataKeepsRecords ==
  ASSUME TypeOK, RecordsInv, NEW c \in Submission, NEW f \in File,
         HasIncident(c), creator[c] = f \/ caseId[c],
         ApplyMetadata(c, f), UNCHANGED <<storeVars, announced>>
  PROVE  RecordsInv' /\ Grows
BY DEF TypeOK, StoreTypeOK, CrmTypeOK, ApplyMetadata, storeVars, RecordsInv, RecordedCaseExists,
   ProcessedFileIsInCrm, NoDuplicateRecords, MetadataFollowsCase, CaseHasCreatorsFile,
   RecordedCaseIsAnnounced, Grows, HasIncident, HasMetadata

\* Steps that write neither the document nor the CRM keep what the two have in common.
LEMMA OtherStepsKeepRecords ==
  ASSUME TypeOK, RecordsInv, UNCHANGED <<storeVars, crmVars>>, announced \subseteq announced'
  PROVE  RecordsInv' /\ Grows
BY DEF TypeOK, StoreTypeOK, CrmTypeOK, storeVars, crmVars, RecordsInv, RecordedCaseExists,
   ProcessedFileIsInCrm, NoDuplicateRecords, MetadataFollowsCase, CaseHasCreatorsFile,
   RecordedCaseIsAnnounced, Grows, HasIncident, HasMetadata

-----------------------------------------------------------------------------
(* What the handlers and the late requests rely on. *)

\* What a handler relies on survives the steps of all the others.
LEMMA OthersKeepHandler ==
  ASSUME TypeOK, NEW g \in Handler, HandlerInv(g), Grows,
         pc'[g] = pc[g], held'[g] = held[g], job'[g] = job[g]
  PROVE  HandlerInv(g)'
<1>1. CASE held[g] = NoMessage
  BY <1>1 DEF HandlerInv, HoldsMessage, JobOfStep, RightToWork, WorkDone, Working, Creating, Adding
<1>2. CASE held[g] # NoMessage
  <2>1. held[g] \in Message BY <1>2 DEF TypeOK
  <2>2. Sub(g) \in Submission /\ Fil(g) \in File BY <2>1, HeldTyped
  <2>3. Sub(g)' = Sub(g) /\ Fil(g)' = Fil(g) BY DEF Sub, Fil
  <2>4. RightToWork(g)' BY <2>2, <2>3 DEF HandlerInv, RightToWork, Grows
  <2>5. HasIncident(Sub(g)) => HasIncident(Sub(g))'
    BY <2>2, <2>3 DEF Grows, HasIncident
  <2>6. HasMetadata(Sub(g), Fil(g)) => HasMetadata(Sub(g), Fil(g))'
    BY <2>2, <2>3 DEF Grows, HasMetadata
  <2>7. WorkDone(g)' BY <2>2, <2>3, <2>5, <2>6 DEF HandlerInv, WorkDone, Grows
  <2>8. HoldsMessage(g)' /\ JobOfStep(g)' BY DEF HandlerInv, HoldsMessage, JobOfStep
  <2> QED BY <2>4, <2>7, <2>8 DEF HandlerInv
<1> QED BY <1>1, <1>2

\* The right to send a late request is never taken back.
LEMMA LateRequestsKept ==
  ASSUME TypeOK, LateRequestsAllowed, Grows, inFlight' \subseteq inFlight
  PROVE  LateRequestsAllowed'
BY EventAssumption DEF LateRequestsAllowed, Grows, HasIncident

\* A handler that gives up leaves behind a request that it had the right to send.
LEMMA AbandonedIsAllowed ==
  ASSUME TypeOK, LateRequestsAllowed, Grows, NEW h \in Handler, HandlerInv(h),
         RecordedCaseExists, held[h] \in Message,
         inFlight' \subseteq inFlight \cup Outstanding(h)
  PROVE  LateRequestsAllowed'
<1>1. Sub(h) \in Submission /\ Fil(h) \in File BY HeldTyped
<1>2. ASSUME NEW m \in Message, <<"case", m>> \in Outstanding(h)
      PROVE  m = held[h] /\ creator[Sub(h)] = Fil(h)
  <2>1. m = held[h] /\ pc[h] = "changeset" BY <1>2 DEF Outstanding
  <2> QED BY <2>1 DEF HandlerInv, JobOfStep, RightToWork, Working, Creating
<1>3. ASSUME NEW m \in Message, <<"metadata", m>> \in Outstanding(h)
      PROVE  m = held[h] /\ HasIncident(Sub(h)) /\ (creator[Sub(h)] = Fil(h) \/ caseId[Sub(h)])
  <2>1. m = held[h] /\ pc[h] \in {"fallback", "metadata"} BY <1>3 DEF Outstanding
  <2>2. CASE pc[h] = "fallback"
    BY <2>1, <2>2 DEF HandlerInv, JobOfStep, RightToWork, WorkDone, Working, Creating
  <2>3. CASE pc[h] = "metadata"
    BY <1>1, <2>1, <2>3 DEF HandlerInv, JobOfStep, RightToWork, Working, Adding, RecordedCaseExists
  <2> QED BY <2>1, <2>2, <2>3
<1>4. ASSUME NEW m \in Message, <<"case", m>> \in inFlight'
      PROVE  creator[SubmissionOf[m]] = FileOf[m]
  BY <1>2, <1>4 DEF LateRequestsAllowed, Sub, Fil
<1>5. ASSUME NEW m \in Message, <<"metadata", m>> \in inFlight'
      PROVE  HasIncident(SubmissionOf[m]) /\ (creator[SubmissionOf[m]] = FileOf[m] \/ caseId[SubmissionOf[m]])
  BY <1>3, <1>5 DEF LateRequestsAllowed, Sub, Fil
<1>6. \A m \in Message : SubmissionOf[m] \in Submission /\ FileOf[m] \in File BY EventAssumption
<1> QED BY <1>4, <1>5, <1>6 DEF LateRequestsAllowed, Grows, HasIncident

\* A handler's own step keeps the records and what the handler relies on.
LEMMA HandlerStepKeeps ==
  ASSUME TypeOK, CaseInv, NEW h \in Handler, Advance(h) \/ Fail(h)
  PROVE  RecordsInv' /\ Grows /\ HandlerInv(h)'
<1>0. /\ RecordsInv /\ HandlerInv(h) /\ HandlerTypeOK
      /\ pc \in [Handler -> Step] /\ held \in [Handler -> Message \cup {NoMessage}]
      /\ job \in [Handler -> Job]
      /\ held[h] \in Message /\ held[h] # NoMessage
  BY StepEffects, HandlerAssumption DEF CaseInv, TypeOK, HandlerTypeOK
<1>s. Sub(h) \in Submission /\ Fil(h) \in File BY <1>0, HeldTyped
<1> DEFINE Stays == UNCHANGED <<storeVars, crmVars>> /\ announced \subseteq announced'
           Good == RecordsInv' /\ Grows /\ HandlerInv(h)'
<1>r. Stays => RecordsInv' /\ Grows BY <1>0, OtherStepsKeepRecords
\* Leaving, or going to a step that relies on nothing.
<1>l. ASSUME Leave(h) \/ Goto(h, "discard") \/ Goto(h, "ack") PROVE HandlerInv(h)'
  BY <1>0, <1>l DEF Leave, Goto, HandlerInv, HoldsMessage, JobOfStep, RightToWork, WorkDone,
     Working, Creating, Adding
<1>d. ASSUME held' = held PROVE Sub(h)' = Sub(h) /\ Fil(h)' = Fil(h)
  BY <1>d DEF Sub, Fil
\* Going to a step that relies on what the handler has done.
<1>g. ASSUME NEW step \in Working, Goto(h, step), Grows, pc[h] \in Working,
             step \in Creating => job[h] = "create",
             step \in Adding => job[h] = "addMetadata",
             step \in {"committed", "fallback", "publish", "updateCaseId", "mark"}
               => incidents'[Sub(h)] > 0,
             step \in {"committed", "publish", "updateCaseId", "mark"}
               => metadata'[Sub(h)][Fil(h)] > 0,
             step = "updateCaseId" => Sub(h) \in announced',
             step = "mark" => caseId'[Sub(h)]
      PROVE  HandlerInv(h)'
  <2>1. pc'[h] = step /\ held' = held /\ job' = job BY <1>0, <1>g DEF Goto
  <2>2. step # "idle" BY DEF Working, Creating, Adding
  <2>3. HoldsMessage(h)' BY <1>0, <2>1, <2>2 DEF HoldsMessage
  <2>4. JobOfStep(h)' BY <1>0, <1>g, <2>1 DEF HandlerInv, JobOfStep
  <2>5. RightToWork(h)' BY <1>0, <1>s, <1>d, <1>g, <2>1 DEF HandlerInv, RightToWork, Grows
  <2>6. WorkDone(h)' BY <1>d, <1>g, <2>1 DEF WorkDone, HasIncident, HasMetadata
  <2> QED BY <2>3, <2>4, <2>5, <2>6 DEF HandlerInv
\* What the handler knows of its job and of the CRM, by the step it is at.
<1>k. /\ pc[h] \in Creating => job[h] = "create" /\ creator[Sub(h)] = Fil(h)
      /\ pc[h] \in Adding => caseId[Sub(h)] /\ HasIncident(Sub(h))
      /\ pc[h] \in {"committed", "fallback", "publish", "updateCaseId", "mark"} => HasIncident(Sub(h))
      /\ pc[h] \in {"committed", "publish", "updateCaseId", "mark"} => HasMetadata(Sub(h), Fil(h))
      /\ pc[h] = "updateCaseId" => Sub(h) \in announced
      /\ pc[h] \in Creating \cup Adding \cup {"mark"} => pc[h] \in Working
  BY <1>0, <1>s DEF HandlerInv, JobOfStep, RightToWork, WorkDone, Working, Creating, Adding,
     RecordsInv, RecordedCaseExists
<1> USE DEF At, Retryable, NonRetryable
<1>1. CASE Upsert(h)
  <2>1. RecordsInv' /\ Grows BY <1>0, <1>1, <1>s, UpsertKeepsRecords DEF Upsert
  <2> DEFINE plan == Prepare(Sub(h), Fil(h))
  <2>2. CASE plan \in {"skip", "wait"}
    BY <1>1, <1>l, <2>1, <2>2 DEF Upsert
  <2>3. CASE plan \in {"create", "addMetadata"}
    <3>1. /\ pc' = [pc EXCEPT ![h] = "token"] /\ job' = [job EXCEPT ![h] = plan]
          /\ held' = held /\ UpsertCase(Sub(h), Fil(h))
      BY <1>1, <2>3 DEF Upsert
    <3>2. plan = "create" => creator'[Sub(h)] = Fil(h)
      BY <1>s, <3>1, NoFileAssumption DEF Prepare, IsNew, IsCreator, UpsertCase, TypeOK, StoreTypeOK
    <3>3. plan = "addMetadata" => caseId'[Sub(h)]
      BY <1>s, <3>1 DEF Prepare, IsNew, IsCreator, UpsertCase
    <3>4. pc'[h] = "token" /\ job'[h] = plan BY <1>0, <3>1
    <3>5. HandlerInv(h)'
      BY <1>0, <1>d, <2>3, <3>1, <3>2, <3>3, <3>4 DEF HandlerInv, HoldsMessage, JobOfStep,
         RightToWork, WorkDone, Working, Creating, Adding
    <3> QED BY <2>1, <3>5
  <2>4. plan \in {"skip", "wait", "create", "addMetadata"} BY DEF Prepare
  <2> QED BY <2>2, <2>3, <2>4
<1>2. CASE UpsertFails(h)
  <2>1. RecordsInv' /\ Grows
    BY <1>0, <1>2, <1>s, <1>r, UpsertKeepsRecords DEF UpsertFails
  <2> QED BY <1>2, <1>l, <2>1 DEF UpsertFails
<1>3. CASE GetToken(h) \/ EnsureContactAndAccount(h) \/ FindActivity(h) \/ ResolveDocumentType(h)
  <2>1. Stays
    BY <1>3 DEF GetToken, EnsureContactAndAccount, FindActivity, ResolveDocumentType, Lookup
  <2>2. \/ Leave(h) \/ Goto(h, "discard")
        \/ /\ pc[h] \in Working
           /\ \/ job[h] = "create" /\ \E step \in {"parties", "docType", "changeset"} : Goto(h, step)
              \/ job[h] = "addMetadata" /\ \E step \in {"activity", "docType", "metadata"} : Goto(h, step)
    BY <1>0, <1>3 DEF GetToken, EnsureContactAndAccount, FindActivity, ResolveDocumentType,
       Lookup, HandlerInv, JobOfStep, Working, Creating, Adding, Job
  <2>3. ASSUME pc[h] \in Working, job[h] = "create",
               NEW step \in {"parties", "docType", "changeset"}, Goto(h, step)
        PROVE  HandlerInv(h)'
    BY <1>g, <1>r, <2>1, <2>3 DEF Working, Creating, Adding
  <2>4. ASSUME pc[h] \in Working, job[h] = "addMetadata",
               NEW step \in {"activity", "docType", "metadata"}, Goto(h, step)
        PROVE  HandlerInv(h)'
    BY <1>g, <1>r, <2>1, <2>4 DEF Working, Creating, Adding
  <2> QED BY <1>l, <1>r, <2>1, <2>2, <2>3, <2>4
<1>4. CASE ChangesetApplied(h)
  <2>1. creator[Sub(h)] = Fil(h) /\ job[h] = "create" /\ pc[h] \in Working
    BY <1>4, <1>k DEF ChangesetApplied, Creating
  <2>2. RecordsInv' /\ Grows /\ incidents'[Sub(h)] > 0 /\ metadata'[Sub(h)][Fil(h)] > 0
    BY <1>0, <1>s, <1>4, <2>1, ChangesetKeepsRecords DEF ChangesetApplied, HasIncident, HasMetadata
  <2>3. Goto(h, "committed") BY <1>4 DEF ChangesetApplied
  <2> QED BY <1>g, <2>1, <2>2, <2>3 DEF Working, Creating, Adding
<1>5. CASE CaseCreated(h) \/ CaseSuppressed(h)
  <2>1. Stays BY <1>5 DEF CaseCreated, CaseSuppressed
  <2>2. incidents' = incidents /\ metadata' = metadata BY <2>1 DEF crmVars
  <2>3. pc[h] \in {"changeset", "committed"} /\ pc[h] \in Working /\ job[h] = "create"
    BY <1>5, <1>k DEF CaseCreated, CaseSuppressed, Creating
  <2>4. CASE CaseCreated(h)
    BY <1>g, <1>k, <1>r, <2>1, <2>2, <2>3, <2>4 DEF CaseCreated, HasIncident, HasMetadata,
       Working, Creating, Adding
  <2>5. CASE CaseSuppressed(h)
    <3>1. HasIncident(Sub(h))
      BY <1>0, <1>s, <2>5 DEF CaseSuppressed, ChangesetConflicts, RecordsInv, MetadataFollowsCase
    <3> QED BY <1>g, <1>r, <2>1, <2>2, <2>3, <2>5, <3>1 DEF CaseSuppressed, HasIncident,
            Working, Creating, Adding
  <2> QED BY <1>5, <2>4, <2>5
<1>6. CASE CaseFails(h) \/ MetadataFails(h) \/ Crash(h)
  <2>1. Stays BY <1>6 DEF CaseFails, MetadataFails, Crash
  <2>2. Leave(h) \/ Goto(h, "discard") BY <1>6 DEF CaseFails, MetadataFails, Crash
  <2> QED BY <1>l, <1>r, <2>1, <2>2
<1>7. CASE PublishCaseCreated(h)
  <2>1. Stays BY <1>7 DEF PublishCaseCreated
  <2>2. incidents' = incidents /\ metadata' = metadata BY <2>1 DEF crmVars
  <2>3. pc[h] = "publish" /\ Goto(h, "updateCaseId") /\ Sub(h) \in announced'
    BY <1>7 DEF PublishCaseCreated
  <2> QED BY <1>g, <1>k, <1>r, <2>1, <2>2, <2>3 DEF HasIncident, HasMetadata, Working, Creating, Adding
<1>8. CASE RecordCaseId(h)
  <2>1. pc[h] = "updateCaseId" BY <1>8 DEF RecordCaseId
  <2>2. HasIncident(Sub(h)) /\ HasMetadata(Sub(h), Fil(h)) /\ Sub(h) \in announced /\ pc[h] \in Working
    BY <1>k, <2>1 DEF Creating
  <2>3. RecordsInv' /\ Grows
    BY <1>0, <1>s, <1>r, <1>8, <2>2, UpdateKeepsRecords DEF RecordCaseId
  <2>4. incidents' = incidents /\ metadata' = metadata BY <1>8 DEF RecordCaseId, crmVars
  <2>5. CASE Goto(h, "discard") BY <1>l, <2>3, <2>5
  <2>6. CASE UpdateCaseId(Sub(h)) /\ Goto(h, "mark")
    <3>1. caseId'[Sub(h)] BY <1>s, <2>6 DEF UpdateCaseId, TypeOK, StoreTypeOK
    <3> QED BY <1>g, <2>2, <2>3, <2>4, <2>6, <3>1 DEF HasIncident, HasMetadata, Working, Creating, Adding
  <2> QED BY <1>8, <2>5, <2>6 DEF RecordCaseId
<1>9. CASE MetadataApplied(h)
  <2>1. pc[h] \in {"metadata", "fallback"} BY <1>9 DEF MetadataApplied, WritesMetadata
  <2>2. HasIncident(Sub(h)) /\ (creator[Sub(h)] = Fil(h) \/ caseId[Sub(h)])
    BY <1>k, <2>1 DEF Creating, Adding
  <2>3. RecordsInv' /\ Grows
    BY <1>0, <1>s, <1>9, <2>2, MetadataKeepsRecords DEF MetadataApplied
  <2> QED BY <1>0, <1>9, <2>3, OthersKeepHandler DEF MetadataApplied, handlerVars
<1>10. CASE MetadataAnswered(h)
  <2>1. Stays BY <1>10 DEF MetadataAnswered
  <2>2. /\ incidents' = incidents /\ metadata' = metadata /\ caseId' = caseId
    BY <2>1 DEF crmVars, storeVars
  <2>3. pc[h] \in {"metadata", "fallback"} /\ metadata[Sub(h)][Fil(h)] > 0
        /\ Goto(h, IF pc[h] = "fallback" THEN "publish" ELSE "mark")
    BY <1>10 DEF HasMetadata, MetadataAnswered, WritesMetadata, AfterMetadata
  <2>4. CASE pc[h] = "fallback"
    BY <1>g, <1>k, <1>r, <2>1, <2>2, <2>3, <2>4 DEF HasIncident, Working, Creating, Adding
  <2>5. CASE pc[h] = "metadata"
    BY <1>g, <1>k, <1>r, <2>1, <2>2, <2>3, <2>5 DEF HasIncident, Working, Creating, Adding
  <2> QED BY <2>3, <2>4, <2>5
<1>11. CASE MarkProcessed(h)
  <2>1. HasIncident(Sub(h)) /\ HasMetadata(Sub(h), Fil(h)) /\ caseId[Sub(h)]
    BY <1>0, <1>11, <1>k DEF MarkProcessed, HandlerInv, WorkDone
  <2>2. RecordsInv' /\ Grows
    BY <1>0, <1>s, <1>r, <1>11, <2>1, MarkKeepsRecords DEF MarkProcessed
  <2> QED BY <1>l, <1>11, <2>2 DEF MarkProcessed
<1>12. CASE SendToDlq(h) \/ Acknowledge(h)
  <2>1. Stays BY <1>12 DEF SendToDlq, Acknowledge
  <2>2. Leave(h) \/ Goto(h, "ack") BY <1>12 DEF SendToDlq, Acknowledge
  <2> QED BY <1>l, <1>r, <2>1, <2>2
<1> QED BY <1>1, <1>2, <1>3, <1>4, <1>5, <1>6, <1>7, <1>8, <1>9, <1>10, <1>11, <1>12 DEF Advance, Fail

-----------------------------------------------------------------------------
(* The invariant of the records. *)

\* CaseInv holds before the first message is received.
LEMMA CaseInvInit == Init => CaseInv
<1> SUFFICES ASSUME Init PROVE CaseInv OBVIOUS
<1> USE DEF Init, StoreInit, CrmInit
<1>1. ASSUME NEW h \in Handler PROVE HandlerInv(h)
  BY DEF HandlerInv, HoldsMessage, JobOfStep, RightToWork, WorkDone, Working, Creating, Adding
<1>2. LateRequestsAllowed BY DEF LateRequestsAllowed
<1>3. RecordsInv
  BY DEF RecordsInv, RecordedCaseExists, ProcessedFileIsInCrm, NoDuplicateRecords,
     MetadataFollowsCase, CaseHasCreatorsFile, RecordedCaseIsAnnounced, HasIncident, HasMetadata
<1> QED BY <1>1, <1>2, <1>3 DEF CaseInv

\* Every step preserves CaseInv, and nothing goes back.
LEMMA CaseInvNext == TypeOK /\ CaseInv /\ [Next]_vars => CaseInv' /\ Grows
<1> SUFFICES ASSUME TypeOK, CaseInv, [Next]_vars PROVE CaseInv' /\ Grows
  OBVIOUS
<1>0. RecordsInv /\ LateRequestsAllowed /\ \A h \in Handler : HandlerInv(h) BY DEF CaseInv
<1>t. HandlerTypeOK /\ pc \in [Handler -> Step] BY DEF TypeOK, HandlerTypeOK
<1>1. ASSUME NEW h \in Handler, NEW m \in Message, Receive(h, m) PROVE CaseInv' /\ Grows
  <2>1. RecordsInv' /\ Grows BY <1>0, <1>1, OtherStepsKeepRecords DEF Receive
  <2>2. LateRequestsAllowed' BY <1>0, <1>1, <2>1, LateRequestsKept DEF Receive
  <2>3. HandlerInv(h)'
    BY <1>1, <1>t, HandlerAssumption DEF Receive, HandlerTypeOK, HandlerInv, HoldsMessage,
       JobOfStep, RightToWork, WorkDone, Working, Creating, Adding
  <2>4. ASSUME NEW g \in Handler, g # h PROVE HandlerInv(g)'
    BY <1>0, <1>1, <1>t, <2>1, <2>4, OthersKeepHandler DEF Receive, HandlerTypeOK
  <2> QED BY <2>1, <2>2, <2>3, <2>4 DEF CaseInv
<1>2. ASSUME \/ \E m \in Message : QueueStep(m) \/ Replay(m)
             \/ UNCHANGED vars
      PROVE  CaseInv' /\ Grows
  <2>1. UNCHANGED <<storeVars, crmVars, inFlight, announced, handlerVars>>
    BY <1>2 DEF QueueStep, VisibilityExpires, Redrive, Replay, vars
  <2>2. RecordsInv' /\ Grows BY <1>0, <2>1, OtherStepsKeepRecords
  <2>3. LateRequestsAllowed' BY <1>0, <2>1, <2>2, LateRequestsKept
  <2>4. ASSUME NEW g \in Handler PROVE HandlerInv(g)'
    BY <1>0, <2>1, <2>2, OthersKeepHandler DEF handlerVars
  <2> QED BY <2>2, <2>3, <2>4 DEF CaseInv
<1>3. ASSUME NEW kind \in {"case", "metadata"}, NEW m \in Message, LateRequest(kind, m)
      PROVE  CaseInv' /\ Grows
  <2>1. SubmissionOf[m] \in Submission /\ FileOf[m] \in File BY EventAssumption
  <2>2. RecordsInv' /\ Grows
    <3>1. CASE kind = "case"
      BY <1>0, <1>3, <2>1, <3>1, ChangesetKeepsRecords DEF LateRequest, LateRequestsAllowed
    <3>2. CASE kind = "metadata"
      BY <1>0, <1>3, <2>1, <3>2, MetadataKeepsRecords DEF LateRequest, LateRequestsAllowed
    <3> QED BY <3>1, <3>2
  <2>3. LateRequestsAllowed' BY <1>0, <1>3, <2>2, LateRequestsKept DEF LateRequest
  <2>4. ASSUME NEW g \in Handler PROVE HandlerInv(g)'
    BY <1>0, <1>3, <2>2, OthersKeepHandler DEF LateRequest, handlerVars
  <2> QED BY <2>2, <2>3, <2>4 DEF CaseInv
<1>4. ASSUME NEW h \in Handler, Advance(h) \/ Fail(h) PROVE CaseInv' /\ Grows
  <2>1. RecordsInv' /\ Grows /\ HandlerInv(h)' BY <1>4, HandlerStepKeeps
  <2>2. held[h] \in Message /\ Move(h) /\ OtherEffect(h) BY <1>4, <1>t, StepEffects
  <2>3. LateRequestsAllowed'
    BY <1>0, <2>1, <2>2, AbandonedIsAllowed DEF OtherEffect, RecordsInv
  <2>4. ASSUME NEW g \in Handler, g # h PROVE HandlerInv(g)'
    <3>1. pc'[g] = pc[g] /\ held'[g] = held[g] /\ job'[g] = job[g]
      BY <1>t, <2>2, <2>4 DEF Move, handlerVars, Leave, Goto, HandlerTypeOK
    <3> QED BY <1>0, <2>1, <3>1, OthersKeepHandler
  <2> QED BY <2>1, <2>3, <2>4 DEF CaseInv
<1> QED BY <1>1, <1>2, <1>3, <1>4 DEF Next

\* What each await relies on holds whatever other handlers, crashes, lost answers
\* and late requests do in between: CaseInv, the inductive invariant, is always true.
THEOREM CaseInvariantHolds == Spec => []CaseInv
<1>1. Init => CaseInv BY CaseInvInit
<1>2. TypeOK /\ CaseInv /\ [Next]_vars => CaseInv' BY CaseInvNext
<1> QED BY <1>1, <1>2, TypeCorrect, PTL DEF Spec

\* Nothing goes back: the file that upsertCase named as the creator stays it, a caseId
\* is never taken away, and records and announcements remain, whichever handlers,
\* redeliveries, replays and late requests follow.
THEOREM NothingGoesBack == Spec => [][Grows]_vars
<1>1. TypeOK /\ CaseInv /\ [Next]_vars => [Grows]_vars BY CaseInvNext
<1> QED BY <1>1, TypeCorrect, CaseInvariantHolds, PTL DEF Spec

\* A submission's document carries a caseId only for a case that is in the CRM.
THEOREM RecordedCaseAlwaysExists == Spec => []RecordedCaseExists
<1>1. CaseInv => RecordedCaseExists BY DEF CaseInv, RecordsInv
<1> QED BY <1>1, CaseInvariantHolds, PTL

\* A file marked processed has its metadata record and its case in the CRM.
THEOREM ProcessedFileAlwaysInCrm == Spec => []ProcessedFileIsInCrm
<1>1. CaseInv => ProcessedFileIsInCrm BY DEF CaseInv, RecordsInv
<1> QED BY <1>1, CaseInvariantHolds, PTL

\* No submission gets a second case and no file a second metadata record.
THEOREM NeverDuplicateRecords == Spec => []NoDuplicateRecords
<1>1. CaseInv => NoDuplicateRecords BY DEF CaseInv, RecordsInv
<1> QED BY <1>1, CaseInvariantHolds, PTL

\* Metadata has its case; before the case is recorded only the creator has any.
THEOREM MetadataAlwaysFollowsCase == Spec => []MetadataFollowsCase
<1>1. CaseInv => MetadataFollowsCase BY DEF CaseInv, RecordsInv
<1> QED BY <1>1, CaseInvariantHolds, PTL

\* Every case has the metadata of the file that its document names as creator.
THEOREM CaseAlwaysHasCreatorsFile == Spec => []CaseHasCreatorsFile
<1>1. CaseInv => CaseHasCreatorsFile BY DEF CaseInv, RecordsInv
<1> QED BY <1>1, CaseInvariantHolds, PTL

\* A recorded case had its event published, dead-lettered or logged as lost.
THEOREM RecordedCaseAlwaysAnnounced == Spec => []RecordedCaseIsAnnounced
<1>1. CaseInv => RecordedCaseIsAnnounced BY DEF CaseInv, RecordsInv
<1> QED BY <1>1, CaseInvariantHolds, PTL

-----------------------------------------------------------------------------
(* No message is lost without a trace. *)

\* Every message starts on the queue and no handler holds one.
LEMMA LossInvInit == Init => LossInv
BY DEF Init, QueueInit, LossInv, AcknowledgedIsSettled, NoSilentLoss

\* A step of a handler leaves what is settled settled, and takes a message from
\* the queue only to delete a settled one.
LEMMA HandlerStepSettles ==
  ASSUME TypeOK, LossInv, NEW h \in Handler, Advance(h) \/ Fail(h)
  PROVE  /\ \A m \in Message : Settled(m) => Settled(m)'
         /\ \A m \in Message : queue[m] # "absent" => queue'[m] # "absent" \/ Settled(m)'
         /\ pc'[h] = "ack" => Settled(held[h])' /\ held'[h] = held[h]
<1>0. HandlerTypeOK BY DEF TypeOK, HandlerTypeOK
<1>1. /\ held[h] \in Message
      /\ QueueEffect(h) /\ StoreEffect(h) /\ OtherEffect(h) /\ Move(h)
  BY <1>0, StepEffects
<1>2. Sub(h) \in Submission /\ Fil(h) \in File BY <1>1, HeldTyped
<1>3. \A m \in Message : Settled(m) => Settled(m)'
  <2>1. deadLetter \subseteq deadLetter' BY <1>1 DEF QueueEffect, SendDeadLetter, Delete, sqsVars
  <2>2. dropped \subseteq dropped' BY <1>1 DEF OtherEffect
  <2>3. \A c \in Submission : processed[c] \subseteq processed'[c]
    BY <1>1, <1>2 DEF StoreEffect, storeVars, UpsertCase, UpdateCaseId, MarkFileProcessed,
       TypeOK, StoreTypeOK
  <2> QED BY <2>1, <2>2, <2>3, EventAssumption DEF Settled
<1>4. UNCHANGED queue \/ (pc[h] = "ack" /\ Delete(held[h]))
  BY <1>0 DEF Advance, Fail, At, Upsert, UpsertFails, Lookup, GetToken, EnsureContactAndAccount,
     FindActivity, ResolveDocumentType, ChangesetApplied, CaseCreated, CaseSuppressed, CaseFails,
     PublishCaseCreated, RecordCaseId, MetadataApplied, MetadataAnswered, MetadataFails,
     MarkProcessed, SendToDlq, SendDeadLetter, Acknowledge, Crash, sqsVars
<1>5. \A m \in Message : queue[m] # "absent" => queue'[m] # "absent" \/ Settled(m)'
  BY <1>1, <1>3, <1>4 DEF Delete, TypeOK, QueueTypeOK, LossInv, AcknowledgedIsSettled
<1>6. ASSUME pc'[h] = "ack" PROVE Settled(held[h])' /\ held'[h] = held[h]
  <2>1. CASE Upsert(h)
    <3>1. Prepare(Sub(h), Fil(h)) = "skip"
      BY <1>0, <1>6, <2>1 DEF Upsert, Goto, Retryable, Leave, HandlerTypeOK
    <3>2. Fil(h) \in processed[Sub(h)] BY <3>1 DEF Prepare, IsDuplicateFile
    <3> QED BY <2>1, <3>1, <3>2, <1>1, <1>3 DEF Upsert, Goto, Settled, Sub, Fil
  <2>2. CASE SendToDlq(h)
    BY <1>1, <2>2 DEF SendToDlq, SendDeadLetter, Goto, Settled
  <2>3. CASE MarkProcessed(h)
    <3>1. MarkFileProcessed(Sub(h), Fil(h)) /\ Goto(h, "ack")
      BY <1>0, <1>6, <2>3 DEF MarkProcessed, NonRetryable, Goto, HandlerTypeOK
    <3>2. Fil(h) \in processed'[Sub(h)]
      BY <1>2, <3>1 DEF MarkFileProcessed, TypeOK, StoreTypeOK
    <3> QED BY <3>1, <3>2 DEF Goto, Settled, Sub, Fil
  <2>4. Upsert(h) \/ SendToDlq(h) \/ MarkProcessed(h)
    BY <1>0, <1>4, <1>6 DEF Advance, Fail, HandlerTypeOK, At, Goto, Leave, Retryable, NonRetryable,
       UpsertFails, Lookup, GetToken, EnsureContactAndAccount, FindActivity, ResolveDocumentType,
       ChangesetApplied, CaseCreated, CaseSuppressed, CaseFails, PublishCaseCreated, RecordCaseId,
       WritesMetadata, AfterMetadata, MetadataApplied, MetadataAnswered, MetadataFails,
       Acknowledge, Crash, handlerVars
  <2> QED BY <2>1, <2>2, <2>3, <2>4
<1> QED BY <1>3, <1>5, <1>6

\* A step keeps LossInv if what it takes from the queue is settled, and what is
\* settled and about to be deleted stays settled.
LEMMA LossInvKept ==
  ASSUME TypeOK, LossInv, \A h \in Handler : HoldsMessage(h),
         \A m \in Message : queue[m] # "absent" \/ Settled(m) => queue'[m] # "absent" \/ Settled(m)',
         \A h \in Handler : pc'[h] = "ack" =>
           /\ held'[h] = held[h]
           /\ \/ Settled(held[h])'
              \/ pc[h] = "ack" /\ (held[h] \in Message /\ Settled(held[h]) => Settled(held[h])')
  PROVE  LossInv'
<1>1. NoSilentLoss' BY DEF LossInv, NoSilentLoss, Settled
<1>2. ASSUME NEW h \in Handler, pc'[h] = "ack" PROVE Settled(held[h])' /\ held'[h] = held[h]
  <2>1. pc[h] = "ack" => held[h] \in Message BY DEF HoldsMessage, TypeOK
  <2> QED BY <1>2, <2>1 DEF LossInv, AcknowledgedIsSettled
<1>3. AcknowledgedIsSettled' BY <1>2 DEF AcknowledgedIsSettled, Settled
<1> QED BY <1>1, <1>3 DEF LossInv

\* Every step preserves LossInv.
LEMMA LossInvNext == TypeOK /\ CaseInv /\ LossInv /\ [Next]_vars => LossInv'
<1> SUFFICES ASSUME TypeOK, CaseInv, LossInv, [Next]_vars PROVE LossInv'
  OBVIOUS
<1>0. HandlerTypeOK /\ QueueTypeOK BY DEF TypeOK, HandlerTypeOK
<1>h. \A h \in Handler : HoldsMessage(h) BY DEF CaseInv, HandlerInv
<1>1. ASSUME NEW h \in Handler, NEW m \in Message, Receive(h, m) PROVE LossInv'
  <2>1. \A n \in Message : queue[n] # "absent" => queue'[n] # "absent"
    BY <1>0, <1>1 DEF Receive, Deliver, QueueTypeOK
  <2>2. \A n \in Message : Settled(n) => Settled(n)'
    BY <1>1 DEF Receive, Deliver, storeVars, Settled
  <2>3. \A g \in Handler : pc'[g] = "ack" => pc[g] = "ack" /\ held'[g] = held[g]
    BY <1>0, <1>1 DEF Receive, HandlerTypeOK
  <2> QED BY <1>h, <2>1, <2>2, <2>3, LossInvKept
<1>2. ASSUME NEW m \in Message, VisibilityExpires(m) \/ Redrive(m) PROVE LossInv'
  <2>1. \A n \in Message : Settled(n) => Settled(n)'
    BY <1>2 DEF VisibilityExpires, BecomeVisible, Redrive, MoveToDeadLetter, storeVars, Settled
  <2>2. \A n \in Message : queue[n] # "absent" => queue'[n] # "absent" \/ Settled(n)'
    BY <1>0, <1>2 DEF VisibilityExpires, BecomeVisible, Redrive, MoveToDeadLetter, QueueTypeOK, Settled
  <2>3. pc' = pc /\ held' = held BY <1>2 DEF VisibilityExpires, Redrive, handlerVars
  <2> QED BY <1>h, <2>1, <2>2, <2>3, LossInvKept
<1>3. ASSUME NEW m \in Message, Replay(m) PROVE LossInv'
  <2>1. \A n \in Message : n # m /\ Settled(n) => Settled(n)'
    BY <1>3 DEF Replay, Resend, storeVars, Settled
  <2>2. queue'[m] # "absent" /\ \A n \in Message : n # m => queue'[n] = queue[n]
    BY <1>0, <1>3 DEF Replay, Resend, QueueTypeOK
  <2>3. pc' = pc /\ held' = held /\ \A g \in Handler : held[g] # m
    BY <1>3 DEF Replay, Handled, handlerVars
  <2> QED BY <1>h, <2>1, <2>2, <2>3, LossInvKept
<1>4. ASSUME \/ \E kind \in {"case", "metadata"}, m \in Message : LateRequest(kind, m)
             \/ UNCHANGED vars
      PROVE  LossInv'
  <2>1. UNCHANGED <<sqsVars, storeVars, dropped, handlerVars>> BY <1>4 DEF LateRequest, vars
  <2>2. \A n \in Message : Settled(n) => Settled(n)' BY <2>1 DEF sqsVars, storeVars, Settled
  <2>3. queue' = queue /\ pc' = pc /\ held' = held BY <2>1 DEF sqsVars, handlerVars
  <2> QED BY <1>h, <2>2, <2>3, LossInvKept
<1>5. ASSUME NEW h \in Handler, Advance(h) \/ Fail(h) PROVE LossInv'
  <2>1. /\ \A m \in Message : Settled(m) => Settled(m)'
        /\ \A m \in Message : queue[m] # "absent" => queue'[m] # "absent" \/ Settled(m)'
        /\ pc'[h] = "ack" => Settled(held[h])' /\ held'[h] = held[h]
    BY <1>5, HandlerStepSettles
  <2>2. ASSUME NEW g \in Handler, g # h PROVE pc'[g] = pc[g] /\ held'[g] = held[g]
    BY <1>0, <1>5, <2>2, StepEffects DEF Move, handlerVars, Leave, Goto, HandlerTypeOK
  <2> QED BY <1>h, <2>1, <2>2, LossInvKept
<1> QED BY <1>1, <1>2, <1>3, <1>4, <1>5 DEF Next, QueueStep

\* Every event is queued, dead-lettered, processed, or was logged as lost.
THEOREM NeverSilentLoss == Spec => []NoSilentLoss
<1>1. Init => LossInv BY LossInvInit
<1>2. TypeOK /\ CaseInv /\ LossInv /\ [Next]_vars => LossInv' BY LossInvNext
<1>3. LossInv => NoSilentLoss BY DEF LossInv
<1> QED BY <1>1, <1>2, <1>3, TypeCorrect, CaseInvariantHolds, PTL DEF Spec

-----------------------------------------------------------------------------
(* CaseProcessing implements SubmissionContract. *)

\* The empty document store and CRM are an initial state of the contract.
LEMMA ContractInitially == Init => Contract!ContractInit
BY DEF Init, StoreInit, CrmInit, Contract!ContractInit, HasIncident

\* Steps that leave the contract's view alone.
LEMMA ContractStutters ==
  ASSUME UNCHANGED <<crmVars, caseId, processed>>
  PROVE  UNCHANGED Contract!cvars
BY DEF Contract!cvars, crmVars, HasIncident

\* An applied changeset, in time or late, is OpenCase.
LEMMA ChangesetOpensCase ==
  ASSUME TypeOK, NEW c \in Submission, NEW f \in File,
         ApplyChangeset(c, f), UNCHANGED storeVars
  PROVE  Contract!ContractNext
<1>1. incidents[c] = 0 /\ metadata[c][f] = 0
  BY DEF ApplyChangeset, ChangesetConflicts, HasIncident, HasMetadata, TypeOK, CrmTypeOK
<1>2. \A d \in Submission : HasIncident(d)' <=> HasIncident(d) \/ d = c
  BY <1>1 DEF ApplyChangeset, HasIncident, TypeOK, CrmTypeOK
<1>3. \A p \in Submission \X File :
        metadata'[p[1]][p[2]] > 0 <=> metadata[p[1]][p[2]] > 0 \/ p = <<c, f>>
  BY <1>1 DEF ApplyChangeset, TypeOK, CrmTypeOK
<1>4. ~HasIncident(c) BY DEF ApplyChangeset, ChangesetConflicts
<1>5. Contract!OpenCase(c, f)
  BY <1>2, <1>3, <1>4 DEF Contract!OpenCase, storeVars
<1> QED BY <1>5 DEF Contract!ContractNext

\* A metadata record that is applied is AttachFile; the fallback of a suppressed
\* changeset finds its record there already or the case recorded.
LEMMA MetadataAttachesFile ==
  ASSUME TypeOK, RecordsInv, NEW c \in Submission, NEW f \in File,
         HasIncident(c), creator[c] = f \/ caseId[c],
         ApplyMetadata(c, f), UNCHANGED storeVars
  PROVE  Contract!ContractNext
<1>1. metadata[c][f] = 0 BY DEF ApplyMetadata, HasMetadata, TypeOK, CrmTypeOK
<1>2. caseId[c]  \* the creator's file came with the case
  BY <1>1 DEF RecordsInv, CaseHasCreatorsFile, HasMetadata
<1>3. \A p \in Submission \X File :
        metadata'[p[1]][p[2]] > 0 <=> metadata[p[1]][p[2]] > 0 \/ p = <<c, f>>
  BY <1>1 DEF ApplyMetadata, TypeOK, CrmTypeOK
<1>4. \A d \in Submission : HasIncident(d)' <=> HasIncident(d)
  BY DEF ApplyMetadata, HasIncident
<1>5. Contract!AttachFile(c, f)
  BY <1>1, <1>2, <1>3, <1>4 DEF Contract!AttachFile, storeVars
<1> QED BY <1>5 DEF Contract!ContractNext

\* updateCaseId is RecordCase.
LEMMA UpdateRecordsCase ==
  ASSUME TypeOK, NEW c \in Submission, HasIncident(c), UpdateCaseId(c), UNCHANGED crmVars
  PROVE  Contract!ContractNext
<1>1. \A d \in Submission : caseId'[d] <=> caseId[d] \/ d = c
  BY DEF UpdateCaseId, TypeOK, StoreTypeOK
<1>2. processed' = processed /\ \A d \in Submission : HasIncident(d)' <=> HasIncident(d)
  BY DEF UpdateCaseId, crmVars, HasIncident
<1>3. Contract!RecordCase(c)
  BY <1>1, <1>2 DEF Contract!RecordCase, crmVars
<1> QED BY <1>3 DEF Contract!ContractNext

\* markFileProcessed is FinishFile.
LEMMA MarkFinishesFile ==
  ASSUME TypeOK, NEW c \in Submission, NEW f \in File, caseId[c], HasMetadata(c, f),
         MarkFileProcessed(c, f), UNCHANGED crmVars
  PROVE  Contract!ContractNext
<1>1. \A p \in Submission \X File :
        p[2] \in processed'[p[1]] <=> p[2] \in processed[p[1]] \/ p = <<c, f>>
  BY DEF MarkFileProcessed, TypeOK, StoreTypeOK
<1>2. caseId' = caseId /\ \A d \in Submission : HasIncident(d)' <=> HasIncident(d)
  BY DEF MarkFileProcessed, crmVars, HasIncident
<1>3. Contract!FinishFile(c, f)
  BY <1>1, <1>2 DEF Contract!FinishFile, crmVars, HasMetadata
<1> QED BY <1>3 DEF Contract!ContractNext

\* Every step of CaseProcessing is a step of the contract or leaves its view alone.
LEMMA StepKeepsContract ==
  TypeOK /\ CaseInv /\ [Next]_vars => [Contract!ContractNext]_(Contract!cvars)
<1> SUFFICES ASSUME TypeOK, CaseInv, [Next]_vars
             PROVE  Contract!ContractNext \/ UNCHANGED Contract!cvars
  OBVIOUS
<1> DEFINE Kept == Contract!ContractNext \/ UNCHANGED Contract!cvars
<1>0. RecordsInv /\ HandlerTypeOK BY DEF CaseInv, TypeOK, HandlerTypeOK
<1>1. CASE UNCHANGED <<storeVars, crmVars>>
  BY <1>1, ContractStutters DEF storeVars
<1>2. ASSUME NEW kind \in {"case", "metadata"}, NEW m \in Message, LateRequest(kind, m) PROVE Kept
  <2>1. SubmissionOf[m] \in Submission /\ FileOf[m] \in File BY EventAssumption
  <2>2. CASE kind = "case" BY <1>2, <2>1, <2>2, ChangesetOpensCase DEF LateRequest
  <2>3. CASE kind = "metadata"
    BY <1>0, <1>2, <2>1, <2>3, MetadataAttachesFile DEF LateRequest, CaseInv, LateRequestsAllowed
  <2> QED BY <2>2, <2>3
<1>3. ASSUME NEW h \in Handler, Advance(h) \/ Fail(h) PROVE Kept
  <2>1. /\ HandlerInv(h) /\ held[h] \in Message
        /\ Sub(h) \in Submission /\ Fil(h) \in File
    BY <1>0, <1>3, StepEffects, HeldTyped DEF CaseInv
  <2> USE DEF At
  <2>2. CASE Upsert(h) \/ UpsertFails(h)
    BY <2>2, ContractStutters DEF Upsert, UpsertFails, UpsertCase, storeVars
  <2>3. CASE ChangesetApplied(h)
    BY <2>1, <2>3, ChangesetOpensCase DEF ChangesetApplied
  <2>4. CASE MetadataApplied(h)
    <3>1. pc[h] \in {"metadata", "fallback"} BY <2>4 DEF MetadataApplied, WritesMetadata
    <3>2. HasIncident(Sub(h)) /\ (creator[Sub(h)] = Fil(h) \/ caseId[Sub(h)])
      BY <1>0, <2>1, <3>1 DEF HandlerInv, JobOfStep, RightToWork, WorkDone, Working, Creating,
         Adding, RecordsInv, RecordedCaseExists
    <3> QED BY <1>0, <2>1, <2>4, <3>2, MetadataAttachesFile DEF MetadataApplied
  <2>5. CASE RecordCaseId(h)
    <3>1. HasIncident(Sub(h)) BY <2>1, <2>5 DEF RecordCaseId, HandlerInv, WorkDone
    <3> QED BY <1>1, <2>1, <2>5, <3>1, UpdateRecordsCase DEF RecordCaseId
  <2>6. CASE MarkProcessed(h)
    <3>1. caseId[Sub(h)] /\ HasMetadata(Sub(h), Fil(h))
      BY <2>1, <2>6 DEF MarkProcessed, HandlerInv, WorkDone
    <3> QED BY <1>1, <2>1, <2>6, <3>1, MarkFinishesFile DEF MarkProcessed
  <2>7. \/ UNCHANGED <<storeVars, crmVars>> \/ Upsert(h) \/ UpsertFails(h)
        \/ ChangesetApplied(h) \/ MetadataApplied(h) \/ RecordCaseId(h) \/ MarkProcessed(h)
    BY <1>3 DEF Advance, Fail, Lookup, GetToken, EnsureContactAndAccount, FindActivity,
       ResolveDocumentType, CaseCreated, CaseSuppressed, CaseFails, PublishCaseCreated,
       MetadataAnswered, MetadataFails, SendToDlq, Acknowledge, Crash
  <2> QED BY <1>1, <2>2, <2>3, <2>4, <2>5, <2>6, <2>7
<1>4. \/ UNCHANGED <<storeVars, crmVars>>
      \/ \E kind \in {"case", "metadata"}, m \in Message : LateRequest(kind, m)
      \/ \E h \in Handler : Advance(h) \/ Fail(h)
  BY DEF Next, Receive, QueueStep, VisibilityExpires, Redrive, Replay, vars
<1> QED BY <1>1, <1>2, <1>3, <1>4

\* What the service holds of a submission changes only as the contract allows.
THEOREM ImplementsContract == Spec => KeepsContract
<1>1. Init => Contract!ContractInit BY ContractInitially
<1>2. TypeOK /\ CaseInv /\ [Next]_vars => [Contract!ContractNext]_(Contract!cvars)
  BY StepKeepsContract
<1> QED BY <1>1, <1>2, TypeCorrect, CaseInvariantHolds, PTL DEF Spec, KeepsContract, Contract!ContractSpec

-----------------------------------------------------------------------------
(* The files of a submission create its case once. *)

\* Without documents and records, no file has created a case or been told anything.
LEMMA OnceInitially == ASSUME NEW c \in Submission PROVE Init => Once(c)!Init
BY DEF Init, StoreInit, CrmInit, HasIncident, Once!Init

\* Steps that leave the case and its document alone.
LEMMA OnceStutters ==
  ASSUME NEW c \in Submission, HasIncident(c)' <=> HasIncident(c), creator'[c] = creator[c],
         caseId'[c] <=> caseId[c], processed'[c] = processed[c]
  PROVE  UNCHANGED Once(c)!vars
BY DEF Once!vars

\* An upsert that inserts the document names a creator before there is a case.
LEMMA UpsertNamesCreator ==
  ASSUME TypeOK, RecordsInv, NEW c \in Submission,
         NEW d \in Submission, NEW f \in File, UpsertCase(d, f), UNCHANGED crmVars
  PROVE  UNCHANGED Once(c)!vars
<1>1. CASE creator[c] \in File
  <2>1. creator'[c] = creator[c]
    BY <1>1, NoFileAssumption DEF UpsertCase, TypeOK, StoreTypeOK
  <2> QED BY <2>1, OnceStutters DEF UpsertCase, crmVars, HasIncident
<1>2. CASE creator[c] = NoFile
  <2>1. ~HasIncident(c) /\ ~HasIncident(c)'
    BY <1>2, NoFileAssumption DEF RecordsInv, CaseHasCreatorsFile, HasIncident, crmVars
  <2>2. ~caseId[c] /\ ~caseId'[c]
    BY <2>1 DEF RecordsInv, RecordedCaseExists, UpsertCase
  <2> QED BY <2>1, <2>2 DEF Once!vars, UpsertCase
<1> QED BY <1>1, <1>2 DEF TypeOK, StoreTypeOK

\* An applied changeset, in time or late, is the creator's Create.
LEMMA ChangesetCreatesOnce ==
  ASSUME TypeOK, RecordsInv, NEW c \in Submission,
         NEW d \in Submission, NEW f \in File, creator[d] = f,
         ApplyChangeset(d, f), UNCHANGED storeVars
  PROVE  [Once(c)!Next]_(Once(c)!vars)
<1>1. CASE c = d
  <2>1. ~HasIncident(c) /\ HasIncident(c)'
    BY <1>1 DEF ApplyChangeset, ChangesetConflicts, HasIncident, TypeOK, CrmTypeOK
  <2>2. ~caseId[c] /\ f \notin processed[c]
    BY <1>1, <2>1 DEF RecordsInv, RecordedCaseExists, ProcessedFileIsInCrm
  <2>3. Once(c)!Create(f)
    BY <1>1, <2>1, <2>2 DEF Once!Create, storeVars
  <2> QED BY <2>3 DEF Once!Next
<1>2. CASE c # d
  <2>1. HasIncident(c)' <=> HasIncident(c)
    BY <1>2 DEF ApplyChangeset, HasIncident, TypeOK, CrmTypeOK
  <2> QED BY <2>1, OnceStutters DEF storeVars
<1> QED BY <1>1, <1>2

\* updateCaseId answers the creator, whichever handler makes it and how often.
LEMMA UpdateAnswersCreator ==
  ASSUME TypeOK, RecordsInv, NEW c \in Submission,
         NEW d \in Submission, HasIncident(d), UpdateCaseId(d), UNCHANGED crmVars
  PROVE  [Once(c)!Next]_(Once(c)!vars)
<1>0. HasIncident(c)' <=> HasIncident(c) BY DEF crmVars, HasIncident
<1>1. CASE c = d /\ ~caseId[c]
  <2>1. PICK f \in File : creator[c] = f BY <1>1 DEF RecordsInv, CaseHasCreatorsFile
  <2>2. f \notin processed[c]
    BY <1>1 DEF RecordsInv, ProcessedFileIsInCrm
  <2>3. caseId'[c] BY <1>1 DEF UpdateCaseId, TypeOK, StoreTypeOK
  <2>4. Once(c)!Answer(f)
    BY <1>0, <1>1, <2>1, <2>2, <2>3 DEF Once!Answer, Once!Told, UpdateCaseId
  <2> QED BY <2>4 DEF Once!Next
<1>2. CASE ~(c = d /\ ~caseId[c])
  <2>1. caseId'[c] <=> caseId[c] BY <1>2 DEF UpdateCaseId, TypeOK, StoreTypeOK
  <2> QED BY <1>0, <2>1, OnceStutters DEF UpdateCaseId
<1> QED BY <1>1, <1>2

\* markFileProcessed answers the other files, once; the creator was answered before.
LEMMA MarkAnswersOthers ==
  ASSUME TypeOK, RecordsInv, NEW c \in Submission,
         NEW d \in Submission, NEW f \in File, caseId[d], MarkFileProcessed(d, f), UNCHANGED crmVars
  PROVE  [Once(c)!Next]_(Once(c)!vars)
<1>0. HasIncident(c)' <=> HasIncident(c) BY DEF crmVars, HasIncident
<1>1. CASE c = d /\ f # creator[c] /\ f \notin processed[c]
  <2>1. processed'[c] = processed[c] \cup {f} /\ caseId'[c] /\ creator'[c] = creator[c]
    BY <1>1 DEF MarkFileProcessed, TypeOK, StoreTypeOK
  <2>2. HasIncident(c) /\ creator[c] # NoFile
    BY <1>1, NoFileAssumption DEF RecordsInv, RecordedCaseExists, CaseHasCreatorsFile
  <2>3. Once(c)!Answer(f)
    BY <1>0, <1>1, <2>1, <2>2 DEF Once!Answer, Once!Told
  <2> QED BY <2>3 DEF Once!Next
<1>2. CASE c # d \/ f \in processed[c]
  <2>1. processed'[c] = processed[c] BY <1>2 DEF MarkFileProcessed, TypeOK, StoreTypeOK
  <2> QED BY <1>0, <2>1, OnceStutters DEF MarkFileProcessed
<1>3. CASE c = d /\ f = creator[c]
  <2>1. processed'[c] = processed[c] \cup {f} /\ caseId'[c] /\ creator'[c] = creator[c]
    BY <1>3 DEF MarkFileProcessed, TypeOK, StoreTypeOK
  <2> QED BY <1>0, <1>3, <2>1 DEF Once!vars
<1> QED BY <1>1, <1>2, <1>3

\* Which step a handler makes when it writes a document or a record, and the right
\* it has to do so; a step of Dataverse that applies a late request has it too.
LEMMA WritesHaveRight ==
  ASSUME TypeOK, CaseInv, NEW h \in Handler, Advance(h) \/ Fail(h)
  PROVE  /\ Sub(h) \in Submission /\ Fil(h) \in File
         /\ \/ UNCHANGED <<storeVars, crmVars>>
            \/ UpsertCase(Sub(h), Fil(h)) /\ UNCHANGED crmVars
            \/ ApplyChangeset(Sub(h), Fil(h)) /\ UNCHANGED storeVars /\ creator[Sub(h)] = Fil(h)
            \/ ApplyMetadata(Sub(h), Fil(h)) /\ UNCHANGED storeVars
            \/ UpdateCaseId(Sub(h)) /\ UNCHANGED crmVars /\ HasIncident(Sub(h))
            \/ MarkFileProcessed(Sub(h), Fil(h)) /\ UNCHANGED crmVars /\ caseId[Sub(h)]
<1>0. /\ HandlerInv(h) /\ held[h] \in Message /\ Sub(h) \in Submission /\ Fil(h) \in File
  BY StepEffects, HeldTyped DEF CaseInv, TypeOK, HandlerTypeOK
<1> USE DEF At
<1>1. CASE Upsert(h) \/ UpsertFails(h) BY <1>0, <1>1 DEF Upsert, UpsertFails
<1>2. CASE ChangesetApplied(h)
  BY <1>0, <1>2 DEF ChangesetApplied, HandlerInv, JobOfStep, RightToWork, Working, Creating
<1>3. CASE MetadataApplied(h) BY <1>0, <1>3 DEF MetadataApplied
<1>4. CASE RecordCaseId(h) BY <1>0, <1>4 DEF RecordCaseId, HandlerInv, WorkDone
<1>5. CASE MarkProcessed(h) BY <1>0, <1>5 DEF MarkProcessed, HandlerInv, WorkDone
<1>6. \/ UNCHANGED <<storeVars, crmVars>> \/ Upsert(h) \/ UpsertFails(h)
      \/ ChangesetApplied(h) \/ MetadataApplied(h) \/ RecordCaseId(h) \/ MarkProcessed(h)
  BY DEF Advance, Fail, Lookup, GetToken, EnsureContactAndAccount, FindActivity,
     ResolveDocumentType, CaseCreated, CaseSuppressed, CaseFails, PublishCaseCreated,
     MetadataAnswered, MetadataFails, SendToDlq, Acknowledge, Crash
<1> QED BY <1>0, <1>1, <1>2, <1>3, <1>4, <1>5, <1>6

\* Every step is a Create or an Answer for the files of c, or leaves them alone.
LEMMA StepCreatesOnce ==
  ASSUME NEW c \in Submission, TypeOK, CaseInv, [Next]_vars
  PROVE  [Once(c)!Next]_(Once(c)!vars)
<1> DEFINE Kept == [Once(c)!Next]_(Once(c)!vars)
<1>0. RecordsInv /\ LateRequestsAllowed BY DEF CaseInv
<1>1. CASE UNCHANGED <<storeVars, crmVars>>
  BY <1>1, OnceStutters DEF storeVars, crmVars, HasIncident
<1>2. ASSUME NEW d \in Submission, NEW f \in File, ApplyMetadata(d, f), UNCHANGED storeVars
      PROVE  Kept
  BY <1>2, OnceStutters DEF ApplyMetadata, storeVars, HasIncident
<1>3. ASSUME NEW kind \in {"case", "metadata"}, NEW m \in Message, LateRequest(kind, m) PROVE Kept
  <2>1. SubmissionOf[m] \in Submission /\ FileOf[m] \in File BY EventAssumption
  <2>2. CASE kind = "case"
    BY <1>0, <1>3, <2>1, <2>2, ChangesetCreatesOnce DEF LateRequest, LateRequestsAllowed
  <2>3. CASE kind = "metadata" BY <1>2, <1>3, <2>1, <2>3 DEF LateRequest
  <2> QED BY <2>2, <2>3
<1>4. ASSUME NEW h \in Handler, Advance(h) \/ Fail(h) PROVE Kept
  BY <1>0, <1>1, <1>2, <1>4, WritesHaveRight, UpsertNamesCreator, ChangesetCreatesOnce,
     UpdateAnswersCreator, MarkAnswersOthers
<1>5. \/ UNCHANGED <<storeVars, crmVars>>
      \/ \E kind \in {"case", "metadata"}, m \in Message : LateRequest(kind, m)
      \/ \E h \in Handler : Advance(h) \/ Fail(h)
  BY DEF Next, Receive, QueueStep, VisibilityExpires, Redrive, Replay, vars
<1> QED BY <1>1, <1>3, <1>4, <1>5

\* The files of each submission create its case as the callers of one conditional
\* upsert create their record: one of them, for good, and it alone is told so.
THEOREM CaseCreatedOnce == ASSUME NEW c \in Submission PROVE Spec => Once(c)!Spec
<1>1. Init => Once(c)!Init BY OnceInitially
<1>2. TypeOK /\ CaseInv /\ [Next]_vars => [Once(c)!Next]_(Once(c)!vars) BY StepCreatesOnce
<1> QED BY <1>1, <1>2, TypeCorrect, CaseInvariantHolds, PTL DEF Spec, Once!Spec

\* The same of all submissions at once, as the runs check it.
THEOREM CasesCreatedOnce == Spec => CaseIsCreatedOnce
<1>1. TypeOK /\ CaseInv /\ [Next]_vars
      => [\A c \in Submission : [Once(c)!Next]_(Once(c)!vars)]_vars
  BY StepCreatesOnce
<1> QED BY <1>1, TypeCorrect, CaseInvariantHolds, PTL DEF Spec, CaseIsCreatedOnce

-----------------------------------------------------------------------------
(* A delivery that meets no failure does its work. *)

\* processedFileIds only grows.
LEMMA ProcessedGrows ==
  ASSUME TypeOK, [Next]_vars, NEW c \in Submission
  PROVE  processed[c] \subseteq processed'[c]
<1>1. CASE UNCHANGED storeVars BY <1>1 DEF storeVars
<1>2. ASSUME NEW h \in Handler, Advance(h) \/ Fail(h) PROVE processed[c] \subseteq processed'[c]
  <2>1. StoreEffect(h) BY <1>2, StepEffects DEF TypeOK, HandlerTypeOK
  <2> QED BY <2>1 DEF StoreEffect, storeVars, UpsertCase, UpdateCaseId, MarkFileProcessed,
                      TypeOK, StoreTypeOK
<1>3. UNCHANGED storeVars \/ \E h \in Handler : Advance(h) \/ Fail(h)
  BY DEF Next, Receive, QueueStep, VisibilityExpires, Redrive, Replay, LateRequest, vars
<1> QED BY <1>1, <1>2, <1>3

\* The steps of a handler that no failure may meet, and where each one leads.
LEMMA HealthyStep ==
  ASSUME TypeOK, CaseInv, HealthyInv, NEW h \in Handler, Advance(h) \/ Fail(h),
         Healthy(held[h])
  PROVE  \/ \E step \in Step \ {"discard", "ack"} :
              Goto(h, step) \/ (pc' = [pc EXCEPT ![h] = step] /\ UNCHANGED held)
         \/ Goto(h, "ack") /\ Fil(h) \in processed'[Sub(h)]
         \/ /\ Leave(h)
            /\ \/ Fil(h) \in processed[Sub(h)]
               \/ creator[Sub(h)] \notin {NoFile, Fil(h)} /\ ~caseId[Sub(h)]
         \/ UNCHANGED handlerVars
<1> DEFINE Expected ==
      \/ \E step \in Step \ {"discard", "ack"} :
           Goto(h, step) \/ (pc' = [pc EXCEPT ![h] = step] /\ UNCHANGED held)
      \/ Goto(h, "ack") /\ Fil(h) \in processed'[Sub(h)]
      \/ /\ Leave(h)
         /\ \/ Fil(h) \in processed[Sub(h)]
            \/ creator[Sub(h)] \notin {NoFile, Fil(h)} /\ ~caseId[Sub(h)]
      \/ UNCHANGED handlerVars
<1>0. /\ ~FaultMay(h) /\ pc[h] # "discard"
      /\ held[h] \in Message /\ Sub(h) \in Submission /\ Fil(h) \in File
      /\ HandlerInv(h) /\ RecordsInv
  BY HeldTyped DEF Healthy, FaultMay, HealthyInv, CaseInv
<1>1. CASE Upsert(h)
  <2>1. ASSUME Prepare(Sub(h), Fil(h)) = "skip", Goto(h, "ack") PROVE Expected
    BY <1>1, <2>1 DEF Upsert, UpsertCase, Prepare, IsDuplicateFile
  <2>2. ASSUME Prepare(Sub(h), Fil(h)) = "wait", Retryable(h) PROVE Expected
    BY <2>2 DEF Prepare, IsNew, IsCreator, Retryable
  <2> QED BY <1>1, <2>1, <2>2 DEF Upsert, Step
<1>2. CASE GetToken(h) \/ EnsureContactAndAccount(h) \/ ResolveDocumentType(h)
  BY <1>0, <1>2 DEF GetToken, EnsureContactAndAccount, ResolveDocumentType, Lookup, Step
<1>3. CASE FindActivity(h)
  <2>1. HasIncident(Sub(h))
    BY <1>0, <1>3 DEF FindActivity, Lookup, At, HandlerInv, JobOfStep, RightToWork, Working,
       Adding, RecordsInv, RecordedCaseExists
  <2> QED BY <1>0, <1>3, <2>1 DEF FindActivity, Lookup, Step
<1>4. CASE ChangesetApplied(h) \/ CaseCreated(h) \/ CaseSuppressed(h) \/ PublishCaseCreated(h)
  BY <1>4 DEF ChangesetApplied, CaseCreated, CaseSuppressed, PublishCaseCreated, Step
<1>5. CASE RecordCaseId(h) BY <1>0, <1>5 DEF RecordCaseId, Step
<1>6. CASE MetadataApplied(h) BY <1>6 DEF MetadataApplied
<1>7. CASE MetadataAnswered(h) BY <1>7 DEF MetadataAnswered, AfterMetadata, Step
<1>8. CASE MarkProcessed(h)
  BY <1>0, <1>8 DEF MarkProcessed, MarkFileProcessed, TypeOK, StoreTypeOK
<1>9. CASE Acknowledge(h) BY <1>0, <1>9 DEF Acknowledge, At, HealthyInv
<1>10. ~SendToDlq(h) /\ ~Fail(h)
  BY <1>0 DEF SendToDlq, At, Fail, UpsertFails, CaseFails, MetadataFails, Crash
<1> QED BY <1>1, <1>2, <1>3, <1>4, <1>5, <1>6, <1>7, <1>8, <1>9, <1>10 DEF Advance

\* No handler holds a message yet.
LEMMA HealthyInvInit == Init => HealthyInv
BY DEF Init, HealthyInv

\* Nothing of a healthy message is discarded, and what is acknowledged is done.
LEMMA HealthyInvNext == TypeOK /\ CaseInv /\ HealthyInv /\ [Next]_vars => HealthyInv'
<1> SUFFICES ASSUME TypeOK, CaseInv, HealthyInv, [Next]_vars,
                    NEW g \in Handler, Healthy(held[g])'
             PROVE  (pc[g] # "discard" /\ (pc[g] = "ack" => Fil(g) \in processed[Sub(g)]))'
  BY DEF HealthyInv
<1>1. CASE pc'[g] = pc[g] /\ held'[g] = held[g]
  <2>1. Healthy(held[g]) /\ Sub(g) \in Submission /\ Sub(g)' = Sub(g) /\ Fil(g)' = Fil(g)
    BY <1>1, EventAssumption DEF Healthy, Sub, Fil
  <2> QED BY <1>1, <2>1, ProcessedGrows DEF HealthyInv
<1>2. ASSUME NEW m \in Message, Receive(g, m)
      PROVE  pc'[g] # "discard" /\ pc'[g] # "ack"
  BY <1>2 DEF Receive, Healthy, TypeOK
<1>3. CASE Advance(g) \/ Fail(g)
  <2>1. held[g] \in Message /\ Move(g) BY <1>3, StepEffects DEF TypeOK, HandlerTypeOK
  <2>2. held'[g] = held[g]
    BY <2>1, HandlerAssumption DEF Move, handlerVars, Leave, Goto, Healthy, TypeOK
  <2>3. Sub(g)' = Sub(g) /\ Fil(g)' = Fil(g) /\ Healthy(held[g])
    BY <2>2 DEF Sub, Fil, Healthy
  <2>4. ~Leave(g) BY <2>1, <2>2, HandlerAssumption DEF Leave, TypeOK
  <2>5. \/ \E step \in Step \ {"discard", "ack"} : pc' = [pc EXCEPT ![g] = step]
        \/ Goto(g, "ack") /\ Fil(g) \in processed'[Sub(g)]
        \/ UNCHANGED handlerVars
    BY <1>3, <2>3, <2>4, HealthyStep DEF Goto
  <2> QED BY <1>1, <2>3, <2>5 DEF Goto, handlerVars, TypeOK
<1>4. \/ pc'[g] = pc[g] /\ held'[g] = held[g]
      \/ \E m \in Message : Receive(g, m)
      \/ Advance(g) \/ Fail(g)
  <2>1. ASSUME NEW h \in Handler, NEW m \in Message, Receive(h, m), h # g
        PROVE  pc'[g] = pc[g] /\ held'[g] = held[g]
    BY <2>1 DEF Receive, TypeOK
  <2>2. ASSUME NEW h \in Handler, Advance(h) \/ Fail(h), h # g
        PROVE  pc'[g] = pc[g] /\ held'[g] = held[g]
    <3>1. Move(h) BY <2>2, StepEffects DEF TypeOK, HandlerTypeOK
    <3> QED BY <2>2, <3>1 DEF Move, handlerVars, Leave, Goto, TypeOK
  <2> QED BY <2>1, <2>2 DEF Next, QueueStep, VisibilityExpires, Redrive, Replay, LateRequest,
                            vars, handlerVars
<1> QED BY <1>1, <1>2, <1>3, <1>4

\* While it handles a message without failures, a handler never discards it and
\* acknowledges it only when its file is processed.
THEOREM HealthyInvariantHolds == Spec => []HealthyInv
<1> QED BY HealthyInvInit, HealthyInvNext, TypeCorrect, CaseInvariantHolds, PTL DEF Spec

\* A delivery that meets no failure itself is given up only when its file is
\* processed, or when the file has to wait for the creator of its case.
THEOREM HealthyDeliveriesSucceed == Spec => HealthyDeliverySucceeds
<1> DEFINE Ends(h) ==
      Healthy(held[h]) /\ held'[h] # held[h] =>
        \/ Fil(h) \in processed[Sub(h)]
        \/ creator[Sub(h)] \notin {NoFile, Fil(h)} /\ ~caseId[Sub(h)]
<1>1. ASSUME TypeOK, CaseInv, HealthyInv, [Next]_vars, NEW h \in Handler PROVE Ends(h)
  <2>1. ASSUME NEW g \in Handler, NEW m \in Message, Receive(g, m) PROVE Ends(h)
    <3>1. CASE g = h
      BY <1>1, <2>1, <3>1, HandlerAssumption
      DEF Receive, Healthy, CaseInv, HandlerInv, HoldsMessage
    <3>2. CASE g # h BY <1>1, <2>1, <3>2 DEF Receive, TypeOK
    <3> QED BY <3>1, <3>2
  <2>2. ASSUME NEW g \in Handler, Advance(g) \/ Fail(g) PROVE Ends(h)
    <3>1. CASE g = h
      BY <1>1, <2>2, <3>1, HealthyStep DEF Goto, Leave, handlerVars, TypeOK
    <3>2. CASE g # h
      <4>1. Move(g) BY <1>1, <2>2, StepEffects DEF TypeOK, HandlerTypeOK
      <4> QED BY <1>1, <3>2, <4>1 DEF Move, handlerVars, Leave, Goto, TypeOK
    <3> QED BY <3>1, <3>2
  <2>3. CASE UNCHANGED handlerVars BY <2>3 DEF handlerVars
  <2> QED BY <1>1, <2>1, <2>2, <2>3 DEF Next, QueueStep, VisibilityExpires, Redrive, Replay,
                                       LateRequest, vars
<1>2. TypeOK /\ CaseInv /\ HealthyInv /\ [Next]_vars => [\A h \in Handler : Ends(h)]_vars
  BY <1>1
<1> QED BY <1>2, TypeCorrect, CaseInvariantHolds, HealthyInvariantHolds, PTL
        DEF Spec, HealthyDeliverySucceeds

-----------------------------------------------------------------------------
(* The work runs out. *)

\* Every await leads to one that is nearer to the end.
LEMMA AwaitsOrder ==
  /\ \A step \in Step : AwaitsFrom(step) \in Nat /\ (step # "idle" => AwaitsFrom(step) > 0)
  /\ AwaitsFrom("idle") = 0 /\ AwaitsFrom("ack") = 1 /\ AwaitsFrom("discard") = 2
  /\ AwaitsFrom("mark") = 3 /\ AwaitsFrom("updateCaseId") = 4 /\ AwaitsFrom("metadata") = 4
  /\ AwaitsFrom("publish") = 5 /\ AwaitsFrom("fallback") = 6 /\ AwaitsFrom("committed") = 8
  /\ AwaitsFrom("changeset") = 9 /\ AwaitsFrom("docType") = 10
  /\ AwaitsFrom("parties") = 11 /\ AwaitsFrom("activity") = 11
  /\ AwaitsFrom("token") = 12 /\ AwaitsFrom("upsert") = 13
BY DEF AwaitsFrom, Step

\* What is left to a handler: never less than what its await says, nor more than one more.
LEMMA AwaitsLeftBounds ==
  ASSUME TypeOK, NEW h \in Handler
  PROVE  /\ AwaitsLeft(h) \in Nat
         /\ AwaitsLeft(h) >= AwaitsFrom(pc[h])
         /\ AwaitsLeft(h) <= AwaitsFrom(pc[h]) + 1
         /\ pc[h] \notin {"fallback", "metadata"} => AwaitsLeft(h) = AwaitsFrom(pc[h])
BY AwaitsOrder DEF AwaitsLeft, TypeOK

\* A step to an await two levels down, or one level down where nothing is written.
LEMMA GotoIsProgress ==
  ASSUME TypeOK, TypeOK', NEW h \in Handler, NEW step \in Step, pc'[h] = step,
         \/ AwaitsFrom(step) + 1 < AwaitsFrom(pc[h])
         \/ step \notin {"fallback", "metadata"} /\ AwaitsFrom(step) < AwaitsFrom(pc[h])
  PROVE  AwaitsLeft(h)' < AwaitsLeft(h)
<1>1. AwaitsLeft(h) \in Nat /\ AwaitsLeft(h) >= AwaitsFrom(pc[h]) BY AwaitsLeftBounds
<1>2. /\ AwaitsLeft(h)' <= AwaitsFrom(step) + 1
      /\ step \notin {"fallback", "metadata"} => AwaitsLeft(h)' = AwaitsFrom(step)
      /\ AwaitsLeft(h)' \in Nat
  BY AwaitsOrder DEF AwaitsLeft
<1>3. AwaitsFrom(step) \in Nat /\ AwaitsFrom(pc[h]) \in Nat BY AwaitsOrder DEF TypeOK
<1> QED BY <1>1, <1>2, <1>3

\* An invocation that ends has no await left.
LEMMA LeaveIsProgress ==
  ASSUME TypeOK, TypeOK', NEW h \in Handler, pc[h] # "idle", Leave(h)
  PROVE  AwaitsLeft(h)' < AwaitsLeft(h)
<1>1. pc'[h] = "idle" BY DEF Leave, TypeOK
<1>2. AwaitsFrom("idle") < AwaitsFrom(pc[h]) BY AwaitsOrder DEF TypeOK
<1> QED BY <1>1, <1>2, GotoIsProgress DEF Step

\* The other handlers have no more awaits left than before: records only grow.
LEMMA OthersAwaitsKept ==
  ASSUME TypeOK, Grows, NEW g \in Handler, pc'[g] = pc[g], held'[g] = held[g],
         HandlerInv(g)
  PROVE  AwaitsLeft(g)' <= AwaitsLeft(g)
<1>1. AwaitsFrom(pc[g]) \in Nat BY AwaitsOrder DEF TypeOK
<1>2. CASE pc[g] \in {"fallback", "metadata"}
  <2>1. held[g] \in Message BY <1>2 DEF HandlerInv, HoldsMessage, TypeOK
  <2>2. Sub(g) \in Submission /\ Fil(g) \in File BY <2>1, HeldTyped
  <2>3. Sub(g)' = Sub(g) /\ Fil(g)' = Fil(g) BY DEF Sub, Fil
  <2>4. HasMetadata(Sub(g), Fil(g)) => HasMetadata(Sub(g), Fil(g))'
    BY <2>2, <2>3 DEF Grows, HasMetadata
  <2> QED BY <1>1, <2>4 DEF AwaitsLeft
<1>3. CASE pc[g] \notin {"fallback", "metadata"} BY <1>1, <1>3 DEF AwaitsLeft
<1> QED BY <1>2, <1>3

\* Every step of a handler, a failure or a crash included, brings it nearer to its end.
LEMMA HandlerStepIsProgress ==
  ASSUME TypeOK, TypeOK', NEW h \in Handler, Advance(h) \/ Fail(h)
  PROVE  AwaitsLeft(h)' < AwaitsLeft(h)
<1> DEFINE Nearer == AwaitsLeft(h)' < AwaitsLeft(h)
<1>0. pc[h] \in Step /\ pc \in [Handler -> Step] BY DEF TypeOK
<1>1. ASSUME Leave(h) PROVE Nearer
  <2>1. held[h] \in Message BY StepEffects DEF TypeOK, HandlerTypeOK
  <2>2. CASE pc[h] # "idle" BY <1>1, <2>2, LeaveIsProgress
  <2>3. CASE pc[h] = "idle"
    BY <2>3 DEF Advance, Fail, Upsert, GetToken, EnsureContactAndAccount, FindActivity,
       ResolveDocumentType, Lookup, ChangesetApplied, CaseCreated, CaseSuppressed,
       PublishCaseCreated, RecordCaseId, MetadataApplied, MetadataAnswered, WritesMetadata,
       MarkProcessed, SendToDlq, Acknowledge, UpsertFails, CaseFails, MetadataFails, Crash, At
  <2> QED BY <2>2, <2>3
<1>2. ASSUME NEW step \in Step, Goto(h, step),
             \/ AwaitsFrom(step) + 1 < AwaitsFrom(pc[h])
             \/ step \notin {"fallback", "metadata"} /\ AwaitsFrom(step) < AwaitsFrom(pc[h])
      PROVE  Nearer
  <2>1. pc'[h] = step BY <1>0, <1>2 DEF Goto
  <2> QED BY <1>2, <2>1, GotoIsProgress
\* A failure that is not retryable, at any await before the discarding.
<1>3. ASSUME NonRetryable(h), pc[h] \notin {"idle", "ack", "discard"} PROVE Nearer
  <2>1. AwaitsFrom("discard") < AwaitsFrom(pc[h]) BY <1>0, <1>3, AwaitsOrder DEF Step
  <2> QED BY <1>2, <1>3, <2>1 DEF NonRetryable, Step
<1> USE DEF At
<1>4. CASE Upsert(h)
  <2>1. pc[h] = "upsert" BY <1>4 DEF Upsert
  <2>2. CASE Goto(h, "ack") BY <1>2, <2>1, <2>2, AwaitsOrder DEF Step
  <2>3. CASE pc' = [pc EXCEPT ![h] = "token"]
    BY <1>0, <2>1, <2>3, AwaitsOrder, GotoIsProgress DEF Step
  <2> QED BY <1>1, <1>4, <2>2, <2>3 DEF Upsert, Retryable
<1>5. CASE GetToken(h)
  BY <1>1, <1>2, <1>3, <1>5, AwaitsOrder DEF GetToken, Lookup, Retryable, Step
<1>6. CASE EnsureContactAndAccount(h)
  BY <1>1, <1>2, <1>3, <1>6, AwaitsOrder DEF EnsureContactAndAccount, Lookup, Retryable, Step
<1>7. CASE FindActivity(h)
  BY <1>1, <1>2, <1>3, <1>7, AwaitsOrder DEF FindActivity, Lookup, Retryable, Step
<1>8. CASE ResolveDocumentType(h)
  BY <1>1, <1>2, <1>3, <1>8, AwaitsOrder DEF ResolveDocumentType, Lookup, Retryable, Step
<1>9. CASE ChangesetApplied(h) \/ CaseCreated(h)
  BY <1>2, <1>9, AwaitsOrder DEF ChangesetApplied, CaseCreated, Step
<1>10. CASE CaseSuppressed(h)
  BY <1>2, <1>10, AwaitsOrder DEF CaseSuppressed, Step
<1>11. CASE PublishCaseCreated(h) BY <1>2, <1>11, AwaitsOrder DEF PublishCaseCreated, Step
<1>12. CASE RecordCaseId(h) BY <1>2, <1>3, <1>12, AwaitsOrder DEF RecordCaseId, Step
<1>13. CASE MarkProcessed(h) BY <1>2, <1>3, <1>13, AwaitsOrder DEF MarkProcessed, Step
<1>14. CASE MetadataApplied(h)
  <2>1. held[h] \in Message /\ pc[h] \in {"fallback", "metadata"} /\ ~HasMetadata(Sub(h), Fil(h))
    BY <1>14 DEF MetadataApplied, WritesMetadata, ApplyMetadata
  <2>2. Sub(h) \in Submission /\ Fil(h) \in File BY <2>1, HeldTyped
  <2>3. pc'[h] = pc[h] /\ Sub(h)' = Sub(h) /\ Fil(h)' = Fil(h)
    BY <1>14 DEF MetadataApplied, handlerVars, Sub, Fil
  <2>4. HasMetadata(Sub(h), Fil(h))'
    BY <1>14, <2>2, <2>3 DEF MetadataApplied, ApplyMetadata, HasMetadata, TypeOK, CrmTypeOK
  <2>5. AwaitsFrom(pc[h]) \in Nat BY <1>0, AwaitsOrder
  <2> QED BY <2>1, <2>3, <2>4, <2>5 DEF AwaitsLeft
<1>15. CASE MetadataAnswered(h)
  <2>1. CASE pc[h] = "fallback" /\ Goto(h, "publish") BY <1>2, <2>1, AwaitsOrder DEF Step
  <2>2. CASE pc[h] = "metadata" /\ Goto(h, "mark") BY <1>2, <2>2, AwaitsOrder DEF Step
  <2> QED BY <1>15, <2>1, <2>2 DEF MetadataAnswered, WritesMetadata, AfterMetadata
<1>16. CASE SendToDlq(h) BY <1>2, <1>16, AwaitsOrder DEF SendToDlq, Step
<1>17. CASE Acknowledge(h) \/ Crash(h) BY <1>1, <1>17 DEF Acknowledge, Crash
<1>18. CASE UpsertFails(h) BY <1>3, <1>18 DEF UpsertFails
<1>19. CASE CaseFails(h) BY <1>1, <1>3, <1>19 DEF CaseFails, Retryable
<1>20. CASE MetadataFails(h) BY <1>1, <1>3, <1>20 DEF MetadataFails, WritesMetadata, Retryable
<1> QED BY <1>4, <1>5, <1>6, <1>7, <1>8, <1>9, <1>10, <1>11, <1>12, <1>13, <1>14, <1>15,
           <1>16, <1>17, <1>18, <1>19, <1>20 DEF Advance, Fail

\* A message is not received more often than the redrive policy allows.
LEMMA QueueInvInit == Init => QueueInv
<1> SUFFICES ASSUME Init, NEW m \in Message PROVE receives[m] <= MaxReceive
  BY DEF QueueInv
<1>1. receives[m] = 0 BY DEF Init, QueueInit
<1> QED BY <1>1, QueueAssumption

\* Each operation of the queue but the replay uses one of the message's moves up,
\* and none but the replay gives another message any.
LEMMA QueueMoves ==
  ASSUME QueueTypeOK, QueueInv, NEW m \in Message
  PROVE  /\ UNCHANGED sqsVars \/ SendDeadLetter(m) \/ Delete(m) => NoMoreMoves /\ QueueInv'
         /\ Deliver(m) \/ BecomeVisible(m) \/ MoveToDeadLetter(m)
              => NoMoreMoves /\ MovesLeft(m)' < MovesLeft(m) /\ QueueInv'
         /\ Resend(m) => QueueInv'
<1> USE QueueAssumption DEF QueueTypeOK, QueueInv, QueueState
<1>1. ASSUME UNCHANGED sqsVars \/ SendDeadLetter(m) \/ Delete(m) PROVE NoMoreMoves /\ QueueInv'
  BY <1>1 DEF sqsVars, SendDeadLetter, Delete, NoMoreMoves, MovesLeft
<1>2. ASSUME Deliver(m) PROVE NoMoreMoves /\ MovesLeft(m)' < MovesLeft(m) /\ QueueInv'
  BY <1>2 DEF Deliver, NoMoreMoves, MovesLeft
<1>3. ASSUME BecomeVisible(m) PROVE NoMoreMoves /\ MovesLeft(m)' < MovesLeft(m) /\ QueueInv'
  BY <1>3 DEF BecomeVisible, NoMoreMoves, MovesLeft
<1>4. ASSUME MoveToDeadLetter(m) PROVE NoMoreMoves /\ MovesLeft(m)' < MovesLeft(m) /\ QueueInv'
  BY <1>4 DEF MoveToDeadLetter, NoMoreMoves, MovesLeft
<1>5. ASSUME Resend(m) PROVE QueueInv' BY <1>5 DEF Resend
<1> QED BY <1>1, <1>2, <1>3, <1>4, <1>5

\* A step of the service keeps the receive counts within the policy's bound, and uses
\* something up.
LEMMA StepUsesUp ==
  ASSUME TypeOK, CaseInv, QueueInv, [Next]_vars
  PROVE  /\ QueueInv'
         /\ \/ UNCHANGED vars
            \/ replays' = replays + 1 /\ replays' <= MaxReplays
            \/ /\ \E m \in Message : MovesLeft(m)' < MovesLeft(m)
               /\ NoMoreMoves /\ UNCHANGED replays
            \/ /\ \E h \in Handler : AwaitsLeft(h)' < AwaitsLeft(h)
               /\ NoMoreAwaits /\ NoMoreMoves /\ UNCHANGED replays
            \/ /\ \E request \in inFlight : inFlight' = inFlight \ {request}
               /\ NoMoreAwaits /\ NoMoreMoves /\ UNCHANGED replays
<1> DEFINE Used ==
      \/ UNCHANGED vars
      \/ replays' = replays + 1 /\ replays' <= MaxReplays
      \/ /\ \E m \in Message : MovesLeft(m)' < MovesLeft(m)
         /\ NoMoreMoves /\ UNCHANGED replays
      \/ /\ \E h \in Handler : AwaitsLeft(h)' < AwaitsLeft(h)
         /\ NoMoreAwaits /\ NoMoreMoves /\ UNCHANGED replays
      \/ /\ \E request \in inFlight : inFlight' = inFlight \ {request}
         /\ NoMoreAwaits /\ NoMoreMoves /\ UNCHANGED replays
<1>0. QueueTypeOK /\ HandlerTypeOK /\ TypeOK' /\ Grows /\ \A g \in Handler : HandlerInv(g)
  BY TypeNext, CaseInvNext DEF TypeOK, HandlerTypeOK, CaseInv
<1>1. ASSUME NEW h \in Handler, NEW m \in Message, Receive(h, m) PROVE QueueInv' /\ Used
  BY <1>0, <1>1, QueueMoves DEF Receive, Deliver
<1>2. ASSUME NEW m \in Message, QueueStep(m) PROVE QueueInv' /\ Used
  BY <1>0, <1>2, QueueMoves
  DEF QueueStep, VisibilityExpires, Redrive, BecomeVisible, MoveToDeadLetter
<1>3. ASSUME NEW m \in Message, Replay(m) PROVE QueueInv' /\ Used
  <2>1. replays < MaxReplays /\ replays' = replays + 1 BY <1>3 DEF Replay, Resend
  <2> QED BY <1>0, <1>3, <2>1, QueueMoves, QueueAssumption DEF Replay, QueueTypeOK
<1>4. ASSUME NEW h \in Handler, Advance(h) \/ Fail(h) PROVE QueueInv' /\ Used
  <2>1. held[h] \in Message /\ QueueEffect(h) /\ Move(h) BY <1>0, <1>4, StepEffects
  <2>2. QueueInv' /\ NoMoreMoves BY <1>0, <2>1, QueueMoves DEF QueueEffect
  <2>3. UNCHANGED replays BY <2>1 DEF QueueEffect, sqsVars, SendDeadLetter, Delete
  <2>4. AwaitsLeft(h)' < AwaitsLeft(h) BY <1>0, <1>4, HandlerStepIsProgress
  <2>5. ASSUME NEW g \in Handler PROVE AwaitsLeft(g)' <= AwaitsLeft(g)
    <3>1. CASE g = h
      <4>1. AwaitsLeft(g) \in Nat BY AwaitsLeftBounds
      <4>2. AwaitsLeft(g)' \in Nat BY <1>0, AwaitsOrder DEF AwaitsLeft, TypeOK
      <4> QED BY <2>4, <3>1, <4>1, <4>2
    <3>2. CASE g # h
      <4>1. pc'[g] = pc[g] /\ held'[g] = held[g]
        BY <1>0, <2>1, <3>2 DEF Move, handlerVars, Leave, Goto, HandlerTypeOK
      <4> QED BY <1>0, <4>1, OthersAwaitsKept
    <3> QED BY <3>1, <3>2
  <2> QED BY <2>2, <2>3, <2>4, <2>5 DEF NoMoreAwaits
<1>5. ASSUME NEW kind \in {"case", "metadata"}, NEW m \in Message, LateRequest(kind, m)
      PROVE  QueueInv' /\ Used
  <2>1. QueueInv' /\ NoMoreMoves BY <1>0, <1>5, QueueMoves DEF LateRequest
  <2>2. NoMoreAwaits
    BY <1>0, <1>5, OthersAwaitsKept DEF LateRequest, handlerVars, NoMoreAwaits
  <2> QED BY <1>5, <2>1, <2>2 DEF LateRequest, sqsVars
<1>6. CASE UNCHANGED vars BY <1>6 DEF vars, sqsVars, QueueInv
<1> QED BY <1>1, <1>2, <1>3, <1>4, <1>5, <1>6 DEF Next

\* No message is received more often than the redrive policy allows between replays.
THEOREM ReceivesAreBounded == Spec => []QueueInv
<1>1. TypeOK /\ CaseInv /\ QueueInv /\ [Next]_vars => QueueInv' BY StepUsesUp
<1> QED BY <1>1, QueueInvInit, TypeCorrect, CaseInvariantHolds, PTL DEF Spec

\* What is used up is counted in natural numbers; an invocation has at most 13 awaits,
\* and a message at most three moves a delivery and two more.
THEOREM WorkIsCounted ==
  Spec => [](/\ \A h \in Handler : AwaitsLeft(h) \in 0..13
             /\ \A m \in Message : MovesLeft(m) \in 0..(3 * MaxReceive + 2))
<1>1. ASSUME TypeOK, NEW h \in Handler PROVE AwaitsLeft(h) \in 0..13
  <2>1. AwaitsFrom(pc[h]) \in 0..13 /\ (pc[h] \in {"fallback", "metadata"} => AwaitsFrom(pc[h]) <= 6)
    BY <1>1, AwaitsOrder DEF TypeOK, Step
  <2> QED BY <1>1, <2>1, AwaitsLeftBounds
<1>2. ASSUME TypeOK, QueueInv, NEW m \in Message
      PROVE  MovesLeft(m) \in 0..(3 * MaxReceive + 2)
  <2>1. receives[m] \in 0..MaxReceive BY <1>2, QueueAssumption DEF TypeOK, QueueTypeOK, QueueInv
  <2> QED BY <2>1, QueueAssumption DEF MovesLeft
<1>3. TypeOK /\ QueueInv
      => /\ \A h \in Handler : AwaitsLeft(h) \in 0..13
         /\ \A m \in Message : MovesLeft(m) \in 0..(3 * MaxReceive + 2)
  BY <1>1, <1>2
<1> QED BY <1>3, TypeCorrect, ReceivesAreBounded, PTL

\* Every step uses up one of the replays, of the moves of a message on its queue, of
\* the awaits of an invocation or of the late requests, and restores none of those
\* named before: failures, crashes and redeliveries cannot go on for ever.
THEOREM WorkAlwaysRunsOut == Spec => WorkRunsOut
<1> DEFINE Used ==
      \/ replays' = replays + 1 /\ replays' <= MaxReplays
      \/ /\ \E m \in Message : MovesLeft(m)' < MovesLeft(m)
         /\ NoMoreMoves /\ UNCHANGED replays
      \/ /\ \E h \in Handler : AwaitsLeft(h)' < AwaitsLeft(h)
         /\ NoMoreAwaits /\ NoMoreMoves /\ UNCHANGED replays
      \/ /\ \E request \in inFlight : inFlight' = inFlight \ {request}
         /\ NoMoreAwaits /\ NoMoreMoves /\ UNCHANGED replays
<1>1. TypeOK /\ CaseInv /\ QueueInv /\ [Next]_vars => [Used]_vars BY StepUsesUp
<1> QED BY <1>1, TypeCorrect, CaseInvariantHolds, ReceivesAreBounded, PTL
        DEF Spec, WorkRunsOut
=============================================================================
