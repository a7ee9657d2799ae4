--------------------------- MODULE CaseProcessing ---------------------------
(***************************************************************************)
(* How the service turns the file events of its inbound queue into CRM     *)
(* records: the SQS consumer, the two-level deduplication kept in MongoDB, *)
(* the derived-key writes to Dataverse, and the case-created event.        *)
(*                                                                         *)
(* A Message is one event on the queue; it carries one file of one         *)
(* submission (correlationId), and two messages may carry the same file.   *)
(* A Handler is one invocation of handleMessage: one of the messages of a  *)
(* batch that a replica handles concurrently, or an invocation in another  *)
(* replica.  A handler's steps are the awaits of the code, so handlers     *)
(* interleave exactly where the event loop or another process may run.     *)
(* Dataverse applies a request and answers it in separate steps: the       *)
(* answer may never come, and a request whose caller has given up or has   *)
(* crashed may still be applied later.                                     *)
(*                                                                         *)
(* Failures, delays and crashes may happen at any step of handling a       *)
(* message of Faulty, and at none of the others.                           *)
(***************************************************************************)
EXTENDS InboundQueue, CaseStore, Dataverse

CONSTANTS
  Handler,  \* concurrent invocations of handleMessage
  Faulty,   \* messages whose handling may meet failures and delays
  NoMessage

ASSUME HandlerAssumption == Faulty \subseteq Message /\ NoMessage \notin Message

VARIABLES
  inFlight,   \* abandoned requests that Dataverse may still apply
  announced,  \* submissions whose case-created event was published, or diverted
              \* to its dead-letter queue, or logged as lost
  dropped,    \* messages whose loss was logged: the dead-letter send failed
  pc,         \* [Handler -> Step] the await the handler is at
  held,       \* [Handler -> Message or NoMessage] the message it was given
  job         \* [Handler -> Job] what prepareCase decided

handlerVars == <<pc, held, job>>
vars == <<sqsVars, storeVars, crmVars, inFlight, announced, dropped, handlerVars>>

Request == {"case", "metadata"} \X Message
Step == {"idle", "upsert", "token", "parties", "activity", "docType",
         "changeset", "committed", "fallback", "publish",
         "updateCaseId", "metadata", "mark", "discard", "ack"}
Job == {"none", "create", "addMetadata"}

TypeOK ==
  /\ QueueTypeOK /\ StoreTypeOK /\ CrmTypeOK
  /\ inFlight \subseteq Request
  /\ announced \subseteq Submission
  /\ dropped \subseteq Message
  /\ pc \in [Handler -> Step]
  /\ held \in [Handler -> Message \cup {NoMessage}]
  /\ job \in [Handler -> Job]

Init ==
  /\ QueueInit /\ StoreInit /\ CrmInit
  /\ inFlight = {}
  /\ announced = {}
  /\ dropped = {}
  /\ pc = [h \in Handler |-> "idle"]
  /\ held = [h \in Handler |-> NoMessage]
  /\ job = [h \in Handler |-> "none"]

-----------------------------------------------------------------------------
(* Where a handler is and where it goes. *)

Sub(h) == SubmissionOf[held[h]]
Fil(h) == FileOf[held[h]]
FaultMay(h) == held[h] \in Faulty
Handled(m) == \E h \in Handler : held[h] = m

At(h, step) == pc[h] = step /\ held[h] \in Message

Goto(h, step) ==
  /\ pc' = [pc EXCEPT ![h] = step]
  /\ UNCHANGED <<held, job>>

\* The invocation ends without acknowledging: the message stays on the queue,
\* hidden until its visibility timeout.
Leave(h) ==
  /\ pc' = [pc EXCEPT ![h] = "idle"]
  /\ held' = [held EXCEPT ![h] = NoMessage]
  /\ job' = [job EXCEPT ![h] = "none"]

RetryableAcknowledged(h) == Goto(h, "ack")  \* variant: "leave on queue" deletes

\* The catch of processValidatedMessage, by the error's retryable flag.
Retryable(h) == Leave(h)
NonRetryable(h) == Goto(h, "discard")

-----------------------------------------------------------------------------
(* The consumer and its queue. *)

\* handleMessage: parsing and validation are synchronous, so the first await is
\* the dead-letter send of an invalid message, or the upsert.
Receive(h, m) ==
  /\ pc[h] = "idle"
  /\ Deliver(m)
  /\ pc' = [pc EXCEPT ![h] = IF m \in Malformed THEN "discard" ELSE "upsert"]
  /\ held' = [held EXCEPT ![h] = m]
  /\ UNCHANGED <<storeVars, crmVars, inFlight, announced, dropped, job>>

\* Three attempts of 30 s for each CRM request outlast the queue's 60 s, so the
\* message of a slow handler becomes visible while it is still being handled.
VisibilityExpires(m) ==
  /\ m \in Faulty \/ ~Handled(m)
  /\ BecomeVisible(m)
  /\ UNCHANGED <<storeVars, crmVars, inFlight, announced, dropped, handlerVars>>

Redrive(m) ==
  /\ MoveToDeadLetter(m)
  /\ UNCHANGED <<storeVars, crmVars, inFlight, announced, dropped, handlerVars>>

\* Bound: operators replay a message when no handler still holds it.
Replay(m) ==
  /\ ~Handled(m)
  /\ Resend(m)
  /\ UNCHANGED <<storeVars, crmVars, inFlight, announced, dropped, handlerVars>>

\* sendToDlq: a failure is logged as fatal and swallowed, and the message is
\* acknowledged all the same.
SendToDlq(h) ==
  /\ At(h, "discard")
  /\ \/ SendDeadLetter(held[h]) /\ UNCHANGED dropped
     \/ /\ FaultMay(h)
        /\ dropped' = dropped \cup {held[h]}
        /\ UNCHANGED sqsVars
  /\ Goto(h, "ack")
  /\ UNCHANGED <<storeVars, crmVars, inFlight, announced>>

\* sqs-consumer deletes the message that handleMessage returned; it may fail to.
Acknowledge(h) ==
  /\ At(h, "ack")
  /\ Delete(held[h]) \/ (FaultMay(h) /\ UNCHANGED sqsVars)
  /\ Leave(h)
  /\ UNCHANGED <<storeVars, crmVars, inFlight, announced, dropped>>

-----------------------------------------------------------------------------
(* createCase: prepare, token, lookups. *)

UpsertWithoutWait(h) ==  \* variant: a waiting file is not told from the others
  /\ At(h, "upsert")
  /\ UpsertCase(Sub(h), Fil(h))
  /\ LET plan == Prepare(Sub(h), Fil(h)) IN
       \/ plan = "skip" /\ Goto(h, "ack")
       \/ /\ plan # "skip"
          /\ pc' = [pc EXCEPT ![h] = "token"]
          /\ job' = [job EXCEPT ![h] = plan]
          /\ UNCHANGED held
  /\ UNCHANGED <<sqsVars, crmVars, inFlight, announced, dropped>>

\* findOneAndUpdate, and prepareCase on the document it returned.
Upsert(h) ==
  /\ At(h, "upsert")
  /\ UpsertCase(Sub(h), Fil(h))
  /\ LET plan == Prepare(Sub(h), Fil(h)) IN
       \/ plan = "skip" /\ Goto(h, "ack")
       \/ plan = "wait" /\ Retryable(h)
       \/ /\ plan \in {"create", "addMetadata"}
          /\ pc' = [pc EXCEPT ![h] = "token"]
          /\ job' = [job EXCEPT ![h] = plan]
          /\ UNCHANGED held
  /\ UNCHANGED <<sqsVars, crmVars, inFlight, announced, dropped>>

\* MongoDB errors carry no retryable flag.  The write may have been made
\* although the driver reports an error.
UpsertFails(h) ==
  /\ At(h, "upsert") /\ FaultMay(h)
  /\ UpsertCase(Sub(h), Fil(h)) \/ UNCHANGED storeVars
  /\ NonRetryable(h)
  /\ UNCHANGED <<sqsVars, crmVars, inFlight, announced, dropped>>

\* A request that changes nothing: it answers, or it fails with an error that
\* is retryable (where the caller tells them apart) or not.
Lookup(h, step, next, mayRetry) ==
  /\ At(h, step)
  /\ \/ Goto(h, next)
     \/ FaultMay(h) /\ mayRetry /\ Retryable(h)
     \/ FaultMay(h) /\ NonRetryable(h)
  /\ UNCHANGED <<sqsVars, storeVars, crmVars, inFlight, announced, dropped>>

\* getCrmAuthToken rethrows every failure as a new Error, never retryable.
GetToken(h) ==
  Lookup(h, "token", IF job[h] = "create" THEN "parties" ELSE "activity", FALSE)

\* The CRM contact of the crn, then the account of the sbi.
EnsureContactAndAccount(h) == Lookup(h, "parties", "docType", TRUE)

\* The case's online submission; retryable also when it is not queryable yet.
FindActivity(h) ==
  Lookup(h, "activity", IF HasIncident(Sub(h)) THEN "docType" ELSE "discard", TRUE)

ResolveDocumentType(h) ==
  Lookup(h, "docType", IF job[h] = "create" THEN "changeset" ELSE "metadata", TRUE)

-----------------------------------------------------------------------------
(* createNewCase: the changeset, the event, and the document. *)

\* Dataverse may apply the request; it answers 412 to it otherwise.
Applicable(kind, m) ==
  \/ kind = "case" /\ ~ChangesetConflicts(SubmissionOf[m], FileOf[m])
  \/ kind = "metadata" /\ ~HasMetadata(SubmissionOf[m], FileOf[m])

\* The request that Dataverse may still apply when h gives up or crashes.
Outstanding(h) ==
  LET sent == CASE pc[h] = "changeset"                -> {"case"}
                [] pc[h] \in {"fallback", "metadata"} -> {"metadata"}
                [] OTHER                              -> {}
  IN  {<<kind, held[h]>> : kind \in {k \in sent : Applicable(k, held[h])}}

\* Dataverse applies the changeset of h; its answer is still to come.
ChangesetApplied(h) ==
  /\ At(h, "changeset")
  /\ ApplyChangeset(Sub(h), Fil(h))
  /\ Goto(h, "committed")
  /\ UNCHANGED <<sqsVars, storeVars, inFlight, announced, dropped>>

\* 204 for all three parts.
CaseCreated(h) ==
  /\ At(h, "committed")
  /\ Goto(h, "publish")
  /\ UNCHANGED <<sqsVars, storeVars, crmVars, inFlight, announced, dropped>>

CaseSuppressedUnannounced(h) ==  \* variant: an existing case is not announced
  /\ \/ At(h, "changeset")
     \/ At(h, "committed") /\ FaultMay(h)
  /\ ChangesetConflicts(Sub(h), Fil(h))
  /\ Goto(h, "updateCaseId")
  /\ UNCHANGED <<sqsVars, storeVars, crmVars, inFlight, announced, dropped>>

\* 412: an earlier attempt created the case, maybe this one's own, whose answer
\* was lost and which the HTTP client then repeated.  The file's metadata is
\* written on its own.
CaseSuppressed(h) ==
  /\ \/ At(h, "changeset")
     \/ At(h, "committed") /\ FaultMay(h)
  /\ ChangesetConflicts(Sub(h), Fil(h))
  /\ Goto(h, "fallback")
  /\ UNCHANGED <<sqsVars, storeVars, crmVars, inFlight, announced, dropped>>

CaseFailsUnnoticed(h) ==  \* variant: the parts of the answer are not checked
  /\ At(h, "changeset") \/ At(h, "committed")
  /\ FaultMay(h)
  /\ inFlight' = inFlight \cup Outstanding(h)
  /\ Goto(h, "publish")
  /\ UNCHANGED <<sqsVars, storeVars, crmVars, announced, dropped>>

CaseFailsSuppressed(h) ==  \* variant: every error is taken for a 412
  /\ At(h, "changeset") \/ At(h, "committed")
  /\ FaultMay(h)
  /\ inFlight' = inFlight \cup Outstanding(h)
  /\ Goto(h, "fallback")
  /\ UNCHANGED <<sqsVars, storeVars, crmVars, announced, dropped>>

\* Any other answer or none: throwCaseCreationError goes by the retry category.
CaseFails(h) ==
  /\ At(h, "changeset") \/ At(h, "committed")
  /\ FaultMay(h)
  /\ inFlight' = inFlight \cup Outstanding(h)
  /\ Retryable(h) \/ NonRetryable(h)
  /\ UNCHANGED <<sqsVars, storeVars, crmVars, announced, dropped>>

\* publishReceivedEvent: SNS, else its dead-letter queue, else a log; it does
\* not fail, so the handler goes on in each case.
PublishCaseCreated(h) ==
  /\ At(h, "publish")
  /\ announced' = announced \cup {Sub(h)}
  /\ Goto(h, "updateCaseId")
  /\ UNCHANGED <<sqsVars, storeVars, crmVars, inFlight, dropped>>

\* A MongoDB error, with the update made or not, is not retryable.
RecordCaseId(h) ==
  /\ At(h, "updateCaseId")
  /\ \/ UpdateCaseId(Sub(h)) /\ Goto(h, "mark")
     \/ /\ FaultMay(h)
        /\ UpdateCaseId(Sub(h)) \/ UNCHANGED storeVars
        /\ NonRetryable(h)
  /\ UNCHANGED <<sqsVars, crmVars, inFlight, announced, dropped>>

-----------------------------------------------------------------------------
(* createMetadataForOnlineSubmission: for a file added to a case, and as the *)
(* fallback of a suppressed changeset. *)

WritesMetadata(h) == At(h, "metadata") \/ At(h, "fallback")

AfterMetadata(h) == IF pc[h] = "fallback" THEN "publish" ELSE "mark"

MetadataApplied(h) ==
  /\ WritesMetadata(h)
  /\ ApplyMetadata(Sub(h), Fil(h))
  /\ UNCHANGED <<sqsVars, storeVars, inFlight, announced, dropped, handlerVars>>

MetadataAssumed(h) ==  \* variant: any answer counts as success
  /\ WritesMetadata(h)
  /\ Goto(h, AfterMetadata(h))
  /\ UNCHANGED <<sqsVars, storeVars, crmVars, inFlight, announced, dropped>>

\* 204, or 412 for a record that an earlier attempt wrote.
MetadataAnswered(h) ==
  /\ WritesMetadata(h)
  /\ HasMetadata(Sub(h), Fil(h))
  /\ Goto(h, AfterMetadata(h))
  /\ UNCHANGED <<sqsVars, storeVars, crmVars, inFlight, announced, dropped>>

MetadataFails(h) ==
  /\ WritesMetadata(h)
  /\ FaultMay(h)
  /\ inFlight' = inFlight \cup Outstanding(h)
  /\ Retryable(h) \/ NonRetryable(h)
  /\ UNCHANGED <<sqsVars, storeVars, crmVars, announced, dropped>>

MarkProcessed(h) ==
  /\ At(h, "mark")
  /\ \/ MarkFileProcessed(Sub(h), Fil(h)) /\ Goto(h, "ack")
     \/ /\ FaultMay(h)
        /\ MarkFileProcessed(Sub(h), Fil(h)) \/ UNCHANGED storeVars
        /\ NonRetryable(h)
  /\ UNCHANGED <<sqsVars, crmVars, inFlight, announced, dropped>>

-----------------------------------------------------------------------------
(* Crashes and late requests. *)

\* The process ends (a crash, or a shutdown, which does not wait for handlers);
\* the crash of a replica is a crash of each of its handlers.
Crash(h) ==
  /\ pc[h] # "idle" /\ FaultMay(h)
  /\ inFlight' = inFlight \cup Outstanding(h)
  /\ Leave(h)
  /\ UNCHANGED <<sqsVars, storeVars, crmVars, announced, dropped>>

\* A request whose caller timed out or crashed is applied after all.
LateRequest(kind, m) ==
  /\ <<kind, m>> \in inFlight
  /\ \/ kind = "case" /\ ApplyChangeset(SubmissionOf[m], FileOf[m])
     \/ kind = "metadata" /\ ApplyMetadata(SubmissionOf[m], FileOf[m])
  /\ inFlight' = inFlight \ {<<kind, m>>}
  /\ UNCHANGED <<sqsVars, storeVars, announced, dropped, handlerVars>>

-----------------------------------------------------------------------------
\* What the code does next when nothing fails.
Advance(h) ==
  \/ Upsert(h) \/ GetToken(h) \/ EnsureContactAndAccount(h)
  \/ FindActivity(h) \/ ResolveDocumentType(h)
  \/ ChangesetApplied(h) \/ CaseCreated(h) \/ CaseSuppressed(h)
  \/ PublishCaseCreated(h) \/ RecordCaseId(h)
  \/ MetadataApplied(h) \/ MetadataAnswered(h) \/ MarkProcessed(h)
  \/ SendToDlq(h) \/ Acknowledge(h)

Fail(h) == UpsertFails(h) \/ CaseFails(h) \/ MetadataFails(h) \/ Crash(h)

QueueStep(m) == VisibilityExpires(m) \/ Redrive(m)

Next ==
  \/ \E h \in Handler, m \in Message : Receive(h, m)
  \/ \E h \in Handler : Advance(h) \/ Fail(h)
  \/ \E m \in Message : QueueStep(m) \/ Replay(m)
  \/ \E kind \in {"case", "metadata"}, m \in Message : LateRequest(kind, m)

Spec == Init /\ [][Next]_vars

\* The consumer polls for ever, a handler's awaits settle (every request has a
\* timeout), and SQS makes messages visible and applies its redrive policy.
\* Nothing is assumed of failures, late requests or operators.
Fairness ==
  /\ \A h \in Handler : WF_vars(Advance(h))
  /\ \A m \in Message : WF_vars(\E h \in Handler : Receive(h, m))
  /\ \A m \in Message : WF_vars(QueueStep(m))

FairSpec == Spec /\ Fairness

-----------------------------------------------------------------------------
(* Safety. *)

\* Once a submission's document carries a caseId, that case is in the CRM: no
\* failure, lost answer or crash makes updateCaseId run for a case that is not.
RecordedCaseExists == \A c \in Submission : caseId[c] => HasIncident(c)

\* A file marked processed, whose redeliveries are therefore skipped for good,
\* has its metadata record, and its case, in the CRM, and the case is recorded.
ProcessedFileIsInCrm ==
  \A c \in Submission : \A f \in processed[c] :
    HasIncident(c) /\ HasMetadata(c, f) /\ caseId[c]

\* Redeliveries, concurrent handlers, HTTP retries, late requests and replays
\* never give a submission a second case or a file a second metadata record.
NoDuplicateRecords ==
  \A c \in Submission :
    incidents[c] <= 1 /\ \A f \in File : metadata[c][f] <= 1

\* A metadata record always has its case, and only the creator's file may have
\* one before the submission's document carries the caseId.
MetadataFollowsCase ==
  \A c \in Submission, f \in File :
    HasMetadata(c, f) => HasIncident(c) /\ (creator[c] = f \/ caseId[c])

\* A case always has the file that its document names as the creator: the case
\* is created with that file, and the role never passes to another one.
CaseHasCreatorsFile ==
  \A c \in Submission :
    HasIncident(c) => creator[c] \in File /\ HasMetadata(c, creator[c])

\* The caseId is stored only after a case-created event was handed to SNS or to
\* its dead-letter queue, or its loss was logged.
RecordedCaseIsAnnounced == \A c \in Submission : caseId[c] => c \in announced

\* No file event vanishes: it is on the inbound or the dead-letter queue, or its
\* file is processed, or its loss was logged.
NoSilentLoss ==
  \A m \in Message :
    \/ queue[m] # "absent"
    \/ m \in deadLetter \cup dropped
    \/ FileOf[m] \in processed[SubmissionOf[m]]

\* The queue, the document and the CRM together keep the contract: what they
\* hold of a submission changes only by the contract's steps.
Contract == INSTANCE SubmissionContract WITH
  cases    <- {c \in Submission : HasIncident(c)},
  attached <- {p \in Submission \X File : metadata[p[1]][p[2]] > 0},
  recorded <- {c \in Submission : caseId[c]},
  done     <- {p \in Submission \X File : p[2] \in processed[p[1]]}

KeepsContract == Contract!ContractSpec

\* The files of submission c race to create its case: a file is told "created"
\* when the document records the case it made, and "exists" when it is marked
\* processed with the case of another file.
Once(c) == INSTANCE CreateOnce WITH
  Call    <- File,
  NoCall  <- NoFile,
  creator <- IF HasIncident(c) THEN creator[c] ELSE NoFile,
  told    <- [f \in File |-> IF caseId[c] /\ creator[c] = f THEN "created"
                             ELSE IF f \in processed[c] THEN "exists" ELSE "nothing"]

\* What one conditional upsert promises its callers, the service as a whole keeps
\* for the files of a submission, across redeliveries, replicas and crashes: one
\* of them creates the case, it alone is recorded as the creator, and no other
\* file is done with before there is a case.
CaseIsCreatedOnce ==
  [][\A c \in Submission : [Once(c)!Next]_(Once(c)!vars)]_vars

(* Liveness, under FairSpec. *)

\* The receive count bounds every retry: whatever fails, each message leaves the
\* inbound queue for good.
QueueDrains == <>[](\A m \in Message : queue[m] = "absent")

\* A message that meets no failure itself, is still to be delivered, and whose
\* file is the creator or belongs to a recorded case, gets its file into the
\* CRM, whatever happens to the other messages of the submission.
HealthyFileIsProcessed ==
  \A m \in Message \ (Faulty \cup Malformed) :
    LET c == SubmissionOf[m]
        f == FileOf[m]
    IN  (/\ queue[m] = "visible" /\ receives[m] < MaxReceive
         /\ caseId[c] \/ creator[c] = f)
        ~> (f \in processed[c])

\* The creator file of c has left the queue and no handler holds it: it will not
\* create the case unless an operator replays it.
CreatorGone(c) ==
  /\ creator[c] # NoFile /\ ~caseId[c]
  /\ \A m \in Message :
       SubmissionOf[m] = c /\ FileOf[m] = creator[c]
         => queue[m] = "absent" /\ ~Handled(m)

\* Another file of c that meets no failure has two deliveries left.  A visibility
\* timeout lies between them, as long as the default creation deadline.
SiblingIsQueued(c) ==
  \E m \in Message \ (Faulty \cup Malformed) :
    SubmissionOf[m] = c /\ queue[m] = "visible" /\ receives[m] + 1 < MaxReceive

\* What the doc of cases.creationDeadlineMs describes: a submission whose creator
\* file has not created the case in time is taken over by another of its files.
CreatorIsReplaced ==
  \A c \in Submission : (CreatorGone(c) /\ SiblingIsQueued(c)) ~> caseId[c]
=============================================================================
