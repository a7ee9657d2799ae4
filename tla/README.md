# fcp-sfd-crm: a TLA+ model of the case pipeline

The service receives file events from an SQS queue and turns each submission (a
`correlationId` with one or more files) into one CRM case in Dataverse, with an
online submission and one metadata record for each file. Messages are redelivered,
handlers run concurrently in one replica and across replicas, answers get lost, and
processes crash. The modules here model that pipeline and the parts it
stands on, TLC checks them on small instances, and TLAPS proves their safety for every
instance: every invariant and step property of the passing runs, but for the two of the
batch parser.

Paths below are relative to the repository's `src/` unless they say otherwise.

## 1. Inventory

| Component | Code | State it keeps | Operations | Correct when |
|---|---|---|---|---|
| Inbound consumer | `messaging/inbound/consumer.js`, `index.js` | none of its own: one running `handleMessage` for each message in hand | parse and validate, `createCase`, then acknowledge, leave on the queue, or dead-letter and acknowledge | no event vanishes without a trace; the queue drains |
| Inbound queue and dead-letter queue | SQS; policy in `/floci/init.sh` | messages, visibility, receive counts | deliver, visibility timeout, redrive, delete | external |
| Replay script | `/scripts/replay-dlq-messages.sh` | its batch and its count | receive a batch, and for each message send to the main queue, then delete from the dead-letter queue | it loses nothing, copies only what an interruption left, and ends |
| Case service | `services/*.js` | the job chosen by `prepareCase`, in local variables across awaits | create the case, or add a file to it | one case for a submission, made with the creator's file; siblings only after it is recorded |
| Case store | `repos/cases.js`, `data/create-index.js` (MongoDB `cases`) | `creatorFileId`, `caseId`, `processedFileIds` for each `correlationId` | `upsertCase`, `updateCaseId`, `markFileProcessed` | what it records is in the CRM, with its unique index or without |
| Dataverse repository | `repos/crm.js`, `repos/dataverse-batch.js` | records in Dataverse | lookups; the atomic changeset; the conditional metadata upsert | repeating a write never makes a second record |
| HTTP client | `http/client.js` over ffetch | `Map` of retry states, one for each call in progress | retry, classify, report metadata | calls end, and report their own attempts and failures |
| Token cache | `repos/token.js`, `auth/*` (MongoDB `tokens`) | one token with its expiry | read from a secondary, obtain by secret or federated credentials, store | the stored expiry is that of the stored token; calls end |
| Outbound events | `messaging/outbound/durable-publish.js`, `received-event/*`, SNS | none | publish, else dead-letter, else log | a recorded case is announced, or a trace says it was not |
| HTTP API | `server.js`, `routes/*` | none | a non-production route to the case service, which always refuses | - |
| Audit events | `messaging/outbound/audit/*` | none | nothing calls it | - |
| Legacy poller | `messaging/inbound/poll-inbound-messages.js` | none | nothing calls it | - |
| Schemas, configuration, logging | `api/schemas`, `config`, `logging`, ... | none | pure | - |

**How they interact.** The consumer calls the case service, which reads and writes
the case store, gets a token, and calls Dataverse through the HTTP client. Success
returns the message to sqs-consumer, which deletes it. An error with
`retryable = true` leaves it on the queue until its visibility timeout; any other
error sends a copy to the dead-letter queue and then deletes it. SQS itself moves a
message there after `maxReceiveCount` receives. Operators replay the dead-letter queue.
Failed SNS publications go to the same dead-letter queue (`config/messaging.js:42-47`).

**What is hard.** Two files of a submission, or two deliveries of a message, in
handlers that interleave at every await; a decision taken from a MongoDB document and
acted upon several requests later; a Dataverse write whose answer is lost, or which
lands after its caller gave up; crashes between the CRM write, the event, `updateCaseId`
and `markFileProcessed`; a visibility timeout (60 s) shorter than the slowest handling
(three attempts of 30 s for each request); a failing dead-letter send; an interrupted
replay, or two at once; instances whose clocks differ and whose token refreshes race; a unique index
that may not exist; document types that change between lookup and write. `PROJECT.json` lists each with its line and the properties that cover it.

## 2. Modules

| Module | Models | Needs |
|---|---|---|
| `FileEvents` | the events: which message carries which file of which submission, which are invalid | - |
| `InboundQueue` | SQS queue, redrive, dead letters, replay | `FileEvents` |
| `CaseStore` | the `cases` collection and `prepareCase`'s decision | `FileEvents` |
| `Dataverse` | conditional upserts on derived keys, atomic changeset | `FileEvents` |
| `CaseProcessing` | the composition: handlers, failures, crashes, late requests | the three above |
| `SubmissionContract` | abstract: what is promised about a submission | `FileEvents` |
| `CaseInvariant` | the inductive invariant | `CaseProcessing` |
| `CaseProcessing_proofs` | the theorems | `CaseInvariant` |
| `HttpClient` | ffetch's loop with the service's hooks and shared Map | - |
| `HttpClient_proofs` | its invariant and theorems | `HttpClient` |
| `CreateOnce` | abstract: what a caller of a conditional upsert is promised | - |
| `RetriedWrite` | such upserts through `HttpClient`'s retries, with a server that applies attempts late, out of order or never; implements `CreateOnce` | `HttpClient` |
| `RetriedWrite_proofs` | its invariant and the refinement | `RetriedWrite` |
| `RetryDelay` | the time between attempts: backoff, jitter, `Retry-After`, ceilings | `HttpClient` |
| `RetryDelay_proofs` | arithmetic of the backoff, its invariant and theorems | `RetryDelay`, `HttpClient_proofs` |
| `BatchResponse` | the multipart framing of `$batch`: request, response, parser, acceptance | - |
| `UnindexedCases` | the `cases` collection as a sequence of documents for each submission, while the unique index is missing or being created | `Dataverse` |
| `UnindexedCases_proofs` | its invariant and theorems | `UnindexedCases` |
| `CaseLabels` | the document types that handlers resolve and write | `CaseProcessing` |
| `CaseLabels_proofs` | the refinement of `CaseProcessing`, the invariant of the labels and the theorems | `CaseLabels`, `CaseProcessing_proofs` |
| `DeadLetterFlow` | copies, receipts and visibility timeouts on both queues; diverted announcements; the replay script command by command | - |
| `DeadLetterFlow_proofs` | its invariant and theorems | `DeadLetterFlow` |
| `TokenCache` | `getCrmAuthToken` over the cached document, with clocks | - |
| `TokenCache_proofs` | its invariant and theorems | `TokenCache` |
| `MC...` | an instance of each for TLC | |

`CaseProcessing` is the centre. The others answer for what it takes as given, or look closer at one side:

| `CaseProcessing` takes | and this module opens it |
|---|---|
| a write is made at most once, and its answer is true or an error | `RetriedWrite`, by way of `CreateOnce`; `BatchResponse` for the changeset's answer |
| one document for a submission | `UnindexedCases` |
| a replay is one step, and a message is one entry | `DeadLetterFlow` |
| `getCrmAuthToken` returns a token or fails | `TokenCache` |
| documents have no types | `CaseLabels` |
| a handler may be slow | `RetryDelay` bounds how slow one request can be |

**Handlers.** A member of `Handler` is one invocation of `handleMessage`. `pc[h]`
names the await it is at, `held[h]` its message, `job[h]` the result of `prepareCase`.
One action stands for the code from one await to the next:

| `pc` | Await | Actions |
|---|---|---|
| `upsert` | `findOneAndUpdate` in `upsertCase` | `Upsert`, `UpsertFails` |
| `token` | `getCrmAuthToken` | `GetToken` |
| `parties` | contact and account lookups | `EnsureContactAndAccount` |
| `activity` | online submission lookup (added files) | `FindActivity` |
| `docType` | document type lookup | `ResolveDocumentType` |
| `changeset`, `committed` | the `$batch` request: not yet applied, applied but not answered | `ChangesetApplied`, `CaseCreated` (204), `CaseSuppressed` (412), `CaseFails` |
| `fallback`, `metadata` | the metadata PATCH: after a suppressed changeset, for an added file | `MetadataApplied`, `MetadataAnswered`, `MetadataFails` |
| `publish` | `publishReceivedEvent` | `PublishCaseCreated` |
| `updateCaseId`, `mark` | the two updates of the document | `RecordCaseId`, `MarkProcessed` |
| `discard` | `sendToDlq` | `SendToDlq` |
| `ack` | DeleteMessage, by sqs-consumer | `Acknowledge` |

`Retryable` is `return undefined`, `NonRetryable` the way to `discard`. Every action
that can fail says so with a disjunct guarded by `FaultMay(h)`: failures, crashes and
slow handling (a visibility timeout that expires in the middle) befall messages of the
constant `Faulty` only. With `Faulty = Message` the model is fully adversarial; the
liveness runs make one message faulty and ask what the other one gets.

A request that Dataverse has and whose caller gave up or crashed goes to `inFlight`;
`LateRequest` may apply it at any later time, or never.

**Which errors are retryable.** Each action allows what the code allows: the token,
MongoDB and `assertRequiredParams` errors are never retryable, a lookup or a write is
retryable or not, depending on metadata that `HttpClient` models. `CaseProcessing`
leaves that choice open, so it also covers a client that classifies differently.

**The other modules' state and actions.**

- `TokenCache`: `phase[c]` is the await of a call; `primary` and `secondary` are the document
  and the replica that reads go to; a token *is* the time Entra ID stops accepting it. `skew` is
  the clock of the instance the call runs in. Clocks count ticks, `Second` of them in a second, and lifetimes are in
  seconds: `Round` is the `Math.round` of `federated-credentials.js:41-42`, and `Fraction` what a token may last beyond whole
  seconds. `issuedAt` bounds the age of an answer by its timeout. `Receive` computes `expiresAt` as `setToken`
  does, before the write it awaits; `Store` may land after any other.
- `DeadLetterFlow`: `message` maps identifiers to queue entries, so one event may have
  copies. A receipt (`latest`) that has been replaced may or may not delete. The
  consumer's work is one step with four ends (`Succeed`, `Leave`, `Discard`, `Crash`) and
  a `Publish` on the way. `batch`, `current` and `replayed` are the variables of the script,
  and `shell` says whether it runs: the count ends with it (`Stop`). Each action of it is one `aws` command. `Abort` is `set -e` or a kill.
- `RetriedWrite`: a request is a pair of a call and an attempt; `Apply` and `Refuse` are
  Dataverse, `Reply` reaches the call only while it waits for that very attempt.
- `RetryDelay`: extends each action of `HttpClient` with the time it takes; the advice of a
  `Retry-After` is written by Dataverse's clock and read by the client's.
- `BatchResponse`: a body is a sequence of the kinds of line the parser tells apart, and
  arrives line by line: what the code sees is any prefix.
- `UnindexedCases`: an upsert without an index is `Find` and `Insert`; `Found` is the
  document a filter meets: any of them, or the oldest, as `meets` says. `CreateIndex` is a replica that starts.
  Deliveries are unlimited, as with operators who replay what the redrive policy takes off the queue.
- `CaseLabels`: each of its actions is an action of `CaseProcessing` with the labels it
  writes; `resolved[h]` is the handler's local variable and `sent` what abandoned requests carry.
  `assigned` is history, for the property only: every document type that a case type ever had.
- `HttpClient`: `failures[c]` lists what each attempt of the call met, in order. It is history too: the code keeps the retry
  state alone, and the properties compare what it tells with what happened.

**Abstractions.** Records are counters for each submission and file: the derived keys
(sha256, assumed not to collide) make a count above 1 impossible, and a random key would
show. Payloads, logging and the wording of errors are left out; document types are in `CaseLabels` only. Lookups
that end in "not found" are non-retryable failures. A contact and an account lookup are
one action, as neither changes anything. The value of `caseId` is derived from the
submission, so only whether it is stored matters. Submissions do not share documents, keys or
messages, so one submission shows everything the runs are about; the theorems are for
any number. sqs-consumer 15 leaves a message for which `handleMessage` returned `undefined`, as
`logRetryableFailure` (`leave_on_queue`) expects of it. The unique index on
`correlationId` exists in `CaseProcessing`; `UnindexedCases` is without it. In
`RetryDelay` times are integers of milliseconds, so backoffs are rounded down, and the multiplier
of the configuration (1.5) is a fraction, `Multiplier` by `Divisor`.

## 3. Runs

Every cfg says `CHECK_DEADLOCK FALSE`: no producer adds messages, so the pipeline
stops once every message has left the queue, a finished HTTP call or answer stays
finished, and the clock of `TokenCache` stops at its bound.
Handlers and instances are symmetric in `case_safety`, `labels` and `token_refresh`, which check invariants
and step properties that treat them alike. Runs with liveness use no symmetry.

| Run | Instance | Shows |
|---|---|---|
| `case_safety` | 2 messages = 2 files of 1 submission, 2 handlers, all faulty, 2 receives | `TypeOK`, `CaseInv`, the six record properties, `KeepsContract`: `CaseProcessing` implements `SubmissionContract`, and `CaseIsCreatedOnce`: it implements `CreateOnce` for each submission (780 000 states) |
| `redelivery` | 3 messages: a file twice (first copy faulty) and an invalid one, 3 receives | `WorkRunsOut`, `QueueDrains`, `HealthyFileIsProcessed` |
| `siblings` | 2 files, one faulty, 2 receives, 1 replay, which may be interrupted after its send | `NoSilentLoss`, `HealthyDeliverySucceeds`, and `HealthyFileIsProcessed` for a file that waits for another one's case |
| `takeover` | 2 files, one faulty, 3 receives | violates `CreatorIsReplaced` (finding) |
| `http_client` | 1 call, 4 attempts, 3 for unrecognised errors, backoffs that meet both caps, throttling from 0 to 90 s, clocks 0.3 s apart | `AttemptsAreReported`, `UnknownBudget`, `DelayTypeOK`, `NoRetryIntoThrottling`, `CallIsBounded`, `BackoffGrows`, `CallsEnd` |
| `exhausted_status` | 2 calls, 3 attempts, 2 for unrecognised errors (the defaults) | violates `RetryableFailureIsReported` (finding) |
| `retried_write` | 2 calls that write one record, 2 attempts each | `ReportIsOfThisCall`, `ImplementsCreateOnce` |
| `token_refresh` | 2 instances, clocks up to 1 tick ahead or behind, answers up to 1 tick late, seconds of 4 ticks, tokens of a second and a quarter, 8 ticks | `CachedExpiryIsOwn`, `StalenessBounded` (2.1 million states) |
| `dead_letter_flow` | an event, an announcement and a copy, 1 handler, 2 operators, batches of 2, `MAX_MESSAGES` 2, 1 receive, 1 interruption | `TypeOK`, `NothingLost`, `CopiesAreInterruptions`, `ReplayEnds` |
| `batch_parse` | 3 parts, statuses 200, 204 and 412, nested or flat, cut off after any line (all 270 states) | `AcceptedIsCommitted`, `CommittedIsAccepted` |
| `unindexed` | 2 files, 2 handlers, 2 crashes, the index there, missing or created meanwhile | `DocumentsTellTheTruth`, `IndexedMeansOne`, `OneDocumentKeepsContract`, `EveryFileArrives` |
| `labels` | 3 messages: a file twice (first copy faulty) with different case types, and a second file; a change of types | `CaseAgreesWithCreator`, `LabelsAreOwn`, `LabelsStay` (1.1 million states) |

**Bounds.** `MaxReceive` is 3 in the deployed policy; 2 is enough for one failed
delivery and one that races it or resumes it, and 3 is used where deliveries are counted.
`MaxReplays` bounds operators: one replay, complete or interrupted, in `siblings`, and none where deliveries are the
subject; the theorems are for any number. A message is not replayed while a copy of it is on the
queue or in a handler (guards of `Resend` and `Replay`): a message stands for one queue
entry, and two entries for the same event are two messages with the same file, as in
`redelivery` and `labels`; `DeadLetterFlow` has the copies. Two handlers give every pairwise race; a third one adds nothing a
pair does not do to the document and the CRM, and the theorems hold for any number.
`MaxInterruptions` bounds crashes, kills, failed commands and holders overtaken by a visibility timeout
in `DeadLetterFlow`; `CopiesAreInterruptions` counts copies against it. `Id` bounds the messages that
exist at a time: a send waits while there is no room, which `ReplayEnds` excepts. Its `MaxReceive` is 1: a message that is left or abandoned goes to the dead letters, which are
its subject, and deliveries from the inbound queue are counted in the other runs. `MAX_MESSAGES` is 2 so that a script may be aborted with one
message of its batch sent and the other untouched. `MaxNow` in
`TokenCache` is 8 ticks, enough for a token of 5 to be stored late, perhaps over another one, and to be
handed out past its end; the theorems need no bound. A second of 4 ticks is the
coarsest in which a fraction may round up, round down or be exactly half; delays and clocks leave 3 to 6 ticks of the token, which
do all three. Its run is for federated credentials with a default lifetime equal to
the real one: what `ExpiresIn` then allows includes what it is with a client secret. As delay and skew add up to half a second
there, the two terms of `Slack` meet; the theorem is for each of them being the greater one.
One call shows what is said of one call; `ReportIsOfThisCall` is about two and has them in `retried_write`.

The type invariants of `HttpClient`, `RetriedWrite`, `TokenCache` and `UnindexedCases` are proved (section 5) and have no run.

**What the properties mean.**
- `RecordedCaseExists`, `ProcessedFileIsInCrm`: what MongoDB says happened did happen, and in the order it
  implies: a file is marked only in a recorded case. It matters because both cause later messages to skip work for good.
- `NoDuplicateRecords`: one case, one metadata record for each file.
- `MetadataFollowsCase`, `CaseHasCreatorsFile`: who may write what before and after the case is recorded.
- `RecordedCaseIsAnnounced`: the event comes before `updateCaseId`, also after a suppressed changeset. It may be
  published more than once.
- `NoSilentLoss`: every message is queued, dead-lettered, processed or logged as lost, also after a replay that was interrupted.
- `KeepsContract`: what document and CRM hold changes only as `SubmissionContract` allows.
- `CaseIsCreatedOnce`: what one conditional upsert promises its callers, the whole service keeps for the files of
  a submission: one creates the case, that one alone is recorded as its creator, and no other is done before there is a case.
- `HealthyDeliverySucceeds`: a delivery without failures ends with its file processed, or with its file waiting for
  the creator; what other handlers do cannot make it give up.
- `WorkRunsOut`: each step uses up a replay, a move of a message, an await of an invocation or a late request, and
  none restores what is named before what it uses. So nothing goes round for ever.
- `QueueDrains`, `HealthyFileIsProcessed`: see below.
- `ReportIsOfThisCall`: the reason and category a call reports are those of its own last failure that `shouldRetry` was asked about:
  the last one or, when the loop is over, the one before it, and no earlier one (section 4).
- `UnknownBudget`: beyond the budget for unrecognised errors a call goes on from recognised failures only; the failures before it do
  not matter.
- `ImplementsCreateOnce`: "created" is told to the call that made the record and no other, and
  "exists" only when there is one. The creator of a 204 may be any of the call's own attempts.
- `NoRetryIntoThrottling`: up to the ceiling for such advice, and up to a second and the difference
  of the clocks for a date. `BackoffGrows`: between any two computed delays of a call, up to the later one's
  cap. Jitter is only added (the README's "±%" notwithstanding), which is why this holds.
- `AcceptedIsCommitted`: a cut-off, short or empty answer is never taken for a case.
- `NothingLost`: an event is processed, on a queue or logged, and a diverted announcement is on a
  queue or logged. `CopiesAreInterruptions`: a replay that is not interrupted makes no copies.
- `CachedExpiryIsOwn`, `StalenessBounded`: races may put back an older token, but never under the expiry of another. A stored expiry
  is late by at most `Slack`: the answer's delay and the skew or, with federated credentials, the half second of
  rounding if that is more. So a token from the cache is past its end by less than `Slack + MaxSkew`. The two sources of lateness do not add up: a lifetime
  that is rounded is counted down to an absolute time, which takes the delay and the skew out again. That it may be past its
  end at all is for section 4.
- `OneDocumentKeepsContract`: while no submission has a second document, `UnindexedCases` takes only steps of
  `SubmissionContract`, with the index or without.
- `DocumentsTellTheTruth`: whichever document a skipped step relied on, the records are there.
- `CaseAgreesWithCreator`, `LabelsStay`: attempts with different types do not mix.
- `LabelsAreOwn`: each record has a type that the case type of an event of its own file had at some time. This is what holds in
  place of the rule of `services/case.js:145-146`, by which additional files would have the first one's (section 4).

**Fairness.** `Advance(h)` is weakly fair: the awaits of a handler settle, since every
HTTP request has a timeout and the AWS and MongoDB drivers answer or fail. Each message's
`Receive` is weakly fair: sqs-consumer polls for ever. Visibility timeouts and the
redrive policy are weakly fair: SQS applies them. Nothing is assumed of failures,
crashes, late requests and replays: they may always happen and never need to. In `HttpClient` and `RetryDelay` each
call is weakly fair, since each attempt has a timeout and each delay an end. In `DeadLetterFlow` only the commands of a
running script are: consumers, operators and timeouts may do as they like. `UnindexedCases` adds strong fairness of deliveries: a
message that is available again and again is received in the end, which SQS does while it has the
message, and operators do after the redrive policy has taken it. `EveryFileArrives` is thus about files that are
stuck however often they are delivered.

`EveryFileArrives` is stated for filters that meet the oldest document, as MongoDB's natural order mostly
makes them. When a filter may meet any document, a file can meet for ever one that its own
`updateCaseId` did not. No document of the repository promises otherwise, so this is no finding.

`HealthyFileIsProcessed` is stated for a message that itself meets no failure and is the
creator's or finds the case recorded. Without the second condition it is false, which is
the first finding.

## 4. Findings

1. **No takeover.** `config/cases.js:4` documents a deadline after which "another file may
   take over" the creation of a case, and comments in `repos/crm.js` rely on it. Nothing
   reads the setting. When the creator's message is discarded, all other files of the
   submission wait until the redrive policy dead-letters them (`takeover`).
   A consequence the proof brings out (`MetadataAttachesFile`): only the creator sends a changeset, so the metadata
   write that follows a suppressed changeset always finds its record there.
2. **Exhausted 5xx and 429 are not retryable for the services.** Their `HttpError` is built
   after `onComplete`, so it carries no `retryMetadata`, and
   `create-case-with-online-submission-in-crm.js:79` counts on it for a 5xx. The message is
   dead-lettered at once, and `crm.case.create_outcome_unknown` is not logged (`exhausted_status`).

Other places where the repository's words and its code part, read off the code and the models and not shown
by a run:

- The metadata of an exhausted loop is the previous failure's (`http/client.js:161`): `shouldRetry` is not asked about the last one.
- `repos/token.js:27` says "Check if token is still valid". A lifetime in seconds is counted from the arrival of the answer, without a
  margin, so it outlives the token by the answer's delay even when all clocks agree; one that is counted down to an absolute time is
  rounded to whole seconds (`federated-credentials.js:41-42`), and may outlive it by half of one. `StalenessBounded` says by how much at most.
- `config/messaging.js` documents two dead-letter queues (lines 30 and 43) and reads both from `CRM_DEAD_LETTER_QUEUE_URL`. A replay
  sends refused announcements to the inbound queue, where they fail the schema and are dead-lettered again, and are never published.
- The replay script says "No more messages on DLQ. Done." also after a receive that failed, a short poll
  that missed the messages, and while others are in flight.
- "Hard cap on any single retry delay", the README's words for `HTTP_RETRY_MAX_DELAY_MS`, does not bind an advised
  delay, which has a ceiling of its own, 60 s by default. The code comment says it is meant.
- `services/case.js:145-146` wants additional files labelled as the first one; each is labelled by its own event (`LabelsAreOwn`).
- The schema of the HTTP endpoint admits no `fileId`, which `createCaseWithOnlineSubmissionInCrm` requires: a valid request
  is answered 400. Its tests replace the service by a mock.

## 5. Proofs

`CaseProcessing_proofs` proves, for any messages, submissions, files and handlers,
any `Faulty`, `Malformed`, `MaxReceive` and `MaxReplays`, from the four named assumptions on the constants (types, and that `NoFile`,
`NoMessage` are not files, messages):

| Theorem | Property |
|---|---|
| `TypeCorrect` | `TypeOK` |
| `CaseInvariantHolds` | `CaseInv` |
| `NothingGoesBack` | no step takes back a creator, a `caseId`, a record or an announcement (`Grows`) |
| `RecordedCaseAlwaysExists`, `ProcessedFileAlwaysInCrm`, `NeverDuplicateRecords`, `MetadataAlwaysFollowsCase`, `CaseAlwaysHasCreatorsFile`, `RecordedCaseAlwaysAnnounced` | the record properties |
| `NeverSilentLoss` | `NoSilentLoss` |
| `ImplementsContract` | `KeepsContract` |
| `CaseCreatedOnce`, `CasesCreatedOnce` | `CaseProcessing` implements `CreateOnce` for each submission; `CaseIsCreatedOnce` |
| `HealthyInvariantHolds`, `HealthyDeliveriesSucceed` | `HealthyInv`; `HealthyDeliverySucceeds` |
| `ReceivesAreBounded`, `WorkIsCounted`, `WorkAlwaysRunsOut` | receives within `MaxReceive`; what is left is a bounded natural number; `WorkRunsOut` |

The record properties are not inductive: `RecordCaseId` preserves `RecordedCaseExists` only
because a handler at `updateCaseId` has a case behind it. `CaseInv` adds what each await
may rely on:
- `RightToWork`: a handler that creates works for the file named as creator; a handler
  that adds found the case recorded. This is why decisions do not go stale: `creatorFileId` is
  written once and `caseId` never taken back.
- `WorkDone`: what is in the CRM, and announced, at each step past a write.
- `LateRequestsAllowed`: a request left behind was sent by right, so it may land any time.

The argument: all state of a submission only grows (`Grows`), so what *other* handlers rely
on survives any step (`OthersKeepHandler`, `LateRequestsKept`); a handler's own step is a case
split over its actions (`HandlerStepKeeps`). `LossInv` adds that a handler deletes a
message only when it is settled, and is inductive together with `CaseInv`. The refinement uses `CaseInv` to show that an applied
changeset finds no case (`OpenCase`) and that applied metadata finds the case recorded
(`AttachFile`).

`CaseCreatedOnce` maps the files of a submission to the callers of `CreateOnce`: a file is told "created" when the document
records the case it made, "exists" when it is processed in another's. The step that needs `CaseInv` most is `MarkProcessed` of a
file that did not create: it must find a case, made by another. `HealthyInv` says that a
handler without failures never comes to `discard`, and comes to `ack` only with its file processed; it too stands on `CaseInv`, as a
conditional write that is suppressed leads on only because of what is behind it.

The measure of `WorkRunsOut` is lexicographic: replays left, then `MovesLeft` of each message (three for each receive it has left,
and its place on the queue), then `AwaitsLeft` of each handler (the awaits on the longest way to its end), then `inFlight`.
A late request may find a handler at `metadata` or `fallback` and save it an extra await, never cost it one: `AwaitsLeft`
counts the answer to a request that was not applied yet. A crash or a failure that leaves a request behind ends an await at the same time.

`HttpClient_proofs` proves, for any number of calls and any `MaxAttempts` and
`UnknownMaxAttempts` of at least one (`AttemptsAssumption`):

| Theorem | Property |
|---|---|
| `HttpInvariantHolds` | `HttpInv` |
| `HttpTypeCorrect` | `TypeOK` |
| `AttemptsAlwaysReported`, `ReportIsAlwaysOfThisCall`, `UnknownBudgetHolds` | `AttemptsAreReported`, `ReportIsOfThisCall`, `UnknownBudget` |
| `StepsAreCounted`, `StepsRunOut` | the steps a call has left are a bounded number, and run out |

A result is built from the retry state, which outlives each attempt, so the properties
need what that state is worth in between. `HttpInv` says it per call: while an attempt is
being made the state knows of the one before it (`lastAttempt = attempt - 1`, which is why the
fallback `lastAttempt + 1`, `http/client.js:161`, is right when the loop ends unasked), it stores no refusal
(a refusal ends the call in the same step), it tells of the last failure of this call (`Tells`), and no attempt beyond the budget for
unrecognised errors follows one of those (`WithinUnknownBudget`).
`StepsAreCounted` and `StepsRunOut` give each call at most `2 * Retries + 2` steps, of which every step of the client uses up one or
more of one call's and none of another's.

`TokenCache_proofs` proves, for any number of calls and instances, either way of authentication, any
lifetimes of any number of ticks, delays and skews, and however long the clock runs (`TokenAssumption`):

| Theorem | Property |
|---|---|
| `TokenInvariant` | `TokenInv` |
| `TokenTypeCorrect` | `TypeOK` |
| `ExpiryIsOwn` | `CachedExpiryIsOwn` |
| `CachedTokenStaleness` | `StalenessBounded` |

`CachedExpiryIsOwn` says nothing of documents on their way. `TokenInv` says of every document in a call's
hands what the property says of the stored one, and of a call that waits for its
answer that its token lasts at least `Lifetime` from when it was issued. `ReceivedOwn` is the step that matters: a lifetime counted from
the answer is late by delay and skew (`Issued`), one that is rounded by half a second at most (`Rounding`). A hit is then
within the slack by one comparison, which `StalenessBounded` states of the step that hands the token out.

`RetriedWrite_proofs` proves, for any number of calls, any attempts and any budgets
(`AttemptsAssumption`, `WriteAssumption`):

| Theorem | Property |
|---|---|
| `WriteInvariantHolds` | `WriteInv` |
| `WriteTypeCorrect` | `WriteTypeOK` |
| `RetriesImplementCreateOnce` | `ImplementsCreateOnce` |

A call's answer is given attempts after the record was made. `WriteInv` carries the truth from
one to the other: an answer that waits, or was given, is true of the record, and stays so because the
record, once there, remains that of the attempt that made it. It builds on `HttpInv`. With `ImplementsContract` this is an argument in
two steps: retried requests behave as one request made at most once, and `CaseProcessing`, whose writes
are such requests, keeps the contract. That its actions for a write (`ChangesetApplied`, `CaseCreated`, `LateRequest`, ...) are
`CreateOnce`'s is by comparing the two modules, not by a theorem; `CaseCreatedOnce` proves that all of them together are,
with files for callers.

`DeadLetterFlow_proofs` proves, for any events, announcements, handlers and operators, any
`MaxReceive`, batch and message limits and any number of interruptions (`FlowAssumption`: types; copies are not `Nothing`;
`Id` is finite, and large enough for every event to be on the queue at first):

| Theorem | Property |
|---|---|
| `FlowInvariantHolds` | `FlowInv` |
| `FlowTypeCorrect` | `TypeOK`, with the script's count within `MAX_MESSAGES` |
| `NothingIsEverLost` | `NothingLost` |
| `EveryCopyIsAnInterruption` | `CopiesAreInterruptions` |
| `CommandsAreCounted`, `ScriptRunsOut` | a run has at most `3 * MAX_MESSAGES + 3` commands left, and every step it takes leaves it fewer |

`NothingLost` is not inductive, as the carrier it speaks of may be the very message that is about to be deleted:
`KeptInv` asks for one that is not (`SentOn`). Counting carriers does not work either, since what a handler has
received counts once as a message and may yet become another one: after a crash the message is received again, and if the
handler still held it there would be two of them. `TokenInv` therefore counts *who may still make something of an item*: each holder
with work left on a copy (a handler that has not discarded it, an operator with it in the batch), and each message that is
visible or that nobody holds alone. A receive, a discard and a replay exchange one token for another; an acknowledgement
takes none; only an interruption adds one, also when it frees a whole batch at once (`AbandonedTokens`: each message of the batch
takes the place of its holder's token, and only the one sent back but not deleted is new). `HandsInv` (copies tell the truth about
messages, receipts of handlers are for the inbound queue and those of operators for the dead letters) makes deletions hit the message they are
meant for, and `ScriptInv` (the batch and the count together stay within `MAX_MESSAGES`) bounds the script: each message costs it three commands at most,
and nothing the consumer, the queues or another operator do gives it more.

`UnindexedCases_proofs` proves, for any messages, files and handlers, any number of documents, with `meets` either way
(`UnindexedAssumption` and the assumptions on events):

| Theorem | Property |
|---|---|
| `UnindexedInvariantHolds` | `UnindexedInv` |
| `UnindexedTypeCorrect` | `TypeOK` |
| `NoDuplicatesWithoutIndex`, `DocumentsAlwaysTellTheTruth`, `IndexAlwaysMeansOne` | `NoDuplicateRecords`, `DocumentsTellTheTruth`, `IndexedMeansOne` |
| `OneDocumentAlwaysKeepsContract` | `OneDocumentKeepsContract` |
| `IndexKeepsContract` | with the index, every step is one of `SubmissionContract` |
| `HandlersRunOut` | a handler goes through its awaits and never back |

`NoDuplicateRecords` of `Dataverse`, which both modules share, is checked in `case_safety`; without the index it is proved and has no run.
The invariant says of each step of a handler which records it has behind it. `CaseInv`'s `RightToWork` has no counterpart: without
the index two files may both be creators, and the truth of the documents rests on the CRM alone. While a submission has
one document it has a counterpart, `OrderInv`: the file in the document leads, and only a handler of the lead is at the writes that create; the others
follow once the case is recorded. It is stated under the condition that there is one document, now or after the step, and with it
each step is one of the contract. `IndexKeepsContract` follows by `IndexedMeansOne`, also for handlers that had searched before the index
was there: their insert fails. This is what lets `CaseProcessing` take a find and an insert for one step.

`CaseLabels_proofs` proves (`LabelAssumption`; any case types, document types and changes):

| Theorem | Property |
|---|---|
| `LabelSpecImplementsSpec` | `CaseLabels` implements `CaseProcessing` |
| `LabelInvariantHolds` | `TypeOK`, `CaseInv` and `LabelInv` |
| `CaseAlwaysAgreesWithCreator`, `LabelsNeverChange` | `CaseAgreesWithCreator`, `LabelsStay` |
| `LabelsAreAlwaysOwn` | `LabelsAreOwn` |
| `EveryRecordIsLabelled` | records have a type, and no type is without its record |

By the first theorem `CaseInv` may be used for the others. `LabelInv` adds that a handler at a write has resolved
a type of its own event (`TypeOf`) and that every request left behind carries one (`SentIsOwn`), which is why records have
their own however late they are written. A write finds no record, so it overwrites no label.

`RetryDelay_proofs` proves, for any delays, caps, jitter, timeouts, multiplier, advice and clocks within `MaxSkew` (`DelayAssumption`):

| Theorem | Property |
|---|---|
| `DelaySpecImplementsSpec` | the client with its delays implements `HttpClient` |
| `DelayInvariantHolds` | `DelayInv` |
| `DelayTypeCorrect`, `NeverRetriesIntoThrottling`, `CallIsAlwaysBounded` | `DelayTypeOK`, `NoRetryIntoThrottling`, `CallIsBounded` |
| `LongestCall` | a call lasts at most `(Retries + 1) * Timeout + Retries * Ceiling` |
| `BackoffAlwaysGrows` | `BackoffGrows`, if `JitterWithinGrowth` |

`JitterWithinGrowth` says that the jitter is not more than what the multiplier adds: `Divisor * (100 + JitterPercentage) <= 100 * Multiplier`, 115 to
150 for the defaults. It is needed: with 80 % of jitter TLC finds a second delay shorter than the first. Nothing in `config/retry.js`
enforces it, so a configuration can lose the property. The backoff is a power, defined as a recursive function; that it is defined at all, and
grows, is proved from the least number at which it would not (`LeastElement`), as induction theorems cannot be used here.
`DelayInv` keeps, for each call, where each delay came from, the time they add up to, and the end of the throttling that was advised last.
`LongestCall` needs in addition that a call never waits more often than the loop retries (`LoopInv`). With the defaults (3 attempts,
30 s, ceiling of 60 s) it comes to 210 s for one request, against a visibility timeout of 60 s for all that a message needs: a second delivery
while the first is at work is ordinary, which is why `Faulty` messages in `CaseProcessing` may be received again at any await.

Only model-checked:
- Liveness (`QueueDrains`, `HealthyFileIsProcessed`, `CallsEnd`, `ReplayEnds`, `EveryFileArrives`), since fairness and `ENABLED` are beyond
  the prover. What these rest on in single steps is proved: the work runs out (`WorkAlwaysRunsOut`, `StepsRunOut`, `ScriptRunsOut`, `HandlersRunOut`),
  and a delivery without failures cannot give up (`HealthyDeliveriesSucceed`). What is left to TLC is that a step is possible
  until the end is reached, and that fairness takes it.
- The batch parser (`AcceptedIsCommitted`, `CommittedIsAccepted`): it is recursion over the lines of a text (splitting, selecting, joining), so its
  proof would be induction over data. Its run covers every answer to the three parts that the code sends, so there is no larger
  instance it leaves out but other statuses.

## 6. Not modelled

- Audit events and the legacy poller: called by nothing, and both without state of their own.
- The HTTP endpoint: it is refused before it changes anything but the token cache (section 4).
- Schemas: pure; their verdict is the constant `Malformed`.
- Configuration, logging and tracing: values and observation. A log entry is state where it is
  the only trace of a message (`logged`).
- The rest of the server (health check, plugins, TLS): hapi's.
- That a call of `getCrmAuthToken` ends: `CaseProcessing` takes it so. The secret's request has a timeout; for federated
  credentials it rests on the AWS and MSAL libraries.
- A token that Entra ID revokes early: a 401 does not evict it, every request fails until it expires,
  and nothing is promised of it.
- A run of the script without `MAX_MESSAGES`: it need not end while the consumer returns what it replays.
- How the script's shell treats backslashes in a body (`echo` of a `/bin/sh`): bodies are JSON, whose
  escapes some shells would expand; it depends on the shell of the image, which is not in the repository.

One thing no document promises and no property states: when the creator is discarded after
its changeset was applied but before the event (the answer was a 5xx to the last attempt,
finding 2), the CRM holds a case that is neither announced nor recorded, until a replay.

## 7. Plan

Everything in section 2 is modelled, and everything the runs check is proved but what section 5 leaves to TLC. What could follow:

1. `CaseProcessing` with its write steps as instances of `CreateOnce`, one for each call of a write, in place of the comparison by eye
   in `RetriedWrite_proofs`' paragraph of section 5. It needs the calls that abandoned requests belong to, which `inFlight` does not keep.
2. The HTTP endpoint as a second caller of `createCase`, should its schema come to admit a `fileId` (section 4).
3. Document types without the unique index: `CaseLabels` over `UnindexedCases`, where two creators may have resolved different types.
