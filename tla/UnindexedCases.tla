--------------------------- MODULE UnindexedCases ---------------------------
(***************************************************************************)
(* The collection "cases" when its unique index may be missing: createIndex *)
(* only logs a failure, and the service starts all the same.  An upsert is *)
(* then two steps, a find and an insert, and a submission may get several  *)
(* documents, of which a read or an update meets one.                      *)
(*                                                                         *)
(* The handlers are those of CaseProcessing without their lookups and      *)
(* their failures: a message is redelivered, at any time and to any        *)
(* handler, until it is acknowledged, and a handler may crash.             *)
(***************************************************************************)
EXTENDS Dataverse, Sequences

CONSTANTS
  Handler,
  NoMessage,
  MaxCrashes  \* bound on crashes

ASSUME UnindexedAssumption == NoMessage \notin Message /\ MaxCrashes \in Nat

VARIABLES
  indexed,    \* whether the unique index on correlationId is there
  meets,      \* which of its documents a filter meets: "any", or the "oldest"
  documents,  \* [Submission -> Seq(Document)]
  pending,    \* messages not acknowledged
  pc, held,   \* [Handler -> Step], [Handler -> Message or NoMessage]
  crashes

handlerVars == <<pc, held>>
mongoVars == <<indexed, meets>>
vars == <<crmVars, mongoVars, documents, pending, handlerVars, crashes>>

Document == [creator : File, caseId : BOOLEAN, files : SUBSET File]
Step == {"idle", "find", "insert", "create", "fallback", "record", "metadata", "mark", "ack"}

TypeOK ==
  /\ CrmTypeOK
  /\ indexed \in BOOLEAN /\ meets \in {"any", "oldest"}
  /\ documents \in [Submission -> Seq(Document)]
  /\ pending \subseteq Message
  /\ pc \in [Handler -> Step]
  /\ held \in [Handler -> Message \cup {NoMessage}]
  /\ \A h \in Handler : pc[h] = "idle" <=> held[h] = NoMessage
  /\ crashes \in 0..MaxCrashes

Init ==
  /\ CrmInit
  /\ indexed \in BOOLEAN /\ meets \in {"any", "oldest"}
  /\ documents = [c \in Submission |-> <<>>]
  /\ pending = Message
  /\ pc = [h \in Handler |-> "idle"]
  /\ held = [h \in Handler |-> NoMessage]
  /\ crashes = 0

-----------------------------------------------------------------------------
Sub(h) == SubmissionOf[held[h]]
Fil(h) == FileOf[held[h]]
At(h, step) == pc[h] = step
Goto(h, step) == pc' = [pc EXCEPT ![h] = step] /\ UNCHANGED held
Leave(h) == pc' = [pc EXCEPT ![h] = "idle"] /\ held' = [held EXCEPT ![h] = NoMessage]

\* The documents that a filter on correlationId c may meet.
Found(c) == IF meets = "any" THEN DOMAIN documents[c] ELSE DOMAIN documents[c] \cap {1}

\* A replica starts: the index is created unless documents break it already.
CreateIndex ==
  /\ ~indexed
  /\ \A c \in Submission : Len(documents[c]) <= 1
  /\ indexed' = TRUE
  /\ UNCHANGED <<crmVars, meets, documents, pending, handlerVars, crashes>>

Receive(h, m) ==
  /\ At(h, "idle") /\ m \in pending
  /\ pc' = [pc EXCEPT ![h] = "find"]
  /\ held' = [held EXCEPT ![h] = m]
  /\ UNCHANGED <<crmVars, mongoVars, documents, pending, crashes>>

DecideOnlyNewCreates(h, document) ==  \* variant: a redelivered creator does not resume
  \/ Fil(h) \in document.files /\ Goto(h, "ack")
  \/ Fil(h) \notin document.files /\ document.caseId /\ Goto(h, "metadata")
  \/ Fil(h) \notin document.files /\ ~document.caseId /\ Leave(h)

DecideWithoutWait(h, document) ==  \* variant: a sibling does not wait for the case
  \/ Fil(h) \in document.files /\ Goto(h, "ack")
  \/ Fil(h) \notin document.files
     /\ Goto(h, IF document.creator = Fil(h) /\ ~document.caseId THEN "create" ELSE "metadata")

\* prepareCase, with a document that was there before.
Decide(h, document) ==
  \/ Fil(h) \in document.files /\ Goto(h, "ack")
  \/ Fil(h) \notin document.files /\ document.caseId /\ Goto(h, "metadata")
  \/ /\ Fil(h) \notin document.files /\ ~document.caseId
     /\ IF document.creator = Fil(h) THEN Goto(h, "create") ELSE Leave(h)

\* upsertCase, its first half: the filter meets a document, or it meets none.
Find(h) ==
  /\ At(h, "find")
  /\ IF documents[Sub(h)] = <<>> THEN Goto(h, "insert")
     ELSE \E i \in Found(Sub(h)) : Decide(h, documents[Sub(h)][i])
  /\ UNCHANGED <<crmVars, mongoVars, documents, pending, crashes>>

InsertNotUnique(h) ==  \* variant: the index is not created as unique
  /\ At(h, "insert")
  /\ documents' = [documents EXCEPT ![Sub(h)] =
                     Append(@, [creator |-> Fil(h), caseId |-> FALSE, files |-> {}])]
  /\ Goto(h, "create")
  /\ UNCHANGED <<crmVars, mongoVars, pending, crashes>>

\* Its second half: $setOnInsert, for which null is returned.  On a duplicate key
\* MongoDB takes the filter's document after all.
Insert(h) ==
  /\ At(h, "insert")
  /\ IF indexed /\ documents[Sub(h)] # <<>>
     THEN Goto(h, "find") /\ UNCHANGED documents
     ELSE /\ documents' = [documents EXCEPT ![Sub(h)] =
                             Append(@, [creator |-> Fil(h), caseId |-> FALSE, files |-> {}])]
          /\ Goto(h, "create")
  /\ UNCHANGED <<crmVars, mongoVars, pending, crashes>>

CreateUnchecked(h) ==  \* variant: the answer of the changeset is not looked at
  /\ At(h, "create")
  /\ ApplyChangeset(Sub(h), Fil(h)) \/ UNCHANGED crmVars
  /\ Goto(h, "record")
  /\ UNCHANGED <<mongoVars, documents, pending, crashes>>

\* The changeset, or its 412 and the fallback.
Create(h) ==
  /\ At(h, "create")
  /\ \/ ApplyChangeset(Sub(h), Fil(h)) /\ Goto(h, "record")
     \/ ChangesetConflicts(Sub(h), Fil(h)) /\ Goto(h, "fallback") /\ UNCHANGED crmVars
  /\ UNCHANGED <<mongoVars, documents, pending, crashes>>

\* createMetadataForOnlineSubmission: 204, or 412 for a record that is there.
WriteMetadata(h) ==
  /\ At(h, "metadata") \/ At(h, "fallback")
  /\ ApplyMetadata(Sub(h), Fil(h)) \/ (HasMetadata(Sub(h), Fil(h)) /\ UNCHANGED crmVars)
  /\ Goto(h, IF At(h, "fallback") THEN "record" ELSE "mark")
  /\ UNCHANGED <<mongoVars, documents, pending, crashes>>

\* updateOne: on one of the documents that its filter meets.
UpdateCaseId(h) ==
  /\ At(h, "record")
  /\ \E i \in Found(Sub(h)) : documents' = [documents EXCEPT ![Sub(h)][i].caseId = TRUE]
  /\ Goto(h, "mark")
  /\ UNCHANGED <<crmVars, mongoVars, pending, crashes>>

MarkFileProcessed(h) ==
  /\ At(h, "mark")
  /\ \E i \in Found(Sub(h)) :
       documents' = [documents EXCEPT ![Sub(h)][i].files = @ \cup {Fil(h)}]
  /\ Goto(h, "ack")
  /\ UNCHANGED <<crmVars, mongoVars, pending, crashes>>

\* sqs-consumer deletes the message that handleMessage returned.
Acknowledge(h) ==
  /\ At(h, "ack")
  /\ pending' = pending \ {held[h]}
  /\ Leave(h)
  /\ UNCHANGED <<crmVars, mongoVars, documents, crashes>>

Crash(h) ==
  /\ ~At(h, "idle") /\ crashes < MaxCrashes
  /\ Leave(h)
  /\ crashes' = crashes + 1
  /\ UNCHANGED <<crmVars, mongoVars, documents, pending>>

Advance(h) ==
  \/ Find(h) \/ Insert(h) \/ Create(h) \/ WriteMetadata(h)
  \/ UpdateCaseId(h) \/ MarkFileProcessed(h) \/ Acknowledge(h)

Next ==
  \/ CreateIndex
  \/ \E h \in Handler, m \in Message : Receive(h, m)
  \/ \E h \in Handler : Advance(h) \/ Crash(h)

Spec == Init /\ [][Next]_vars

\* Awaits settle, and SQS gives every message out again and again until it is
\* deleted.  Nothing is assumed of the index.
FairSpec ==
  /\ Spec
  /\ \A h \in Handler : WF_vars(Advance(h))
  /\ \A m \in Message : SF_vars(\E h \in Handler : Receive(h, m))

-----------------------------------------------------------------------------
\* The derived keys alone keep the CRM free of duplicates: it does not need the
\* index, however many documents a submission has and whichever one is met.
NoDuplicateRecords ==
  \A c \in Submission : incidents[c] <= 1 /\ \A f \in File : metadata[c][f] <= 1

\* Whichever document says that the case is recorded or the file processed, and so
\* makes createCase skip the creation or the file, the CRM has the records.
DocumentsTellTheTruth ==
  \A c \in Submission : \A i \in DOMAIN documents[c] :
    LET document == documents[c][i] IN
    /\ document.caseId => HasIncident(c)
    /\ \A f \in document.files : HasIncident(c) /\ HasMetadata(c, f)

\* With the index, whenever it came to be created and whatever upsert was between
\* its halves then, a submission has one document.
IndexedMeansOne == indexed => \A c \in Submission : Len(documents[c]) <= 1

\* What the CRM and the documents together hold of the contract's records.
Contract == INSTANCE SubmissionContract WITH
  cases    <- {c \in Submission : HasIncident(c)},
  attached <- {p \in Submission \X File : metadata[p[1]][p[2]] > 0},
  recorded <- {c \in Submission : \E i \in DOMAIN documents[c] : documents[c][i].caseId},
  done     <- {p \in Submission \X File :
                 \E i \in DOMAIN documents[p[1]] : p[2] \in documents[p[1]][i].files}

\* What the index is for: as long as no submission has a second document, only the
\* file that inserted the document goes before the case is recorded, and the others
\* follow it, with the index or without.
OneDocumentKeepsContract ==
  [][(\A c \in Submission : Len(documents'[c]) <= 1)
       => [Contract!ContractNext]_(Contract!cvars)]_vars

\* While a filter keeps meeting the oldest document, every file of a submission gets
\* its record in the CRM, with or without the index: no file waits for ever on a
\* document whose caseId went into another one.
EveryFileArrives ==
  meets = "oldest" =>
    \A m \in Message : <>(HasIncident(SubmissionOf[m]) /\ HasMetadata(SubmissionOf[m], FileOf[m]))
=============================================================================
