----------------------------- MODULE CaseLabels -----------------------------
(***************************************************************************)
(* The document types in the CRM: the one of a case's online submission,   *)
(* which routes the case, and the label of each file's metadata record.    *)
(* A handler looks its type up by the caseType of its own event, and       *)
(* writes it some awaits later; what Dataverse knows of types may change   *)
(* in between.                                                             *)
(*                                                                         *)
(* Adds the labels to CaseProcessing.                                      *)
(***************************************************************************)
EXTENDS CaseProcessing

CONSTANTS
  CaseType, DocumentType, NoType,
  DefaultCaseType,  \* 'Document Upload'
  Unnamed,
  NamedCaseType,  \* [Message -> CaseType or Unnamed] data.crm.caseType
  FirstTypes,  \* [CaseType -> DocumentType] rpa_documenttypeses, at first
  MaxChanges   \* bound on changes to it

ASSUME LabelAssumption ==
  /\ NoType \notin DocumentType
  /\ DefaultCaseType \in CaseType
  /\ NamedCaseType \in [Message -> CaseType \cup {Unnamed}]
  /\ FirstTypes \in [CaseType -> DocumentType]
  /\ MaxChanges \in Nat

VARIABLES
  types,     \* [CaseType -> DocumentType] rpa_documenttypeses
  assigned,  \* history: <<case type, document type>> that were ever assigned
  changes,   \* how often types has changed
  resolved,  \* [Handler -> DocumentType or NoType] documentTypeMetadata
  sent,      \* <<kind, message, type>>: what the abandoned requests carry
  caseType,  \* [Submission -> DocumentType or NoType] of the online submission
  label      \* [Submission -> [File -> DocumentType or NoType]] of the metadata

labelVars == <<types, assigned, changes, resolved, sent, caseType, label>>
allVars == <<vars, labelVars>>

LabelInit ==
  /\ Init
  /\ types = FirstTypes /\ changes = 0
  /\ assigned = {<<t, FirstTypes[t]>> : t \in CaseType}
  /\ resolved = [h \in Handler |-> NoType]
  /\ sent = {}
  /\ caseType = [c \in Submission |-> NoType]
  /\ label = [c \in Submission |-> [f \in File |-> NoType]]

-----------------------------------------------------------------------------
\* transformPayload: the crm object of an event, and its caseType, are optional.
CaseTypeOf(m) == IF NamedCaseType[m] = Unnamed THEN DefaultCaseType ELSE NamedCaseType[m]

\* The business assigns another document type to a case type.
ChangeTypes(t, d) ==
  /\ changes < MaxChanges /\ types[t] # d
  /\ types' = [types EXCEPT ![t] = d]
  /\ assigned' = assigned \cup {<<t, d>>}
  /\ changes' = changes + 1
  /\ UNCHANGED <<vars, resolved, sent, caseType, label>>

ResolveUnfiltered(h) ==  \* variant: the query has no $filter on the case type
  /\ ResolveDocumentType(h)
  /\ \E t \in CaseType :
       resolved' = [resolved EXCEPT ![h] = IF held'[h] = held[h] THEN types[t] ELSE NoType]
  /\ UNCHANGED <<types, assigned, changes, sent, caseType, label>>

\* getDocumentTypeMetadata, by the caseType that transformPayload took from the
\* event; nothing is kept from one handler to another.
Resolve(h) ==
  /\ ResolveDocumentType(h)
  /\ resolved' = [resolved EXCEPT ![h] = IF held'[h] = held[h] THEN types[CaseTypeOf(held[h])]
                                         ELSE NoType]
  /\ UNCHANGED <<types, assigned, changes, sent, caseType, label>>

LabelCase(c, f, d) ==
  /\ caseType' = [caseType EXCEPT ![c] = d]
  /\ label' = [label EXCEPT ![c][f] = d]

CreateCaseLookingAgain(h) ==  \* variant: the case's type is looked up on its own
  /\ ChangesetApplied(h)
  /\ caseType' = [caseType EXCEPT ![Sub(h)] = types[CaseTypeOf(held[h])]]
  /\ label' = [label EXCEPT ![Sub(h)][Fil(h)] = resolved[h]]
  /\ UNCHANGED <<types, assigned, changes, resolved, sent>>

\* buildCaseChangeset: the online submission and the metadata have one type.
CreateCase(h) ==
  /\ ChangesetApplied(h)
  /\ LabelCase(Sub(h), Fil(h), resolved[h])
  /\ UNCHANGED <<types, assigned, changes, resolved, sent>>

\* createMetadataForOnlineSubmission.
AddMetadata(h) ==
  /\ MetadataApplied(h)
  /\ label' = [label EXCEPT ![Sub(h)][Fil(h)] = resolved[h]]
  /\ UNCHANGED <<types, assigned, changes, resolved, sent, caseType>>

\* A request is abandoned with what it carries.
Abandon(h) ==
  /\ CaseFails(h) \/ MetadataFails(h) \/ Crash(h)
  /\ sent' = sent \cup {<<r[1], r[2], resolved[h]>> : r \in Outstanding(h)}
  /\ resolved' = [resolved EXCEPT ![h] = NoType]
  /\ UNCHANGED <<types, assigned, changes, caseType, label>>

\* Several attempts may have left a request each; one of them is applied.
ApplyLate(kind, m) ==
  /\ LateRequest(kind, m)
  /\ \E d \in DocumentType :
       /\ <<kind, m, d>> \in sent
       /\ IF kind = "case" THEN LabelCase(SubmissionOf[m], FileOf[m], d)
          ELSE /\ label' = [label EXCEPT ![SubmissionOf[m]][FileOf[m]] = d]
               /\ UNCHANGED caseType
  /\ sent' = {s \in sent : s[1] # kind \/ s[2] # m}
  /\ UNCHANGED <<types, assigned, changes, resolved>>

\* The handler lets go of its message.
Finish(h) ==
  /\ Upsert(h) \/ Acknowledge(h)
  /\ resolved' = [resolved EXCEPT ![h] = IF held'[h] = NoMessage THEN NoType ELSE @]
  /\ UNCHANGED <<types, assigned, changes, sent, caseType, label>>

\* The steps that have nothing to do with types.
OtherStep(h) ==
  /\ \/ \E m \in Message : Receive(h, m)
     \/ UpsertFails(h) \/ GetToken(h) \/ EnsureContactAndAccount(h) \/ FindActivity(h)
     \/ CaseCreated(h) \/ CaseSuppressed(h) \/ PublishCaseCreated(h) \/ RecordCaseId(h)
     \/ MetadataAnswered(h) \/ MarkProcessed(h) \/ SendToDlq(h)
  /\ UNCHANGED labelVars

LabelNext ==
  \/ \E t \in CaseType, d \in DocumentType : ChangeTypes(t, d)
  \/ \E h \in Handler :
       Resolve(h) \/ CreateCase(h) \/ AddMetadata(h) \/ Abandon(h) \/ Finish(h) \/ OtherStep(h)
  \/ \E kind \in {"case", "metadata"}, m \in Message : ApplyLate(kind, m)
  \/ \E m \in Message : (QueueStep(m) \/ Replay(m)) /\ UNCHANGED labelVars

LabelSpec == LabelInit /\ [][LabelNext]_allVars

-----------------------------------------------------------------------------
\* A case is routed by the type that its creator's file is labelled with: however
\* often the creation was attempted, with whatever types, the records of one
\* attempt make the case.
CaseAgreesWithCreator ==
  \A c \in Submission : HasIncident(c) => caseType[c] = label[c][creator[c]]

\* A file is labelled with a type that the case type of one of its own events had at
\* some time: whichever file made the case, whichever of its events was late or
\* abandoned, and whatever the types are now.
LabelsAreOwn ==
  \A c \in Submission, f \in File : HasMetadata(c, f) =>
    \E m \in Message : SubmissionOf[m] = c /\ FileOf[m] = f /\ <<CaseTypeOf(m), label[c][f]>> \in assigned

\* First write wins: no later attempt, which may have resolved another type or carry
\* another event of the file, changes the type of a case or a record.
LabelKept ==
  /\ \A c \in Submission : caseType[c] # NoType => caseType'[c] = caseType[c]
  /\ \A c \in Submission, f \in File : label[c][f] # NoType => label'[c][f] = label[c][f]

\* LabelKept is true of every step: creates (If-None-Match: *) never write over a type.
LabelsStay == [][LabelKept]_allVars
=============================================================================
