------------------------ MODULE UnindexedCases_proofs ------------------------
(***************************************************************************)
(* What the derived keys guarantee although the unique index of the        *)
(* collection may be missing, for any submissions, files, messages,        *)
(* handlers and crashes, and any number of documents of a submission.      *)
(***************************************************************************)
EXTENDS UnindexedCases, SequenceTheorems, TLAPS

\* A metadata record always has its case.
MetadataHasCase ==
  \A c \in Submission, f \in File : HasMetadata(c, f) => HasIncident(c)

\* What a handler past the document or the changeset has in the CRM.
HandlerRelies(h) ==
  /\ pc[h] \in {"fallback", "record", "metadata", "mark"} => HasIncident(Sub(h))
  /\ pc[h] \in {"record", "mark"} => HasMetadata(Sub(h), Fil(h))

CrmInv == CrmTypeOK /\ NoDuplicateRecords /\ MetadataHasCase

UnindexedInv ==
  /\ TypeOK
  /\ CrmInv
  /\ DocumentsTellTheTruth /\ IndexedMeansOne
  /\ \A h \in Handler : HandlerRelies(h)

-----------------------------------------------------------------------------
(* The parts of a step: the handler, the CRM and the documents. *)

\* A handler that holds a message works on a submission and a file.
LEMMA HeldTyped ==
  ASSUME TypeOK, NEW h \in Handler, pc[h] # "idle"
  PROVE  /\ held[h] \in Message /\ held[h] # NoMessage
         /\ Sub(h) \in Submission /\ Fil(h) \in File
BY EventAssumption DEF TypeOK, Sub, Fil

\* What a step does to the handler h alone.
Moves(h) ==
  \/ UNCHANGED handlerVars
  \/ pc[h] # "idle" /\ Leave(h)
  \/ pc[h] # "idle" /\ \E step \in Step \ {"idle"} : Goto(h, step)

\* A step of h leaves the other handlers alone, and the handlers keep their types.
LEMMA MovesTyped ==
  ASSUME TypeOK, NEW h \in Handler, Moves(h)
  PROVE  /\ pc' \in [Handler -> Step]
         /\ held' \in [Handler -> Message \cup {NoMessage}]
         /\ \A g \in Handler : pc'[g] = "idle" <=> held'[g] = NoMessage
         /\ \A g \in Handler \ {h} : pc'[g] = pc[g] /\ held'[g] = held[g]
<1>0. /\ pc \in [Handler -> Step] /\ held \in [Handler -> Message \cup {NoMessage}]
      /\ \A g \in Handler : pc[g] = "idle" <=> held[g] = NoMessage
  BY DEF TypeOK
<1>1. CASE UNCHANGED handlerVars BY <1>0, <1>1 DEF handlerVars
<1>2. CASE Leave(h)
  <2>1. "idle" \in Step BY DEF Step
  <2> QED BY <1>0, <1>2, <2>1 DEF Leave
<1>3. CASE pc[h] # "idle" /\ \E step \in Step \ {"idle"} : Goto(h, step)
  <2>1. PICK step \in Step \ {"idle"} : Goto(h, step) BY <1>3
  <2>2. pc' = [pc EXCEPT ![h] = step] /\ held' = held /\ held[h] # NoMessage
    BY <1>0, <1>3, <2>1 DEF Goto
  <2> QED BY <1>0, <2>2
<1> QED BY <1>1, <1>2, <1>3 DEF Moves

\* Records stay in the CRM.
CrmGrows ==
  /\ \A c \in Submission : HasIncident(c) => HasIncident(c)'
  /\ \A c \in Submission, f \in File : HasMetadata(c, f) => HasMetadata(c, f)'

\* The changeset's keys are those of the case and of the file, so what Dataverse
\* applies is the first of its kind.
LEMMA ChangesetKeeps ==
  ASSUME CrmInv, NEW c \in Submission, NEW f \in File, ApplyChangeset(c, f)
  PROVE  CrmInv' /\ CrmGrows /\ HasIncident(c)' /\ HasMetadata(c, f)'
BY DEF CrmInv, CrmTypeOK, NoDuplicateRecords, MetadataHasCase, CrmGrows, ApplyChangeset,
       ChangesetConflicts, HasIncident, HasMetadata

\* A metadata record of a submission that has its case.
LEMMA MetadataKeeps ==
  ASSUME CrmInv, NEW c \in Submission, NEW f \in File, HasIncident(c), ApplyMetadata(c, f)
  PROVE  CrmInv' /\ CrmGrows /\ HasMetadata(c, f)'
BY DEF CrmInv, CrmTypeOK, NoDuplicateRecords, MetadataHasCase, CrmGrows, ApplyMetadata,
       HasIncident, HasMetadata

\* A step that leaves the CRM alone.
LEMMA CrmUnchanged ==
  ASSUME CrmInv, UNCHANGED crmVars
  PROVE  CrmInv' /\ CrmGrows
BY DEF CrmInv, CrmTypeOK, NoDuplicateRecords, MetadataHasCase, CrmGrows, crmVars,
       HasIncident, HasMetadata

\* Whatever a handler that does not move relies on stays in the CRM.
LEMMA OthersRely ==
  ASSUME TypeOK, NEW g \in Handler, HandlerRelies(g), CrmGrows,
         pc'[g] = pc[g], held'[g] = held[g]
  PROVE  HandlerRelies(g)'
<1>1. CASE pc[g] = "idle" BY <1>1 DEF HandlerRelies
<1>2. CASE pc[g] # "idle"
  <2>1. Sub(g) \in Submission /\ Fil(g) \in File BY <1>2, HeldTyped
  <2>2. Sub(g)' = Sub(g) /\ Fil(g)' = Fil(g) BY DEF Sub, Fil
  <2>3. HasIncident(Sub(g)) => HasIncident(Sub(g))'
    BY <2>1, <2>2 DEF CrmGrows, HasIncident
  <2>4. HasMetadata(Sub(g), Fil(g)) => HasMetadata(Sub(g), Fil(g))'
    BY <2>1, <2>2 DEF CrmGrows, HasMetadata
  <2> QED BY <2>3, <2>4 DEF HandlerRelies
<1> QED BY <1>1, <1>2

\* What a document may say of the CRM.
Truthful(c, document) ==
  /\ document.caseId => HasIncident(c)
  /\ \A f \in document.files : HasIncident(c) /\ HasMetadata(c, f)

\* What is true of the CRM stays true.
LEMMA TruthStays ==
  ASSUME CrmGrows, NEW c \in Submission, NEW d \in Document, Truthful(c, d)
  PROVE  Truthful(c, d)'
BY DEF CrmGrows, Truthful, Document, HasIncident, HasMetadata

\* The documents stay as they are.
LEMMA DocumentsUnchanged ==
  ASSUME TypeOK, DocumentsTellTheTruth, CrmGrows, UNCHANGED documents
  PROVE  DocumentsTellTheTruth'
<1>1. ASSUME NEW c \in Submission, NEW i \in DOMAIN documents[c]
      PROVE  documents[c][i] \in Document /\ Truthful(c, documents[c][i])
  BY <1>1, ElementOfSeq, LenProperties DEF TypeOK, DocumentsTellTheTruth, Truthful
<1> QED BY <1>1, TruthStays DEF DocumentsTellTheTruth, Truthful

\* updateOne changes one document of the submission and no length.
LEMMA DocumentUpdated ==
  ASSUME TypeOK, NEW c \in Submission, NEW i \in DOMAIN documents[c], NEW d \in Document,
         documents' = [documents EXCEPT ![c] = [@ EXCEPT ![i] = d]]
  PROVE  /\ documents' \in [Submission -> Seq(Document)]
         /\ \A s \in Submission : Len(documents'[s]) = Len(documents[s])
         /\ DocumentsTellTheTruth /\ CrmGrows /\ Truthful(c, d)' => DocumentsTellTheTruth'
<1>1. documents[c] \in Seq(Document) /\ i \in 1..Len(documents[c])
  BY LenProperties DEF TypeOK
<1> DEFINE updated == [documents[c] EXCEPT ![i] = d]
<1>2. /\ updated \in Seq(Document) /\ Len(updated) = Len(documents[c])
      /\ \A j \in 1..Len(documents[c]) : updated[j] = IF j = i THEN d ELSE documents[c][j]
  BY <1>1, ExceptSeq
<1>3. documents'[c] = updated /\ \A s \in Submission \ {c} : documents'[s] = documents[s]
  BY DEF TypeOK
<1>4. documents' \in [Submission -> Seq(Document)] BY <1>2 DEF TypeOK
<1>5. \A s \in Submission : Len(documents'[s]) = Len(documents[s]) BY <1>2, <1>3
<1>6. ASSUME DocumentsTellTheTruth, CrmGrows, Truthful(c, d)',
             NEW s \in Submission, NEW j \in DOMAIN documents'[s]
      PROVE  Truthful(s, documents[s][j])'
  <2>1. documents'[s] \in Seq(Document) /\ documents[s] \in Seq(Document) BY <1>4 DEF TypeOK
  <2>2. j \in 1..Len(documents[s]) BY <1>5, <1>6, <2>1, LenProperties
  <2>3. CASE s = c /\ j = i BY <1>2, <1>3, <1>6, <2>2, <2>3
  <2>4. CASE ~(s = c /\ j = i)
    <3>1. documents'[s][j] = documents[s][j] BY <1>2, <1>3, <2>2, <2>4
    <3>2. documents[s][j] \in Document /\ Truthful(s, documents[s][j])
      BY <1>6, <2>1, <2>2, ElementOfSeq, LenProperties DEF DocumentsTellTheTruth, Truthful
    <3> QED BY <1>6, <3>1, <3>2, TruthStays
  <2> QED BY <2>3, <2>4
<1> QED BY <1>4, <1>5, <1>6 DEF DocumentsTellTheTruth, Truthful

\* An insert adds a document that says nothing yet.
LEMMA DocumentInserted ==
  ASSUME TypeOK, NEW c \in Submission, NEW d \in Document, ~d.caseId, d.files = {},
         documents' = [documents EXCEPT ![c] = Append(@, d)]
  PROVE  /\ documents' \in [Submission -> Seq(Document)]
         /\ Len(documents'[c]) = Len(documents[c]) + 1
         /\ \A s \in Submission \ {c} : documents'[s] = documents[s]
         /\ DocumentsTellTheTruth /\ CrmGrows => DocumentsTellTheTruth'
<1>1. documents[c] \in Seq(Document) BY DEF TypeOK
<1> DEFINE longer == Append(documents[c], d)
<1>2. /\ longer \in Seq(Document) /\ Len(longer) = Len(documents[c]) + 1
      /\ \A j \in 1..Len(documents[c]) : longer[j] = documents[c][j]
      /\ longer[Len(documents[c]) + 1] = d
  BY <1>1, AppendProperties
<1>3. documents'[c] = longer /\ \A s \in Submission \ {c} : documents'[s] = documents[s]
  BY DEF TypeOK
<1>4. documents' \in [Submission -> Seq(Document)] BY <1>2 DEF TypeOK
<1>5. ASSUME DocumentsTellTheTruth, CrmGrows, NEW s \in Submission, NEW j \in DOMAIN documents'[s]
      PROVE  Truthful(s, documents[s][j])'
  <2>1. documents'[s] \in Seq(Document) /\ documents[s] \in Seq(Document) BY <1>4 DEF TypeOK
  <2>2. j \in 1..Len(documents'[s]) /\ Len(documents[s]) \in Nat BY <2>1, LenProperties
  <2>3. CASE s = c /\ j = Len(documents[c]) + 1
    <3>1. documents'[s][j] = d BY <1>2, <1>3, <2>3
    <3> QED BY <3>1 DEF Truthful
  <2>4. CASE ~(s = c /\ j = Len(documents[c]) + 1)
    <3>1. j \in 1..Len(documents[s]) /\ documents'[s][j] = documents[s][j]
      BY <1>2, <1>3, <2>2, <2>4
    <3>2. documents[s][j] \in Document /\ Truthful(s, documents[s][j])
      BY <1>5, <2>1, <3>1, ElementOfSeq, LenProperties DEF DocumentsTellTheTruth, Truthful
    <3> QED BY <1>5, <3>1, <3>2, TruthStays
  <2> QED BY <2>3, <2>4
<1> QED BY <1>2, <1>3, <1>4, <1>5 DEF DocumentsTellTheTruth, Truthful

-----------------------------------------------------------------------------
(* Every action keeps the invariant. *)

\* A step that leaves the documents alone: it keeps the invariant if it keeps that
\* of the CRM and what its own handler relies on.
LEMMA StepWithoutDocuments ==
  ASSUME UnindexedInv, NEW h \in Handler, Moves(h), CrmInv', CrmGrows, HandlerRelies(h)',
         UNCHANGED <<mongoVars, documents>>, pending' \subseteq pending, crashes' \in 0..MaxCrashes
  PROVE  UnindexedInv'
<1>1. TypeOK' /\ \A g \in Handler \ {h} : pc'[g] = pc[g] /\ held'[g] = held[g]
  BY MovesTyped DEF UnindexedInv, TypeOK, mongoVars, CrmInv
<1>2. DocumentsTellTheTruth' BY DocumentsUnchanged DEF UnindexedInv
<1>3. IndexedMeansOne' BY DEF UnindexedInv, IndexedMeansOne, mongoVars
<1>4. \A g \in Handler : HandlerRelies(g)' BY <1>1, OthersRely DEF UnindexedInv
<1> QED BY <1>1, <1>2, <1>3, <1>4 DEF UnindexedInv

\* A step of h that writes to the documents but not to the CRM.
LEMMA StepWithDocuments ==
  ASSUME UnindexedInv, NEW h \in Handler, Moves(h), HandlerRelies(h)',
         documents' \in [Submission -> Seq(Document)],
         DocumentsTellTheTruth', IndexedMeansOne',
         UNCHANGED <<crmVars, mongoVars, pending, crashes>>
  PROVE  UnindexedInv'
<1>1. CrmInv' /\ CrmGrows BY CrmUnchanged DEF UnindexedInv
<1>2. TypeOK' /\ \A g \in Handler \ {h} : pc'[g] = pc[g] /\ held'[g] = held[g]
  BY <1>1, MovesTyped DEF UnindexedInv, TypeOK, mongoVars, CrmInv
<1>3. \A g \in Handler : HandlerRelies(g)' BY <1>1, <1>2, OthersRely DEF UnindexedInv
<1> QED BY <1>1, <1>2, <1>3 DEF UnindexedInv

\* A handler that waits, is idle, or goes to a step that needs nothing in the CRM.
LEMMA RelyOnNothing ==
  ASSUME NEW h \in Handler, pc'[h] \in {"idle", "find", "insert", "create", "ack"}
  PROVE  HandlerRelies(h)'
BY DEF HandlerRelies

\* Where Goto and Leave take a handler.
LEMMA Arrives ==
  ASSUME TypeOK, NEW h \in Handler, pc[h] # "idle"
  PROVE  /\ \A step \in Step \ {"idle"} :
              Goto(h, step) => Moves(h) /\ pc'[h] = step /\ Sub(h)' = Sub(h) /\ Fil(h)' = Fil(h)
         /\ Leave(h) => Moves(h) /\ pc'[h] = "idle"
BY DEF TypeOK, Moves, Goto, Leave, Sub, Fil

\* The document that a filter meets tells the truth of its submission.
LEMMA FoundIsTruthful ==
  ASSUME UnindexedInv, NEW c \in Submission, NEW i \in Found(c)
  PROVE  /\ i \in DOMAIN documents[c] /\ documents[c][i] \in Document
         /\ Truthful(c, documents[c][i])
<1>1. i \in DOMAIN documents[c] BY DEF Found
<1>2. documents[c] \in Seq(Document) BY DEF UnindexedInv, TypeOK
<1> QED BY <1>1, <1>2, ElementOfSeq, LenProperties DEF UnindexedInv, DocumentsTellTheTruth, Truthful

\* upsertCase finds a document, and prepareCase relies on what it says.
LEMMA FindKeeps == ASSUME UnindexedInv, NEW h \in Handler, Find(h) PROVE UnindexedInv'
<1>0. TypeOK /\ pc[h] = "find" BY DEF UnindexedInv, Find, At
<1>1. Sub(h) \in Submission /\ Fil(h) \in File BY <1>0, HeldTyped
<1>2. CrmInv' /\ CrmGrows BY CrmUnchanged DEF UnindexedInv, Find
<1>3. CASE Goto(h, "insert") \/ Leave(h) \/ Goto(h, "ack") \/ Goto(h, "create")
  <2>1. Moves(h) /\ HandlerRelies(h)' BY <1>0, <1>3, Arrives, RelyOnNothing DEF Step
  <2> QED BY <1>0, <1>2, <2>1, StepWithoutDocuments DEF Find, TypeOK
<1>4. CASE Goto(h, "metadata") /\ \E i \in Found(Sub(h)) : documents[Sub(h)][i].caseId
  <2>1. HasIncident(Sub(h)) BY <1>1, <1>4, FoundIsTruthful DEF Truthful
  <2>2. Moves(h) /\ pc'[h] = "metadata" /\ Sub(h)' = Sub(h) BY <1>0, <1>4, Arrives DEF Step
  <2>3. HandlerRelies(h)' BY <2>1, <2>2 DEF HandlerRelies, HasIncident, Find, crmVars
  <2> QED BY <1>0, <1>2, <2>2, <2>3, StepWithoutDocuments DEF Find, TypeOK
<1> QED BY <1>3, <1>4 DEF Find, Decide

\* The insert makes a second document only while there is no index.
LEMMA InsertKeeps == ASSUME UnindexedInv, NEW h \in Handler, Insert(h) PROVE UnindexedInv'
<1>0. TypeOK /\ pc[h] = "insert" BY DEF UnindexedInv, Insert, At
<1>1. Sub(h) \in Submission /\ Fil(h) \in File BY <1>0, HeldTyped
<1>2. CrmInv' /\ CrmGrows BY CrmUnchanged DEF UnindexedInv, Insert
<1>3. Moves(h) /\ HandlerRelies(h)' BY <1>0, Arrives, RelyOnNothing DEF Insert, Step
<1>4. CASE indexed /\ documents[Sub(h)] # <<>>
  BY <1>0, <1>2, <1>3, <1>4, StepWithoutDocuments DEF Insert, TypeOK
<1>5. CASE ~(indexed /\ documents[Sub(h)] # <<>>)
  <2> DEFINE d == [creator |-> Fil(h), caseId |-> FALSE, files |-> {}]
  <2>1. d \in Document /\ ~d.caseId /\ d.files = {} BY <1>1 DEF Document
  <2>2. documents' = [documents EXCEPT ![Sub(h)] = Append(@, d)] BY <1>5 DEF Insert
  <2>3. /\ documents' \in [Submission -> Seq(Document)]
        /\ Len(documents'[Sub(h)]) = Len(documents[Sub(h)]) + 1
        /\ \A s \in Submission \ {Sub(h)} : documents'[s] = documents[s]
        /\ DocumentsTellTheTruth'
    BY <1>0, <1>1, <1>2, <2>1, <2>2, DocumentInserted DEF UnindexedInv
  <2>4. IndexedMeansOne'
    <3>1. indexed => Len(documents[Sub(h)]) = 0 BY <1>5
    <3> QED BY <2>3, <3>1 DEF UnindexedInv, IndexedMeansOne, Insert, mongoVars
  <2> QED BY <1>3, <2>3, <2>4, StepWithDocuments DEF Insert
<1> QED BY <1>4, <1>5

\* The changeset is applied, or refused because the submission has its case.
LEMMA CreateKeeps == ASSUME UnindexedInv, NEW h \in Handler, Create(h) PROVE UnindexedInv'
<1>0. TypeOK /\ CrmInv /\ pc[h] = "create" BY DEF UnindexedInv, Create, At
<1>1. Sub(h) \in Submission /\ Fil(h) \in File BY <1>0, HeldTyped
<1>2. CASE ApplyChangeset(Sub(h), Fil(h)) /\ Goto(h, "record")
  <2>1. CrmInv' /\ CrmGrows /\ incidents'[Sub(h)] > 0 /\ metadata'[Sub(h)][Fil(h)] > 0
    BY <1>0, <1>1, <1>2, ChangesetKeeps DEF HasIncident, HasMetadata
  <2>2. Moves(h) /\ Sub(h)' = Sub(h) /\ Fil(h)' = Fil(h) BY <1>0, <1>2, Arrives DEF Step
  <2>3. HandlerRelies(h)' BY <2>1, <2>2 DEF HandlerRelies, HasIncident, HasMetadata
  <2> QED BY <1>0, <2>1, <2>2, <2>3, StepWithoutDocuments DEF Create, TypeOK
<1>3. CASE ChangesetConflicts(Sub(h), Fil(h)) /\ Goto(h, "fallback") /\ UNCHANGED crmVars
  <2>1. CrmInv' /\ CrmGrows BY <1>0, <1>3, CrmUnchanged
  <2>2. HasIncident(Sub(h))
    BY <1>0, <1>1, <1>3 DEF ChangesetConflicts, CrmInv, MetadataHasCase
  <2>3. Moves(h) /\ pc'[h] = "fallback" /\ Sub(h)' = Sub(h) BY <1>0, <1>3, Arrives DEF Step
  <2>4. HandlerRelies(h)' BY <1>3, <2>2, <2>3 DEF HandlerRelies, HasIncident, crmVars
  <2> QED BY <1>0, <2>1, <2>3, <2>4, StepWithoutDocuments DEF Create, TypeOK
<1> QED BY <1>2, <1>3 DEF Create

\* A metadata record is written, or found, for a submission that has its case.
LEMMA WriteMetadataKeeps ==
  ASSUME UnindexedInv, NEW h \in Handler, WriteMetadata(h) PROVE UnindexedInv'
<1>0. TypeOK /\ CrmInv /\ pc[h] \in {"metadata", "fallback"} /\ HandlerRelies(h)
  BY DEF UnindexedInv, WriteMetadata, At
<1>1. Sub(h) \in Submission /\ Fil(h) \in File BY <1>0, HeldTyped
<1>2. HasIncident(Sub(h)) BY <1>0 DEF HandlerRelies
<1>3. CrmInv' /\ CrmGrows /\ incidents'[Sub(h)] > 0 /\ metadata'[Sub(h)][Fil(h)] > 0
  <2>1. CASE ApplyMetadata(Sub(h), Fil(h))
    BY <1>0, <1>1, <1>2, <2>1, MetadataKeeps DEF ApplyMetadata, HasIncident, HasMetadata
  <2>2. CASE HasMetadata(Sub(h), Fil(h)) /\ UNCHANGED crmVars
    BY <1>0, <1>2, <2>2, CrmUnchanged DEF HasIncident, HasMetadata, crmVars
  <2> QED BY <2>1, <2>2 DEF WriteMetadata
<1>4. Moves(h) /\ Sub(h)' = Sub(h) /\ Fil(h)' = Fil(h)
  BY <1>0, Arrives DEF WriteMetadata, Step
<1>5. HandlerRelies(h)' BY <1>3, <1>4 DEF HandlerRelies, HasIncident, HasMetadata
<1> QED BY <1>0, <1>3, <1>4, <1>5, StepWithoutDocuments DEF WriteMetadata, TypeOK

\* The two updates write what their handler has in the CRM, to whichever document.
LEMMA UpdateKeeps ==
  ASSUME UnindexedInv, NEW h \in Handler, pc[h] \in {"record", "mark"},
         NEW i \in Found(Sub(h)), NEW d \in Document, Truthful(Sub(h), d),
         documents' = [documents EXCEPT ![Sub(h)] = [@ EXCEPT ![i] = d]],
         NEW step \in {"mark", "ack"}, Goto(h, step), step = "mark" => pc[h] = "record",
         UNCHANGED <<crmVars, mongoVars, pending, crashes>>
  PROVE  UnindexedInv'
<1>0. TypeOK /\ HandlerRelies(h) BY DEF UnindexedInv
<1>1. Sub(h) \in Submission /\ Fil(h) \in File BY <1>0, HeldTyped
<1>2. CrmInv' /\ CrmGrows BY CrmUnchanged DEF UnindexedInv
<1>3. i \in DOMAIN documents[Sub(h)] BY DEF Found
<1>4. /\ documents' \in [Submission -> Seq(Document)]
      /\ \A s \in Submission : Len(documents'[s]) = Len(documents[s])
      /\ DocumentsTellTheTruth /\ CrmGrows /\ Truthful(Sub(h), d)
           => DocumentsTellTheTruth'
  <2>1. ASSUME NEW c \in Submission, c = Sub(h)
        PROVE  /\ documents' \in [Submission -> Seq(Document)]
               /\ \A s \in Submission : Len(documents'[s]) = Len(documents[s])
               /\ DocumentsTellTheTruth /\ CrmGrows /\ Truthful(c, d)' => DocumentsTellTheTruth'
    BY <1>0, <1>3, <2>1, DocumentUpdated
  <2> QED BY <1>1, <1>2, <2>1, TruthStays
<1>5. Moves(h) /\ pc'[h] = step /\ Sub(h)' = Sub(h) /\ Fil(h)' = Fil(h)
  BY <1>0, Arrives DEF Step
<1>6. HandlerRelies(h)'
  BY <1>0, <1>5 DEF HandlerRelies, HasIncident, HasMetadata, crmVars
<1>7. IndexedMeansOne' BY <1>4 DEF UnindexedInv, IndexedMeansOne, mongoVars
<1> QED BY <1>2, <1>4, <1>5, <1>6, <1>7, StepWithDocuments DEF UnindexedInv

\* updateCaseId: the handler has the case in the CRM.
LEMMA UpdateCaseIdKeeps ==
  ASSUME UnindexedInv, NEW h \in Handler, UpdateCaseId(h) PROVE UnindexedInv'
<1>0. TypeOK /\ pc[h] = "record" /\ HasIncident(Sub(h))
  BY DEF UnindexedInv, UpdateCaseId, At, HandlerRelies
<1>1. Sub(h) \in Submission BY <1>0, HeldTyped
<1>2. PICK i \in Found(Sub(h)) : documents' = [documents EXCEPT ![Sub(h)][i].caseId = TRUE]
  BY DEF UpdateCaseId
<1> DEFINE d == [documents[Sub(h)][i] EXCEPT !.caseId = TRUE]
<1>3. documents[Sub(h)][i] \in Document /\ Truthful(Sub(h), documents[Sub(h)][i])
  BY <1>1, FoundIsTruthful
<1>4. d \in Document /\ Truthful(Sub(h), d) BY <1>0, <1>3 DEF Document, Truthful
<1>5. documents' = [documents EXCEPT ![Sub(h)] = [@ EXCEPT ![i] = d]] BY <1>2
<1> QED BY <1>0, <1>4, <1>5, UpdateKeeps DEF UpdateCaseId

\* markFileProcessed: the handler has the case and the file in the CRM.
LEMMA MarkFileProcessedKeeps ==
  ASSUME UnindexedInv, NEW h \in Handler, MarkFileProcessed(h) PROVE UnindexedInv'
<1>0. /\ TypeOK /\ pc[h] = "mark"
      /\ HasIncident(Sub(h)) /\ HasMetadata(Sub(h), Fil(h))
  BY DEF UnindexedInv, MarkFileProcessed, At, HandlerRelies
<1>1. Sub(h) \in Submission /\ Fil(h) \in File BY <1>0, HeldTyped
<1>2. PICK i \in Found(Sub(h)) :
        documents' = [documents EXCEPT ![Sub(h)][i].files = @ \cup {Fil(h)}]
  BY DEF MarkFileProcessed
<1> DEFINE d == [documents[Sub(h)][i] EXCEPT !.files = @ \cup {Fil(h)}]
<1>3. documents[Sub(h)][i] \in Document /\ Truthful(Sub(h), documents[Sub(h)][i])
  BY <1>1, FoundIsTruthful
<1>4. d \in Document /\ Truthful(Sub(h), d) BY <1>0, <1>1, <1>3 DEF Document, Truthful
<1>5. documents' = [documents EXCEPT ![Sub(h)] = [@ EXCEPT ![i] = d]] BY <1>2
<1> QED BY <1>0, <1>4, <1>5, UpdateKeeps DEF MarkFileProcessed

\* The message is deleted, or its handler gives up: both end with an idle handler.
LEMMA LeaveKeeps ==
  ASSUME UnindexedInv, NEW h \in Handler, Acknowledge(h) \/ Crash(h) PROVE UnindexedInv'
<1>0. TypeOK /\ pc[h] # "idle" BY DEF UnindexedInv, Acknowledge, Crash, At
<1>1. CrmInv' /\ CrmGrows BY CrmUnchanged DEF UnindexedInv, Acknowledge, Crash
<1>2. Moves(h) /\ HandlerRelies(h)'
  BY <1>0, Arrives, RelyOnNothing DEF Acknowledge, Crash
<1>3. UNCHANGED <<mongoVars, documents>> /\ pending' \subseteq pending
  BY DEF Acknowledge, Crash
<1>4. crashes' \in 0..MaxCrashes
  BY <1>0, UnindexedAssumption DEF Acknowledge, Crash, TypeOK
<1> QED BY <1>1, <1>2, <1>3, <1>4, StepWithoutDocuments

\* An idle handler is given a message.
LEMMA ReceiveKeeps ==
  ASSUME UnindexedInv, NEW h \in Handler, NEW m \in Message, Receive(h, m) PROVE UnindexedInv'
<1>0. TypeOK BY DEF UnindexedInv
<1>1. CrmInv' /\ CrmGrows BY CrmUnchanged DEF UnindexedInv, Receive
<1>2. /\ TypeOK'
      /\ \A g \in Handler \ {h} : pc'[g] = pc[g] /\ held'[g] = held[g]
      /\ pc'[h] = "find"
  BY <1>0, <1>1, UnindexedAssumption DEF Receive, TypeOK, CrmInv, Step, mongoVars
<1>3. DocumentsTellTheTruth' BY <1>1, DocumentsUnchanged DEF UnindexedInv, Receive
<1>4. IndexedMeansOne' BY DEF UnindexedInv, IndexedMeansOne, Receive, mongoVars
<1>5. \A g \in Handler : HandlerRelies(g)'
  BY <1>1, <1>2, OthersRely, RelyOnNothing DEF UnindexedInv
<1> QED BY <1>1, <1>2, <1>3, <1>4, <1>5 DEF UnindexedInv

\* No step of a handler, whatever documents its filters meet, and no index that is
\* created in between, breaks the invariant.
LEMMA UnindexedInvNext == UnindexedInv /\ [Next]_vars => UnindexedInv'
<1> SUFFICES ASSUME UnindexedInv, [Next]_vars PROVE UnindexedInv'
  OBVIOUS
<1>1. CASE CreateIndex
  <2>1. CrmInv' /\ CrmGrows BY <1>1, CrmUnchanged DEF UnindexedInv, CreateIndex
  <2>2. TypeOK' BY <1>1, <2>1 DEF UnindexedInv, TypeOK, CreateIndex, handlerVars, CrmInv
  <2>3. DocumentsTellTheTruth' BY <1>1, <2>1, DocumentsUnchanged DEF UnindexedInv, CreateIndex
  <2>4. IndexedMeansOne' BY <1>1 DEF IndexedMeansOne, CreateIndex
  <2>5. \A g \in Handler : HandlerRelies(g)'
    BY <1>1, <2>1, OthersRely DEF UnindexedInv, CreateIndex, handlerVars
  <2> QED BY <2>1, <2>2, <2>3, <2>4, <2>5 DEF UnindexedInv
<1>2. ASSUME NEW h \in Handler, NEW m \in Message, Receive(h, m) PROVE UnindexedInv'
  BY <1>2, ReceiveKeeps
<1>3. ASSUME NEW h \in Handler, Advance(h) \/ Crash(h) PROVE UnindexedInv'
  BY <1>3, FindKeeps, InsertKeeps, CreateKeeps, WriteMetadataKeeps, UpdateCaseIdKeeps,
     MarkFileProcessedKeeps, LeaveKeeps DEF Advance
<1>4. CASE UNCHANGED vars
  <2>1. CrmInv' /\ CrmGrows BY <1>4, CrmUnchanged DEF UnindexedInv, vars
  <2>2. TypeOK' BY <1>4, <2>1 DEF UnindexedInv, TypeOK, vars, mongoVars, handlerVars, CrmInv
  <2>3. DocumentsTellTheTruth' BY <1>4, <2>1, DocumentsUnchanged DEF UnindexedInv, vars
  <2>4. IndexedMeansOne' BY <1>4 DEF UnindexedInv, IndexedMeansOne, vars, mongoVars
  <2>5. \A g \in Handler : HandlerRelies(g)'
    BY <1>4, <2>1, OthersRely DEF UnindexedInv, vars, handlerVars
  <2> QED BY <2>1, <2>2, <2>3, <2>4, <2>5 DEF UnindexedInv
<1> QED BY <1>1, <1>2, <1>3, <1>4 DEF Next

\* The collection and the CRM are empty at first.
LEMMA UnindexedInvInit == Init => UnindexedInv
<1> SUFFICES ASSUME Init PROVE UnindexedInv OBVIOUS
<1>1. TypeOK /\ CrmInv /\ \A h \in Handler : HandlerRelies(h)
  BY EmptySeq, UnindexedAssumption
  DEF Init, CrmInit, TypeOK, CrmTypeOK, Step, CrmInv, NoDuplicateRecords, MetadataHasCase,
      HasIncident, HasMetadata, HandlerRelies
<1>2. \A c \in Submission : documents[c] = <<>> BY DEF Init
<1>3. DocumentsTellTheTruth /\ IndexedMeansOne
  BY <1>2, EmptySeq DEF DocumentsTellTheTruth, IndexedMeansOne
<1> QED BY <1>1, <1>3 DEF UnindexedInv

-----------------------------------------------------------------------------
\* With or without the index, and whichever document a filter meets, the documents,
\* the CRM and what every handler relies on agree.
THEOREM UnindexedInvariantHolds == Spec => []UnindexedInv
BY UnindexedInvInit, UnindexedInvNext, PTL DEF Spec

\* The collection, the CRM and the handlers keep their types: a handler is idle
\* exactly when it holds no message.
THEOREM UnindexedTypeCorrect == Spec => []TypeOK
<1>1. UnindexedInv => TypeOK BY DEF UnindexedInv
<1> QED BY <1>1, UnindexedInvariantHolds, PTL

\* The CRM has no duplicates although a submission may have many documents: the
\* derived keys of crm.js do not rely on the unique index.
THEOREM NoDuplicatesWithoutIndex == Spec => []NoDuplicateRecords
<1>1. UnindexedInv => NoDuplicateRecords BY DEF UnindexedInv, CrmInv
<1> QED BY <1>1, UnindexedInvariantHolds, PTL

\* No document, however it got its caseId or its files, claims what the CRM lacks.
THEOREM DocumentsAlwaysTellTheTruth == Spec => []DocumentsTellTheTruth
<1>1. UnindexedInv => DocumentsTellTheTruth BY DEF UnindexedInv
<1> QED BY <1>1, UnindexedInvariantHolds, PTL

\* Once createIndex has succeeded, no upsert adds a second document.
THEOREM IndexAlwaysMeansOne == Spec => []IndexedMeansOne
<1>1. UnindexedInv => IndexedMeansOne BY DEF UnindexedInv
<1> QED BY <1>1, UnindexedInvariantHolds, PTL

-----------------------------------------------------------------------------
(* As long as a submission has one document, its files take turns: the one that *)
(* inserted the document leads, the others follow the case it recorded.         *)

Single(c) == Len(documents[c]) <= 1
HasOne(c) == Len(documents[c]) = 1
Lead(c) == documents[c][1].creator
Recorded(c) == documents[c][1].caseId

\* The case came with the lead's file, and other files only after it was recorded.
LeadsInv(c) ==
  Single(c) =>
    /\ HasIncident(c) => HasOne(c) /\ HasMetadata(c, Lead(c))
    /\ \A f \in File : HasMetadata(c, f) => f = Lead(c) \/ Recorded(c)

\* Only the lead creates; the others, and the lead once it has recorded the case, find
\* the case recorded.
FollowsInv(h) ==
  /\ pc[h] \in {"create", "fallback", "record"} =>
       (Single(Sub(h)) => HasOne(Sub(h)) /\ Fil(h) = Lead(Sub(h)))
  /\ pc[h] \in {"metadata", "mark"} =>
       (Single(Sub(h)) => HasOne(Sub(h)) /\ Recorded(Sub(h)))

OrderInv == (\A c \in Submission : LeadsInv(c)) /\ (\A h \in Handler : FollowsInv(h))

\* What a step does to the documents of submission c: they become no fewer, and an only
\* document keeps its creator and its caseId.
Kept(c) ==
  /\ Len(documents[c]) <= Len(documents'[c])
  /\ HasOne(c) /\ Len(documents'[c]) = 1 =>
       documents'[c][1].creator = Lead(c) /\ (Recorded(c) => documents'[c][1].caseId)

LEMMA LengthsAreNatural ==
  ASSUME TypeOK, NEW c \in Submission PROVE Len(documents[c]) \in Nat
BY LenProperties DEF TypeOK

\* An update that changes neither the creator nor a caseId that is set.
LEMMA UpdateIsKept ==
  ASSUME TypeOK, NEW c \in Submission, NEW i \in Found(c), NEW d \in Document,
         d.creator = documents[c][i].creator, documents[c][i].caseId => d.caseId,
         documents' = [documents EXCEPT ![c] = [@ EXCEPT ![i] = d]]
  PROVE  /\ \A s \in Submission : Kept(s)
         /\ HasOne(c) => i = 1 /\ documents'[c][1] = d
<1>1. /\ documents[c] \in Seq(Document) /\ i \in 1..Len(documents[c])
      /\ Len(documents[c]) \in Nat
  BY LenProperties DEF TypeOK, Found
<1>2. i \in DOMAIN documents[c] BY DEF Found
<1> DEFINE updated == [documents[c] EXCEPT ![i] = d]
<1>3. /\ Len(updated) = Len(documents[c])
      /\ \A j \in 1..Len(documents[c]) : updated[j] = IF j = i THEN d ELSE documents[c][j]
  BY <1>1, ExceptSeq
<1>4. documents'[c] = updated /\ \A s \in Submission \ {c} : documents'[s] = documents[s]
  BY DEF TypeOK
<1>5. HasOne(c) => i = 1 /\ documents'[c][1] = d BY <1>1, <1>3, <1>4 DEF HasOne
<1>6. Kept(c) BY <1>1, <1>3, <1>4, <1>5 DEF Kept, HasOne, Lead, Recorded
<1>7. \A s \in Submission \ {c} : Kept(s)
  BY <1>4, LengthsAreNatural DEF Kept, HasOne, Lead, Recorded
<1> QED BY <1>5, <1>6, <1>7

\* The two updates of the service are such updates.
LEMMA ServiceUpdates ==
  ASSUME UnindexedInv, NEW h \in Handler, UpdateCaseId(h) \/ MarkFileProcessed(h)
  PROVE  \E i \in Found(Sub(h)), d \in Document :
           /\ documents' = [documents EXCEPT ![Sub(h)] = [@ EXCEPT ![i] = d]]
           /\ d.creator = documents[Sub(h)][i].creator
           /\ UpdateCaseId(h) => d.caseId /\ d.files = documents[Sub(h)][i].files
           /\ MarkFileProcessed(h) =>
                /\ d.caseId = documents[Sub(h)][i].caseId
                /\ d.files = documents[Sub(h)][i].files \cup {Fil(h)}
<1>0. TypeOK /\ pc[h] \in {"record", "mark"}
  BY DEF UnindexedInv, UpdateCaseId, MarkFileProcessed, At
<1>1. Sub(h) \in Submission /\ Fil(h) \in File BY <1>0, HeldTyped
<1>2. pc[h] = "record" <=> UpdateCaseId(h)
  BY DEF UpdateCaseId, MarkFileProcessed, At
<1>3. pc[h] = "mark" <=> MarkFileProcessed(h)
  BY DEF UpdateCaseId, MarkFileProcessed, At
<1>4. CASE UpdateCaseId(h)
  <2>1. PICK i \in Found(Sub(h)) : documents' = [documents EXCEPT ![Sub(h)][i].caseId = TRUE]
    BY <1>4 DEF UpdateCaseId
  <2>2. documents[Sub(h)][i] \in Document BY <1>1, FoundIsTruthful
  <2> DEFINE d == [documents[Sub(h)][i] EXCEPT !.caseId = TRUE]
  <2>3. /\ d \in Document /\ d.caseId /\ d.creator = documents[Sub(h)][i].creator
        /\ d.files = documents[Sub(h)][i].files
    BY <2>2 DEF Document
  <2>4. documents' = [documents EXCEPT ![Sub(h)] = [@ EXCEPT ![i] = d]] BY <2>1
  <2> QED BY <1>2, <1>3, <1>4, <2>3, <2>4
<1>5. CASE MarkFileProcessed(h)
  <2>1. PICK i \in Found(Sub(h)) :
          documents' = [documents EXCEPT ![Sub(h)][i].files = @ \cup {Fil(h)}]
    BY <1>5 DEF MarkFileProcessed
  <2>2. documents[Sub(h)][i] \in Document BY <1>1, FoundIsTruthful
  <2> DEFINE d == [documents[Sub(h)][i] EXCEPT !.files = @ \cup {Fil(h)}]
  <2>3. /\ d \in Document /\ d.creator = documents[Sub(h)][i].creator
        /\ d.caseId = documents[Sub(h)][i].caseId
        /\ d.files = documents[Sub(h)][i].files \cup {Fil(h)}
    BY <1>1, <2>2 DEF Document
  <2>4. documents' = [documents EXCEPT ![Sub(h)] = [@ EXCEPT ![i] = d]] BY <2>1
  <2> QED BY <1>2, <1>3, <1>5, <2>3, <2>4
<1> QED BY <1>4, <1>5

\* Every step keeps the documents of every submission in this sense.
LEMMA DocumentsAreKept ==
  ASSUME UnindexedInv, [Next]_vars PROVE \A s \in Submission : Kept(s)
<1>0. TypeOK BY DEF UnindexedInv
<1>1. CASE UNCHANGED documents
  BY <1>0, <1>1, LengthsAreNatural DEF Kept, HasOne, Lead, Recorded
<1>2. ASSUME NEW h \in Handler, Insert(h), ~UNCHANGED documents
      PROVE  \A s \in Submission : Kept(s)
  <2>1. Sub(h) \in Submission /\ Fil(h) \in File BY <1>0, <1>2, HeldTyped DEF Insert, At
  <2> DEFINE d == [creator |-> Fil(h), caseId |-> FALSE, files |-> {}]
  <2>2. d \in Document /\ ~d.caseId /\ d.files = {} BY <2>1 DEF Document
  <2>3. documents' = [documents EXCEPT ![Sub(h)] = Append(@, d)] BY <1>2 DEF Insert
  <2>4. /\ Len(documents'[Sub(h)]) = Len(documents[Sub(h)]) + 1
        /\ \A s \in Submission \ {Sub(h)} : documents'[s] = documents[s]
    BY <1>0, <2>1, <2>2, <2>3, DocumentInserted
  <2> QED BY <1>0, <2>1, <2>4, LengthsAreNatural DEF Kept, HasOne, Lead, Recorded
<1>3. ASSUME NEW h \in Handler, UpdateCaseId(h) \/ MarkFileProcessed(h)
      PROVE  \A s \in Submission : Kept(s)
  <2>1. Sub(h) \in Submission
    BY <1>0, <1>3, HeldTyped DEF UpdateCaseId, MarkFileProcessed, At
  <2>2. PICK i \in Found(Sub(h)), d \in Document :
          /\ documents' = [documents EXCEPT ![Sub(h)] = [@ EXCEPT ![i] = d]]
          /\ d.creator = documents[Sub(h)][i].creator
          /\ documents[Sub(h)][i].caseId => d.caseId
    BY <1>3, ServiceUpdates
  <2> QED BY <1>0, <2>1, <2>2, UpdateIsKept
<1>4. \/ UNCHANGED documents
      \/ \E h \in Handler : Insert(h) \/ UpdateCaseId(h) \/ MarkFileProcessed(h)
  BY DEF Next, vars, CreateIndex, Receive, Advance, Find, Create, WriteMetadata, Acknowledge, Crash
<1> QED BY <1>1, <1>2, <1>3, <1>4

\* A submission whose records in the CRM do not change keeps its order.
LEMMA LeadsStay ==
  ASSUME UnindexedInv, UnindexedInv', NEW c \in Submission, LeadsInv(c), Kept(c), UNCHANGED crmVars
  PROVE  LeadsInv(c)'
<1>1. Len(documents[c]) \in Nat /\ Len(documents'[c]) \in Nat
  BY LengthsAreNatural, LenProperties DEF UnindexedInv, TypeOK
<1>2. \A f \in File : HasMetadata(c, f) => HasIncident(c)
  BY DEF UnindexedInv, CrmInv, MetadataHasCase
<1> QED BY <1>1, <1>2
  DEF LeadsInv, Kept, Single, HasOne, Lead, Recorded, HasIncident, HasMetadata, crmVars

\* A handler that does not move still leads or follows.
LEMMA FollowsStay ==
  ASSUME UnindexedInv, UnindexedInv', NEW g \in Handler, FollowsInv(g),
         \A s \in Submission : Kept(s), pc'[g] = pc[g], held'[g] = held[g]
  PROVE  FollowsInv(g)'
<1>1. CASE pc[g] = "idle" BY <1>1 DEF FollowsInv
<1>2. CASE pc[g] # "idle"
  <2>1. Sub(g) \in Submission BY <1>2, HeldTyped DEF UnindexedInv
  <2>2. Sub(g)' = Sub(g) /\ Fil(g)' = Fil(g) BY DEF Sub, Fil
  <2>3. Len(documents[Sub(g)]) \in Nat /\ Len(documents'[Sub(g)]) \in Nat /\ Kept(Sub(g))
    BY <2>1, LenProperties DEF UnindexedInv, TypeOK
  <2> QED BY <2>2, <2>3 DEF FollowsInv, Kept, Single, HasOne, Lead, Recorded
<1> QED BY <1>1, <1>2

\* The handlers that stay where they are while h, or an idle handler, moves.
LEMMA OthersStay ==
  ASSUME UnindexedInv, NEW h \in Handler, Advance(h) \/ Crash(h)
  PROVE  /\ pc[h] # "idle"
         /\ \A g \in Handler \ {h} : pc'[g] = pc[g] /\ held'[g] = held[g]
<1>1. pc[h] # "idle" /\ TypeOK
  BY DEF UnindexedInv, Advance, Crash, Find, Insert, Create, WriteMetadata, UpdateCaseId,
         MarkFileProcessed, Acknowledge, At
<1>2. Leave(h) \/ \E step \in Step \ {"idle"} : Goto(h, step)
  BY DEF Advance, Crash, Find, Decide, Insert, Create, WriteMetadata, UpdateCaseId,
         MarkFileProcessed, Acknowledge, Step
<1> QED BY <1>1, <1>2 DEF Leave, Goto, TypeOK

\* Only the lead's changeset, and then the records of its followers, change the CRM.
LEMMA LeadsInvNext ==
  ASSUME UnindexedInv, UnindexedInv', OrderInv, [Next]_vars, NEW c \in Submission
  PROVE  LeadsInv(c)'
<1>0. TypeOK /\ CrmInv /\ LeadsInv(c) /\ Kept(c)
  BY DocumentsAreKept DEF UnindexedInv, OrderInv
<1>1. CASE UNCHANGED crmVars BY <1>0, <1>1, LeadsStay
<1>2. ASSUME NEW h \in Handler, Create(h), ApplyChangeset(Sub(h), Fil(h)) PROVE LeadsInv(c)'
  <2>1. /\ pc[h] = "create" /\ FollowsInv(h) /\ UNCHANGED documents
        /\ Sub(h) \in Submission /\ Fil(h) \in File
    BY <1>0, <1>2, HeldTyped DEF Create, At, OrderInv
  <2>2. CASE c = Sub(h)
    <3>1. /\ \A f \in File : (metadata'[c][f] > 0 <=> metadata[c][f] > 0 \/ f = Fil(h))
          /\ ~HasIncident(c) /\ \A f \in File : ~HasMetadata(c, f)
      BY <1>0, <1>2, <2>1, <2>2
      DEF ApplyChangeset, ChangesetConflicts, HasIncident, HasMetadata, TypeOK, CrmTypeOK,
          CrmInv, MetadataHasCase
    <3>2. Single(c) => HasOne(c) /\ Fil(h) = Lead(c) BY <2>1, <2>2 DEF FollowsInv
    <3> QED BY <2>1, <3>1, <3>2 DEF LeadsInv, Single, HasOne, Lead, Recorded, HasIncident, HasMetadata
  <2>3. CASE c # Sub(h)
    <3>1. incidents'[c] = incidents[c] /\ metadata'[c] = metadata[c]
      BY <1>0, <1>2, <2>1, <2>3 DEF ApplyChangeset, TypeOK, CrmTypeOK
    <3> QED BY <1>0, <2>1, <3>1
      DEF LeadsInv, Single, HasOne, Lead, Recorded, HasIncident, HasMetadata
  <2> QED BY <2>2, <2>3
<1>3. ASSUME NEW h \in Handler, WriteMetadata(h), ApplyMetadata(Sub(h), Fil(h)) PROVE LeadsInv(c)'
  <2>1. /\ pc[h] \in {"metadata", "fallback"} /\ FollowsInv(h) /\ UNCHANGED documents
        /\ Sub(h) \in Submission /\ Fil(h) \in File
    BY <1>0, <1>3, HeldTyped DEF WriteMetadata, At, OrderInv
  <2>2. UNCHANGED incidents BY <1>3 DEF ApplyMetadata
  <2>3. CASE c = Sub(h)
    <3>1. \A f \in File : metadata'[c][f] > 0 <=> metadata[c][f] > 0 \/ f = Fil(h)
      BY <1>0, <1>3, <2>1, <2>3 DEF ApplyMetadata, HasMetadata, TypeOK, CrmTypeOK
    <3>2. Single(c) => HasOne(c) /\ (Fil(h) = Lead(c) \/ Recorded(c))
      BY <2>1, <2>3 DEF FollowsInv
    <3>3. HasOne(c) => Lead(c) \in File
      <4>1. documents[c] \in Seq(Document) BY <1>0 DEF TypeOK
      <4>2. HasOne(c) => documents[c][1] \in Document BY <4>1, ElementOfSeq DEF HasOne
      <4> QED BY <4>2 DEF Lead, Document
    <3> QED BY <1>0, <2>1, <2>2, <3>1, <3>2, <3>3
      DEF LeadsInv, Single, HasOne, Lead, Recorded, HasIncident, HasMetadata
  <2>4. CASE c # Sub(h)
    <3>1. metadata'[c] = metadata[c]
      BY <1>0, <1>3, <2>1, <2>4 DEF ApplyMetadata, TypeOK, CrmTypeOK
    <3> QED BY <1>0, <2>1, <2>2, <3>1
      DEF LeadsInv, Single, HasOne, Lead, Recorded, HasIncident, HasMetadata
  <2> QED BY <2>3, <2>4
<1>4. \/ UNCHANGED crmVars
      \/ \E h \in Handler : Create(h) /\ ApplyChangeset(Sub(h), Fil(h))
      \/ \E h \in Handler : WriteMetadata(h) /\ ApplyMetadata(Sub(h), Fil(h))
  BY DEF Next, vars, CreateIndex, Receive, Advance, Find, Insert, Create, WriteMetadata,
         UpdateCaseId, MarkFileProcessed, Acknowledge, Crash
<1> QED BY <1>1, <1>2, <1>3, <1>4

\* A handler that finds its document leads or follows by what it says.
LEMMA FindFollows ==
  ASSUME UnindexedInv, NEW h \in Handler, Find(h) PROVE FollowsInv(h)'
<1>0. TypeOK /\ pc[h] = "find" BY DEF UnindexedInv, Find, At
<1>1. Sub(h) \in Submission /\ Fil(h) \in File BY <1>0, HeldTyped
<1>2. CASE Goto(h, "insert") \/ Leave(h) \/ Goto(h, "ack")
  <2>1. pc'[h] \in {"insert", "idle", "ack"} BY <1>0, <1>2, Arrives DEF Step
  <2> QED BY <2>1 DEF FollowsInv
<1>3. CASE ~(Goto(h, "insert") \/ Leave(h) \/ Goto(h, "ack"))
  <2>1. documents[Sub(h)] # <<>> BY <1>3 DEF Find
  <2>2. PICK i \in Found(Sub(h)) : Decide(h, documents[Sub(h)][i]) BY <1>3, <2>1 DEF Find
  <2>3. documents[Sub(h)] \in Seq(Document) /\ i \in 1..Len(documents[Sub(h)])
        /\ Len(documents[Sub(h)]) \in Nat
    BY <1>0, <1>1, LenProperties DEF TypeOK, Found
  <2>4. Single(Sub(h)) => HasOne(Sub(h)) /\ i = 1
    <3>1. ASSUME NEW n \in Nat, i \in 1..n PROVE n <= 1 => n = 1 /\ i = 1 BY <3>1
    <3> QED BY <2>3, <3>1 DEF Single, HasOne
  <2>5. UNCHANGED documents BY DEF Find
  <2>6. CASE documents[Sub(h)][i].caseId /\ Goto(h, "metadata")
    <3>1. pc'[h] = "metadata" /\ Sub(h)' = Sub(h) BY <1>0, <2>6, Arrives DEF Step
    <3> QED BY <2>4, <2>5, <2>6, <3>1 DEF FollowsInv, Single, HasOne, Recorded
  <2>7. CASE documents[Sub(h)][i].creator = Fil(h) /\ Goto(h, "create")
    <3>1. pc'[h] = "create" /\ Sub(h)' = Sub(h) /\ Fil(h)' = Fil(h)
      BY <1>0, <2>7, Arrives DEF Step
    <3> QED BY <2>4, <2>5, <2>7, <3>1 DEF FollowsInv, Single, HasOne, Lead
  <2> QED BY <1>3, <2>2, <2>6, <2>7 DEF Decide
<1> QED BY <1>2, <1>3

\* A handler that inserted the only document leads.
LEMMA InsertFollows ==
  ASSUME UnindexedInv, NEW h \in Handler, Insert(h) PROVE FollowsInv(h)'
<1>0. TypeOK /\ pc[h] = "insert" BY DEF UnindexedInv, Insert, At
<1>1. Sub(h) \in Submission /\ Fil(h) \in File BY <1>0, HeldTyped
<1>2. CASE Goto(h, "find")
  <2>1. pc'[h] = "find" BY <1>0, <1>2, Arrives DEF Step
  <2> QED BY <2>1 DEF FollowsInv
<1>3. CASE ~Goto(h, "find")
  <2> DEFINE d == [creator |-> Fil(h), caseId |-> FALSE, files |-> {}]
  <2>1. documents' = [documents EXCEPT ![Sub(h)] = Append(@, d)] /\ Goto(h, "create")
    BY <1>3 DEF Insert
  <2>2. documents[Sub(h)] \in Seq(Document) /\ d \in Document BY <1>0, <1>1 DEF TypeOK, Document
  <2>3. documents'[Sub(h)] = Append(documents[Sub(h)], d) BY <1>0, <1>1, <2>1 DEF TypeOK
  <2>4. /\ Len(documents[Sub(h)]) \in Nat
        /\ Len(documents'[Sub(h)]) = Len(documents[Sub(h)]) + 1
        /\ documents'[Sub(h)][Len(documents[Sub(h)]) + 1] = d
    BY <2>2, <2>3, AppendProperties, LenProperties
  <2>5. pc'[h] = "create" /\ Sub(h)' = Sub(h) /\ Fil(h)' = Fil(h)
    BY <1>0, <2>1, Arrives DEF Step
  <2>6. Len(documents'[Sub(h)]) <= 1 =>
          Len(documents'[Sub(h)]) = 1 /\ Fil(h) = documents'[Sub(h)][1].creator
    BY <2>4
  <2> QED BY <2>5, <2>6 DEF FollowsInv, Single, HasOne, Lead
<1> QED BY <1>2, <1>3

\* A handler that recorded the case in the only document follows it.
LEMMA UpdateFollows ==
  ASSUME UnindexedInv, UnindexedInv', NEW h \in Handler, FollowsInv(h), UpdateCaseId(h)
  PROVE  FollowsInv(h)'
<1>0. TypeOK /\ pc[h] = "record" BY DEF UnindexedInv, UpdateCaseId, At
<1>1. Sub(h) \in Submission /\ Fil(h) \in File BY <1>0, HeldTyped
<1>2. PICK i \in Found(Sub(h)), d \in Document :
        /\ documents' = [documents EXCEPT ![Sub(h)] = [@ EXCEPT ![i] = d]]
        /\ d.creator = documents[Sub(h)][i].creator /\ d.caseId
  BY ServiceUpdates
<1>3. Kept(Sub(h)) /\ (HasOne(Sub(h)) => documents'[Sub(h)][1] = d)
  BY <1>0, <1>1, <1>2, UpdateIsKept
<1>4. Len(documents[Sub(h)]) \in Nat /\ Len(documents'[Sub(h)]) \in Nat
  BY <1>1, LenProperties DEF UnindexedInv, TypeOK
<1>5. pc'[h] = "mark" /\ Sub(h)' = Sub(h) BY <1>0, Arrives DEF UpdateCaseId, Step
<1>6. Len(documents'[Sub(h)]) <= 1 =>
        Len(documents'[Sub(h)]) = 1 /\ documents'[Sub(h)][1].caseId
  BY <1>0, <1>2, <1>3, <1>4 DEF FollowsInv, Kept, Single, HasOne
<1> QED BY <1>5, <1>6 DEF FollowsInv, Single, HasOne, Recorded

\* Every step of a handler keeps what it relies on of the order.
LEMMA MoverFollows ==
  ASSUME UnindexedInv, UnindexedInv', OrderInv, NEW h \in Handler, Advance(h) \/ Crash(h)
  PROVE  FollowsInv(h)'
<1>0. TypeOK /\ FollowsInv(h) BY DEF UnindexedInv, OrderInv
<1>1. CASE MarkFileProcessed(h) \/ Acknowledge(h) \/ Crash(h)
  <2>1. pc'[h] \in {"idle", "ack"}
    BY <1>0, <1>1, Arrives DEF MarkFileProcessed, Acknowledge, Crash, At, Step
  <2> QED BY <2>1 DEF FollowsInv
<1>2. CASE Create(h)
  <2>1. pc[h] = "create" /\ UNCHANGED documents BY <1>2 DEF Create, At
  <2>2. pc'[h] \in {"record", "fallback"} /\ Sub(h)' = Sub(h) /\ Fil(h)' = Fil(h)
    BY <1>0, <1>2, <2>1, Arrives DEF Create, Step
  <2> QED BY <1>0, <2>1, <2>2 DEF FollowsInv, Single, HasOne, Lead
<1>3. CASE WriteMetadata(h)
  <2>1. pc[h] \in {"metadata", "fallback"} /\ UNCHANGED documents BY <1>3 DEF WriteMetadata, At
  <2>2. /\ pc'[h] = IF pc[h] = "fallback" THEN "record" ELSE "mark"
        /\ Sub(h)' = Sub(h) /\ Fil(h)' = Fil(h)
    BY <1>0, <1>3, <2>1, Arrives DEF WriteMetadata, Step, At
  <2> QED BY <1>0, <2>1, <2>2 DEF FollowsInv, Single, HasOne, Lead, Recorded
<1> QED BY <1>0, <1>1, <1>2, <1>3, FindFollows, InsertFollows, UpdateFollows DEF Advance

\* The order of the files of a submission that has one document is kept.
LEMMA OrderInvNext == UnindexedInv /\ OrderInv /\ [Next]_vars => OrderInv'
<1> SUFFICES ASSUME UnindexedInv, OrderInv, [Next]_vars PROVE OrderInv'
  OBVIOUS
<1>0. UnindexedInv' BY UnindexedInvNext
<1>1. \A c \in Submission : LeadsInv(c)' BY <1>0, LeadsInvNext
<1>2. \A s \in Submission : Kept(s) BY DocumentsAreKept
<1>3. \A g \in Handler : FollowsInv(g)'
  <2>1. CASE UNCHANGED handlerVars
    BY <1>0, <1>2, <2>1, FollowsStay DEF OrderInv, handlerVars
  <2>2. ASSUME NEW h \in Handler, NEW m \in Message, Receive(h, m), NEW g \in Handler
        PROVE  FollowsInv(g)'
    <3>1. CASE g = h
      <4>1. pc'[h] = "find" BY <2>2 DEF Receive, UnindexedInv, TypeOK
      <4> QED BY <3>1, <4>1 DEF FollowsInv
    <3>2. CASE g # h
      <4>1. pc'[g] = pc[g] /\ held'[g] = held[g]
        BY <2>2, <3>2 DEF Receive, UnindexedInv, TypeOK
      <4> QED BY <1>0, <1>2, <4>1, FollowsStay DEF OrderInv
    <3> QED BY <3>1, <3>2
  <2>3. ASSUME NEW h \in Handler, Advance(h) \/ Crash(h), NEW g \in Handler
        PROVE  FollowsInv(g)'
    <3>1. CASE g = h BY <1>0, <2>3, <3>1, MoverFollows
    <3>2. CASE g # h
      <4>1. pc'[g] = pc[g] /\ held'[g] = held[g] BY <2>3, <3>2, OthersStay
      <4> QED BY <1>0, <1>2, <4>1, FollowsStay DEF OrderInv
    <3> QED BY <3>1, <3>2
  <2> QED BY <2>1, <2>2, <2>3 DEF Next, vars, CreateIndex
<1> QED BY <1>1, <1>3 DEF OrderInv

\* Nothing is in the CRM and no handler works at first.
LEMMA OrderInvInit == Init => OrderInv
BY DEF Init, CrmInit, OrderInv, LeadsInv, FollowsInv, HasIncident, HasMetadata

\* The order holds at all times, along with what is known without the index.
LEMMA OrderInvHolds == Spec => [](UnindexedInv /\ OrderInv)
BY UnindexedInvInit, UnindexedInvNext, OrderInvInit, OrderInvNext, PTL DEF Spec

-----------------------------------------------------------------------------
(* The steps of the handlers as steps of the contract. *)

\* What the contract sees of a submission with at most one document.
RecordedIn(c) == \E i \in DOMAIN documents[c] : documents[c][i].caseId
DoneIn(c, f) == \E i \in DOMAIN documents[c] : f \in documents[c][i].files

\* The contract sees nothing of a step that changes none of its views.
LEMMA ViewStutters ==
  ASSUME UNCHANGED crmVars,
         \A c \in Submission : RecordedIn(c)' <=> RecordedIn(c),
         \A c \in Submission, f \in File : DoneIn(c, f)' <=> DoneIn(c, f)
  PROVE  UNCHANGED Contract!cvars
BY DEF Contract!cvars, crmVars, HasIncident, RecordedIn, DoneIn

\* An applied changeset is OpenCase.
LEMMA CreateOpensCase ==
  ASSUME TypeOK, NEW c \in Submission, NEW f \in File,
         ApplyChangeset(c, f), UNCHANGED documents
  PROVE  Contract!ContractNext
<1>1. incidents[c] = 0 /\ metadata[c][f] = 0
  BY DEF ApplyChangeset, ChangesetConflicts, HasIncident, HasMetadata, TypeOK, CrmTypeOK
<1>2. \A d \in Submission : HasIncident(d)' <=> HasIncident(d) \/ d = c
  BY <1>1 DEF ApplyChangeset, HasIncident, TypeOK, CrmTypeOK
<1>3. \A p \in Submission \X File :
        metadata'[p[1]][p[2]] > 0 <=> metadata[p[1]][p[2]] > 0 \/ p = <<c, f>>
  BY <1>1 DEF ApplyChangeset, TypeOK, CrmTypeOK
<1>4. ~HasIncident(c) BY DEF ApplyChangeset, ChangesetConflicts
<1>5. Contract!OpenCase(c, f) BY <1>2, <1>3, <1>4 DEF Contract!OpenCase
<1> QED BY <1>5 DEF Contract!ContractNext

\* A metadata record of a recorded case is AttachFile.
LEMMA WriteAttachesFile ==
  ASSUME TypeOK, NEW c \in Submission, NEW f \in File, RecordedIn(c),
         ApplyMetadata(c, f), UNCHANGED documents
  PROVE  Contract!ContractNext
<1>1. metadata[c][f] = 0 BY DEF ApplyMetadata, HasMetadata, TypeOK, CrmTypeOK
<1>2. \A p \in Submission \X File :
        metadata'[p[1]][p[2]] > 0 <=> metadata[p[1]][p[2]] > 0 \/ p = <<c, f>>
  BY <1>1 DEF ApplyMetadata, TypeOK, CrmTypeOK
<1>3. \A d \in Submission : HasIncident(d)' <=> HasIncident(d)
  BY DEF ApplyMetadata, HasIncident
<1>4. Contract!AttachFile(c, f) BY <1>1, <1>2, <1>3 DEF Contract!AttachFile, RecordedIn
<1> QED BY <1>4 DEF Contract!ContractNext

\* updateCaseId is RecordCase: the handler has the case in the CRM.
LEMMA UpdateRecords ==
  ASSUME NEW c \in Submission, HasIncident(c), UNCHANGED crmVars,
         \A d \in Submission : RecordedIn(d)' <=> RecordedIn(d) \/ d = c,
         \A d \in Submission, f \in File : DoneIn(d, f)' <=> DoneIn(d, f)
  PROVE  Contract!ContractNext
<1>1. \A d \in Submission : HasIncident(d)' <=> HasIncident(d) BY DEF crmVars, HasIncident
<1>2. Contract!RecordCase(c) BY <1>1 DEF Contract!RecordCase, crmVars, RecordedIn, DoneIn
<1> QED BY <1>2 DEF Contract!ContractNext

\* markFileProcessed is FinishFile: the case is recorded and the file attached.
LEMMA MarkFinishes ==
  ASSUME NEW c \in Submission, NEW f \in File, RecordedIn(c), HasMetadata(c, f), UNCHANGED crmVars,
         \A d \in Submission : RecordedIn(d)' <=> RecordedIn(d),
         \A p \in Submission \X File : DoneIn(p[1], p[2])' <=> DoneIn(p[1], p[2]) \/ p = <<c, f>>
  PROVE  Contract!ContractNext
<1>1. \A d \in Submission : HasIncident(d)' <=> HasIncident(d) BY DEF crmVars, HasIncident
<1>2. {p \in Submission \X File : \E i \in DOMAIN documents'[p[1]] : p[2] \in documents'[p[1]][i].files}
        = {p \in Submission \X File : \E i \in DOMAIN documents[p[1]] : p[2] \in documents[p[1]][i].files}
            \cup {<<c, f>>}
  BY DEF DoneIn
<1>3. {d \in Submission : \E i \in DOMAIN documents'[d] : documents'[d][i].caseId}
        = {d \in Submission : \E i \in DOMAIN documents[d] : documents[d][i].caseId}
  BY DEF RecordedIn
<1>4. c \in {d \in Submission : \E i \in DOMAIN documents[d] : documents[d][i].caseId}
  BY DEF RecordedIn
<1>5. Contract!FinishFile(c, f)
  BY <1>1, <1>2, <1>3, <1>4 DEF Contract!FinishFile, crmVars, HasMetadata
<1> QED BY <1>5 DEF Contract!ContractNext

\* What the contract sees of submissions that have one document, none, or are left alone.
LEMMA ViewOfOne ==
  ASSUME TypeOK, NEW c \in Submission, HasOne(c)
  PROVE  /\ RecordedIn(c) <=> documents[c][1].caseId
         /\ \A f \in File : DoneIn(c, f) <=> f \in documents[c][1].files
<1>1. DOMAIN documents[c] = {1} BY LenProperties DEF TypeOK, HasOne
<1> QED BY <1>1 DEF RecordedIn, DoneIn

LEMMA ViewOfOthers ==
  ASSUME NEW s \in Submission, documents'[s] = documents[s]
  PROVE  (RecordedIn(s)' <=> RecordedIn(s)) /\ \A f \in File : DoneIn(s, f)' <=> DoneIn(s, f)
BY DEF RecordedIn, DoneIn

\* The views after an update of an only document.
LEMMA ViewAfterUpdate ==
  ASSUME TypeOK, TypeOK', NEW c \in Submission, HasOne(c), NEW i \in Found(c), NEW d \in Document,
         d.creator = documents[c][i].creator, documents[c][i].caseId => d.caseId,
         documents' = [documents EXCEPT ![c] = [@ EXCEPT ![i] = d]]
  PROVE  /\ i = 1
         /\ RecordedIn(c)' <=> d.caseId
         /\ \A f \in File : DoneIn(c, f)' <=> f \in d.files
         /\ \A s \in Submission \ {c} : documents'[s] = documents[s]
<1>1. i = 1 /\ documents'[c][1] = d BY UpdateIsKept
<1>2. Len(documents'[c]) = 1
  <2>1. i \in DOMAIN documents[c] BY DEF Found
  <2>2. \A s \in Submission : Len(documents'[s]) = Len(documents[s]) BY <2>1, DocumentUpdated
  <2> QED BY <2>2 DEF HasOne
<1>3. DOMAIN documents'[c] = {1} BY <1>2, LenProperties DEF TypeOK
<1>4. (RecordedIn(c)' <=> d.caseId) /\ \A f \in File : DoneIn(c, f)' <=> f \in d.files
  BY <1>1, <1>3 DEF RecordedIn, DoneIn
<1>5. \A s \in Submission \ {c} : documents'[s] = documents[s] BY DEF TypeOK
<1> QED BY <1>1, <1>4, <1>5

\* The first document of a submission, or a step that writes none, changes no view.
LEMMA InsertStutters ==
  ASSUME UnindexedInv, UnindexedInv', NEW h \in Handler, Insert(h),
         \A c \in Submission : Len(documents'[c]) <= 1
  PROVE  UNCHANGED Contract!cvars
<1>0. TypeOK /\ TypeOK' /\ Sub(h) \in Submission /\ Fil(h) \in File /\ UNCHANGED crmVars
  BY HeldTyped DEF UnindexedInv, Insert, At
<1>1. CASE UNCHANGED documents
  BY <1>0, <1>1, ViewStutters, ViewOfOthers
<1>2. CASE ~UNCHANGED documents
  <2> DEFINE d == [creator |-> Fil(h), caseId |-> FALSE, files |-> {}]
  <2>1. d \in Document /\ ~d.caseId /\ d.files = {} BY <1>0 DEF Document
  <2>2. documents' = [documents EXCEPT ![Sub(h)] = Append(@, d)] BY <1>2 DEF Insert
  <2>3. \A s \in Submission \ {Sub(h)} : documents'[s] = documents[s] BY <1>0, <2>2 DEF TypeOK
  <2>4. documents[Sub(h)] \in Seq(Document) /\ documents'[Sub(h)] = Append(documents[Sub(h)], d)
    BY <1>0, <2>2 DEF TypeOK
  <2>5. /\ Len(documents[Sub(h)]) \in Nat
        /\ Len(documents'[Sub(h)]) = Len(documents[Sub(h)]) + 1
        /\ documents'[Sub(h)][Len(documents[Sub(h)]) + 1] = d
    BY <2>1, <2>4, AppendProperties, LenProperties
  <2>6. Len(documents[Sub(h)]) = 0 /\ Len(documents'[Sub(h)]) = 1 /\ documents'[Sub(h)][1] = d
    <3>1. Len(documents'[Sub(h)]) <= 1 BY <1>0
    <3> QED BY <2>5, <3>1
  <2>7. DOMAIN documents[Sub(h)] = {} /\ DOMAIN documents'[Sub(h)] = {1}
    BY <1>0, <2>6, LenProperties DEF TypeOK
  <2>8. \A s \in Submission : /\ RecordedIn(s)' <=> RecordedIn(s)
                              /\ \A f \in File : DoneIn(s, f)' <=> DoneIn(s, f)
    <3>1. ASSUME NEW s \in Submission, s = Sub(h)
          PROVE  /\ RecordedIn(s)' <=> RecordedIn(s)
                 /\ \A f \in File : DoneIn(s, f)' <=> DoneIn(s, f)
      <4>1. DOMAIN documents[s] = {} /\ DOMAIN documents'[s] = {1} /\ documents'[s][1] = d
        BY <2>6, <2>7, <3>1
      <4> QED BY <2>1, <4>1 DEF RecordedIn, DoneIn
    <3> QED BY <2>3, <3>1, ViewOfOthers
  <2> QED BY <1>0, <2>8, ViewStutters
<1> QED BY <1>1, <1>2

\* The two updates, of an only document, are RecordCase and FinishFile.
LEMMA UpdatesKeepContract ==
  ASSUME UnindexedInv, UnindexedInv', NEW h \in Handler, FollowsInv(h), Single(Sub(h)),
         UpdateCaseId(h) \/ MarkFileProcessed(h)
  PROVE  Contract!ContractNext
<1>0. /\ TypeOK /\ TypeOK' /\ HandlerRelies(h) /\ pc[h] \in {"record", "mark"}
      /\ Sub(h) \in Submission /\ Fil(h) \in File /\ UNCHANGED crmVars
  BY HeldTyped DEF UnindexedInv, UpdateCaseId, MarkFileProcessed, At
<1>1. PICK i \in Found(Sub(h)), d \in Document :
        /\ documents' = [documents EXCEPT ![Sub(h)] = [@ EXCEPT ![i] = d]]
        /\ d.creator = documents[Sub(h)][i].creator
        /\ UpdateCaseId(h) => d.caseId /\ d.files = documents[Sub(h)][i].files
        /\ MarkFileProcessed(h) =>
             /\ d.caseId = documents[Sub(h)][i].caseId
             /\ d.files = documents[Sub(h)][i].files \cup {Fil(h)}
  BY ServiceUpdates
<1>2. HasOne(Sub(h)) /\ (pc[h] = "mark" => Recorded(Sub(h))) BY <1>0 DEF FollowsInv
<1>3. SUFFICES ASSUME NEW c \in Submission, c = Sub(h) PROVE Contract!ContractNext
  BY <1>0
<1>4. documents[c][i].caseId => d.caseId BY <1>1, <1>3
<1>5. /\ i = 1
      /\ RecordedIn(c)' <=> d.caseId
      /\ \A f \in File : DoneIn(c, f)' <=> f \in d.files
      /\ \A s \in Submission \ {c} : documents'[s] = documents[s]
  BY <1>0, <1>1, <1>2, <1>3, <1>4, ViewAfterUpdate
<1>6. /\ RecordedIn(c) <=> documents[c][1].caseId
      /\ \A f \in File : DoneIn(c, f) <=> f \in documents[c][1].files
  BY <1>0, <1>2, <1>3, ViewOfOne
<1>7. \A s \in Submission \ {c} : /\ RecordedIn(s)' <=> RecordedIn(s)
                                  /\ \A f \in File : DoneIn(s, f)' <=> DoneIn(s, f)
  BY <1>5, ViewOfOthers
<1>8. CASE UpdateCaseId(h)
  <2>1. HasIncident(c) BY <1>0, <1>3, <1>8 DEF UpdateCaseId, At, HandlerRelies
  <2>2. \A s \in Submission : RecordedIn(s)' <=> RecordedIn(s) \/ s = c
    BY <1>1, <1>5, <1>7, <1>8
  <2>3. \A s \in Submission, f \in File : DoneIn(s, f)' <=> DoneIn(s, f)
    BY <1>1, <1>3, <1>5, <1>6, <1>7, <1>8
  <2> QED BY <1>0, <2>1, <2>2, <2>3, UpdateRecords
<1>9. CASE MarkFileProcessed(h)
  <2>1. RecordedIn(c) /\ HasMetadata(c, Fil(h))
    BY <1>0, <1>2, <1>3, <1>6, <1>9 DEF MarkFileProcessed, At, HandlerRelies, Recorded
  <2>2. \A s \in Submission : RecordedIn(s)' <=> RecordedIn(s)
    BY <1>1, <1>3, <1>5, <1>6, <1>7, <1>9
  <2>3. \A p \in Submission \X File :
          DoneIn(p[1], p[2])' <=> DoneIn(p[1], p[2]) \/ p = <<c, Fil(h)>>
    <3>1. \A s \in Submission, f \in File :
            DoneIn(s, f)' <=> DoneIn(s, f) \/ (s = c /\ f = Fil(h))
      BY <1>1, <1>3, <1>5, <1>6, <1>7, <1>9
    <3> QED BY <3>1
  <2> QED BY <1>0, <2>1, <2>2, <2>3, MarkFinishes
<1> QED BY <1>8, <1>9

\* A metadata record that the CRM lacks is AttachFile: its handler follows the case,
\* for the lead's own file is there.
LEMMA WriteKeepsContract ==
  ASSUME UnindexedInv, NEW h \in Handler, FollowsInv(h), LeadsInv(Sub(h)), Single(Sub(h)),
         WriteMetadata(h)
  PROVE  Contract!ContractNext \/ UNCHANGED Contract!cvars
<1>0. /\ TypeOK /\ HandlerRelies(h) /\ pc[h] \in {"metadata", "fallback"}
      /\ Sub(h) \in Submission /\ Fil(h) \in File /\ UNCHANGED documents
  BY HeldTyped DEF UnindexedInv, WriteMetadata, At
<1>1. CASE UNCHANGED crmVars BY <1>0, <1>1, ViewStutters, ViewOfOthers
<1>2. CASE ApplyMetadata(Sub(h), Fil(h))
  <2>1. HasIncident(Sub(h)) /\ ~HasMetadata(Sub(h), Fil(h))
    BY <1>0, <1>2 DEF HandlerRelies, ApplyMetadata
  <2>2. HasOne(Sub(h)) /\ HasMetadata(Sub(h), Lead(Sub(h))) BY <2>1 DEF LeadsInv
  <2>3. Recorded(Sub(h)) BY <1>0, <2>1, <2>2 DEF FollowsInv
  <2>4. RecordedIn(Sub(h)) BY <1>0, <2>2, <2>3, ViewOfOne DEF Recorded
  <2> QED BY <1>0, <1>2, <2>4, WriteAttachesFile
<1> QED BY <1>1, <1>2 DEF WriteMetadata

\* Every step after which no submission has two documents is one of the contract.
LEMMA StepKeepsContract ==
  ASSUME UnindexedInv, UnindexedInv', OrderInv, [Next]_vars,
         \A c \in Submission : Len(documents'[c]) <= 1
  PROVE  Contract!ContractNext \/ UNCHANGED Contract!cvars
<1>0. TypeOK /\ \A c \in Submission : Single(c) /\ LeadsInv(c)
  <2>1. ASSUME NEW c \in Submission PROVE Single(c)
    <3>1. Len(documents[c]) \in Nat /\ Len(documents'[c]) \in Nat
      BY LenProperties DEF UnindexedInv, TypeOK
    <3> QED BY <3>1, DocumentsAreKept DEF Kept, Single
  <2> QED BY <2>1 DEF UnindexedInv, OrderInv
<1>1. CASE UNCHANGED <<crmVars, documents>> BY <1>1, ViewStutters, ViewOfOthers
<1>2. ASSUME NEW h \in Handler, Advance(h)
      PROVE  Contract!ContractNext \/ UNCHANGED Contract!cvars
  <2>1. /\ FollowsInv(h) /\ pc[h] # "idle" /\ Sub(h) \in Submission /\ Fil(h) \in File
        /\ Single(Sub(h)) /\ LeadsInv(Sub(h))
    BY <1>0, <1>2, OthersStay, HeldTyped DEF OrderInv
  <2>2. CASE Create(h)
    <3>1. UNCHANGED documents BY <2>2 DEF Create
    <3>2. ApplyChangeset(Sub(h), Fil(h)) \/ UNCHANGED crmVars BY <2>2 DEF Create
    <3> QED BY <1>0, <1>1, <2>1, <3>1, <3>2, CreateOpensCase
  <2>3. CASE Insert(h) BY <2>3, InsertStutters
  <2>4. CASE WriteMetadata(h) BY <2>1, <2>4, WriteKeepsContract
  <2>5. CASE UpdateCaseId(h) \/ MarkFileProcessed(h) BY <2>1, <2>5, UpdatesKeepContract
  <2>6. CASE Find(h) \/ Acknowledge(h) BY <1>1, <2>6 DEF Find, Acknowledge
  <2> QED BY <1>2, <2>2, <2>3, <2>4, <2>5, <2>6 DEF Advance
<1>3. UNCHANGED <<crmVars, documents>> \/ \E h \in Handler : Advance(h)
  BY DEF Next, vars, CreateIndex, Receive, Crash
<1> QED BY <1>1, <1>2, <1>3

\* As long as no submission has a second document, the service keeps the contract of a
\* submission with no index at all: it is not the index that orders the files, but that
\* an upsert meets the one document there is.
THEOREM OneDocumentAlwaysKeepsContract == Spec => OneDocumentKeepsContract
<1>1. (UnindexedInv /\ OrderInv) /\ (UnindexedInv /\ OrderInv)' /\ [Next]_vars =>
        [(\A c \in Submission : Len(documents'[c]) <= 1)
           => [Contract!ContractNext]_(Contract!cvars)]_vars
  BY StepKeepsContract
<1> QED BY <1>1, OrderInvHolds, PTL DEF Spec, OneDocumentKeepsContract

\* With the index the service keeps the contract, although an upsert is a find and an
\* insert, and the index may have come while some handler was between the two: what
\* CaseProcessing takes for one step may be taken for one.
THEOREM IndexKeepsContract ==
  Spec => [][indexed' => [Contract!ContractNext]_(Contract!cvars)]_vars
<1>1. (UnindexedInv /\ OrderInv) /\ (UnindexedInv /\ OrderInv)' /\ [Next]_vars =>
        [indexed' => [Contract!ContractNext]_(Contract!cvars)]_vars
  BY StepKeepsContract DEF UnindexedInv, IndexedMeansOne
<1> QED BY <1>1, OrderInvHolds, PTL DEF Spec

-----------------------------------------------------------------------------
(* What EveryFileArrives rests on, as far as single steps show it: an upsert *)
(* that the index refuses goes back to its find, but to one that succeeds.   *)

AwaitsLeft(h) ==
  IF pc[h] = "find" THEN IF documents[Sub(h)] = <<>> THEN 8 ELSE 6
  ELSE [idle |-> 0, ack |-> 1, mark |-> 2, metadata |-> 3, record |-> 3, fallback |-> 4,
        create |-> 5, insert |-> 7][pc[h]]

\* A submission that has documents keeps some.
LEMMA DocumentsRemain ==
  ASSUME UnindexedInv, UnindexedInv', [Next]_vars, NEW c \in Submission, documents[c] # <<>>
  PROVE  documents'[c] # <<>>
<1>1. documents[c] \in Seq(Document) /\ documents'[c] \in Seq(Document)
  BY DEF UnindexedInv, TypeOK
<1>2. Len(documents[c]) # 0 /\ Len(documents[c]) \in Nat BY <1>1, EmptySeq, LenProperties
<1>3. Len(documents'[c]) # 0 BY <1>1, <1>2, DocumentsAreKept, LenProperties DEF Kept
<1> QED BY <1>3, EmptySeq

\* No handler goes round for ever: each step takes it further, and none of another
\* handler, nor the creation of the index, takes it back.
THEOREM HandlersRunOut ==
  Spec => [][\A h \in Handler : pc[h] # "idle" =>
               \/ AwaitsLeft(h)' < AwaitsLeft(h)
               \/ pc'[h] = pc[h] /\ AwaitsLeft(h)' <= AwaitsLeft(h)]_vars
<1> DEFINE Further(h) == \/ AwaitsLeft(h)' < AwaitsLeft(h)
                         \/ pc'[h] = pc[h] /\ AwaitsLeft(h)' <= AwaitsLeft(h)
<1>1. ASSUME UnindexedInv, UnindexedInv', [Next]_vars, NEW h \in Handler, pc[h] # "idle",
             pc'[h] = pc[h], held'[h] = held[h]
      PROVE  Further(h)
  <2>1. Sub(h) \in Submission BY <1>1, HeldTyped DEF UnindexedInv
  <2>2. Sub(h)' = Sub(h) BY <1>1 DEF Sub
  <2>3. documents[Sub(h)] # <<>> => documents'[Sub(h)] # <<>> BY <1>1, <2>1, DocumentsRemain
  <2>4. pc[h] \in Step \ {"idle"} BY <1>1 DEF UnindexedInv, TypeOK
  <2> QED BY <1>1, <2>2, <2>3, <2>4 DEF AwaitsLeft, Step
<1>2. ASSUME UnindexedInv, UnindexedInv', [Next]_vars, NEW h \in Handler, Advance(h) \/ Crash(h)
      PROVE  Further(h)
  <2>0. /\ TypeOK /\ pc[h] # "idle" /\ Sub(h) \in Submission /\ Fil(h) \in File
        /\ Leave(h) => pc'[h] = "idle"
        /\ \A step \in Step \ {"idle"} : Goto(h, step) => pc'[h] = step /\ Sub(h)' = Sub(h)
    BY <1>2, OthersStay, HeldTyped, Arrives DEF UnindexedInv
  <2>1. CASE Crash(h) \/ Acknowledge(h)
    <3>1. pc'[h] = "idle" BY <2>0, <2>1 DEF Crash, Acknowledge
    <3> QED BY <2>0, <3>1 DEF AwaitsLeft, Step, TypeOK
  <2>2. CASE Find(h) /\ documents[Sub(h)] = <<>>
    <3>1. pc[h] = "find" /\ pc'[h] = "insert" BY <2>0, <2>2 DEF Find, At, Step
    <3> QED BY <2>2, <3>1 DEF AwaitsLeft
  <2>3. CASE Find(h) /\ documents[Sub(h)] # <<>>
    <3>1. pc[h] = "find" /\ pc'[h] \in {"idle", "ack", "metadata", "create"}
      BY <2>0, <2>3 DEF Find, Decide, At, Step
    <3> QED BY <2>3, <3>1 DEF AwaitsLeft
  <2>4. CASE Insert(h) /\ Goto(h, "find")
    <3>1. pc[h] = "insert" /\ pc'[h] = "find" /\ Sub(h)' = Sub(h)
      BY <2>0, <2>4 DEF Insert, At, Step
    <3>2. documents[Sub(h)] # <<>> BY <2>0, <2>4, <3>1 DEF Insert, Step
    <3>3. documents'[Sub(h)] # <<>> BY <1>2, <2>0, <3>2, DocumentsRemain
    <3> QED BY <3>1, <3>3 DEF AwaitsLeft
  <2>5. CASE Insert(h) /\ Goto(h, "create")
    <3>1. pc[h] = "insert" /\ pc'[h] = "create" BY <2>0, <2>5 DEF Insert, At, Step
    <3> QED BY <3>1 DEF AwaitsLeft
  <2>6. CASE Create(h)
    <3>1. pc[h] = "create" /\ pc'[h] \in {"record", "fallback"} BY <2>0, <2>6 DEF Create, At, Step
    <3> QED BY <3>1 DEF AwaitsLeft
  <2>7. CASE WriteMetadata(h)
    <3>1. \/ pc[h] = "fallback" /\ pc'[h] = "record"
          \/ pc[h] = "metadata" /\ pc'[h] = "mark"
      BY <2>0, <2>7 DEF WriteMetadata, At, Step
    <3> QED BY <3>1 DEF AwaitsLeft
  <2>8. CASE UpdateCaseId(h) \/ MarkFileProcessed(h)
    <3>1. \/ pc[h] = "record" /\ pc'[h] = "mark"
          \/ pc[h] = "mark" /\ pc'[h] = "ack"
      BY <2>0, <2>8 DEF UpdateCaseId, MarkFileProcessed, At, Step
    <3> QED BY <3>1 DEF AwaitsLeft
  <2> QED BY <1>2, <2>1, <2>2, <2>3, <2>4, <2>5, <2>6, <2>7, <2>8 DEF Advance, Insert
<1>3. UnindexedInv /\ UnindexedInv' /\ [Next]_vars =>
        [\A h \in Handler : pc[h] # "idle" => Further(h)]_vars
  <2> SUFFICES ASSUME UnindexedInv, UnindexedInv', [Next]_vars, NEW h \in Handler, pc[h] # "idle"
               PROVE  Further(h)
    OBVIOUS
  <2>1. CASE Advance(h) \/ Crash(h) BY <1>2, <2>1
  <2>2. CASE ~(Advance(h) \/ Crash(h))
    <3>1. pc'[h] = pc[h] /\ held'[h] = held[h]
      <4>1. CASE UNCHANGED handlerVars BY <4>1 DEF handlerVars
      <4>2. ASSUME NEW g \in Handler, NEW m \in Message, Receive(g, m)
            PROVE  pc'[h] = pc[h] /\ held'[h] = held[h]
        BY <4>2 DEF Receive, At, UnindexedInv, TypeOK
      <4>3. ASSUME NEW g \in Handler, g # h, Advance(g) \/ Crash(g)
            PROVE  pc'[h] = pc[h] /\ held'[h] = held[h]
        BY <4>3, OthersStay
      <4> QED BY <2>2, <4>1, <4>2, <4>3 DEF Next, vars, CreateIndex
    <3> QED BY <1>1, <3>1
  <2> QED BY <2>1, <2>2
<1> QED BY <1>3, UnindexedInvariantHolds, PTL DEF Spec
=============================================================================
