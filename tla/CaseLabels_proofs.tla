-------------------------- MODULE CaseLabels_proofs --------------------------
(***************************************************************************)
(* The document types in the CRM, for any events, case types and document  *)
(* types, any changes of them, and all the failures, crashes and late      *)
(* requests of CaseProcessing: its invariants hold here too, since adding  *)
(* the labels takes no step away from its rules.                           *)
(***************************************************************************)
EXTENDS CaseLabels, CaseProcessing_proofs

\* The steps at which a handler writes its type, or has just done so.
Labelling == {"changeset", "committed", "fallback", "metadata"}

LabelTypeOK ==
  /\ types \in [CaseType -> DocumentType] /\ changes \in 0..MaxChanges
  /\ assigned \subseteq CaseType \X DocumentType
  /\ \A t \in CaseType : <<t, types[t]>> \in assigned
  /\ resolved \in [Handler -> DocumentType \cup {NoType}]
  /\ sent \subseteq {"case", "metadata"} \X Message \X DocumentType
  /\ caseType \in [Submission -> DocumentType \cup {NoType}]
  /\ label \in [Submission -> [File -> DocumentType \cup {NoType}]]

\* A type that was resolved for an event was its case type's at that time.
TypeOf(m, d) == <<CaseTypeOf(m), d>> \in assigned

\* A handler that writes a type has resolved it for its own event.
ResolvedBeforeWritten ==
  \A h \in Handler : pc[h] \in Labelling => TypeOf(held[h], resolved[h])

\* An abandoned request carries a type of its own event.
SentIsOwn == \A r \in sent : TypeOf(r[2], r[3])

\* A type of an event of file f.
TypeOfFile(c, f, d) ==
  \E m \in Message : SubmissionOf[m] = c /\ FileOf[m] = f /\ TypeOf(m, d)

\* A case, and a metadata record, has a type as soon as it exists, and no earlier.
RecordsAreLabelled ==
  /\ \A c \in Submission : caseType[c] # NoType <=> HasIncident(c)
  /\ \A c \in Submission, f \in File : label[c][f] # NoType <=> HasMetadata(c, f)

LabelInv ==
  /\ LabelTypeOK /\ ResolvedBeforeWritten /\ SentIsOwn
  /\ RecordsAreLabelled /\ CaseAgreesWithCreator /\ LabelsAreOwn

-----------------------------------------------------------------------------
(* The steps are those of CaseProcessing. *)

\* Every step with labels is a step without them, or changes nothing there.
LEMMA LabelStepIsStep == [LabelNext]_allVars => [Next]_vars
<1> SUFFICES ASSUME [LabelNext]_allVars PROVE [Next]_vars
  OBVIOUS
<1>1. ASSUME NEW t \in CaseType, NEW d \in DocumentType, ChangeTypes(t, d) PROVE UNCHANGED vars
  BY <1>1 DEF ChangeTypes
<1>2. ASSUME NEW h \in Handler, OtherStep(h)
      PROVE  (\E m \in Message : Receive(h, m)) \/ Advance(h) \/ Fail(h)
  BY <1>2 DEF OtherStep, Advance, Fail
<1>3. ASSUME NEW h \in Handler,
             Resolve(h) \/ CreateCase(h) \/ AddMetadata(h) \/ Abandon(h) \/ Finish(h)
      PROVE  Advance(h) \/ Fail(h)
  BY <1>3 DEF Resolve, CreateCase, AddMetadata, Abandon, Finish, Advance, Fail
<1>4. ASSUME NEW kind \in {"case", "metadata"}, NEW m \in Message, ApplyLate(kind, m)
      PROVE  LateRequest(kind, m)
  BY <1>4 DEF ApplyLate
<1>5. CASE UNCHANGED allVars BY <1>5 DEF allVars
<1> QED BY <1>1, <1>2, <1>3, <1>4, <1>5 DEF LabelNext, Next

\* CaseLabels implements CaseProcessing, so that whatever is proved of the one holds
\* in the other.
THEOREM LabelSpecImplementsSpec == LabelSpec => Spec
<1>1. LabelInit => Init BY DEF LabelInit
<1> QED BY <1>1, LabelStepIsStep, PTL DEF LabelSpec, Spec

-----------------------------------------------------------------------------
(* What a step does to the labels. *)

\* The records of a case are written together, with one type.
LEMMA CaseIsLabelled ==
  ASSUME TypeOK, RecordsInv, LabelInv, NEW c \in Submission, NEW f \in File,
         NEW d \in DocumentType, creator[c] = f, creator' = creator,
         ApplyChangeset(c, f), LabelCase(c, f, d), TypeOfFile(c, f, d), assigned' = assigned
  PROVE  /\ caseType' \in [Submission -> DocumentType \cup {NoType}]
         /\ label' \in [Submission -> [File -> DocumentType \cup {NoType}]]
         /\ RecordsAreLabelled' /\ CaseAgreesWithCreator' /\ LabelsAreOwn' /\ LabelKept
<1>0. /\ LabelTypeOK /\ RecordsAreLabelled /\ CaseAgreesWithCreator /\ LabelsAreOwn
      /\ CrmTypeOK /\ CaseHasCreatorsFile
  BY DEF LabelInv, TypeOK, RecordsInv
<1>1. ~HasIncident(c) /\ ~HasMetadata(c, f) BY DEF ApplyChangeset, ChangesetConflicts
<1>2. /\ caseType' \in [Submission -> DocumentType \cup {NoType}]
      /\ label' \in [Submission -> [File -> DocumentType \cup {NoType}]]
      /\ \A s \in Submission : caseType'[s] = IF s = c THEN d ELSE caseType[s]
      /\ \A s \in Submission, g \in File :
           label'[s][g] = IF s = c /\ g = f THEN d ELSE label[s][g]
  BY <1>0 DEF LabelTypeOK, LabelCase
<1>3. /\ \A s \in Submission : HasIncident(s)' <=> HasIncident(s) \/ s = c
      /\ \A s \in Submission, g \in File :
           HasMetadata(s, g)' <=> HasMetadata(s, g) \/ (s = c /\ g = f)
  BY <1>0, <1>1 DEF CrmTypeOK, ApplyChangeset, HasIncident, HasMetadata
<1>4. d # NoType BY LabelAssumption
<1>5. RecordsAreLabelled'
  <2>1. \A s \in Submission : caseType'[s] # NoType <=> HasIncident(s)'
    BY <1>0, <1>2, <1>3, <1>4 DEF RecordsAreLabelled
  <2>2. \A s \in Submission, g \in File : label'[s][g] # NoType <=> HasMetadata(s, g)'
    BY <1>0, <1>2, <1>3, <1>4 DEF RecordsAreLabelled
  <2> QED BY <2>1, <2>2 DEF RecordsAreLabelled
<1>6. CaseAgreesWithCreator'
  BY <1>0, <1>1, <1>2, <1>3 DEF CaseAgreesWithCreator, CaseHasCreatorsFile
<1>7. LabelsAreOwn'
  <2>1. ASSUME NEW s \in Submission, NEW g \in File, HasMetadata(s, g)'
        PROVE  TypeOfFile(s, g, label'[s][g])
    <3>1. CASE s = c /\ g = f BY <1>2, <3>1
    <3>2. CASE ~(s = c /\ g = f)
      <4>1. HasMetadata(s, g) /\ label'[s][g] = label[s][g] BY <1>2, <1>3, <2>1, <3>2
      <4> QED BY <1>0, <4>1 DEF LabelsAreOwn, TypeOfFile, TypeOf
    <3> QED BY <3>1, <3>2
  <2> QED BY <2>1 DEF LabelsAreOwn, TypeOfFile, TypeOf
<1>8. LabelKept BY <1>0, <1>1, <1>2 DEF LabelKept, RecordsAreLabelled
<1> QED BY <1>2, <1>5, <1>6, <1>7, <1>8

\* A record on its own is never the creator's of an existing case.
LEMMA RecordIsLabelled ==
  ASSUME TypeOK, RecordsInv, LabelInv, NEW c \in Submission, NEW f \in File,
         NEW d \in DocumentType, creator' = creator, ApplyMetadata(c, f),
         HasIncident(c), caseType' = caseType, label' = [label EXCEPT ![c][f] = d],
         TypeOfFile(c, f, d), assigned' = assigned
  PROVE  /\ label' \in [Submission -> [File -> DocumentType \cup {NoType}]]
         /\ RecordsAreLabelled' /\ CaseAgreesWithCreator' /\ LabelsAreOwn' /\ LabelKept
<1>0. /\ LabelTypeOK /\ RecordsAreLabelled /\ CaseAgreesWithCreator /\ LabelsAreOwn
      /\ CrmTypeOK /\ CaseHasCreatorsFile
  BY DEF LabelInv, TypeOK, RecordsInv
<1>1. ~HasMetadata(c, f) BY DEF ApplyMetadata
<1>2. creator[c] # f BY <1>0, <1>1 DEF CaseHasCreatorsFile
<1>3. /\ label' \in [Submission -> [File -> DocumentType \cup {NoType}]]
      /\ \A s \in Submission, g \in File :
           label'[s][g] = IF s = c /\ g = f THEN d ELSE label[s][g]
  BY <1>0 DEF LabelTypeOK
<1>4. /\ \A s \in Submission : HasIncident(s)' <=> HasIncident(s)
      /\ \A s \in Submission, g \in File :
           HasMetadata(s, g)' <=> HasMetadata(s, g) \/ (s = c /\ g = f)
  BY <1>0, <1>1 DEF CrmTypeOK, ApplyMetadata, HasIncident, HasMetadata
<1>5. d # NoType BY LabelAssumption
<1>6. RecordsAreLabelled' BY <1>0, <1>3, <1>4, <1>5 DEF RecordsAreLabelled
<1>7. CaseAgreesWithCreator'
  BY <1>0, <1>2, <1>3, <1>4 DEF CaseAgreesWithCreator, CaseHasCreatorsFile
<1>8. LabelsAreOwn' BY <1>0, <1>3, <1>4 DEF LabelsAreOwn, TypeOfFile, TypeOf
<1>9. LabelKept BY <1>0, <1>1, <1>3 DEF LabelKept, RecordsAreLabelled
<1> QED BY <1>3, <1>6, <1>7, <1>8, <1>9

\* A step that writes no record: a document may be inserted, but a case has its
\* creator already.
LEMMA NoRecordWritten ==
  ASSUME RecordsInv, Grows, LabelInv, UNCHANGED <<crmVars, caseType, label>>,
         assigned \subseteq assigned'
  PROVE  RecordsAreLabelled' /\ CaseAgreesWithCreator' /\ LabelsAreOwn' /\ LabelKept
<1>0. RecordsAreLabelled /\ CaseAgreesWithCreator /\ LabelsAreOwn /\ CaseHasCreatorsFile
  BY DEF LabelInv, RecordsInv
<1>1. \A c \in Submission : HasIncident(c)' <=> HasIncident(c)
  BY DEF crmVars, HasIncident
<1>2. \A c \in Submission, f \in File : HasMetadata(c, f)' <=> HasMetadata(c, f)
  BY DEF crmVars, HasMetadata
<1>3. RecordsAreLabelled' BY <1>0, <1>1, <1>2 DEF RecordsAreLabelled
<1>4. CaseAgreesWithCreator'
  BY <1>0, <1>1 DEF CaseAgreesWithCreator, CaseHasCreatorsFile, Grows
<1>5. LabelsAreOwn' BY <1>0, <1>2 DEF LabelsAreOwn
<1> QED BY <1>3, <1>4, <1>5 DEF LabelKept

\* A step of h leaves the types of the other handlers alone.
LEMMA OnlyOwnType ==
  ASSUME TypeOK, LabelInv, NEW h \in Handler, Move(h),
         \A g \in Handler \ {h} : resolved'[g] = resolved[g], assigned' = assigned,
         pc'[h] \in Labelling => TypeOf(held'[h], resolved'[h])
  PROVE  ResolvedBeforeWritten'
<1>1. \A g \in Handler \ {h} : pc'[g] = pc[g] /\ held'[g] = held[g]
  BY DEF TypeOK, HandlerTypeOK, Move, handlerVars, Leave, Goto
<1> QED BY <1>1 DEF LabelInv, ResolvedBeforeWritten, TypeOf

-----------------------------------------------------------------------------
(* Every step keeps the labels. *)

\* A step that writes no record keeps the labels, if it keeps the types and what
\* its own handler has resolved.
LEMMA StepWithoutRecord ==
  ASSUME TypeOK, RecordsInv, Grows, LabelInv, NEW h \in Handler, Move(h),
         LabelTypeOK', SentIsOwn', UNCHANGED <<crmVars, caseType, label, assigned>>,
         \A g \in Handler \ {h} : resolved'[g] = resolved[g],
         pc'[h] \in Labelling => TypeOf(held'[h], resolved'[h])
  PROVE  LabelInv' /\ LabelKept
BY NoRecordWritten, OnlyOwnType DEF LabelInv

\* Whether it is applied or fails, a lookup of the type leads to a write only with it.
LEMMA ResolveKeepsLabels ==
  ASSUME TypeOK, RecordsInv, Grows, LabelInv, NEW h \in Handler, Resolve(h)
  PROVE  LabelInv' /\ LabelKept
<1>0. HandlerTypeOK /\ LabelTypeOK BY DEF TypeOK, HandlerTypeOK, LabelInv
<1>1. ResolveDocumentType(h) /\ (Advance(h) \/ Fail(h)) BY DEF Resolve, Advance
<1>2. held[h] \in Message /\ Move(h) BY <1>0, <1>1, StepEffects
<1>3. types[CaseTypeOf(held[h])] \in DocumentType
  BY <1>0, <1>2, LabelAssumption DEF CaseTypeOf, LabelTypeOK
<1>4. /\ LabelTypeOK'
      /\ \A g \in Handler \ {h} : resolved'[g] = resolved[g]
      /\ held'[h] = held[h] => resolved'[h] = types[CaseTypeOf(held[h])]
  BY <1>0, <1>3 DEF Resolve, LabelTypeOK
<1>5. pc'[h] \in Labelling => held'[h] = held[h]
  BY <1>0, <1>1 DEF ResolveDocumentType, Lookup, Retryable, NonRetryable, Goto, Leave,
     Labelling, HandlerTypeOK
<1>6. UNCHANGED <<crmVars, caseType, label, assigned, sent>>
  BY <1>1 DEF Resolve, ResolveDocumentType, Lookup
<1>7. TypeOf(held[h], types[CaseTypeOf(held[h])])
  BY <1>0, <1>2, LabelAssumption DEF CaseTypeOf, TypeOf, LabelTypeOK
<1>8. SentIsOwn' BY <1>6 DEF LabelInv, SentIsOwn, TypeOf
<1> QED BY <1>2, <1>4, <1>5, <1>6, <1>7, <1>8, StepWithoutRecord

\* The changeset writes the type that its handler has resolved.
LEMMA CreateCaseKeepsLabels ==
  ASSUME TypeOK, CaseInv, LabelInv, NEW h \in Handler, CreateCase(h)
  PROVE  LabelInv' /\ LabelKept
<1>0. HandlerTypeOK /\ LabelTypeOK /\ HandlerInv(h) /\ RecordsInv
  BY DEF TypeOK, HandlerTypeOK, LabelInv, CaseInv
<1>1. ChangesetApplied(h) /\ (Advance(h) \/ Fail(h)) BY DEF CreateCase, Advance
<1>2. held[h] \in Message /\ Move(h) BY <1>0, <1>1, StepEffects
<1>3. Sub(h) \in Submission /\ Fil(h) \in File BY <1>2, HeldTyped
<1>4. pc[h] = "changeset" /\ Goto(h, "committed") /\ ApplyChangeset(Sub(h), Fil(h)) /\ creator' = creator
  BY <1>1 DEF ChangesetApplied, At, storeVars
<1>5. creator[Sub(h)] = Fil(h)
  BY <1>0, <1>4 DEF HandlerInv, JobOfStep, RightToWork, Working, Creating
<1>6. resolved[h] \in DocumentType /\ TypeOf(held[h], resolved[h])
  BY <1>0, <1>4 DEF LabelInv, ResolvedBeforeWritten, Labelling, LabelTypeOK, TypeOf
<1>7. /\ caseType' \in [Submission -> DocumentType \cup {NoType}]
      /\ label' \in [Submission -> [File -> DocumentType \cup {NoType}]]
      /\ RecordsAreLabelled' /\ CaseAgreesWithCreator' /\ LabelsAreOwn' /\ LabelKept
  BY <1>0, <1>2, <1>3, <1>4, <1>5, <1>6, CaseIsLabelled DEF CreateCase, TypeOfFile, Sub, Fil
<1>8. LabelTypeOK' BY <1>0, <1>7 DEF CreateCase, LabelTypeOK
<1>9. ResolvedBeforeWritten'
  BY <1>2, <1>4, <1>6, OnlyOwnType DEF CreateCase, Goto
<1>10. SentIsOwn' BY DEF CreateCase, LabelInv, SentIsOwn, TypeOf
<1> QED BY <1>7, <1>8, <1>9, <1>10 DEF LabelInv

\* A file's record gets the type that its handler has resolved.
LEMMA AddMetadataKeepsLabels ==
  ASSUME TypeOK, CaseInv, LabelInv, NEW h \in Handler, AddMetadata(h)
  PROVE  LabelInv' /\ LabelKept
<1>0. HandlerTypeOK /\ LabelTypeOK /\ HandlerInv(h) /\ RecordsInv
  BY DEF TypeOK, HandlerTypeOK, LabelInv, CaseInv
<1>1. MetadataApplied(h) /\ (Advance(h) \/ Fail(h)) BY DEF AddMetadata, Advance
<1>2. held[h] \in Message /\ Move(h) BY <1>0, <1>1, StepEffects
<1>3. Sub(h) \in Submission /\ Fil(h) \in File BY <1>2, HeldTyped
<1>4. /\ pc[h] \in {"metadata", "fallback"} /\ ApplyMetadata(Sub(h), Fil(h))
      /\ creator' = creator /\ UNCHANGED handlerVars
  BY <1>1 DEF MetadataApplied, WritesMetadata, At, storeVars
<1>5. HasIncident(Sub(h))
  BY <1>0, <1>3, <1>4 DEF HandlerInv, JobOfStep, RightToWork, WorkDone, Working, Adding,
     RecordsInv, RecordedCaseExists
<1>6. resolved[h] \in DocumentType /\ TypeOf(held[h], resolved[h])
  BY <1>0, <1>4 DEF LabelInv, ResolvedBeforeWritten, Labelling, LabelTypeOK, TypeOf
<1>7. /\ label' \in [Submission -> [File -> DocumentType \cup {NoType}]]
      /\ RecordsAreLabelled' /\ CaseAgreesWithCreator' /\ LabelsAreOwn' /\ LabelKept
  BY <1>0, <1>2, <1>3, <1>4, <1>5, <1>6, RecordIsLabelled DEF AddMetadata, TypeOfFile, Sub, Fil
<1>8. LabelTypeOK' BY <1>0, <1>7 DEF AddMetadata, LabelTypeOK
<1>9. ResolvedBeforeWritten'
  BY <1>2, <1>4, <1>6, OnlyOwnType DEF AddMetadata, handlerVars
<1>10. SentIsOwn' BY DEF AddMetadata, LabelInv, SentIsOwn, TypeOf
<1> QED BY <1>7, <1>8, <1>9, <1>10 DEF LabelInv

\* An abandoned request carries a type, and its handler forgets it.
LEMMA AbandonKeepsLabels ==
  ASSUME TypeOK, RecordsInv, Grows, LabelInv, NEW h \in Handler, Abandon(h)
  PROVE  LabelInv' /\ LabelKept
<1>0. HandlerTypeOK /\ LabelTypeOK BY DEF TypeOK, HandlerTypeOK, LabelInv
<1>1. CaseFails(h) \/ MetadataFails(h) \/ Crash(h) BY DEF Abandon
<1>2. held[h] \in Message /\ Move(h) BY <1>0, <1>1, StepEffects DEF Fail
<1>3. {<<r[1], r[2], resolved[h]>> : r \in Outstanding(h)}
        \subseteq {s \in {"case", "metadata"} \X Message \X DocumentType : TypeOf(s[2], s[3])}
  <2>1. ASSUME NEW r \in Outstanding(h)
        PROVE  /\ r[1] \in {"case", "metadata"} /\ r[2] = held[h] /\ pc[h] \in Labelling
    BY <2>1 DEF Outstanding, Labelling
  <2>2. pc[h] \in Labelling => resolved[h] \in DocumentType /\ TypeOf(held[h], resolved[h])
    BY <1>0 DEF LabelInv, ResolvedBeforeWritten, LabelTypeOK, TypeOf
  <2> QED BY <1>2, <2>1, <2>2
<1>4. LabelTypeOK' /\ \A g \in Handler \ {h} : resolved'[g] = resolved[g]
  BY <1>0, <1>3 DEF Abandon, LabelTypeOK
<1>5. pc'[h] \notin Labelling
  BY <1>0, <1>1 DEF CaseFails, MetadataFails, Crash, Retryable, NonRetryable, Goto, Leave,
     Labelling, HandlerTypeOK
<1>6. UNCHANGED <<crmVars, caseType, label, assigned>>
  BY <1>1 DEF Abandon, CaseFails, MetadataFails, Crash
<1>7. SentIsOwn'
  <2>1. \A r \in sent' : TypeOf(r[2], r[3]) BY <1>3 DEF Abandon, LabelInv, SentIsOwn
  <2> QED BY <1>6, <2>1 DEF SentIsOwn, TypeOf
<1> QED BY <1>2, <1>4, <1>5, <1>6, <1>7, StepWithoutRecord

\* A request that is applied late writes a type that some attempt resolved.
LEMMA ApplyLateKeepsLabels ==
  ASSUME TypeOK, CaseInv, LabelInv, NEW kind \in {"case", "metadata"}, NEW m \in Message,
         ApplyLate(kind, m)
  PROVE  LabelInv' /\ LabelKept
<1>0. LabelTypeOK /\ RecordsInv /\ LateRequestsAllowed BY DEF LabelInv, CaseInv
<1>1. LateRequest(kind, m) BY DEF ApplyLate
<1> DEFINE c == SubmissionOf[m]
           f == FileOf[m]
<1>2. c \in Submission /\ f \in File BY EventAssumption
<1>3. PICK d \in DocumentType :
        /\ <<kind, m, d>> \in sent
        /\ IF kind = "case" THEN LabelCase(c, f, d)
           ELSE label' = [label EXCEPT ![c][f] = d] /\ UNCHANGED caseType
  BY DEF ApplyLate
<1>8. TypeOfFile(c, f, d) /\ assigned' = assigned /\ SentIsOwn'
  <2>1. TypeOf(m, d) BY <1>3 DEF LabelInv, SentIsOwn
  <2>2. assigned' = assigned /\ sent' \subseteq sent BY DEF ApplyLate
  <2>3. SentIsOwn' BY <2>2 DEF LabelInv, SentIsOwn, TypeOf
  <2> QED BY <2>1, <2>2, <2>3 DEF TypeOfFile
<1>4. creator' = creator /\ UNCHANGED handlerVars BY <1>1 DEF LateRequest, storeVars
<1>5. /\ caseType' \in [Submission -> DocumentType \cup {NoType}]
      /\ label' \in [Submission -> [File -> DocumentType \cup {NoType}]]
      /\ RecordsAreLabelled' /\ CaseAgreesWithCreator' /\ LabelsAreOwn' /\ LabelKept
  <2>1. CASE kind = "case"
    <3>1. ApplyChangeset(c, f) /\ creator[c] = f
      BY <1>0, <1>1, <2>1 DEF LateRequest, LateRequestsAllowed
    <3>2. LabelCase(c, f, d) BY <1>3, <2>1
    <3> HIDE DEF c, f
    <3> QED BY <1>0, <1>2, <1>4, <1>8, <3>1, <3>2, CaseIsLabelled
  <2>2. CASE kind = "metadata"
    <3>1. ApplyMetadata(c, f) /\ HasIncident(c)
      BY <1>0, <1>1, <2>2 DEF LateRequest, LateRequestsAllowed
    <3>2. label' = [label EXCEPT ![c][f] = d] /\ caseType' = caseType BY <1>3, <2>2
    <3> HIDE DEF c, f
    <3> QED BY <1>0, <1>2, <1>4, <1>8, <3>1, <3>2, RecordIsLabelled DEF LabelTypeOK
  <2> QED BY <2>1, <2>2
<1>6. LabelTypeOK' BY <1>0, <1>5 DEF ApplyLate, LabelTypeOK
<1>7. ResolvedBeforeWritten'
  BY <1>4 DEF ApplyLate, LabelInv, ResolvedBeforeWritten, handlerVars, TypeOf
<1> QED BY <1>5, <1>6, <1>7, <1>8 DEF LabelInv

\* A message that is skipped, left or acknowledged takes its type along.
LEMMA FinishKeepsLabels ==
  ASSUME TypeOK, RecordsInv, Grows, LabelInv, NEW h \in Handler, Finish(h)
  PROVE  LabelInv' /\ LabelKept
<1>0. HandlerTypeOK /\ LabelTypeOK BY DEF TypeOK, HandlerTypeOK, LabelInv
<1>1. Upsert(h) \/ Acknowledge(h) BY DEF Finish
<1>2. Move(h) BY <1>0, <1>1, StepEffects DEF Advance
<1>3. LabelTypeOK' /\ \A g \in Handler \ {h} : resolved'[g] = resolved[g]
  BY <1>0 DEF Finish, LabelTypeOK
<1>4. pc'[h] \notin Labelling
  BY <1>0, <1>1 DEF Upsert, Acknowledge, Retryable, Goto, Leave, Labelling, HandlerTypeOK
<1>5. UNCHANGED <<crmVars, caseType, label, assigned, sent>>
  BY <1>1 DEF Finish, Upsert, Acknowledge
<1>6. SentIsOwn' BY <1>5 DEF LabelInv, SentIsOwn, TypeOf
<1> QED BY <1>2, <1>3, <1>4, <1>5, <1>6, StepWithoutRecord

\* The other steps go to a write only from one.
LEMMA OtherStepKeepsLabels ==
  ASSUME TypeOK, RecordsInv, Grows, LabelInv, NEW h \in Handler, OtherStep(h)
  PROVE  LabelInv' /\ LabelKept
<1>0. HandlerTypeOK /\ LabelTypeOK BY DEF TypeOK, HandlerTypeOK, LabelInv
<1>1. LabelTypeOK' /\ SentIsOwn' /\ UNCHANGED <<resolved, caseType, label, assigned>>
  BY <1>0 DEF OtherStep, labelVars, LabelTypeOK, LabelInv, SentIsOwn, TypeOf
<1>2. CASE \E m \in Message : Receive(h, m)
  <2>1. UNCHANGED crmVars BY <1>2 DEF Receive
  <2>2. \A g \in Handler : pc'[g] \in Labelling => pc[g] \in Labelling /\ held'[g] = held[g]
    BY <1>0, <1>2 DEF Receive, Labelling, HandlerTypeOK
  <2>3. ResolvedBeforeWritten' BY <1>1, <2>2 DEF LabelInv, ResolvedBeforeWritten, TypeOf
  <2> QED BY <1>1, <2>1, <2>3, NoRecordWritten DEF LabelInv
<1>3. CASE ~\E m \in Message : Receive(h, m)
  <2>1. Advance(h) \/ Fail(h) BY <1>3 DEF OtherStep, Advance, Fail
  <2>2. Move(h) BY <1>0, <2>1, StepEffects
  <2>3. UNCHANGED crmVars
    BY <1>3 DEF OtherStep, UpsertFails, GetToken, EnsureContactAndAccount, FindActivity, Lookup,
       CaseCreated, CaseSuppressed, PublishCaseCreated, RecordCaseId, MetadataAnswered,
       MarkProcessed, SendToDlq
  <2>4. pc'[h] \in Labelling => pc[h] \in Labelling /\ held'[h] = held[h]
    BY <1>0, <1>3 DEF OtherStep, UpsertFails, GetToken, EnsureContactAndAccount, FindActivity,
       Lookup, CaseCreated, CaseSuppressed, PublishCaseCreated, RecordCaseId, MetadataAnswered,
       AfterMetadata, MarkProcessed, SendToDlq, At, Goto, Leave, Retryable, NonRetryable,
       Labelling, HandlerTypeOK
  <2>5. pc'[h] \in Labelling => TypeOf(held'[h], resolved'[h])
    BY <1>1, <2>4 DEF LabelInv, ResolvedBeforeWritten
  <2> QED BY <1>1, <2>2, <2>3, <2>5, StepWithoutRecord
<1> QED BY <1>2, <1>3

\* Every step keeps the labels of what exists.
LEMMA LabelInvNext ==
  TypeOK /\ CaseInv /\ LabelInv /\ [LabelNext]_allVars => LabelInv' /\ LabelKept
<1> SUFFICES ASSUME TypeOK, CaseInv, LabelInv, [LabelNext]_allVars PROVE LabelInv' /\ LabelKept
  OBVIOUS
<1>0. RecordsInv /\ Grows BY LabelStepIsStep, CaseInvNext DEF CaseInv
<1>1. ASSUME NEW h \in Handler,
             Resolve(h) \/ CreateCase(h) \/ AddMetadata(h) \/ Abandon(h) \/ Finish(h) \/ OtherStep(h)
      PROVE  LabelInv' /\ LabelKept
  BY <1>0, <1>1, ResolveKeepsLabels, CreateCaseKeepsLabels, AddMetadataKeepsLabels,
     AbandonKeepsLabels, FinishKeepsLabels, OtherStepKeepsLabels
<1>2. ASSUME NEW kind \in {"case", "metadata"}, NEW m \in Message, ApplyLate(kind, m)
      PROVE  LabelInv' /\ LabelKept
  BY <1>2, ApplyLateKeepsLabels
<1>3. ASSUME UNCHANGED <<crmVars, pc, held, resolved, sent, caseType, label>>,
             assigned \subseteq assigned', LabelTypeOK'
      PROVE  LabelInv' /\ LabelKept
  <2>1. ResolvedBeforeWritten' /\ SentIsOwn'
    BY <1>3 DEF LabelInv, ResolvedBeforeWritten, SentIsOwn, TypeOf
  <2> QED BY <1>0, <1>3, <2>1, NoRecordWritten DEF LabelInv
<1>4. ASSUME NEW t \in CaseType, NEW d \in DocumentType, ChangeTypes(t, d)
      PROVE  LabelInv' /\ LabelKept
  <2>1. LabelTypeOK' /\ assigned \subseteq assigned'
    BY <1>4, LabelAssumption DEF ChangeTypes, LabelInv, LabelTypeOK
  <2> QED BY <1>3, <1>4, <2>1 DEF ChangeTypes, vars, handlerVars
<1>5. ASSUME UNCHANGED allVars \/ \E m \in Message : (QueueStep(m) \/ Replay(m)) /\ UNCHANGED labelVars
      PROVE  LabelInv' /\ LabelKept
  BY <1>3, <1>5 DEF allVars, vars, labelVars, handlerVars, QueueStep, VisibilityExpires, Redrive,
     Replay, LabelInv, LabelTypeOK
<1> QED BY <1>1, <1>2, <1>4, <1>5 DEF LabelNext

\* At first nothing is resolved, written or labelled.
LEMMA LabelInvInit == LabelInit => LabelInv
<1> SUFFICES ASSUME LabelInit PROVE LabelInv OBVIOUS
<1>1. LabelTypeOK BY LabelAssumption DEF LabelInit, LabelTypeOK
<1>2. ResolvedBeforeWritten BY DEF LabelInit, Init, ResolvedBeforeWritten, Labelling
<1>3. RecordsAreLabelled /\ CaseAgreesWithCreator /\ LabelsAreOwn
  BY DEF LabelInit, Init, CrmInit, RecordsAreLabelled, CaseAgreesWithCreator, LabelsAreOwn,
         HasIncident, HasMetadata
<1>4. SentIsOwn BY DEF LabelInit, SentIsOwn
<1> QED BY <1>1, <1>2, <1>3, <1>4 DEF LabelInv

-----------------------------------------------------------------------------
\* Whatever a handler writes it has resolved before, every record has a type from
\* the moment it exists, and a case agrees with its creator's record.
THEOREM LabelInvariantHolds == LabelSpec => [](TypeOK /\ CaseInv /\ LabelInv)
<1>1. LabelSpec => [](TypeOK /\ CaseInv)
  BY LabelSpecImplementsSpec, TypeCorrect, CaseInvariantHolds, PTL
<1>2. LabelInit => LabelInv BY LabelInvInit
<1>3. TypeOK /\ CaseInv /\ LabelInv /\ [LabelNext]_allVars => LabelInv' BY LabelInvNext
<1> QED BY <1>1, <1>2, <1>3, PTL DEF LabelSpec

\* A case is routed by the type that its creator's file is labelled with, however
\* often its creation was attempted and whatever the types were then.
THEOREM CaseAlwaysAgreesWithCreator == LabelSpec => []CaseAgreesWithCreator
<1>1. LabelInv => CaseAgreesWithCreator BY DEF LabelInv
<1> QED BY <1>1, LabelInvariantHolds, PTL

\* A file's label is a type that its own event's case type had at some time, for any
\* number of files, events, types and changes of them.
THEOREM LabelsAreAlwaysOwn == LabelSpec => []LabelsAreOwn
<1>1. LabelInv => LabelsAreOwn BY DEF LabelInv
<1> QED BY <1>1, LabelInvariantHolds, PTL

\* No case and no metadata record is ever without a document type, and no type is
\* ever written without its record.
THEOREM EveryRecordIsLabelled == LabelSpec => []RecordsAreLabelled
<1>1. LabelInv => RecordsAreLabelled BY DEF LabelInv
<1> QED BY <1>1, LabelInvariantHolds, PTL

\* The first type that is written stays: no later attempt or event, and no late
\* request, changes the type of a case or a record.
THEOREM LabelsNeverChange == LabelSpec => LabelsStay
<1>1. TypeOK /\ CaseInv /\ LabelInv /\ [LabelNext]_allVars => [LabelKept]_allVars
  BY LabelInvNext
<1> QED BY <1>1, LabelInvariantHolds, PTL DEF LabelSpec, LabelsStay
=============================================================================
