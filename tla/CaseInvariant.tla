---------------------------- MODULE CaseInvariant ----------------------------
(***************************************************************************)
(* The inductive invariant behind the safety properties of CaseProcessing: *)
(* what each await of a handler may rely on although other handlers,       *)
(* crashes and late requests run in between, and what the document and the *)
(* CRM have in common at any time.                                         *)
(***************************************************************************)
EXTENDS CaseProcessing

Creating == {"parties", "changeset", "committed", "fallback", "publish", "updateCaseId"}
Adding == {"activity", "metadata"}
Working == Creating \cup Adding \cup {"token", "docType", "mark"}

\* A handler is idle exactly when it holds no message.
HoldsMessage(h) == (pc[h] = "idle") <=> (held[h] = NoMessage)

\* The step a handler is at tells what prepareCase decided for its message.
JobOfStep(h) ==
  /\ pc[h] \in Creating => job[h] = "create"
  /\ pc[h] \in Adding => job[h] = "addMetadata"
  /\ pc[h] \in Working => job[h] # "none"

\* Only the file named in the document creates; only a recorded case is added to.
RightToWork(h) == pc[h] \in Working =>
  /\ job[h] = "create" => creator[Sub(h)] = Fil(h)
  /\ job[h] = "addMetadata" => caseId[Sub(h)]

\* What a handler past the changeset or the metadata write has behind it.
WorkDone(h) ==
  /\ pc[h] \in {"committed", "fallback", "publish", "updateCaseId", "mark"} => HasIncident(Sub(h))
  /\ pc[h] \in {"committed", "publish", "updateCaseId", "mark"} => HasMetadata(Sub(h), Fil(h))
  /\ pc[h] = "updateCaseId" => Sub(h) \in announced
  /\ pc[h] = "mark" => caseId[Sub(h)]

HandlerInv(h) == HoldsMessage(h) /\ JobOfStep(h) /\ RightToWork(h) /\ WorkDone(h)

\* A late request had the right to be sent.
LateRequestsAllowed ==
  \A m \in Message :
    LET c == SubmissionOf[m]
        f == FileOf[m]
    IN  /\ <<"case", m>> \in inFlight => creator[c] = f
        /\ <<"metadata", m>> \in inFlight => HasIncident(c) /\ (creator[c] = f \/ caseId[c])

\* What the document, the CRM and the events have in common.
RecordsInv ==
  /\ RecordedCaseExists /\ ProcessedFileIsInCrm /\ NoDuplicateRecords
  /\ MetadataFollowsCase /\ CaseHasCreatorsFile /\ RecordedCaseIsAnnounced

CaseInv == (\A h \in Handler : HandlerInv(h)) /\ LateRequestsAllowed /\ RecordsInv

\* A message is accounted for without being on the queue.
Settled(m) ==
  m \in deadLetter \/ m \in dropped \/ FileOf[m] \in processed[SubmissionOf[m]]

\* A handler deletes a message only when it is settled.
AcknowledgedIsSettled == \A h \in Handler : pc[h] = "ack" => Settled(held[h])

LossInv == AcknowledgedIsSettled /\ NoSilentLoss

-----------------------------------------------------------------------------
(* What the liveness properties rest on, as far as single steps show it: a *)
(* delivery that meets no failure does its work, and the work runs out.    *)

Healthy(m) == m \in Message \ (Faulty \cup Malformed)

\* Without failures nothing is discarded, and only what is done is acknowledged.
HealthyInv == \A h \in Handler : Healthy(held[h]) =>
  /\ pc[h] # "discard"
  /\ pc[h] = "ack" => Fil(h) \in processed[Sub(h)]

\* A delivery that meets no failure itself ends with its file in the CRM and marked,
\* whatever other handlers, crashes and late requests do meanwhile; the one
\* exception is a file that waits for the creator of its case.
HealthyDeliverySucceeds ==
  [][\A h \in Handler : Healthy(held[h]) /\ held'[h] # held[h] =>
       \/ Fil(h) \in processed[Sub(h)]
       \/ creator[Sub(h)] \notin {NoFile, Fil(h)} /\ ~caseId[Sub(h)]]_vars

\* The awaits from a step to the end of the invocation, on the longest way.
AwaitsFrom(step) ==
  CASE step = "idle"                   -> 0
    [] step = "ack"                    -> 1
    [] step = "discard"                -> 2
    [] step = "mark"                   -> 3
    [] step \in {"updateCaseId", "metadata"} -> 4
    [] step = "publish"                -> 5
    [] step = "fallback"               -> 6
    [] step = "committed"              -> 8
    [] step = "changeset"              -> 9
    [] step = "docType"                -> 10
    [] step \in {"parties", "activity"} -> 11
    [] step = "token"                  -> 12
    [] step = "upsert"                 -> 13

\* A metadata record that is not there takes a step to be written and one to answer.
AwaitsLeft(h) ==
  AwaitsFrom(pc[h]) +
    (IF pc[h] \in {"fallback", "metadata"} /\ ~HasMetadata(Sub(h), Fil(h)) THEN 1 ELSE 0)

\* What SQS may still do with a message before an operator replays it.
MovesLeft(m) ==
  3 * (MaxReceive - receives[m]) +
    (CASE queue[m] = "hidden" -> 2 [] queue[m] = "visible" -> 1 [] OTHER -> 0)

QueueInv == \A m \in Message : receives[m] <= MaxReceive

NoMoreAwaits == \A h \in Handler : AwaitsLeft(h)' <= AwaitsLeft(h)
NoMoreMoves == \A m \in Message : MovesLeft(m)' <= MovesLeft(m)

\* Every step uses something up that only a step named before it can restore: a
\* replay, a move of a message by its queue, an await of a handler, a late request.
\* So no failures, crashes and redeliveries keep the service busy for ever.
WorkRunsOut ==
  [][\/ replays' = replays + 1 /\ replays' <= MaxReplays
     \/ /\ \E m \in Message : MovesLeft(m)' < MovesLeft(m)
        /\ NoMoreMoves /\ UNCHANGED replays
     \/ /\ \E h \in Handler : AwaitsLeft(h)' < AwaitsLeft(h)
        /\ NoMoreAwaits /\ NoMoreMoves /\ UNCHANGED replays
     \/ /\ \E request \in inFlight : inFlight' = inFlight \ {request}
        /\ NoMoreAwaits /\ NoMoreMoves /\ UNCHANGED replays]_vars
=============================================================================
