---------------------------- MODULE RetriedWrite ----------------------------
(***************************************************************************)
(* Conditional upserts of one record (PATCH or changeset with              *)
(* If-None-Match: * on a derived key), each sent through the HTTP client   *)
(* with its retries: the attempts of a call are requests of their own,     *)
(* which Dataverse applies late, out of order, or not at all, also after   *)
(* the call gave them up.                                                  *)
(*                                                                         *)
(* Composes HttpClient with the server, and implements CreateOnce, which   *)
(* is what CaseProcessing takes a write to be.                             *)
(***************************************************************************)
EXTENDS HttpClient

CONSTANT NoCall

ASSUME WriteAssumption == NoCall \notin Call

VARIABLES
  inFlight,  \* <<call, attempt>>: requests that Dataverse may still apply
  record,    \* the <<call, attempt>> that made the record, or NoRecord
  answer     \* [Call -> Status] of the current attempt

serverVars == <<inFlight, record, answer>>
allVars == <<vars, serverVars>>

NoRecord == <<NoCall, 0>>
Status == {"none", "204", "412", "4xx", "429", "5xx"}

WriteTypeOK ==
  /\ TypeOK
  /\ inFlight \subseteq Call \X (Nat \ {0})
  /\ record \in (Call \X (Nat \ {0})) \cup {NoRecord}
  /\ answer \in [Call -> Status]

WriteInit ==
  /\ Init
  /\ inFlight = {}
  /\ record = NoRecord
  /\ answer = [c \in Call |-> "none"]

-----------------------------------------------------------------------------
(* Dataverse. *)

\* Who waits for the answer to a request: nobody, once its call has moved on.
Reply(r, status) ==
  answer' = IF phase[r[1]] = "sending" /\ attempt[r[1]] = r[2]
            THEN [answer EXCEPT ![r[1]] = status] ELSE answer

ApplyUnconditionally(r) ==  \* variant: the write has no If-None-Match
  /\ r \in inFlight
  /\ inFlight' = inFlight \ {r}
  /\ record' = r
  /\ Reply(r, "204")
  /\ UNCHANGED vars

\* A request is applied if there is no record yet; a gateway may still answer 5xx.
Apply(r) ==
  /\ r \in inFlight
  /\ inFlight' = inFlight \ {r}
  /\ record' = IF record = NoRecord THEN r ELSE record
  /\ \E status \in {IF record = NoRecord THEN "204" ELSE "412", "5xx"} : Reply(r, status)
  /\ UNCHANGED vars

\* A request that is refused or throttled, or that never gets there.
Refuse(r) ==
  /\ r \in inFlight
  /\ inFlight' = inFlight \ {r}
  /\ \E status \in {"none", "4xx", "429", "5xx"} : Reply(r, status)
  /\ UNCHANGED <<vars, record>>

-----------------------------------------------------------------------------
(* The calls. *)

Outcome(status) ==
  CASE status = "204"          -> "ok"
    [] status = "429"          -> "throttled"
    [] status = "5xx"          -> "serverError"
    [] status \in {"412", "4xx"} -> "clientError"

Begin(c) ==
  /\ Before(c)
  /\ inFlight' = inFlight \cup {<<c, 1>>}
  /\ UNCHANGED <<record, answer>>

\* The attempt ends with its answer, or with an error although there is one: a
\* timeout, a connection that breaks, and the request may be applied later.
Ends(c, o) ==
  /\ o \in ThrownError \/ (answer[c] # "none" /\ o = Outcome(answer[c]))
  /\ Retry(c, o) \/ Complete(c, o)
  /\ answer' = [answer EXCEPT ![c] = IF o \in ThrownError THEN "none" ELSE @]
  /\ UNCHANGED <<inFlight, record>>

SendsAgain(c) ==
  /\ SendAgain(c)
  /\ inFlight' = inFlight \cup {<<c, attempt[c] + 1>>}
  /\ answer' = [answer EXCEPT ![c] = "none"]
  /\ UNCHANGED record

WriteNext ==
  \/ \E r \in inFlight : Apply(r) \/ Refuse(r)
  \/ \E c \in Call : Begin(c) \/ SendsAgain(c) \/ \E o \in Failure \cup {"ok"} : Ends(c, o)

WriteSpec == WriteInit /\ [][WriteNext]_allVars

-----------------------------------------------------------------------------
\* What upsertRecord returns: true, false for a 412, or a rejection.
ToldCaller(c) ==
  IF phase[c] # "done" THEN "nothing"
  ELSE IF result[c].outcome = "ok" THEN "created"
  ELSE IF result[c].outcome = "clientError" /\ answer[c] = "412" THEN "exists"
  ELSE "failed"

Once == INSTANCE CreateOnce
          WITH creator <- record[1], told <- [c \in Call |-> ToldCaller(c)]

\* However often a write is sent, and whatever becomes of each attempt, its caller
\* can rely on the answer as if the write were one request made once.
ImplementsCreateOnce == Once!Spec
=============================================================================
