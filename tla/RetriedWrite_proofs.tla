------------------------- MODULE RetriedWrite_proofs -------------------------
(***************************************************************************)
(* A retried conditional upsert is as good as one request made once, for   *)
(* any number of calls and attempts: RetriedWrite implements CreateOnce.   *)
(***************************************************************************)
EXTENDS RetriedWrite, HttpClient_proofs

\* What an answer says is true, and stays true: the record, once there, remains
\* that of the attempt that made it.
Truthful(c) ==
  /\ answer[c] = "204" => record[1] = c
  /\ answer[c] = "412" => record # NoRecord
  /\ phase[c] = "done" /\ result[c].outcome = "ok" => record[1] = c

WriteInv == HttpInv /\ WriteTypeOK /\ \A c \in Call : Truthful(c)

\* No call has begun and there is no record.
LEMMA WriteInvInit == WriteInit => WriteInv
BY HttpInvInit DEF WriteInit, WriteInv, HttpInv, WriteTypeOK, Truthful, NoRecord, Status, Init

\* Only the answer to the attempt in progress changes when a request is replied to.
LEMMA ReplyOthers ==
  ASSUME WriteInv, NEW r \in inFlight, NEW status \in Status, Reply(r, status), NEW d \in Call
  PROVE  /\ answer' \in [Call -> Status]
         /\ answer'[d] = answer[d] \/ (d = r[1] /\ answer'[d] = status)
         /\ phase[d] # "sending" => answer'[d] = answer[d]
BY DEF WriteInv, WriteTypeOK, Reply

\* A request that is applied or refused makes no answer untrue.
LEMMA ServerKeeps ==
  ASSUME WriteInv, NEW r \in inFlight, Apply(r) \/ Refuse(r)
  PROVE  WriteInv'
<1>1. HttpInv' /\ TypeOK'
  BY DEF Apply, Refuse, vars, WriteInv, WriteTypeOK, HttpInv, TypeOK, CallInv, InProgress, Finished, Asked
<1>2. r \in Call \X (Nat \ {0}) /\ r[1] \in Call /\ r[1] # NoCall /\ r # NoRecord
  BY WriteAssumption DEF WriteInv, WriteTypeOK, NoRecord
<1>3. CASE Apply(r)
  <2>1. PICK status \in {IF record = NoRecord THEN "204" ELSE "412", "5xx"} : Reply(r, status)
    BY <1>3 DEF Apply
  <2>2. status \in Status BY <2>1 DEF Status
  <2>3. record' = (IF record = NoRecord THEN r ELSE record) /\ record' # NoRecord
    BY <1>2, <1>3 DEF Apply
  <2>4. WriteTypeOK'
    BY <1>1, <1>2, <1>3, <2>1, <2>2, ReplyOthers DEF Apply, WriteInv, WriteTypeOK, Reply
  <2>5. ASSUME NEW c \in Call PROVE Truthful(c)'
    <3>1. answer'[c] = answer[c] \/ (c = r[1] /\ answer'[c] = status)
      BY <2>1, <2>2, ReplyOthers
    <3>2. Truthful(c) /\ phase' = phase /\ result' = result
      BY <1>3 DEF WriteInv, Apply, vars
    <3>3. record[1] = c => record' = record
      BY <2>3, WriteAssumption DEF NoRecord
    <3> QED BY <2>1, <2>3, <3>1, <3>2, <3>3, <1>2 DEF Truthful
  <2> QED BY <1>1, <2>4, <2>5 DEF WriteInv
<1>4. CASE Refuse(r)
  <2>1. PICK status \in {"none", "4xx", "429", "5xx"} : Reply(r, status)
    BY <1>4 DEF Refuse
  <2>2. status \in Status BY <2>1 DEF Status
  <2>3. WriteTypeOK'
    BY <1>1, <1>4, <2>1, <2>2, ReplyOthers DEF Refuse, WriteInv, WriteTypeOK, Reply
  <2>4. ASSUME NEW c \in Call PROVE Truthful(c)'
    <3>1. answer'[c] = answer[c] \/ (c = r[1] /\ answer'[c] = status)
      BY <2>1, <2>2, ReplyOthers
    <3> QED BY <1>4, <2>1, <3>1 DEF WriteInv, Truthful, Refuse, vars
  <2> QED BY <1>1, <2>3, <2>4 DEF WriteInv
<1> QED BY <1>3, <1>4

\* What a call reports is the answer to its own last attempt.
LEMMA EndsKeeps ==
  ASSUME WriteInv, NEW c \in Call, NEW o \in Failure \cup {"ok"}, Ends(c, o)
  PROVE  WriteInv'
<1>1. HttpInv' /\ TypeOK'
  BY HttpInvNext DEF WriteInv, HttpInv, Ends, Next, Settle
<1>2. WriteTypeOK'
  BY <1>1 DEF WriteInv, WriteTypeOK, Ends, Status
<1>3. o = "ok" => answer[c] = "204"
  BY DEF Ends, Outcome, ThrownError, WriteInv, WriteTypeOK, Status
<1>4. ASSUME NEW d \in Call PROVE Truthful(d)'
  <2>1. Truthful(d) /\ Truthful(c) /\ record' = record BY DEF WriteInv, Ends
  <2>2. answer'[d] = answer[d] \/ answer'[d] = "none"
    BY DEF WriteInv, WriteTypeOK, Ends
  <2>3. phase'[d] = "done" /\ result'[d].outcome = "ok"
          => (d = c /\ o = "ok") \/ (phase[d] = "done" /\ result[d].outcome = "ok")
    BY DEF WriteInv, HttpInv, TypeOK, Ends, Retry, Complete, Report
  <2> QED BY <1>3, <2>1, <2>2, <2>3 DEF Truthful
<1> QED BY <1>1, <1>2, <1>4 DEF WriteInv

\* A new attempt has no answer yet.
LEMMA SendsKeep ==
  ASSUME WriteInv, NEW c \in Call, Begin(c) \/ SendsAgain(c)
  PROVE  WriteInv'
<1>1. HttpInv' /\ TypeOK'
  BY HttpInvNext DEF WriteInv, HttpInv, Begin, SendsAgain, Next
<1>2. attempt[c] \in Nat BY DEF WriteInv, HttpInv, TypeOK
<1>3. WriteTypeOK'
  BY <1>1, <1>2 DEF WriteInv, WriteTypeOK, Begin, SendsAgain, Status
<1>4. ASSUME NEW d \in Call PROVE Truthful(d)'
  BY DEF WriteInv, WriteTypeOK, HttpInv, TypeOK, Truthful, Begin, SendsAgain, Before, SendAgain
<1> QED BY <1>1, <1>3, <1>4 DEF WriteInv

\* Every step keeps the invariant.
LEMMA WriteInvNext == WriteInv /\ [WriteNext]_allVars => WriteInv'
<1> SUFFICES ASSUME WriteInv, [WriteNext]_allVars PROVE WriteInv'
  OBVIOUS
<1>1. CASE UNCHANGED allVars
  BY <1>1 DEF allVars, vars, serverVars, WriteInv, WriteTypeOK, Truthful, HttpInv, TypeOK,
              CallInv, InProgress, Finished, Asked
<1> QED BY <1>1, ServerKeeps, EndsKeeps, SendsKeep DEF WriteNext

\* What a caller is told is true: "created" of its own record, "exists" of somebody's.
ToldTruth ==
  \A c \in Call :
    /\ ToldCaller(c) \in {"nothing", "created", "exists", "failed"}
    /\ ToldCaller(c) = "created" => record[1] = c
    /\ ToldCaller(c) = "exists" => record # NoRecord

\* What a caller is told rests on the invariant.
LEMMA ToldIsTrue == WriteInv => ToldTruth
BY DEF WriteInv, ToldTruth, ToldCaller, Truthful

\* A record is that of one of the calls.
LEMMA RecordOfCall ==
  ASSUME WriteInv PROVE record[1] = NoCall <=> record = NoRecord
BY WriteAssumption DEF WriteInv, WriteTypeOK, NoRecord

\* A request that is applied creates the record or changes nothing; a refused one
\* changes nothing that a caller sees.
LEMMA ServerSimulates ==
  ASSUME WriteInv, NEW r \in inFlight, Apply(r) \/ Refuse(r)
  PROVE  Once!Next \/ UNCHANGED Once!vars
<1>1. ASSUME NEW d \in Call PROVE ToldCaller(d)' = ToldCaller(d)
  <2>1. phase' = phase /\ result' = result BY DEF Apply, Refuse, vars
  <2>2. \E status \in Status : Reply(r, status) BY DEF Apply, Refuse, Status
  <2>3. phase[d] = "done" => answer'[d] = answer[d] BY <2>2, ReplyOthers
  <2> QED BY <2>1, <2>3 DEF ToldCaller
<1>2. r[1] \in Call BY DEF WriteInv, WriteTypeOK
<1>3. CASE record' = record
  BY <1>1, <1>3 DEF Once!vars
<1>4. CASE record' # record
  <2>1. record = NoRecord /\ record' = r BY <1>4 DEF Apply, Refuse
  <2>2. record[1] = NoCall /\ record'[1] = r[1] BY <2>1 DEF NoRecord
  <2>3. ToldCaller(r[1]) \in {"nothing", "failed"}
    BY <1>2, <2>1, <2>2, ToldIsTrue, WriteAssumption DEF ToldTruth
  <2>4. Once!Create(r[1])
    BY <1>1, <1>2, <2>2, <2>3 DEF Once!Create
  <2> QED BY <1>2, <2>4 DEF Once!Next
<1> QED BY <1>3, <1>4

\* The end of a call is its answer, and any other step of a call tells no one
\* anything.
LEMMA CallSimulates ==
  ASSUME WriteInv, WriteInv', NEW c \in Call,
         Begin(c) \/ SendsAgain(c) \/ \E o \in Failure \cup {"ok"} : Ends(c, o)
  PROVE  Once!Next \/ UNCHANGED Once!vars
<1>1. record' = record BY DEF Begin, SendsAgain, Ends
<1>2. ASSUME NEW d \in Call \ {c} PROVE ToldCaller(d)' = ToldCaller(d)
  <2>1. phase'[d] = phase[d] /\ result'[d] = result[d] /\ answer'[d] = answer[d]
    BY DEF WriteInv, WriteTypeOK, HttpInv, TypeOK, Begin, SendsAgain, Ends,
           Before, SendAgain, Retry, Complete
  <2> QED BY <2>1 DEF ToldCaller
<1>3. ToldCaller(c) = "nothing"
  BY DEF ToldCaller, Begin, SendsAgain, Ends, Before, SendAgain, Retry, Complete
<1>4. CASE ToldCaller(c)' = "nothing"
  BY <1>1, <1>2, <1>3, <1>4 DEF Once!vars
<1>5. CASE ToldCaller(c)' # "nothing"
  <2>1. /\ ToldCaller(c)' \in {"created", "exists", "failed"}
        /\ ToldCaller(c)' = "created" => record[1] = c
        /\ ToldCaller(c)' = "exists" => record[1] # NoCall
    <3>1. ToldTruth' BY ToldIsTrue, PTL
    <3> QED BY <1>1, <1>5, <3>1, RecordOfCall DEF ToldTruth
  <2> DEFINE told == [d \in Call |-> ToldCaller(d)]
  <2>2. told' = [told EXCEPT ![c] = ToldCaller(c)']
    BY <1>2
  <2>3. Once!Answer(c)
    BY <1>1, <1>3, <2>1, <2>2 DEF Once!Answer, Once!Told
  <2> QED BY <2>3 DEF Once!Next
<1> QED BY <1>4, <1>5

\* The inductive invariant of the composition: every answer that is under way or
\* was given is true.
THEOREM WriteInvariantHolds == WriteSpec => []WriteInv
BY WriteInvInit, WriteInvNext, PTL DEF WriteSpec

\* Requests, record and answers keep their types.
THEOREM WriteTypeCorrect == WriteSpec => []WriteTypeOK
<1>1. WriteInv => WriteTypeOK BY DEF WriteInv
<1> QED BY <1>1, WriteInvariantHolds, PTL

\* Retried writes with lost, late and repeated requests implement the abstract
\* write that happens at most once.
THEOREM RetriesImplementCreateOnce == WriteSpec => ImplementsCreateOnce
<1>1. WriteInit => Once!Init
  <2> SUFFICES ASSUME WriteInit PROVE Once!Init
    OBVIOUS
  <2>1. \A c \in Call : ToldCaller(c) = "nothing" BY DEF WriteInit, Init, ToldCaller
  <2>2. record[1] = NoCall BY DEF WriteInit, NoRecord
  <2> QED BY <2>1, <2>2 DEF Once!Init
<1>2. WriteInv /\ WriteInv' /\ [WriteNext]_allVars => [Once!Next]_(Once!vars)
  <2> SUFFICES ASSUME WriteInv, WriteInv', [WriteNext]_allVars
               PROVE  Once!Next \/ UNCHANGED Once!vars
    OBVIOUS
  <2>1. CASE UNCHANGED allVars
    BY <2>1 DEF allVars, vars, serverVars, Once!vars, ToldCaller
  <2> QED BY <2>1, ServerSimulates, CallSimulates DEF WriteNext
<1> QED BY <1>1, <1>2, WriteInvariantHolds, PTL DEF WriteSpec, ImplementsCreateOnce, Once!Spec
=============================================================================
