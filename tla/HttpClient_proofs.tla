-------------------------- MODULE HttpClient_proofs --------------------------
(***************************************************************************)
(* Safety of the HTTP client for any number of concurrent calls and any    *)
(* budgets: what the retry state of a call has to do with its attempts.    *)
(***************************************************************************)
EXTENDS HttpClient, TLAPS

\* A category and a reason say which was the n-th of a call's failures.
Tells(category, reason, ofCall, n) ==
  IF n = 0 THEN reason = "none" /\ category = "unknown"
  ELSE reason = ofCall[n] /\ category = ToMetadataCategory(ClassifyError(ofCall[n]))

\* No unrecognised failure has used up its budget and not ended the call.
WithinUnknownBudget(ofCall, n) ==
  \A i \in UnknownMaxAttempts..n : ofCall[i] # "unrecognised"

\* The retry state of a call in progress: no refusal is stored in it, it tells of
\* the last failure, and the last attempt it knows of is the one that failed.
InProgress(c) ==
  /\ retryState[c] \in RetryState
  /\ retryState[c].finalAttempt = 0
  /\ attempt[c] \in 1..Retries + 1
  /\ phase[c] = "waiting" => attempt[c] <= Retries
  /\ Len(failures[c]) = IF phase[c] = "sending" THEN attempt[c] - 1 ELSE attempt[c]
  /\ retryState[c].lastAttempt = Len(failures[c])
  /\ Tells(retryState[c].category, retryState[c].reason, failures[c], Len(failures[c]))
  /\ WithinUnknownBudget(failures[c], Len(failures[c]))

\* What a finished call has reported.
Finished(c) ==
  /\ result[c].outcome \in ThrownError =>
       /\ result[c].metadata.attempts = attempt[c]
       /\ Tells(result[c].metadata.category, result[c].metadata.reason, failures[c],
                IF Asked(c) THEN attempt[c] ELSE Retries)
  /\ WithinUnknownBudget(failures[c], attempt[c] - 1)

CallInv(c) ==
  /\ phase[c] = "new" => attempt[c] = 0 /\ failures[c] = <<>>
  /\ phase[c] \in {"sending", "waiting"} => InProgress(c)
  /\ phase[c] = "done" => Finished(c)
  /\ phase[c] # "done" => result[c] = NoResult

HttpInv == TypeOK /\ \A c \in Call : CallInv(c)

\* The loop allows at least one attempt, and no fewer than either budget.
LEMMA RetriesBound ==
  /\ Retries \in Nat
  /\ MaxAttempts <= Retries + 1
  /\ UnknownMaxAttempts <= Retries + 1
BY AttemptsAssumption DEF Retries

\* The metadata's vocabulary covers every classification, and only the failures
\* that are never recognised are "unknown".
LEMMA Classification ==
  \A o \in Failure :
    /\ ClassifyError(o) \in {"retryable", "nonRetryable", "unknown"}
    /\ ToMetadataCategory(ClassifyError(o)) \in Category
    /\ ClassifyError(o) = "unknown" <=> o = "unrecognised"
BY DEF Failure, HttpFailure, ThrownError, ClassifyError, ToMetadataCategory, Category

\* No call has begun, so the invariant holds.
LEMMA HttpInvInit == Init => HttpInv
BY DEF Init, HttpInv, TypeOK, CallInv, Phase, NoState, NoResult

\* What shouldRetry stores of a failed attempt that it is asked about.
LEMMA StateAfterFailure ==
  ASSUME HttpInv, NEW c \in Call, phase[c] = "sending", NEW o \in Failure, Asked(c)
  PROVE  /\ StateAfter(c, o) \in RetryState
         /\ StateAfter(c, o).lastAttempt = attempt[c]
         /\ StateAfter(c, o).finalAttempt = IF WillRetry(c, o) THEN 0 ELSE attempt[c]
         /\ StateAfter(c, o).category = ToMetadataCategory(ClassifyError(o))
         /\ StateAfter(c, o).reason = o
<1>1. InProgress(c) BY DEF HttpInv, CallInv
<1>2. attempt[c] \in Nat BY DEF HttpInv, TypeOK
<1> QED BY <1>1, <1>2, Classification DEF InProgress, StateAfter, RetryState, Entry

\* The metadata of a call that an error ends: its own attempts and failures.
LEMMA MetadataOfError ==
  ASSUME HttpInv, NEW c \in Call, phase[c] = "sending", NEW o \in ThrownError,
         ~(Asked(c) /\ WillRetry(c, o))
  PROVE  LET md == MetadataOf(StateAfter(c, o)) IN
           /\ md \in Metadata
           /\ md.attempts = attempt[c]
           /\ Tells(md.category, md.reason, Append(failures[c], o),
                    IF Asked(c) THEN attempt[c] ELSE Retries)
<1>1. InProgress(c) /\ attempt[c] \in Nat /\ failures[c] \in Seq(Failure) /\ o \in Failure
  BY DEF HttpInv, CallInv, TypeOK, Failure
<1>2. Len(failures[c]) = attempt[c] - 1 /\ attempt[c] \in 1..Retries + 1 BY <1>1 DEF InProgress
<1>3. /\ Append(failures[c], o)[attempt[c]] = o
      /\ \A n \in 1..attempt[c] - 1 : Append(failures[c], o)[n] = failures[c][n]
  BY <1>1, <1>2
<1>4. CASE Asked(c)
  <2>1. Tells(ToMetadataCategory(ClassifyError(o)), o, Append(failures[c], o), attempt[c])
    BY <1>2, <1>3 DEF Tells
  <2> QED BY <1>1, <1>2, <1>4, <2>1, StateAfterFailure DEF MetadataOf, Metadata, RetryState
<1>5. CASE ~Asked(c)
  <2>1. StateAfter(c, o) = retryState[c] BY <1>5 DEF StateAfter, Entry
  <2>2. attempt[c] - 1 = Retries BY <1>2, <1>5, RetriesBound DEF Asked
  <2>3. Tells(retryState[c].category, retryState[c].reason, Append(failures[c], o), Retries)
    BY <1>1, <1>2, <1>3, <2>2, RetriesBound DEF InProgress, Tells
  <2> QED BY <1>1, <1>2, <1>5, <2>1, <2>3 DEF InProgress, MetadataOf, Metadata, RetryState
<1> QED BY <1>4, <1>5

\* A call begins: its entry is fresh and its first attempt is under way.
LEMMA BeforeKeeps == ASSUME HttpInv, NEW c \in Call, Before(c) PROVE HttpInv'
<1>1. TypeOK' BY DEF HttpInv, TypeOK, Before, Phase, FreshState, NoState, RetryState, Category
<1>2. CallInv(c)'
  BY RetriesBound, AttemptsAssumption
  DEF HttpInv, TypeOK, CallInv, Before, InProgress, FreshState, NoState, RetryState,
      Tells, WithinUnknownBudget, Category
<1>3. \A d \in Call \ {c} : CallInv(d)'
  BY DEF HttpInv, TypeOK, CallInv, Before, InProgress, Finished, Asked
<1> QED BY <1>1, <1>2, <1>3 DEF HttpInv

\* A failed attempt is followed by another: its failure is stored, and it was not
\* the last of its budget.
LEMMA RetryKeeps ==
  ASSUME HttpInv, NEW c \in Call, NEW o \in Failure, Retry(c, o) PROVE HttpInv'
<1>1. StateAfter(c, o) \in RetryState /\ phase[c] = "sending" /\ Asked(c)
  BY StateAfterFailure DEF Retry
<1>2. TypeOK' BY <1>1 DEF HttpInv, TypeOK, Retry, Phase, Note, Entry
<1>3. InProgress(c)'
  <2>1. /\ retryState'[c] = StateAfter(c, o) /\ phase'[c] = "waiting" /\ attempt' = attempt
        /\ failures'[c] = Append(failures[c], o)
    BY DEF HttpInv, TypeOK, Retry, Note, Entry
  <2>2. /\ failures[c] \in Seq(Failure) /\ attempt[c] \in 1..Retries + 1 /\ attempt[c] <= Retries
        /\ Len(failures[c]) = attempt[c] - 1 /\ WithinUnknownBudget(failures[c], attempt[c] - 1)
    BY <1>1 DEF HttpInv, TypeOK, CallInv, InProgress, Asked
  <2>3. /\ Len(failures'[c]) = attempt[c] /\ failures'[c][attempt[c]] = o
        /\ \A n \in 1..attempt[c] - 1 : failures'[c][n] = failures[c][n]
    BY <2>1, <2>2
  <2>4. Tells(StateAfter(c, o).category, StateAfter(c, o).reason, failures'[c], attempt[c])
    BY <1>1, <2>2, <2>3, StateAfterFailure DEF Tells
  <2>5. WithinUnknownBudget(failures'[c], attempt[c])
    <3>1. o = "unrecognised" => attempt[c] < UnknownMaxAttempts
      BY Classification DEF Retry, WillRetry, Limit
    <3>2. ASSUME NEW n \in UnknownMaxAttempts..attempt[c] PROVE failures'[c][n] # "unrecognised"
      <4>1. CASE n = attempt[c] BY <2>2, <2>3, <3>1, <4>1, AttemptsAssumption
      <4>2. CASE n # attempt[c]
        <5>1. n \in UnknownMaxAttempts..attempt[c] - 1 /\ n \in 1..attempt[c] - 1
          BY <2>2, <4>2, AttemptsAssumption
        <5> QED BY <2>2, <2>3, <5>1 DEF WithinUnknownBudget
      <4> QED BY <4>1, <4>2
    <3> QED BY <3>2 DEF WithinUnknownBudget
  <2>6. StateAfter(c, o).lastAttempt = attempt[c] /\ StateAfter(c, o).finalAttempt = 0
    BY <1>1, StateAfterFailure DEF Retry
  <2> QED BY <1>1, <2>1, <2>2, <2>3, <2>4, <2>5, <2>6 DEF InProgress
<1>4. CallInv(c)' BY <1>1, <1>3 DEF HttpInv, TypeOK, CallInv, Retry
<1>5. \A d \in Call \ {c} : CallInv(d)'
  BY DEF HttpInv, TypeOK, CallInv, Retry, Note, Entry, InProgress, Finished, Asked
<1> QED BY <1>2, <1>4, <1>5 DEF HttpInv

\* The call ends, and what it reports is true of it.
LEMMA CompleteKeeps ==
  ASSUME HttpInv, NEW c \in Call, NEW o \in Failure \cup {"ok"}, Complete(c, o) PROVE HttpInv'
<1>1. phase[c] = "sending" /\ ~(Asked(c) /\ WillRetry(c, o)) BY DEF Complete
<1>2. Report(c, o) \in Result
  BY <1>1, MetadataOfError DEF Report, Result, NoMetadata, Metadata, Category
<1>3. TypeOK' BY <1>2 DEF HttpInv, TypeOK, Complete, Phase, Note, Entry, Failure
<1>4. Finished(c)'
  <2>1. /\ result'[c] = Report(c, o) /\ attempt' = attempt
        /\ failures'[c] = IF o \in Failure THEN Append(failures[c], o) ELSE failures[c]
    BY DEF HttpInv, TypeOK, Complete, Note
  <2>2. ASSUME o \in ThrownError
        PROVE  /\ result'[c].metadata.attempts = attempt[c]
               /\ Tells(result'[c].metadata.category, result'[c].metadata.reason, failures'[c],
                        IF Asked(c) THEN attempt[c] ELSE Retries)
    BY <1>1, <2>1, <2>2, MetadataOfError DEF Report, Failure
  <2>3. result'[c].outcome = o BY <2>1 DEF Report
  <2>4. WithinUnknownBudget(failures'[c], attempt[c] - 1)
    <3>1. /\ failures[c] \in Seq(Failure) /\ Len(failures[c]) = attempt[c] - 1
          /\ WithinUnknownBudget(failures[c], attempt[c] - 1) /\ attempt[c] \in Nat
      BY <1>1 DEF HttpInv, TypeOK, CallInv, InProgress
    <3>2. \A n \in 1..attempt[c] - 1 : failures'[c][n] = failures[c][n] BY <2>1, <3>1
    <3> QED BY <3>1, <3>2, AttemptsAssumption DEF WithinUnknownBudget
  <2> QED BY <2>1, <2>2, <2>3, <2>4 DEF Finished, Asked
<1>5. CallInv(c)' BY <1>4 DEF HttpInv, TypeOK, CallInv, Complete
<1>6. \A d \in Call \ {c} : CallInv(d)'
  BY DEF HttpInv, TypeOK, CallInv, Complete, Note, Entry, InProgress, Finished, Asked
<1> QED BY <1>3, <1>5, <1>6 DEF HttpInv

\* The next attempt is within the loop's bound and the budget of the failures so far.
LEMMA SendAgainKeeps == ASSUME HttpInv, NEW c \in Call, SendAgain(c) PROVE HttpInv'
<1>1. InProgress(c) /\ attempt[c] \in Nat /\ phase[c] = "waiting"
  BY DEF HttpInv, TypeOK, CallInv, SendAgain
<1>2. TypeOK' BY DEF HttpInv, TypeOK, SendAgain, Phase
<1>3. CallInv(c)'
  BY <1>1, RetriesBound, AttemptsAssumption
  DEF HttpInv, TypeOK, CallInv, SendAgain, InProgress
<1>4. \A d \in Call \ {c} : CallInv(d)'
  BY DEF HttpInv, TypeOK, CallInv, SendAgain, InProgress, Finished, Asked
<1> QED BY <1>2, <1>3, <1>4 DEF HttpInv

\* Every step keeps the invariant.
LEMMA HttpInvNext == HttpInv /\ [Next]_vars => HttpInv'
<1> SUFFICES ASSUME HttpInv, [Next]_vars PROVE HttpInv'
  OBVIOUS
<1>1. ASSUME NEW c \in Call, Before(c) PROVE HttpInv' BY <1>1, BeforeKeeps
<1>2. ASSUME NEW c \in Call, NEW o \in Failure \cup {"ok"}, Retry(c, o) PROVE HttpInv'
  BY <1>2, RetryKeeps DEF Retry, WillRetry
<1>3. ASSUME NEW c \in Call, NEW o \in Failure \cup {"ok"}, Complete(c, o) PROVE HttpInv'
  BY <1>3, CompleteKeeps
<1>4. ASSUME NEW c \in Call, SendAgain(c) PROVE HttpInv' BY <1>4, SendAgainKeeps
<1>5. CASE UNCHANGED vars
  BY <1>5 DEF HttpInv, TypeOK, CallInv, InProgress, Finished, Asked, vars
<1> QED BY <1>1, <1>2, <1>3, <1>4, <1>5 DEF Next, Settle

\* The retry state of every call in progress, and the report of every finished
\* one, tell of that call's own attempts and failures.
THEOREM HttpInvariantHolds == Spec => []HttpInv
<1> QED BY HttpInvInit, HttpInvNext, PTL DEF Spec

\* Type correctness: the metadata that services read keeps its vocabulary.
THEOREM HttpTypeCorrect == Spec => []TypeOK
<1>1. HttpInv => TypeOK BY DEF HttpInv
<1> QED BY <1>1, HttpInvariantHolds, PTL

\* The number of attempts an error reports is the number that was made.
THEOREM AttemptsAlwaysReported == Spec => []AttemptsAreReported
<1>1. HttpInv => AttemptsAreReported
  BY DEF HttpInv, CallInv, Finished, AttemptsAreReported, TypeOK, Phase, NoResult, ThrownError
<1> QED BY <1>1, HttpInvariantHolds, PTL

\* Calls in progress together never report each other's failures, and of its own
\* each reports the last that shouldRetry was asked about.
THEOREM ReportIsAlwaysOfThisCall == Spec => []ReportIsOfThisCall
<1>1. HttpInv => ReportIsOfThisCall
  BY DEF HttpInv, CallInv, Finished, ReportIsOfThisCall, Tells, TypeOK, Phase, NoResult, ThrownError
<1> QED BY <1>1, HttpInvariantHolds, PTL

\* Errors that are not recognised use the conservative budget and no more, also
\* when errors of another class came before them.
THEOREM UnknownBudgetHolds == Spec => []UnknownBudget
<1>1. ASSUME HttpInv, NEW c \in Call PROVE WithinUnknownBudget(failures[c], attempt[c] - 1)
  <2>1. attempt[c] \in Nat /\ phase[c] \in Phase /\ CallInv(c) BY <1>1 DEF HttpInv, TypeOK
  <2>2. CASE phase[c] = "new" BY <2>1, <2>2, AttemptsAssumption DEF CallInv, WithinUnknownBudget
  <2>3. CASE phase[c] \in {"sending", "waiting"}
    BY <2>1, <2>3, AttemptsAssumption DEF CallInv, InProgress, WithinUnknownBudget
  <2>4. CASE phase[c] = "done" BY <2>1, <2>4 DEF CallInv, Finished
  <2> QED BY <2>1, <2>2, <2>3, <2>4 DEF Phase
<1>2. HttpInv => UnknownBudget BY <1>1 DEF UnknownBudget, WithinUnknownBudget
<1> QED BY <1>2, HttpInvariantHolds, PTL

-----------------------------------------------------------------------------
(* What CallsEnd rests on, as far as single steps show it: the steps that a *)
(* call has left, were every attempt of its loop to fail.                   *)

StepsLeft(c) ==
  CASE phase[c] = "new"     -> 2 * Retries + 2
    [] phase[c] = "sending" -> 2 * (Retries + 1 - attempt[c]) + 1
    [] phase[c] = "waiting" -> 2 * (Retries + 1 - attempt[c])
    [] phase[c] = "done"    -> 0

\* Whatever a call has met, what it has left is a number, within the budgets.
THEOREM StepsAreCounted == Spec => [](\A c \in Call : StepsLeft(c) \in 0..2 * Retries + 2)
<1>1. ASSUME NEW n \in Nat, NEW a \in 1..n + 1
      PROVE  2 * (n + 1 - a) \in 0..2 * n + 2 /\ 2 * (n + 1 - a) + 1 \in 0..2 * n + 2
  OBVIOUS
<1>2. ASSUME HttpInv, NEW c \in Call PROVE StepsLeft(c) \in 0..2 * Retries + 2
  <2>1. phase[c] \in Phase BY <1>2 DEF HttpInv, TypeOK
  <2>2. CASE phase[c] \in {"new", "done"} BY <2>2, RetriesBound DEF StepsLeft
  <2>3. CASE phase[c] \in {"sending", "waiting"}
    <3>1. attempt[c] \in 1..Retries + 1 /\ Retries \in Nat
      BY <1>2, <2>3, RetriesBound DEF HttpInv, CallInv, InProgress
    <3>2. StepsLeft(c) \in {2 * (Retries + 1 - attempt[c]), 2 * (Retries + 1 - attempt[c]) + 1}
      BY <2>3 DEF StepsLeft
    <3> QED BY <1>1, <3>1, <3>2
  <2> QED BY <2>1, <2>2, <2>3 DEF Phase
<1>3. HttpInv => \A c \in Call : StepsLeft(c) \in 0..2 * Retries + 2 BY <1>2
<1> QED BY <1>3, HttpInvariantHolds, PTL

\* Every step of the client takes one call further, which has fewer steps left then,
\* and no other call more: a call cannot put off the end of another, nor its own.
THEOREM StepsRunOut ==
  Spec => [][\E c \in Call : /\ StepsLeft(c)' < StepsLeft(c)
                             /\ \A d \in Call \ {c} : StepsLeft(d)' = StepsLeft(d)]_vars
<1> DEFINE Further == \E c \in Call : /\ StepsLeft(c)' < StepsLeft(c)
                                      /\ \A d \in Call \ {c} : StepsLeft(d)' = StepsLeft(d)
<1>1. ASSUME HttpInv, NEW c \in Call, Before(c) PROVE Further
  <2>1. phase[c] = "new" /\ phase'[c] = "sending" /\ attempt'[c] = 1
    BY <1>1 DEF Before, HttpInv, TypeOK
  <2>2. \A d \in Call \ {c} : phase'[d] = phase[d] /\ attempt'[d] = attempt[d]
    BY <1>1 DEF Before, HttpInv, TypeOK
  <2>3. StepsLeft(c)' < StepsLeft(c) BY <2>1, RetriesBound DEF StepsLeft
  <2> QED BY <2>2, <2>3 DEF StepsLeft
<1>2. ASSUME HttpInv, NEW c \in Call, NEW o \in Failure \cup {"ok"}, Retry(c, o) \/ Complete(c, o)
      PROVE  Further
  <2>1. /\ phase[c] = "sending" /\ attempt[c] \in 1..Retries + 1 /\ attempt'[c] = attempt[c]
        /\ phase'[c] \in {"waiting", "done"}
    BY <1>2 DEF Retry, Complete, HttpInv, TypeOK, CallInv, InProgress
  <2>2. \A d \in Call \ {c} : phase'[d] = phase[d] /\ attempt'[d] = attempt[d]
    BY <1>2 DEF Retry, Complete, HttpInv, TypeOK
  <2>3. StepsLeft(c)' < StepsLeft(c) BY <2>1, RetriesBound DEF StepsLeft
  <2> QED BY <2>2, <2>3 DEF StepsLeft
<1>3. ASSUME HttpInv, NEW c \in Call, SendAgain(c) PROVE Further
  <2>1. /\ phase[c] = "waiting" /\ phase'[c] = "sending"
        /\ attempt[c] \in 1..Retries + 1 /\ attempt'[c] = attempt[c] + 1
    BY <1>3 DEF SendAgain, HttpInv, TypeOK, CallInv, InProgress
  <2>2. \A d \in Call \ {c} : phase'[d] = phase[d] /\ attempt'[d] = attempt[d]
    BY <1>3 DEF SendAgain, HttpInv, TypeOK
  <2>3. StepsLeft(c)' < StepsLeft(c) BY <2>1, RetriesBound DEF StepsLeft
  <2> QED BY <2>2, <2>3 DEF StepsLeft
<1>4. HttpInv /\ [Next]_vars => [Further]_vars BY <1>1, <1>2, <1>3 DEF Next, Settle
<1> QED BY <1>4, HttpInvariantHolds, PTL DEF Spec
=============================================================================
