----------------------------- MODULE HttpClient -----------------------------
(***************************************************************************)
(* The HTTP client that every CRM and token request goes through: the      *)
(* retry loop of ffetch as the client configures it, the shouldRetry,      *)
(* before and onComplete hooks, and the Map of retry states that calls in  *)
(* progress share, keyed by their request.                                 *)
(*                                                                         *)
(* ffetch itself is external.  As client.js describes it, shouldRetry is   *)
(* not asked about the last attempt the loop allows, and the HttpError of  *)
(* throwOnHttpError is built after onComplete has run.                     *)
(***************************************************************************)
EXTENDS Integers, Sequences

CONSTANTS
  Call,                \* calls of httpClient in progress
  MaxAttempts,         \* retry.http.maxAttempts
  UnknownMaxAttempts   \* retry.http.unknownMaxAttempts

ASSUME AttemptsAssumption ==
  MaxAttempts \in Nat \ {0} /\ UnknownMaxAttempts \in Nat \ {0}

VARIABLES
  phase,       \* [Call -> Phase]
  attempt,     \* [Call -> Nat] the attempt in progress, or the last one made
  retryState,  \* [Call -> RetryState or NoState] the Map retryStateByRequest
  failures,    \* [Call -> Seq(Failure)] of the call's attempts, in order
  result       \* [Call -> Result or NoResult] what the caller gets

vars == <<phase, attempt, retryState, failures, result>>

Phase == {"new", "sending", "waiting", "done"}
HttpFailure == {"clientError", "throttled", "serverError"}  \* 4xx, 429, 5xx
ThrownError == {"timeout", "network", "abort", "unrecognised"}
Failure == HttpFailure \cup ThrownError
Category == {"retryable", "non-retryable", "unknown"}

NoState == [lastAttempt |-> -1, finalAttempt |-> 0, category |-> "unknown", reason |-> "none"]
FreshState == [NoState EXCEPT !.lastAttempt = 0]
RetryState == [lastAttempt : Nat, finalAttempt : Nat, category : Category,
               reason : Failure \cup {"none"}]

NoMetadata == [attempts |-> 0, category |-> "unknown", reason |-> "none"]
Metadata == [attempts : Nat, category : Category, reason : Failure \cup {"none"}]
Result == [outcome : Failure \cup {"ok"}, metadata : Metadata]
NoResult == [outcome |-> "none", metadata |-> NoMetadata]

TypeOK ==
  /\ phase \in [Call -> Phase]
  /\ attempt \in [Call -> Nat]
  /\ retryState \in [Call -> RetryState \cup {NoState}]
  /\ failures \in [Call -> Seq(Failure)]
  /\ result \in [Call -> Result \cup {NoResult}]

Init ==
  /\ phase = [c \in Call |-> "new"]
  /\ attempt = [c \in Call |-> 0]
  /\ retryState = [c \in Call |-> NoState]
  /\ failures = [c \in Call |-> <<>>]
  /\ result = [c \in Call |-> NoResult]

-----------------------------------------------------------------------------
ClassifyError(o) ==
  CASE o \in {"timeout", "network", "throttled", "serverError"} -> "retryable"
    [] o \in {"abort", "clientError"}                           -> "nonRetryable"
    [] o = "unrecognised"                                       -> "unknown"

\* The classification in the words of the metadata.
ToMetadataCategory(cls) == IF cls = "nonRetryable" THEN "non-retryable" ELSE cls

Limit(o) == IF ClassifyError(o) = "unknown" THEN UnknownMaxAttempts ELSE MaxAttempts

\* The retries the loop is configured with, over the first attempt.
Retries == (IF MaxAttempts > UnknownMaxAttempts THEN MaxAttempts ELSE UnknownMaxAttempts) - 1

WillRetryTooLong(c, o) ==  \* variant: unknown errors have the budget of the others
  o \in Failure /\ ClassifyError(o) # "nonRetryable" /\ attempt[c] < MaxAttempts

WillRetry(c, o) ==
  /\ o \in Failure
  /\ ClassifyError(o) # "nonRetryable"
  /\ attempt[c] < Limit(o)

\* ffetch asks shouldRetry about every attempt but the last of its loop.
Asked(c) == attempt[c] <= Retries

EntryShared(c) == CHOOSE d \in Call : TRUE  \* variant: one entry for all calls
Entry(c) == c  \* the request, by which the Map finds the state of its call

\* shouldRetryHook's record of a failure; a success is not recorded.
StateWithoutFinal(c, o) ==  \* variant: the attempt that ends the call is not stored
  LET old == retryState[Entry(c)] IN
  IF ~Asked(c) \/ o \notin Failure THEN old
  ELSE [lastAttempt  |-> attempt[c],
        finalAttempt |-> old.finalAttempt,
        category     |-> ToMetadataCategory(ClassifyError(o)),
        reason       |-> o]

StateAfter(c, o) ==
  LET old == retryState[Entry(c)] IN
  IF ~Asked(c) \/ o \notin Failure THEN old
  ELSE [lastAttempt  |-> IF attempt[c] > old.lastAttempt THEN attempt[c] ELSE old.lastAttempt,
        finalAttempt |-> IF WillRetry(c, o) THEN old.finalAttempt ELSE attempt[c],
        category     |-> ToMetadataCategory(ClassifyError(o)),
        reason       |-> o]

\* onCompleteHook: the metadata it makes of the final state (no finalAttempt: the
\* loop ran out, or the attempt succeeded).
MetadataOf(s) ==
  [attempts |-> IF s.finalAttempt # 0 THEN s.finalAttempt ELSE s.lastAttempt + 1,
   category |-> s.category,
   reason   |-> s.reason]

-----------------------------------------------------------------------------
Before(c) ==
  /\ phase[c] = "new"
  /\ phase' = [phase EXCEPT ![c] = "sending"]
  /\ attempt' = [attempt EXCEPT ![c] = 1]
  /\ retryState' = [retryState EXCEPT ![c] = FreshState]
  /\ UNCHANGED <<failures, result>>

Note(c, o) == failures' = [failures EXCEPT ![c] = IF o \in Failure THEN Append(@, o) ELSE @]

\* The attempt fails and shouldRetry allows another one.
Retry(c, o) ==
  /\ phase[c] = "sending"
  /\ Asked(c) /\ WillRetry(c, o)
  /\ phase' = [phase EXCEPT ![c] = "waiting"]
  /\ retryState' = [retryState EXCEPT ![Entry(c)] = StateAfter(c, o)]
  /\ Note(c, o)
  /\ UNCHANGED <<attempt, result>>

\* What onComplete leaves for the caller: metadata goes to a thrown error only; a
\* response, also a failing one, reaches the hook without an error.
Report(c, o) ==
  [outcome  |-> o,
   metadata |-> IF o \in ThrownError THEN MetadataOf(StateAfter(c, o)) ELSE NoMetadata]

CompleteKeepingState(c, o) ==  \* variant: the entry stays in the Map
  /\ phase[c] = "sending"
  /\ ~(Asked(c) /\ WillRetry(c, o))
  /\ phase' = [phase EXCEPT ![c] = "done"]
  /\ retryState' = [retryState EXCEPT ![Entry(c)] = StateAfter(c, o)]
  /\ result' = [result EXCEPT ![c] = Report(c, o)]
  /\ Note(c, o)
  /\ UNCHANGED attempt

\* The attempt ends the call: it succeeded, or shouldRetry refused another one,
\* or the loop is over.
Complete(c, o) ==
  /\ phase[c] = "sending"
  /\ ~(Asked(c) /\ WillRetry(c, o))
  /\ phase' = [phase EXCEPT ![c] = "done"]
  /\ retryState' = [retryState EXCEPT ![Entry(c)] = NoState]
  /\ result' = [result EXCEPT ![c] = Report(c, o)]
  /\ Note(c, o)
  /\ UNCHANGED attempt

\* The delay before the next attempt is over.
SendAgain(c) ==
  /\ phase[c] = "waiting"
  /\ phase' = [phase EXCEPT ![c] = "sending"]
  /\ attempt' = [attempt EXCEPT ![c] = @ + 1]
  /\ UNCHANGED <<retryState, failures, result>>

Settle(c) == \E o \in Failure \cup {"ok"} : Retry(c, o) \/ Complete(c, o)

Next == \E c \in Call : Before(c) \/ Settle(c) \/ SendAgain(c)

Spec == Init /\ [][Next]_vars

\* Every attempt settles: the client gives each one a timeout.
FairSpec == Spec /\ \A c \in Call : WF_vars(Before(c) \/ Settle(c) \/ SendAgain(c))

-----------------------------------------------------------------------------
\* What the services make of a failed call: only an error whose metadata says
\* so is retryable for them.
CallerRetries(c) == result[c].metadata.category = "retryable"

\* The attempts an error reports are the attempts that were made, whether a
\* decision or the end of the loop ended the call.
AttemptsAreReported ==
  \A c \in Call : result[c].outcome \in ThrownError
    => result[c].metadata.attempts = attempt[c]

\* A call is reported by what happened to itself, however many calls are in
\* progress: by the last of its failures that shouldRetry was asked about.  This is
\* the failure that ended the call or, once the loop is over, the one before it; a
\* loop of one attempt has none.
ReportIsOfThisCall ==
  \A c \in Call : result[c].outcome \in ThrownError =>
    LET n == IF Asked(c) THEN attempt[c] ELSE Retries
        r == result[c].metadata
    IN  IF n = 0 THEN r.reason = "none" /\ r.category = "unknown"
        ELSE /\ r.reason = failures[c][n]
             /\ r.category = ToMetadataCategory(ClassifyError(failures[c][n]))

\* A call goes on beyond the conservative budget only from failures that were
\* recognised: an unrecognised one ends it there, whatever the failures before it.
UnknownBudget ==
  \A c \in Call : \A n \in UnknownMaxAttempts..attempt[c] - 1 :
    failures[c][n] # "unrecognised"

\* Every call ends, and its entry leaves the Map.
CallsEnd == \A c \in Call : <>[](phase[c] = "done" /\ retryState[c] = NoState)

\* README, Error classification and Retry metadata: a 5xx or 429 that outlives its
\* retries is retryable for the caller.
RetryableFailureIsReported ==
  \A c \in Call : result[c].outcome \in {"serverError", "throttled"} => CallerRetries(c)
=============================================================================
