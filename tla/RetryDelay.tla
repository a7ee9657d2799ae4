----------------------------- MODULE RetryDelay -----------------------------
(***************************************************************************)
(* How long the HTTP client waits between the attempts of a call:          *)
(* exponential backoff with jitter, or what the Retry-After of a 429 says, *)
(* in seconds or as a date, each under its own ceiling.                    *)
(*                                                                         *)
(* Adds the time to HttpClient.  All times are milliseconds; those of a    *)
(* call count from its beginning, on the clock of Dataverse.               *)
(***************************************************************************)
EXTENDS HttpClient

CONSTANTS
  BaseDelay, JitterPercentage, MaxDelay,  \* retry.http.baseDelayMs, ...
  Multiplier, Divisor,  \* retry.http.backoffMultiplier, as a fraction: 3 and 2
  UnknownMaxDelay, RetryAfterMaxDelay,
  Timeout,    \* of an attempt
  Duration,   \* what attempts may take
  Window,     \* for how long Dataverse may throttle
  MaxSkew, Skew  \* by how much the client's clock may be ahead (below 0: behind)

ASSUME DelayAssumption ==
  /\ {BaseDelay, JitterPercentage, MaxDelay, UnknownMaxDelay, RetryAfterMaxDelay, Timeout,
      MaxSkew} \subseteq Nat
  /\ {Multiplier, Divisor} \subseteq Nat \ {0}
  /\ Duration \subseteq 0..Timeout /\ Window \subseteq Nat
  /\ Skew \subseteq -MaxSkew..MaxSkew

VARIABLES
  elapsed,  \* [Call -> Nat] the time since the call began
  skew,     \* [Call -> Skew]
  waits,    \* [Call -> Seq(Wait)] the delays of the call, in order
  advised   \* [Call -> Advised] what the last 429 told, if anything

timeVars == <<elapsed, skew, waits, advised>>
allVars == <<vars, timeVars>>

Wait == [delay : Nat, computed : BOOLEAN, failure : Failure]
Form == {"none", "malformed", "seconds", "date"}
Advised == [form : Form, until : Nat, window : Nat]
NotAdvised == [form |-> "none", until |-> 0, window |-> 0]

DelayTypeOK ==
  /\ TypeOK
  /\ elapsed \in [Call -> Nat]
  /\ skew \in [Call -> Skew]
  /\ waits \in [Call -> Seq(Wait)]
  /\ advised \in [Call -> Advised]

DelayInit ==
  /\ Init
  /\ elapsed = [c \in Call |-> 0]
  /\ skew \in [Call -> Skew]
  /\ waits = [c \in Call |-> <<>>]
  /\ advised = [c \in Call |-> NotAdvised]

-----------------------------------------------------------------------------
Lesser(a, b) == IF a < b THEN a ELSE b

MsPerSecond == 1000

\* What Dataverse writes at time t into Retry-After when it throttles for w more
\* milliseconds: whole seconds, rounded up, or a date, which has no milliseconds.
Header(form, t, w) ==
  CASE form = "seconds" -> (w + MsPerSecond - 1) \div MsPerSecond
    [] form = "date"    -> ((t + w) \div MsPerSecond) * MsPerSecond
    [] OTHER            -> 0

NoValue == -1

ParseUnclipped(form, value, clientNow) ==  \* variant: a past date is a negative delay
  CASE form = "seconds" -> value * MsPerSecond
    [] form = "date"    -> value - clientNow
    [] OTHER            -> NoValue

\* parseRetryAfterMs: null for anything but digits and an HTTP date; a date that
\* is past on the client's clock is no delay at all.
ParseRetryAfterMs(form, value, clientNow) ==
  CASE form = "seconds" -> value * MsPerSecond
    [] form = "date"    -> IF value > clientNow THEN value - clientNow ELSE 0
    [] OTHER            -> NoValue

Cap(o) == IF ClassifyError(o) = "unknown" THEN UnknownMaxDelay ELSE MaxDelay

\* Math.pow of a whole number.
Power(b) == LET p[n \in Nat] == IF n = 0 THEN 1 ELSE b * p[n - 1] IN p

\* The backoff before the jitter.
Base(n) == (BaseDelay * Power(Multiplier)[n - 1]) \div Power(Divisor)[n - 1]

FullJitter(n, o) == {0, Lesser(Base(n), Cap(o))}  \* variant: "full jitter"

\* calcDelay: the least and the most that Math.random() makes of it.
CalcDelay(n, o) ==
  {Lesser(Base(n) + jitter, Cap(o)) : jitter \in {0, (Base(n) * JitterPercentage) \div 100}}

DelayUnderBackoffCap(c, o, retryAfter) ==  \* variant: an advice has the backoff's cap
  IF o = "throttled" /\ retryAfter # NoValue
  THEN {Lesser(retryAfter, MaxDelay)}
  ELSE CalcDelay(attempt[c], o)

DelayUncapped(c, o, retryAfter) ==  \* variant: an advice is followed however long it is
  IF o = "throttled" /\ retryAfter # NoValue THEN {retryAfter} ELSE CalcDelay(attempt[c], o)

\* computeRetryDelay: an advice is followed on a 429 only.
ComputeRetryDelay(c, o, retryAfter) ==
  IF o = "throttled" /\ retryAfter # NoValue
  THEN {Lesser(retryAfter, RetryAfterMaxDelay)}
  ELSE CalcDelay(attempt[c], o)

-----------------------------------------------------------------------------
\* How long the current attempt takes when it ends with o.
Takes(o) == IF o = "timeout" THEN {Timeout} ELSE Duration

WaitFor(c, o) ==
  /\ Retry(c, o)
  /\ \E d \in Takes(o), w \in Window, form \in IF o \in HttpFailure THEN Form ELSE {"none"} :
       LET t          == elapsed[c] + d
           retryAfter == ParseRetryAfterMs(form, Header(form, t, w), t + skew[c])
       IN /\ elapsed' = [elapsed EXCEPT ![c] = t]
          /\ \E delay \in ComputeRetryDelay(c, o, retryAfter) :
               waits' = [waits EXCEPT ![c] = Append(@,
                           [delay    |-> delay,
                            computed |-> ~(o = "throttled" /\ retryAfter # NoValue),
                            failure  |-> o])]
          /\ advised' = [advised EXCEPT ![c] =
                           IF o = "throttled" /\ form \in {"seconds", "date"}
                           THEN [form |-> form, until |-> t + w, window |-> w]
                           ELSE NotAdvised]
  /\ UNCHANGED skew

End(c, o) ==
  /\ Complete(c, o)
  /\ \E d \in Takes(o) : elapsed' = [elapsed EXCEPT ![c] = @ + d]
  /\ UNCHANGED <<skew, waits, advised>>

\* The delay is over.
AttemptAgain(c) ==
  /\ SendAgain(c)
  /\ elapsed' = [elapsed EXCEPT ![c] = @ + waits[c][Len(waits[c])].delay]
  /\ UNCHANGED <<skew, waits, advised>>

Start(c) == Before(c) /\ UNCHANGED timeVars

DelayNext ==
  \E c \in Call :
    \/ Start(c) \/ AttemptAgain(c)
    \/ \E o \in Failure \cup {"ok"} : WaitFor(c, o) \/ End(c, o)

DelaySpec == DelayInit /\ [][DelayNext]_allVars

\* Every attempt settles: the client gives each one a timeout, and delays are finite.
DelayFairSpec ==
  /\ DelaySpec
  /\ \A c \in Call :
       WF_allVars(Start(c) \/ AttemptAgain(c) \/ \E o \in Failure \cup {"ok"} : WaitFor(c, o) \/ End(c, o))

-----------------------------------------------------------------------------
\* A retry is not sent while Dataverse throttles, if it said for how long and this
\* is not more than the ceiling for such advice.  A date costs the precision of a
\* second and the difference of the clocks.
NoRetryIntoThrottling ==
  \A c \in Call :
    phase[c] = "sending" /\ advised[c].form # "none" /\ advised[c].window <= RetryAfterMaxDelay
      => elapsed[c] + (IF advised[c].form = "date" THEN MsPerSecond + MaxSkew ELSE 0)
           >= advised[c].until

\* A later backoff is not shorter than an earlier one of the call, up to its cap,
\* whatever the jitter and whichever failures and advised delays lie between.
BackoffGrows ==
  \A c \in Call : \A i, j \in DOMAIN waits[c] :
    i < j /\ waits[c][i].computed /\ waits[c][j].computed
      => waits[c][j].delay >= Lesser(waits[c][i].delay, Cap(waits[c][j].failure))

\* Nothing that Dataverse advertises holds a call longer than its timeouts and the
\* highest of the ceilings allow.
CallIsBounded ==
  \A c \in Call :
    \E ceiling \in {MaxDelay, UnknownMaxDelay, RetryAfterMaxDelay} :
      elapsed[c] <= attempt[c] * Timeout + Len(waits[c]) * ceiling
=============================================================================
