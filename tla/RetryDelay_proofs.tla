-------------------------- MODULE RetryDelay_proofs --------------------------
(***************************************************************************)
(* The delays of the HTTP client for any number of calls, any outcomes,    *)
(* any configuration of the backoff and the ceilings, and any difference   *)
(* of the clocks.                                                          *)
(***************************************************************************)
EXTENDS RetryDelay, HttpClient_proofs, WellFoundedInduction

(***************************************************************************)
(* The backoff.  Math.pow is a recursive function: that it has the values  *)
(* its definition gives needs induction, which rests on least elements.    *)
(***************************************************************************)

\* A set of numbers that is not empty has a least element.
LEMMA LeastElement ==
  ASSUME NEW T \in SUBSET Nat, T # {}
  PROVE  \E x \in T : \A y \in T : x <= y
<1> DEFINE Less == {p \in Nat \X Nat : p[1] < p[2]}
<1>1. IsWellFoundedOn(Less, Nat) BY NatLessThanWellFounded DEF OpToRel
<1>2. PICK x \in T : \A y \in T : ~(<<y, x>> \in Less)
  <2> HIDE DEF Less
  <2> QED BY <1>1, WFMin
<1>3. ASSUME NEW y \in T PROVE x <= y
  <2>1. ~(<<y, x>> \in Less) BY <1>2
  <2> QED BY <2>1
<1> QED BY <1>3

\* What the first powers of b are.
Approximation(b, n) ==
  {f \in [0..n -> Nat] : f[0] = 1 /\ \A k \in 1..n : f[k] = b * f[k - 1]}

\* There are as many powers as one likes.
LEMMA ApproximationExists ==
  ASSUME NEW b \in Nat
  PROVE  \A n \in Nat : Approximation(b, n) # {}
<1> DEFINE Failing == {n \in Nat : Approximation(b, n) = {}}
<1> SUFFICES ASSUME Failing # {} PROVE FALSE
  OBVIOUS
<1>1. PICK n \in Failing : \A m \in Failing : n <= m BY LeastElement
<1>2. CASE n = 0
  <2>1. [k \in 0..0 |-> 1] \in Approximation(b, 0) BY DEF Approximation
  <2> QED BY <1>1, <1>2, <2>1
<1>3. CASE n # 0
  <2>1. n - 1 \in Nat /\ n - 1 \notin Failing BY <1>1, <1>3
  <2>2. PICK f : f \in Approximation(b, n - 1) BY <2>1
  <2> DEFINE g == [k \in 0..n |-> IF k = n THEN b * f[n - 1] ELSE f[k]]
  <2>3. f \in [0..n - 1 -> Nat] /\ f[0] = 1 /\ \A k \in 1..n - 1 : f[k] = b * f[k - 1]
    BY <2>2 DEF Approximation
  <2>4. g \in [0..n -> Nat] BY <1>1, <2>1, <2>3
  <2>5. g[0] = 1 BY <1>1, <1>3, <2>1, <2>3
  <2>6. ASSUME NEW k \in 1..n PROVE g[k] = b * g[k - 1]
    <3>1. CASE k = n BY <1>1, <3>1, <2>1
    <3>2. CASE k # n BY <1>1, <3>2, <2>3, <2>1
    <3> QED BY <3>1, <3>2
  <2>7. g \in Approximation(b, n) BY <2>4, <2>5, <2>6 DEF Approximation
  <2> QED BY <1>1, <2>7
<1> QED BY <1>2, <1>3

\* They do not depend on how many are looked at.
LEMMA ApproximationsAgree ==
  ASSUME NEW b \in Nat, NEW n \in Nat, NEW m \in 0..n,
         NEW f \in Approximation(b, n), NEW g \in Approximation(b, m)
  PROVE  \A k \in 0..m : f[k] = g[k]
<1> DEFINE Differing == {k \in 0..m : f[k] # g[k]}
<1> SUFFICES ASSUME Differing # {} PROVE FALSE
  OBVIOUS
<1>1. Differing \in SUBSET Nat OBVIOUS
<1>2. PICK k \in Differing : \A l \in Differing : k <= l BY <1>1, LeastElement
<1>3. f[0] = 1 /\ g[0] = 1 BY DEF Approximation
<1>4. k \in 1..m /\ k \in 1..n /\ k - 1 \in 0..m BY <1>2, <1>3
<1>5. f[k - 1] = g[k - 1] BY <1>2, <1>4
<1>6. f[k] = b * f[k - 1] /\ g[k] = b * g[k - 1] BY <1>4 DEF Approximation
<1> QED BY <1>2, <1>5, <1>6

\* So the recursive definition defines the powers.
LEMMA PowerEquation ==
  ASSUME NEW b \in Nat
  PROVE  Power(b) = [n \in Nat |-> IF n = 0 THEN 1 ELSE b * Power(b)[n - 1]]
<1> DEFINE approx(n) == CHOOSE f : f \in Approximation(b, n)
           G == [n \in Nat |-> approx(n)[n]]
<1>1. \A n \in Nat : approx(n) \in Approximation(b, n) BY ApproximationExists
<1> HIDE DEF approx
<1>2. ASSUME NEW n \in Nat PROVE G[n] = IF n = 0 THEN 1 ELSE b * G[n - 1]
  <2>1. CASE n = 0 BY <1>1, <2>1 DEF Approximation
  <2>2. CASE n # 0
    <3>1. n - 1 \in Nat /\ n - 1 \in 0..n BY <2>2
    <3>2. approx(n)[n] = b * approx(n)[n - 1] BY <1>1, <2>2 DEF Approximation
    <3>3. approx(n)[n - 1] = approx(n - 1)[n - 1] BY <1>1, <3>1, ApproximationsAgree
    <3> QED BY <2>2, <3>1, <3>2, <3>3
  <2> QED BY <2>1, <2>2
<1>3. G = [n \in Nat |-> IF n = 0 THEN 1 ELSE b * G[n - 1]] BY <1>2
<1> HIDE DEF G
<1> QED BY <1>3 DEF Power

\* Every power is b times the one before it, and none is zero.
LEMMA PowerPositive ==
  ASSUME NEW b \in Nat \ {0}
  PROVE  \A n \in Nat : Power(b)[n] \in Nat \ {0} /\ Power(b)[n + 1] = b * Power(b)[n]
<1>1. \A n \in Nat : Power(b)[n] = IF n = 0 THEN 1 ELSE b * Power(b)[n - 1] BY PowerEquation
<1> DEFINE Failing == {n \in Nat : Power(b)[n] \notin Nat \ {0}}
<1>2. Failing = {}
  <2> SUFFICES ASSUME Failing # {} PROVE FALSE
    OBVIOUS
  <2>1. PICK n \in Failing : \A m \in Failing : n <= m BY LeastElement
  <2>2. n # 0 BY <1>1, <2>1
  <2>3. n - 1 \in Nat /\ Power(b)[n - 1] \in Nat \ {0} BY <2>1, <2>2
  <2>4. Power(b)[n] = b * Power(b)[n - 1] BY <1>1, <2>1, <2>2
  <2> DEFINE x == Power(b)[n - 1]
  <2>5. ASSUME NEW y \in Nat \ {0} PROVE b * y \in Nat \ {0} BY SMT
  <2> QED BY <2>1, <2>3, <2>4, <2>5
<1>3. ASSUME NEW n \in Nat PROVE Power(b)[n + 1] = b * Power(b)[n]
  BY <1>1
<1> QED BY <1>2, <1>3

\* Products grow with their factors.
LEMMA ProductGrows ==
  ASSUME NEW a \in Nat, NEW b \in Nat, a <= b, NEW c \in Nat
  PROVE  a * c <= b * c /\ c * a <= c * b
<1>1. PICK d \in Nat : b = a + d
  <2>1. b - a \in Nat /\ b = a + (b - a) OBVIOUS
  <2> QED BY <2>1
<1>2. b * c = a * c + d * c /\ c * b = c * a + c * d BY <1>1
<1>3. d * c \in Nat /\ c * d \in Nat /\ a * c \in Nat /\ c * a \in Nat OBVIOUS
<1> QED BY <1>2, <1>3

\* A quotient is at least every number whose product is not above the dividend.
LEMMA QuotientAtLeast ==
  ASSUME NEW x \in Nat, NEW p \in Nat \ {0}, NEW m \in Nat, m * p <= x
  PROVE  m <= x \div p
<1> DEFINE q == x \div p
<1>1. q \in Nat /\ x < (q + 1) * p BY SMT
<1>2. ASSUME q + 1 <= m PROVE FALSE
  <2>1. (q + 1) * p <= m * p BY <1>1, <1>2, ProductGrows
  <2> QED BY <1>1, <2>1
<1> QED BY <1>1, <1>2

\* The backoff of an attempt is a number, and at most its cap with the jitter.
LEMMA CalcDelayType ==
  ASSUME NEW n \in Nat \ {0}, NEW o \in Failure
  PROVE  /\ Base(n) \in Nat /\ Cap(o) \in Nat
         /\ \A delay \in CalcDelay(n, o) :
              /\ delay \in Nat /\ delay <= Cap(o)
              /\ delay <= Base(n) + (Base(n) * JitterPercentage) \div 100
              /\ delay >= Lesser(Base(n), Cap(o))
<1>1. Power(Multiplier)[n - 1] \in Nat /\ Power(Divisor)[n - 1] \in Nat \ {0}
  BY PowerPositive, DelayAssumption
<1>2. BaseDelay * Power(Multiplier)[n - 1] \in Nat BY <1>1, DelayAssumption
<1>3. Base(n) \in Nat BY <1>1, <1>2 DEF Base
<1>4. Cap(o) \in Nat BY DelayAssumption DEF Cap
<1>5. Base(n) * JitterPercentage \in Nat BY <1>3, DelayAssumption
<1>6. (Base(n) * JitterPercentage) \div 100 \in Nat BY <1>5
<1> QED BY <1>3, <1>4, <1>6 DEF CalcDelay, Lesser

\* What makes backoffs grow whatever the jitter: it is not more than what the
\* multiplier adds.  The defaults are 15 % and a multiplier of 1.5, which adds 50 %.
JitterWithinGrowth == Divisor * (100 + JitterPercentage) <= 100 * Multiplier

\* The next backoff without jitter is not shorter than this one with all of it.
LEMMA NextBaseCoversJitter ==
  ASSUME JitterWithinGrowth, NEW n \in Nat \ {0}
  PROVE  Base(n) + (Base(n) * JitterPercentage) \div 100 <= Base(n + 1)
<1> DEFINE x == BaseDelay * Power(Multiplier)[n - 1]
           p == Power(Divisor)[n - 1]
           q == x \div p
           r == (q * JitterPercentage) \div 100
<1>1. /\ x \in Nat /\ p \in Nat \ {0}
      /\ Multiplier \in Nat \ {0} /\ Divisor \in Nat \ {0} /\ JitterPercentage \in Nat
  BY PowerPositive, DelayAssumption
<1>2. Base(n) = q BY DEF Base
<1>3. Base(n + 1) = (Multiplier * x) \div (Divisor * p)
  <2>1. n - 1 \in Nat /\ (n - 1) + 1 = n /\ (n + 1) - 1 = n OBVIOUS
  <2>2. /\ Power(Multiplier)[n] = Multiplier * Power(Multiplier)[n - 1]
        /\ Power(Divisor)[n] = Divisor * p
    BY <2>1, PowerPositive, DelayAssumption
  <2>3. Power(Multiplier)[n - 1] \in Nat /\ BaseDelay \in Nat BY PowerPositive, DelayAssumption
  <2>4. BaseDelay * Power(Multiplier)[n] = Multiplier * x BY <1>1, <2>2, <2>3
  <2> QED BY <2>1, <2>2, <2>4 DEF Base
<1> HIDE DEF x, p
<1>4. q \in Nat /\ q * p <= x BY <1>1
<1>5. r \in Nat /\ 100 * r <= q * JitterPercentage
  <2>1. q * JitterPercentage \in Nat BY <1>1, <1>4
  <2> QED BY <2>1
<1> HIDE DEF q, r
<1>6. 100 * ((q + r) * (Divisor * p)) <= 100 * (Multiplier * x)
  <2>1. 100 * (q + r) <= q * (100 + JitterPercentage) BY <1>1, <1>4, <1>5
  <2>2. Divisor * p \in Nat BY <1>1
  <2>3. (100 * (q + r)) * (Divisor * p) <= (q * (100 + JitterPercentage)) * (Divisor * p)
    <3>1. 100 * (q + r) \in Nat /\ q * (100 + JitterPercentage) \in Nat BY <1>1, <1>4, <1>5
    <3> QED BY <2>1, <2>2, <3>1, ProductGrows
  <2>4. (q * (100 + JitterPercentage)) * (Divisor * p)
          = (q * p) * (Divisor * (100 + JitterPercentage))
    BY <1>1, <1>4
  <2>5. (q * p) * (Divisor * (100 + JitterPercentage)) <= (q * p) * (100 * Multiplier)
    <3>1. q * p \in Nat /\ Divisor * (100 + JitterPercentage) \in Nat /\ 100 * Multiplier \in Nat
      BY <1>1, <1>4
    <3> QED BY <3>1, ProductGrows DEF JitterWithinGrowth
  <2>6. (q * p) * (100 * Multiplier) <= x * (100 * Multiplier)
    <3>1. q * p \in Nat /\ 100 * Multiplier \in Nat BY <1>1, <1>4
    <3> QED BY <1>1, <1>4, <3>1, ProductGrows
  <2>7. /\ (100 * (q + r)) * (Divisor * p) = 100 * ((q + r) * (Divisor * p))
        /\ x * (100 * Multiplier) = 100 * (Multiplier * x)
    BY <1>1, <1>4, <1>5
  <2>8. /\ (100 * (q + r)) * (Divisor * p) \in Nat
        /\ (q * p) * (Divisor * (100 + JitterPercentage)) \in Nat
        /\ (q * p) * (100 * Multiplier) \in Nat
        /\ x * (100 * Multiplier) \in Nat
    BY <1>1, <1>4, <1>5
  <2> QED BY <2>3, <2>4, <2>5, <2>6, <2>7, <2>8
<1>7. /\ (q + r) * (Divisor * p) \in Nat /\ Multiplier * x \in Nat
      /\ Divisor * p \in Nat \ {0} /\ q + r \in Nat
  BY <1>1, <1>4, <1>5
<1>8. (q + r) * (Divisor * p) <= Multiplier * x BY <1>6, <1>7
<1>9. q + r <= (Multiplier * x) \div (Divisor * p) BY <1>7, <1>8, QuotientAtLeast
<1> QED BY <1>2, <1>3, <1>9 DEF r

\* So is every later one.
LEMMA LaterBaseCoversJitter ==
  ASSUME JitterWithinGrowth, NEW m \in Nat \ {0}
  PROVE  \A n \in Nat : n > m => Base(m) + (Base(m) * JitterPercentage) \div 100 <= Base(n)
<1> DEFINE High == Base(m) + (Base(m) * JitterPercentage) \div 100
           Failing == {n \in Nat : n > m /\ ~(High <= Base(n))}
<1> SUFFICES ASSUME Failing # {} PROVE FALSE
  OBVIOUS
<1>1. PICK n \in Failing : \A k \in Failing : n <= k BY LeastElement
<1>2. High <= Base(m + 1) BY NextBaseCoversJitter
<1> HIDE DEF High
<1>3. n - 1 > m BY <1>1, <1>2
<1>4. n - 1 \in Nat \ {0} /\ High <= Base(n - 1) BY <1>1, <1>3
<1>5. Base(n - 1) <= Base(n)
  <2>1. Base(n - 1) + (Base(n - 1) * JitterPercentage) \div 100 <= Base((n - 1) + 1)
    BY <1>4, NextBaseCoversJitter
  <2>2. Base(n - 1) \in Nat /\ Base(n) \in Nat
    BY <1>1, <1>4, CalcDelayType DEF Failure, HttpFailure
  <2>3. Base(n - 1) * JitterPercentage \in Nat BY <2>2, DelayAssumption
  <2>4. (Base(n - 1) * JitterPercentage) \div 100 \in Nat BY <2>3
  <2> QED BY <1>1, <2>1, <2>2, <2>4
<1>6. High \in Nat
  <2>1. Base(m) \in Nat BY CalcDelayType DEF Failure, HttpFailure
  <2>2. Base(m) * JitterPercentage \in Nat BY <2>1, DelayAssumption
  <2> QED BY <2>1, <2>2 DEF High
<1>7. Base(n - 1) \in Nat /\ Base(n) \in Nat
  BY <1>1, <1>4, CalcDelayType DEF Failure, HttpFailure
<1> QED BY <1>1, <1>4, <1>5, <1>6, <1>7

(***************************************************************************)
(* The invariant: what the delays of a call and the time it has taken have *)
(* to do with its attempts, and with what the last 429 told.               *)
(***************************************************************************)
Higher(a, b) == IF a < b THEN b ELSE a
Ceiling == Higher(MaxDelay, Higher(UnknownMaxDelay, RetryAfterMaxDelay))

\* The delay that a waiting call is in.
LastDelay(c) == waits[c][Len(waits[c])].delay

\* Every delay was made by the attempt that it follows.
DelaysOf(c) ==
  \A i \in DOMAIN waits[c] :
    /\ waits[c][i].delay <= Ceiling
    /\ waits[c][i].computed => waits[c][i].delay \in CalcDelay(i, waits[c][i].failure)

\* The time counts the attempts that are over and the delays that are over.
TimeOf(c) ==
  /\ phase[c] = "new" => elapsed[c] = 0 /\ waits[c] = <<>> /\ advised[c] = NotAdvised
  /\ phase[c] = "sending" =>
       /\ Len(waits[c]) = attempt[c] - 1
       /\ elapsed[c] <= (attempt[c] - 1) * Timeout + Len(waits[c]) * Ceiling
  /\ phase[c] = "waiting" =>
       /\ Len(waits[c]) = attempt[c]
       /\ elapsed[c] <= attempt[c] * Timeout + (Len(waits[c]) - 1) * Ceiling
  /\ phase[c] = "done" => elapsed[c] <= attempt[c] * Timeout + Len(waits[c]) * Ceiling

\* By how much a retry may come before the time Dataverse has in mind.
Slack(c) == IF advised[c].form = "date" THEN MsPerSecond + MaxSkew ELSE 0

\* A delay that follows advice lasts as long as Dataverse throttles.
AdviceOf(c) ==
  advised[c].form # "none" /\ advised[c].window <= RetryAfterMaxDelay =>
    /\ phase[c] = "waiting" => elapsed[c] + LastDelay(c) + Slack(c) >= advised[c].until
    /\ phase[c] = "sending" => elapsed[c] + Slack(c) >= advised[c].until

DelayInv ==
  /\ HttpInv /\ DelayTypeOK
  /\ \A c \in Call : DelaysOf(c) /\ TimeOf(c) /\ AdviceOf(c)

\* The ceilings are delays, and none is above the highest.
LEMMA CeilingBound ==
  /\ Ceiling \in {MaxDelay, UnknownMaxDelay, RetryAfterMaxDelay} /\ Ceiling \in Nat
  /\ MaxDelay <= Ceiling /\ UnknownMaxDelay <= Ceiling /\ RetryAfterMaxDelay <= Ceiling
BY DelayAssumption DEF Ceiling, Higher

\* The constants, one by one.
LEMMA ConstantTypes ==
  /\ Timeout \in Nat /\ MaxSkew \in Nat /\ RetryAfterMaxDelay \in Nat
  /\ \A d \in Duration : d \in Nat /\ d <= Timeout
  /\ \A s \in Skew : s \in Int /\ s <= MaxSkew
<1>1. MaxSkew \in Nat /\ Skew \subseteq -MaxSkew..MaxSkew BY DelayAssumption
<1>2. \A s \in Skew : s \in Int /\ s <= MaxSkew BY <1>1
<1> QED BY <1>2, DelayAssumption

\* One more of the same.
LEMMA OneMore ==
  ASSUME NEW n \in Nat \ {0}, NEW p \in Nat
  PROVE  (n - 1) * p \in Nat /\ n * p \in Nat /\ n * p = (n - 1) * p + p
<1>1. n - 1 \in Nat OBVIOUS
<1> QED BY <1>1

\* Time is added to HttpClient: what it does to a call is what HttpClient does.
LEMMA DelayStepIsHttpStep == [DelayNext]_allVars => [Next]_vars
BY DEF DelayNext, Start, AttemptAgain, WaitFor, End, Next, Settle, allVars, vars

\* Whole seconds, rounded up, are never less than what is left.
LEMMA SecondsSuffice ==
  ASSUME NEW t \in Nat, NEW w \in Nat, NEW now \in Int
  PROVE  /\ ParseRetryAfterMs("seconds", Header("seconds", t, w), now) \in Nat
         /\ ParseRetryAfterMs("seconds", Header("seconds", t, w), now) >= w
BY DEF ParseRetryAfterMs, Header, MsPerSecond

\* A date may be early by the rest of its second and by the client's clock.
LEMMA DateSuffices ==
  ASSUME NEW t \in Nat, NEW w \in Nat, NEW s \in Skew
  PROVE  LET delay == ParseRetryAfterMs("date", Header("date", t, w), t + s) IN
           delay \in Nat /\ delay + MsPerSecond + MaxSkew >= w
<1>1. s \in Int /\ s <= MaxSkew /\ MaxSkew \in Nat BY ConstantTypes
<1> QED BY <1>1 DEF ParseRetryAfterMs, Header, MsPerSecond

\* No Retry-After, or one that says nothing, is no advice.
LEMMA OtherFormsSayNothing ==
  ASSUME NEW form \in {"none", "malformed"}, NEW value, NEW now
  PROVE  ParseRetryAfterMs(form, value, now) = NoValue
BY DEF ParseRetryAfterMs

\* What computeRetryDelay makes of a failure: the backoff, or the advice of a 429
\* under its own ceiling.
LEMMA DelayTypes ==
  ASSUME NEW c \in Call, attempt[c] \in Nat \ {0}, NEW o \in Failure,
         NEW retryAfter \in Nat \cup {NoValue},
         NEW delay \in ComputeRetryDelay(c, o, retryAfter)
  PROVE  /\ delay \in Nat /\ delay <= Ceiling
         /\ ~(o = "throttled" /\ retryAfter # NoValue) => delay \in CalcDelay(attempt[c], o)
         /\ o = "throttled" /\ retryAfter # NoValue =>
              delay = retryAfter \/ delay = RetryAfterMaxDelay
<1>1. CASE o = "throttled" /\ retryAfter # NoValue
  BY <1>1, DelayAssumption, CeilingBound DEF ComputeRetryDelay, Lesser
<1>2. CASE ~(o = "throttled" /\ retryAfter # NoValue)
  <2>1. delay \in CalcDelay(attempt[c], o) BY <1>2 DEF ComputeRetryDelay
  <2>2. Cap(o) <= Ceiling BY CeilingBound DEF Cap
  <2> QED BY <1>2, <2>1, <2>2, CalcDelayType, CeilingBound
<1> QED BY <1>1, <1>2

\* Nothing has been waited for yet.
LEMMA DelayInvInit == DelayInit => DelayInv
<1> SUFFICES ASSUME DelayInit PROVE DelayInv
  OBVIOUS
<1>1. HttpInv BY HttpInvInit DEF DelayInit
<1>2. DelayTypeOK
  <2>1. <<>> \in Seq(Wait) OBVIOUS
  <2> QED BY <1>1, <2>1 DEF HttpInv, DelayInit, DelayTypeOK, NotAdvised, Advised, Form
<1> QED BY <1>1, <1>2 DEF DelayInv, DelayInit, Init, DelaysOf, TimeOf, AdviceOf, NotAdvised

\* The other calls are not concerned by a step of a call.
LEMMA OthersKeep ==
  ASSUME DelayInv, NEW c \in Call,
         \A d \in Call \ {c} : /\ phase'[d] = phase[d] /\ attempt'[d] = attempt[d]
                               /\ elapsed'[d] = elapsed[d] /\ waits'[d] = waits[d]
                               /\ advised'[d] = advised[d]
  PROVE  \A d \in Call \ {c} : DelaysOf(d)' /\ TimeOf(d)' /\ AdviceOf(d)'
BY DEF DelayInv, DelaysOf, TimeOf, AdviceOf, LastDelay, Slack

\* A call begins: no time has passed.
LEMMA StartKeeps == ASSUME DelayInv, NEW c \in Call, Start(c) PROVE DelayInv'
<1>1. HttpInv' BY BeforeKeeps DEF DelayInv, Start
<1>2. DelayTypeOK' BY <1>1 DEF DelayInv, DelayTypeOK, HttpInv, Start, timeVars
<1>3. phase'[c] = "sending" /\ attempt'[c] = 1 /\ phase[c] = "new"
  BY DEF DelayInv, DelayTypeOK, TypeOK, Start, Before
<1>4. DelaysOf(c)' BY DEF DelayInv, DelaysOf, Start, timeVars
<1>5. TimeOf(c)'
  <2>1. waits'[c] = <<>> /\ elapsed'[c] = 0 BY <1>3 DEF DelayInv, TimeOf, Start, timeVars
  <2>2. 0 * Timeout = 0 /\ 0 * Ceiling = 0 BY ConstantTypes, CeilingBound
  <2> QED BY <1>3, <2>1, <2>2 DEF TimeOf
<1>6. advised[c] = NotAdvised BY <1>3 DEF DelayInv, TimeOf
<1>7. AdviceOf(c)' BY <1>6 DEF AdviceOf, Start, timeVars, NotAdvised
<1>8. \A d \in Call \ {c} : DelaysOf(d)' /\ TimeOf(d)' /\ AdviceOf(d)'
  <2> SUFFICES ASSUME NEW d \in Call \ {c}
               PROVE  /\ phase'[d] = phase[d] /\ attempt'[d] = attempt[d]
                      /\ elapsed'[d] = elapsed[d] /\ waits'[d] = waits[d]
                      /\ advised'[d] = advised[d]
    BY OthersKeep
  <2> QED BY DEF DelayInv, DelayTypeOK, TypeOK, Start, Before, timeVars
<1> QED BY <1>1, <1>2, <1>4, <1>5, <1>7, <1>8 DEF DelayInv

\* A delay is over: it has lasted as long as it was to last.
LEMMA AttemptAgainKeeps == ASSUME DelayInv, NEW c \in Call, AttemptAgain(c) PROVE DelayInv'
<1>1. HttpInv' BY SendAgainKeeps DEF DelayInv, AttemptAgain
<1>2. /\ phase[c] = "waiting" /\ phase'[c] = "sending"
      /\ attempt[c] \in Nat \ {0} /\ attempt'[c] = attempt[c] + 1
  BY DEF DelayInv, HttpInv, CallInv, InProgress, TypeOK, AttemptAgain, SendAgain
<1>3. waits[c] \in Seq(Wait) /\ Len(waits[c]) = attempt[c] /\ elapsed[c] \in Nat
  BY <1>2 DEF DelayInv, DelayTypeOK, TimeOf
<1>4. LastDelay(c) \in Nat /\ LastDelay(c) <= Ceiling
  <2>1. Len(waits[c]) \in DOMAIN waits[c] BY <1>2, <1>3
  <2>2. waits[c][Len(waits[c])] \in Wait BY <1>3, <2>1
  <2> QED BY <2>1, <2>2 DEF DelayInv, DelaysOf, LastDelay, Wait
<1>5. elapsed'[c] = elapsed[c] + LastDelay(c)
  BY DEF AttemptAgain, LastDelay, DelayInv, DelayTypeOK
<1>6. waits' = waits /\ advised' = advised /\ skew' = skew BY DEF AttemptAgain
<1>7. DelayTypeOK'
  BY <1>1, <1>4, <1>6 DEF DelayInv, DelayTypeOK, HttpInv, AttemptAgain, LastDelay
<1>8. DelaysOf(c)' BY <1>6 DEF DelayInv, DelaysOf
<1>9. TimeOf(c)'
  <2>1. elapsed[c] <= attempt[c] * Timeout + (Len(waits[c]) - 1) * Ceiling
    BY <1>2 DEF DelayInv, TimeOf
  <2>2. /\ Len(waits[c]) * Ceiling = (Len(waits[c]) - 1) * Ceiling + Ceiling
        /\ (Len(waits[c]) - 1) * Ceiling \in Nat /\ Len(waits[c]) * Ceiling \in Nat
    BY <1>2, <1>3, CeilingBound, OneMore
  <2>3. attempt[c] * Timeout \in Nat BY <1>2, ConstantTypes, OneMore
  <2>4. elapsed'[c] <= (attempt'[c] - 1) * Timeout + Len(waits'[c]) * Ceiling
    <3>1. attempt'[c] - 1 = attempt[c] BY <1>2
    <3>2. elapsed'[c] <= attempt[c] * Timeout + Len(waits[c]) * Ceiling
      BY <1>3, <1>4, <1>5, <2>1, <2>2, <2>3, CeilingBound
    <3> QED BY <1>6, <3>1, <3>2
  <2>5. Len(waits'[c]) = attempt'[c] - 1 BY <1>2, <1>3, <1>6
  <2> QED BY <1>2, <2>4, <2>5 DEF TimeOf
<1>10. AdviceOf(c)' BY <1>2, <1>5, <1>6 DEF DelayInv, AdviceOf, Slack
<1>11. \A d \in Call \ {c} : DelaysOf(d)' /\ TimeOf(d)' /\ AdviceOf(d)'
  <2> SUFFICES ASSUME NEW d \in Call \ {c}
               PROVE  /\ phase'[d] = phase[d] /\ attempt'[d] = attempt[d]
                      /\ elapsed'[d] = elapsed[d] /\ waits'[d] = waits[d]
                      /\ advised'[d] = advised[d]
    BY OthersKeep
  <2> QED BY <1>6 DEF DelayInv, DelayTypeOK, TypeOK, AttemptAgain, SendAgain
<1> QED BY <1>1, <1>7, <1>8, <1>9, <1>10, <1>11 DEF DelayInv

\* What a call may take up to the end of an attempt.
LEMMA AttemptTakes ==
  ASSUME DelayInv, NEW c \in Call, phase[c] = "sending", NEW o, NEW d \in Takes(o)
  PROVE  /\ attempt[c] \in Nat \ {0} /\ d \in Nat
         /\ elapsed[c] + d <= attempt[c] * Timeout + Len(waits[c]) * Ceiling
<1>1. d \in Nat /\ d <= Timeout BY ConstantTypes DEF Takes
<1>2. attempt[c] \in Nat \ {0}
  BY RetriesBound DEF DelayInv, HttpInv, CallInv, InProgress, TypeOK
<1>3. /\ elapsed[c] \in Nat /\ Len(waits[c]) \in Nat
      /\ elapsed[c] <= (attempt[c] - 1) * Timeout + Len(waits[c]) * Ceiling
  BY DEF DelayInv, DelayTypeOK, TimeOf
<1>4. /\ attempt[c] * Timeout = (attempt[c] - 1) * Timeout + Timeout
      /\ (attempt[c] - 1) * Timeout \in Nat
  BY <1>2, ConstantTypes, OneMore
<1>5. Len(waits[c]) * Ceiling \in Nat BY <1>3, CeilingBound
<1>6. elapsed[c] + d <= attempt[c] * Timeout + Len(waits[c]) * Ceiling
  BY <1>1, <1>3, <1>4, <1>5, ConstantTypes
<1> QED BY <1>1, <1>2, <1>6

\* The call ends with an attempt.
LEMMA EndKeeps ==
  ASSUME DelayInv, NEW c \in Call, NEW o \in Failure \cup {"ok"}, End(c, o) PROVE DelayInv'
<1>1. HttpInv' BY CompleteKeeps DEF DelayInv, End
<1>2. phase[c] = "sending" /\ phase'[c] = "done" /\ attempt' = attempt
  BY DEF DelayInv, DelayTypeOK, TypeOK, End, Complete
<1>3. PICK d \in Takes(o) : elapsed' = [elapsed EXCEPT ![c] = @ + d] BY DEF End
<1>4. waits' = waits /\ advised' = advised /\ skew' = skew BY DEF End
<1>5. elapsed \in [Call -> Nat] BY DEF DelayInv, DelayTypeOK
<1>6. d \in Nat /\ elapsed'[c] <= attempt[c] * Timeout + Len(waits[c]) * Ceiling
  BY <1>2, <1>3, <1>5, AttemptTakes
<1>7. DelayTypeOK' BY <1>1, <1>3, <1>4, <1>6 DEF DelayInv, DelayTypeOK, HttpInv
<1>8. DelaysOf(c)' /\ TimeOf(c)' /\ AdviceOf(c)'
  BY <1>2, <1>4, <1>6 DEF DelayInv, DelaysOf, TimeOf, AdviceOf
<1>9. \A e \in Call \ {c} : DelaysOf(e)' /\ TimeOf(e)' /\ AdviceOf(e)'
  <2> SUFFICES ASSUME NEW e \in Call \ {c}
               PROVE  /\ phase'[e] = phase[e] /\ attempt'[e] = attempt[e]
                      /\ elapsed'[e] = elapsed[e] /\ waits'[e] = waits[e]
                      /\ advised'[e] = advised[e]
    BY OthersKeep
  <2> QED BY <1>2, <1>3, <1>4, <1>5 DEF DelayInv, DelayTypeOK, TypeOK, End, Complete
<1> QED BY <1>1, <1>7, <1>8, <1>9 DEF DelayInv

\* A delay that follows an advice of which nothing is cut off is long enough.
LEMMA AdviceIsFollowed ==
  ASSUME NEW c \in Call, NEW t \in Nat, NEW w \in Nat, w <= RetryAfterMaxDelay,
         NEW s \in Skew, NEW form \in {"seconds", "date"},
         NEW delay \in ComputeRetryDelay(c, "throttled",
                         ParseRetryAfterMs(form, Header(form, t, w), t + s))
  PROVE  delay \in Nat /\ delay + (IF form = "date" THEN MsPerSecond + MaxSkew ELSE 0) >= w
<1> DEFINE retryAfter == ParseRetryAfterMs(form, Header(form, t, w), t + s)
<1>1. /\ retryAfter \in Nat
      /\ retryAfter + (IF form = "date" THEN MsPerSecond + MaxSkew ELSE 0) >= w
  <2>1. t + s \in Int BY ConstantTypes
  <2>2. CASE form = "seconds" BY <2>1, <2>2, SecondsSuffice
  <2>3. CASE form = "date"
    <3>1. retryAfter \in Nat /\ retryAfter + MsPerSecond + MaxSkew >= w BY <2>3, DateSuffices
    <3>2. retryAfter + MsPerSecond + MaxSkew = retryAfter + (MsPerSecond + MaxSkew)
      BY <3>1, ConstantTypes DEF MsPerSecond
    <3> QED BY <2>3, <3>1, <3>2
  <2> QED BY <2>2, <2>3
<1> HIDE DEF retryAfter
<1>2. retryAfter # NoValue BY <1>1 DEF NoValue
<1>3. delay = Lesser(retryAfter, RetryAfterMaxDelay)
  BY <1>2 DEF ComputeRetryDelay, retryAfter
<1> QED BY <1>1, <1>3, ConstantTypes DEF Lesser, MsPerSecond

\* An attempt fails and another is to follow after a delay.
LEMMA WaitForKeeps ==
  ASSUME DelayInv, NEW c \in Call, NEW o \in Failure \cup {"ok"}, WaitFor(c, o) PROVE DelayInv'
<1>1. Retry(c, o) /\ o \in Failure BY DEF WaitFor, Retry, WillRetry
<1>2. HttpInv' BY <1>1, RetryKeeps DEF DelayInv
<1>3. phase[c] = "sending" /\ phase'[c] = "waiting" /\ attempt' = attempt
  BY <1>1 DEF DelayInv, DelayTypeOK, TypeOK, Retry
<1>4. PICK d \in Takes(o), w \in Window, form \in IF o \in HttpFailure THEN Form ELSE {"none"} :
        LET t          == elapsed[c] + d
            retryAfter == ParseRetryAfterMs(form, Header(form, t, w), t + skew[c])
        IN /\ elapsed' = [elapsed EXCEPT ![c] = t]
           /\ \E delay \in ComputeRetryDelay(c, o, retryAfter) :
                waits' = [waits EXCEPT ![c] = Append(@,
                            [delay    |-> delay,
                             computed |-> ~(o = "throttled" /\ retryAfter # NoValue),
                             failure  |-> o])]
           /\ advised' = [advised EXCEPT ![c] =
                            IF o = "throttled" /\ form \in {"seconds", "date"}
                            THEN [form |-> form, until |-> t + w, window |-> w]
                            ELSE NotAdvised]
  BY DEF WaitFor
<1>f. form \in Form BY DEF Form
<1> DEFINE t          == elapsed[c] + d
           retryAfter == ParseRetryAfterMs(form, Header(form, t, w), t + skew[c])
<1>5. PICK delay \in ComputeRetryDelay(c, o, retryAfter) :
        waits' = [waits EXCEPT ![c] = Append(@,
                    [delay    |-> delay,
                     computed |-> ~(o = "throttled" /\ retryAfter # NoValue),
                     failure  |-> o])]
  BY <1>4
<1>6. /\ elapsed' = [elapsed EXCEPT ![c] = t]
      /\ advised' = [advised EXCEPT ![c] =
                       IF o = "throttled" /\ form \in {"seconds", "date"}
                       THEN [form |-> form, until |-> t + w, window |-> w]
                       ELSE NotAdvised]
      /\ skew' = skew
  BY <1>4 DEF WaitFor
<1>7. /\ elapsed \in [Call -> Nat] /\ skew \in [Call -> Skew]
      /\ waits \in [Call -> Seq(Wait)] /\ advised \in [Call -> Advised]
  BY DEF DelayInv, DelayTypeOK
<1>8. /\ attempt[c] \in Nat \ {0} /\ t \in Nat /\ w \in Nat
      /\ t <= attempt[c] * Timeout + Len(waits[c]) * Ceiling
  <2>1. w \in Nat BY DelayAssumption
  <2>2. /\ d \in Nat /\ attempt[c] \in Nat \ {0}
        /\ t <= attempt[c] * Timeout + Len(waits[c]) * Ceiling
    BY <1>3, AttemptTakes
  <2>3. elapsed[c] \in Nat BY <1>7
  <2>4. t \in Nat BY <2>2, <2>3
  <2> QED BY <2>1, <2>2, <2>4
<1>9. retryAfter \in Nat \cup {NoValue}
  <2>1. skew[c] \in Skew /\ t + skew[c] \in Int
    <3>1. skew[c] \in Skew /\ skew[c] \in Int BY <1>7, ConstantTypes
    <3> HIDE DEF t
    <3> QED BY <1>8, <3>1
  <2>2. CASE form = "seconds" BY <1>8, <2>1, <2>2, SecondsSuffice
  <2>3. CASE form = "date" BY <1>8, <2>1, <2>3, DateSuffices
  <2>4. CASE form \in {"none", "malformed"} BY <2>4, OtherFormsSayNothing
  <2> QED BY <2>2, <2>3, <2>4 DEF Form
<1> DEFINE wait == [delay    |-> delay,
                    computed |-> ~(o = "throttled" /\ retryAfter # NoValue),
                    failure  |-> o]
<1> HIDE DEF t, retryAfter
<1>10. /\ delay \in Nat /\ delay <= Ceiling
       /\ wait.computed => delay \in CalcDelay(attempt[c], o)
  BY <1>1, <1>5, <1>8, <1>9, DelayTypes
<1>11. wait \in Wait /\ wait.delay = delay /\ wait.failure = o BY <1>1, <1>10 DEF Wait
<1>12. waits' = [waits EXCEPT ![c] = Append(@, wait)] BY <1>5
<1> HIDE DEF wait
<1>13. Len(waits[c]) = attempt[c] - 1 BY <1>3 DEF DelayInv, TimeOf
<1>14. /\ waits'[c] = Append(waits[c], wait) /\ waits'[c] \in Seq(Wait)
       /\ Len(waits'[c]) = attempt[c] /\ waits'[c][attempt[c]] = wait
       /\ \A i \in 1..attempt[c] - 1 : waits'[c][i] = waits[c][i]
  BY <1>7, <1>8, <1>11, <1>12, <1>13
<1>15. DelayTypeOK'
  <2>1. waits' \in [Call -> Seq(Wait)] BY <1>7, <1>11, <1>12
  <2>2. advised' \in [Call -> Advised] BY <1>6, <1>7, <1>8 DEF Advised, NotAdvised, Form
  <2> QED BY <1>2, <1>6, <1>7, <1>8, <2>1, <2>2 DEF DelayTypeOK, HttpInv
<1>16. DelaysOf(c)'
  <2> SUFFICES ASSUME NEW i \in DOMAIN waits'[c]
               PROVE  /\ waits'[c][i].delay <= Ceiling
                      /\ waits'[c][i].computed
                           => waits'[c][i].delay \in CalcDelay(i, waits'[c][i].failure)
    BY DEF DelaysOf
  <2>1. i \in 1..attempt[c] BY <1>14
  <2>2. CASE i = attempt[c] BY <1>10, <1>11, <1>14, <2>2
  <2>3. CASE i # attempt[c]
    <3>1. i \in DOMAIN waits[c] /\ waits'[c][i] = waits[c][i]
      BY <1>7, <1>8, <1>13, <1>14, <2>1, <2>3
    <3> QED BY <3>1 DEF DelayInv, DelaysOf
  <2> QED BY <2>2, <2>3
<1>17. TimeOf(c)'
  <2>1. elapsed'[c] <= attempt'[c] * Timeout + (Len(waits'[c]) - 1) * Ceiling
    BY <1>3, <1>6, <1>7, <1>8, <1>13, <1>14
  <2> QED BY <1>3, <1>14, <2>1 DEF TimeOf
<1>18. AdviceOf(c)'
  <2> SUFFICES ASSUME advised'[c].form # "none", advised'[c].window <= RetryAfterMaxDelay
               PROVE  elapsed'[c] + LastDelay(c)' + Slack(c)' >= advised'[c].until
    BY <1>3 DEF AdviceOf
  <2>1. /\ o = "throttled" /\ form \in {"seconds", "date"}
        /\ advised'[c] = [form |-> form, until |-> t + w, window |-> w]
    <3>1. advised'[c] = IF o = "throttled" /\ form \in {"seconds", "date"}
                        THEN [form |-> form, until |-> t + w, window |-> w]
                        ELSE NotAdvised
      BY <1>6, <1>7
    <3>2. NotAdvised.form = "none" BY DEF NotAdvised
    <3> QED BY <3>1, <3>2
  <2>2. LastDelay(c)' = delay BY <1>11, <1>14 DEF LastDelay
  <2>3. delay + (IF form = "date" THEN MsPerSecond + MaxSkew ELSE 0) >= w
    BY <1>5, <1>7, <1>8, <2>1, AdviceIsFollowed DEF retryAfter
  <2>4. Slack(c)' = IF form = "date" THEN MsPerSecond + MaxSkew ELSE 0 BY <2>1 DEF Slack
  <2>5. elapsed'[c] = t BY <1>6, <1>7
  <2> QED BY <1>8, <1>10, <2>1, <2>2, <2>3, <2>4, <2>5, ConstantTypes DEF MsPerSecond
<1>19. \A e \in Call \ {c} : DelaysOf(e)' /\ TimeOf(e)' /\ AdviceOf(e)'
  <2> SUFFICES ASSUME NEW e \in Call \ {c}
               PROVE  /\ phase'[e] = phase[e] /\ attempt'[e] = attempt[e]
                      /\ elapsed'[e] = elapsed[e] /\ waits'[e] = waits[e]
                      /\ advised'[e] = advised[e]
    BY OthersKeep
  <2> QED BY <1>1, <1>3, <1>6, <1>7, <1>12 DEF DelayInv, DelayTypeOK, TypeOK, Retry
<1> QED BY <1>2, <1>15, <1>16, <1>17, <1>18, <1>19 DEF DelayInv

\* Every step keeps the invariant.
LEMMA DelayInvNext == DelayInv /\ [DelayNext]_allVars => DelayInv'
<1> SUFFICES ASSUME DelayInv, [DelayNext]_allVars PROVE DelayInv'
  OBVIOUS
<1>1. ASSUME NEW c \in Call, Start(c) PROVE DelayInv' BY <1>1, StartKeeps
<1>2. ASSUME NEW c \in Call, AttemptAgain(c) PROVE DelayInv' BY <1>2, AttemptAgainKeeps
<1>3. ASSUME NEW c \in Call, NEW o \in Failure \cup {"ok"}, WaitFor(c, o) PROVE DelayInv'
  BY <1>3, WaitForKeeps
<1>4. ASSUME NEW c \in Call, NEW o \in Failure \cup {"ok"}, End(c, o) PROVE DelayInv'
  BY <1>4, EndKeeps
<1>5. CASE UNCHANGED allVars
  <2>1. HttpInv' BY <1>5, HttpInvNext DEF DelayInv, allVars
  <2> QED BY <1>5, <2>1
          DEF DelayInv, DelayTypeOK, HttpInv, DelaysOf, TimeOf, AdviceOf, LastDelay, Slack,
              allVars, timeVars, vars
<1> QED BY <1>1, <1>2, <1>3, <1>4, <1>5 DEF DelayNext

\* The time of every call follows from its attempts, its delays and what it was told.
THEOREM DelayInvariantHolds == DelaySpec => []DelayInv
<1> QED BY DelayInvInit, DelayInvNext, PTL DEF DelaySpec

\* Refinement: the client with its delays is the client, so that all that is proved
\* of HttpClient is true of it.
THEOREM DelaySpecImplementsSpec == DelaySpec => Spec
<1>1. DelayInit => Init BY DEF DelayInit
<1> QED BY <1>1, DelayStepIsHttpStep, PTL DEF DelaySpec, Spec

\* Type correctness: every delay is a number, and none of them is negative.
THEOREM DelayTypeCorrect == DelaySpec => []DelayTypeOK
<1>1. DelayInv => DelayTypeOK BY DEF DelayInv
<1> QED BY <1>1, DelayInvariantHolds, PTL

\* No retry is sent while Dataverse throttles, if the advice is within the ceiling.
THEOREM NeverRetriesIntoThrottling == DelaySpec => []NoRetryIntoThrottling
<1>1. DelayInv => NoRetryIntoThrottling
  BY DEF DelayInv, AdviceOf, Slack, NoRetryIntoThrottling
<1> QED BY <1>1, DelayInvariantHolds, PTL

\* Attempts and delays, each within its limit, are all that takes time.
LEMMA InvariantBoundsCall ==
  ASSUME DelayInv, NEW c \in Call
  PROVE  elapsed[c] <= attempt[c] * Timeout + Len(waits[c]) * Ceiling
<1>1. /\ phase[c] \in Phase /\ attempt[c] \in Nat /\ elapsed[c] \in Nat
      /\ Len(waits[c]) \in Nat /\ TimeOf(c)
  BY DEF DelayInv, DelayTypeOK, TypeOK
<1>2. attempt[c] * Timeout \in Nat /\ Len(waits[c]) * Ceiling \in Nat
  BY <1>1, ConstantTypes, CeilingBound
<1>3. CASE phase[c] = "new" BY <1>1, <1>2, <1>3 DEF TimeOf
<1>4. CASE phase[c] = "done" BY <1>1, <1>4 DEF TimeOf
<1>5. CASE phase[c] \in {"sending", "waiting"}
  <2>1. attempt[c] \in Nat \ {0}
    BY <1>5, RetriesBound DEF DelayInv, HttpInv, CallInv, InProgress
  <2>2. /\ attempt[c] * Timeout = (attempt[c] - 1) * Timeout + Timeout
        /\ (attempt[c] - 1) * Timeout \in Nat
    BY <2>1, ConstantTypes, OneMore
  <2>3. CASE phase[c] = "sending"
    <3>1. elapsed[c] <= (attempt[c] - 1) * Timeout + Len(waits[c]) * Ceiling
      BY <1>1, <2>3 DEF TimeOf
    <3>2. elapsed[c] \in Nat /\ Timeout \in Nat BY <1>1, ConstantTypes
    <3> QED BY <1>2, <2>2, <3>1, <3>2
  <2>4. CASE phase[c] = "waiting"
    <3>1. Len(waits[c]) \in Nat \ {0} BY <1>1, <2>1, <2>4 DEF TimeOf
    <3>2. /\ Len(waits[c]) * Ceiling = (Len(waits[c]) - 1) * Ceiling + Ceiling
          /\ (Len(waits[c]) - 1) * Ceiling \in Nat
      BY <3>1, CeilingBound, OneMore
    <3> QED BY <1>1, <1>2, <2>4, <3>2, CeilingBound DEF TimeOf
  <2> QED BY <1>5, <2>3, <2>4
<1> QED BY <1>1, <1>3, <1>4, <1>5 DEF Phase

\* A call lasts no longer than its timeouts and the highest ceiling allow, whatever
\* Retry-After says and whatever the backoff of calcDelay would come to.
THEOREM CallIsAlwaysBounded == DelaySpec => []CallIsBounded
<1>1. DelayInv => CallIsBounded BY InvariantBoundsCall, CeilingBound DEF CallIsBounded
<1> QED BY <1>1, DelayInvariantHolds, PTL

\* A call is within its loop.
WithinLoop(c) == attempt[c] <= Retries + 1 /\ Len(waits[c]) <= Retries
LoopInv == \A c \in Call : WithinLoop(c)

LEMMA LoopIsKept ==
  ASSUME DelayInv, DelayInv', LoopInv, [DelayNext]_allVars, NEW c \in Call
  PROVE  WithinLoop(c)'
<1>1. phase'[c] \in Phase BY DEF DelayInv, DelayTypeOK, TypeOK
<1>2. CASE phase'[c] \in {"sending", "waiting"}
  <2>1. /\ attempt'[c] \in 1..Retries + 1
        /\ phase'[c] = "sending" => Len(waits'[c]) = attempt'[c] - 1
        /\ phase'[c] = "waiting" => Len(waits'[c]) = attempt'[c] /\ attempt'[c] <= Retries
    BY <1>2 DEF DelayInv, HttpInv, CallInv, InProgress, TimeOf
  <2> QED BY <1>2, <2>1, RetriesBound DEF WithinLoop
<1>3. CASE phase'[c] \in {"new", "done"}
  <2>1. attempt'[c] = attempt[c] /\ waits'[c] = waits[c]
    <3>1. CASE UNCHANGED allVars BY <3>1 DEF allVars, timeVars, vars
    <3>2. ASSUME NEW d \in Call, Start(d) PROVE attempt'[c] = attempt[c] /\ waits'[c] = waits[c]
      BY <1>3, <3>2 DEF Start, Before, timeVars, DelayInv, DelayTypeOK, TypeOK
    <3>3. ASSUME NEW d \in Call, AttemptAgain(d)
          PROVE  attempt'[c] = attempt[c] /\ waits'[c] = waits[c]
      BY <1>3, <3>3 DEF AttemptAgain, SendAgain, DelayInv, DelayTypeOK, TypeOK
    <3>4. ASSUME NEW d \in Call, NEW o \in Failure \cup {"ok"}, WaitFor(d, o)
          PROVE  attempt'[c] = attempt[c] /\ waits'[c] = waits[c]
      <4>1. d # c BY <1>3, <3>4 DEF WaitFor, Retry, DelayInv, DelayTypeOK, TypeOK
      <4>2. PICK wait : waits' = [waits EXCEPT ![d] = Append(@, wait)] BY <3>4 DEF WaitFor
      <4>3. attempt' = attempt BY <3>4 DEF WaitFor, Retry
      <4> QED BY <4>1, <4>2, <4>3 DEF DelayInv, DelayTypeOK
    <3>5. ASSUME NEW d \in Call, NEW o \in Failure \cup {"ok"}, End(d, o)
          PROVE  attempt'[c] = attempt[c] /\ waits'[c] = waits[c]
      BY <3>5 DEF End, Complete
    <3> QED BY <3>1, <3>2, <3>3, <3>4, <3>5 DEF DelayNext
  <2> QED BY <2>1 DEF LoopInv, WithinLoop
<1> QED BY <1>1, <1>2, <1>3 DEF Phase

LEMMA TimesGrow ==
  ASSUME NEW a \in Nat, NEW b \in Nat, a <= b, NEW t \in Nat
  PROVE  a * t \in Nat /\ b * t \in Nat /\ a * t <= b * t
<1>1. PICK k \in Nat : b = a + k
  <2>1. b - a \in Nat /\ b = a + (b - a) OBVIOUS
  <2> QED BY <2>1
<1>2. (a + k) * t = a * t + k * t /\ a * t \in Nat /\ k * t \in Nat OBVIOUS
<1> QED BY <1>1, <1>2

\* The longest that one call can hold its handler, from the configuration alone: the
\* timeouts of all attempts of the loop, and between them the highest ceiling.
THEOREM LongestCall ==
  DelaySpec => [](\A c \in Call : elapsed[c] <= (Retries + 1) * Timeout + Retries * Ceiling)
<1>1. DelayInit => LoopInv
  <2> SUFFICES ASSUME DelayInit, NEW c \in Call PROVE WithinLoop(c) BY DEF LoopInv
  <2>1. attempt[c] = 0 /\ Len(waits[c]) = 0 BY DEF DelayInit, Init
  <2> QED BY <2>1, RetriesBound DEF WithinLoop
<1>2. DelayInv /\ DelayInv' /\ LoopInv /\ [DelayNext]_allVars => LoopInv'
  BY LoopIsKept DEF LoopInv
<1>3. DelayInv /\ LoopInv =>
        \A c \in Call : elapsed[c] <= (Retries + 1) * Timeout + Retries * Ceiling
  <2> SUFFICES ASSUME DelayInv, NEW c \in Call, WithinLoop(c)
               PROVE  elapsed[c] <= (Retries + 1) * Timeout + Retries * Ceiling
    BY DEF LoopInv
  <2>1. elapsed[c] <= attempt[c] * Timeout + Len(waits[c]) * Ceiling BY InvariantBoundsCall
  <2>2. /\ attempt[c] \in Nat /\ Len(waits[c]) \in Nat /\ elapsed[c] \in Nat
        /\ Retries \in Nat /\ Timeout \in Nat /\ Ceiling \in Nat
    BY RetriesBound, ConstantTypes, CeilingBound DEF DelayInv, DelayTypeOK, TypeOK
  <2>3. /\ attempt[c] * Timeout \in Nat /\ (Retries + 1) * Timeout \in Nat
        /\ attempt[c] * Timeout <= (Retries + 1) * Timeout
    BY <2>2, TimesGrow DEF WithinLoop
  <2>4. /\ Len(waits[c]) * Ceiling \in Nat /\ Retries * Ceiling \in Nat
        /\ Len(waits[c]) * Ceiling <= Retries * Ceiling
    BY <2>2, TimesGrow DEF WithinLoop
  <2> DEFINE attempts == attempt[c] * Timeout
             delays == Len(waits[c]) * Ceiling
             allAttempts == (Retries + 1) * Timeout
             allDelays == Retries * Ceiling
  <2>5. /\ elapsed[c] \in Nat /\ {attempts, delays, allAttempts, allDelays} \subseteq Nat
        /\ elapsed[c] <= attempts + delays /\ attempts <= allAttempts /\ delays <= allDelays
    BY <2>1, <2>2, <2>3, <2>4
  <2> HIDE DEF attempts, delays, allAttempts, allDelays
  <2>6. elapsed[c] <= allAttempts + allDelays BY <2>5
  <2> QED BY <2>6 DEF allAttempts, allDelays
<1> QED BY <1>1, <1>2, <1>3, DelayInvariantHolds, PTL DEF DelaySpec

\* A later base covers an earlier one with its jitter.
LEMMA InvariantOrdersBackoffs == ASSUME JitterWithinGrowth PROVE DelayInv => BackoffGrows
<1> SUFFICES ASSUME DelayInv, NEW c \in Call, NEW i \in DOMAIN waits[c], NEW j \in DOMAIN waits[c],
                    i < j, waits[c][i].computed, waits[c][j].computed
             PROVE  waits[c][j].delay >= Lesser(waits[c][i].delay, Cap(waits[c][j].failure))
  BY DEF BackoffGrows
<1>1. waits[c] \in Seq(Wait) BY DEF DelayInv, DelayTypeOK
<1>2. /\ i \in Nat \ {0} /\ j \in Nat \ {0}
      /\ waits[c][i].failure \in Failure /\ waits[c][j].failure \in Failure
  <2>1. i \in 1..Len(waits[c]) /\ j \in 1..Len(waits[c]) BY <1>1
  <2>2. waits[c][i] \in Wait /\ waits[c][j] \in Wait BY <1>1, <2>1
  <2> QED BY <2>1, <2>2 DEF Wait
<1>3. /\ waits[c][i].delay \in CalcDelay(i, waits[c][i].failure)
      /\ waits[c][j].delay \in CalcDelay(j, waits[c][j].failure)
  BY DEF DelayInv, DelaysOf
<1>4. waits[c][i].delay \in Nat /\ waits[c][i].delay <= Base(i) + (Base(i) * JitterPercentage) \div 100
  BY <1>2, <1>3, CalcDelayType
<1>5. Base(i) + (Base(i) * JitterPercentage) \div 100 <= Base(j) BY <1>2, LaterBaseCoversJitter
<1>6. /\ Base(j) \in Nat /\ Cap(waits[c][j].failure) \in Nat /\ waits[c][j].delay \in Nat
      /\ waits[c][j].delay >= Lesser(Base(j), Cap(waits[c][j].failure))
  BY <1>2, <1>3, CalcDelayType
<1>7. Base(i) + (Base(i) * JitterPercentage) \div 100 \in Nat
  <2>1. Base(i) \in Nat BY <1>2, CalcDelayType
  <2>2. Base(i) * JitterPercentage \in Nat BY <2>1, DelayAssumption
  <2> QED BY <2>1, <2>2
<1>8. waits[c][i].delay <= Base(j) BY <1>4, <1>5, <1>6, <1>7
<1> QED BY <1>4, <1>6, <1>8 DEF Lesser

\* Backoffs never shrink, if the jitter of calcDelay is within what the multiplier
\* adds, as it is by default (15 % and 50 %).
THEOREM BackoffAlwaysGrows == ASSUME JitterWithinGrowth PROVE DelaySpec => []BackoffGrows
<1>1. DelayInv => BackoffGrows BY InvariantOrdersBackoffs
<1> QED BY <1>1, DelayInvariantHolds, PTL
==============================================================================
