-------------------------- MODULE TokenCache_proofs --------------------------
(***************************************************************************)
(* How stale a cached token can be, for any number of calls, any           *)
(* lifetimes, delays and clocks, and seconds of any number of ticks: the   *)
(* expiry that is stored with a token is its own, but for a slack.         *)
(***************************************************************************)
EXTENDS TokenCache, TLAPS

\* A document's expiry is its token's own, and only an absent one has no token.
Own(d) ==
  /\ d.expiresAt <= d.value + Slack
  /\ d.value = 0 => d.expiresAt = -MaxSkew

\* A call that awaits its answer was issued a token that lasts as long as it says.
Issued(c) == phase[c] = "issued" => token[c] >= issuedAt[c] + Lifetime * Second

TokenInv ==
  /\ TypeOK
  /\ Own(primary) /\ Own(secondary)
  /\ \A c \in Call : Own(doc[c]) /\ Issued(c)

\* Products of lifetimes are lifetimes in ticks, and the default is not the longer one.
LEMMA LifetimesInTicks ==
  /\ Lifetime * Second \in Nat /\ DefaultLifetime * Second \in Nat
  /\ DefaultLifetime * Second <= Lifetime * Second
<1>1. ASSUME NEW a \in Nat, NEW b \in Nat, NEW t \in Nat
      PROVE  a * t \in Nat /\ (a + b) * t = a * t + b * t
  OBVIOUS
<1>2. PICK k \in Nat : Lifetime = DefaultLifetime + k
  <2>1. Lifetime - DefaultLifetime \in Nat BY TokenAssumption
  <2> QED BY <2>1, TokenAssumption
<1> QED BY <1>1, <1>2, TokenAssumption

LEMMA SlackBounds ==
  /\ Slack \in Nat /\ Slack >= MaxDelay + MaxSkew
  /\ Federated => Slack >= Second \div 2
<1>1. Second \div 2 \in Nat BY TokenAssumption
<1> QED BY <1>1, TokenAssumption DEF Slack

\* Math.round makes no time longer by more than half a second.
LEMMA Rounding ==
  ASSUME NEW t \in Nat
  PROVE  Round(t) \in Nat /\ Round(t) * Second <= t + Second \div 2
<1>1. ASSUME NEW a \in Nat, NEW b \in Nat \ {0}
      PROVE  a \div b \in Nat /\ (a \div b) * b <= a
  OBVIOUS
<1>2. t + Second \div 2 \in Nat BY TokenAssumption
<1> QED BY <1>1, <1>2, TokenAssumption DEF Round

\* No document is the absent one, whose expiry lies before every clock.
LEMMA NoDocumentOwn == NoDocument \in Document /\ Own(NoDocument)
BY SlackBounds, TokenAssumption DEF NoDocument, Document, Own

\* Nothing is cached and nobody has a token, so the invariant holds.
LEMMA TokenInvInit == Init => TokenInv
BY NoDocumentOwn, TokenAssumption DEF Init, TokenInv, TypeOK, Issued, Phase

\* The expiry computed for an answer that is not too late belongs to its token.
LEMMA ReceivedOwn ==
  ASSUME TokenInv, NEW c \in Call, phase[c] = "issued",
         now <= issuedAt[c] + MaxDelay, NEW expiresIn \in ExpiresIn(c)
  PROVE  LET d == [value |-> token[c], expiresAt |-> ExpiresAt(c, expiresIn)] IN
           d \in Document /\ Own(d)
<1>1. /\ now \in Nat /\ token[c] \in Nat /\ issuedAt[c] \in Nat
      /\ Clock(c) \in Int /\ Clock(c) <= issuedAt[c] + MaxDelay + MaxSkew
      /\ token[c] >= issuedAt[c] + Lifetime * Second /\ token[c] # 0
  <2>1. /\ now \in Nat /\ token[c] \in Nat /\ issuedAt[c] \in Nat
        /\ skew[c] \in -MaxSkew..MaxSkew /\ MaxSkew \in Nat /\ MaxDelay \in Nat
    BY TokenAssumption DEF TokenInv, TypeOK
  <2>2. token[c] >= issuedAt[c] + Lifetime * Second BY DEF TokenInv, Issued
  <2>3. Lifetime * Second \in Nat \ {0}
    <3>1. ASSUME NEW a \in Nat \ {0}, NEW b \in Nat \ {0} PROVE a * b \in Nat \ {0}
      OBVIOUS
    <3> QED BY <3>1, TokenAssumption
  <2>4. Clock(c) \in Int /\ Clock(c) <= issuedAt[c] + MaxDelay + MaxSkew BY <2>1 DEF Clock
  <2> QED BY <2>1, <2>2, <2>3, <2>4
<1>2. expiresIn * Second \in Nat /\ Clock(c) + expiresIn * Second <= token[c] + Slack
  <2>1. CASE expiresIn \in {Lifetime, DefaultLifetime}
    <3>1. expiresIn * Second \in Nat /\ expiresIn * Second <= Lifetime * Second
      BY <2>1, LifetimesInTicks
    <3> QED BY <1>1, <3>1, LifetimesInTicks, SlackBounds, TokenAssumption
  <2>2. CASE Federated /\ token[c] > Clock(c) /\ expiresIn = Round(token[c] - Clock(c))
    <3>1. token[c] - Clock(c) \in Nat BY <1>1, <2>2
    <3>2. expiresIn * Second \in Nat /\ expiresIn * Second <= token[c] - Clock(c) + Second \div 2
      BY <2>2, <3>1, Rounding, TokenAssumption
    <3>3. Second \div 2 \in Nat BY TokenAssumption
    <3> QED BY <1>1, <2>2, <3>2, <3>3, SlackBounds
  <2>3. CASE expiresIn = 0
    <3>1. expiresIn * Second = 0 BY <2>3, TokenAssumption
    <3> QED BY <1>1, <3>1, LifetimesInTicks, SlackBounds, TokenAssumption
  <2> QED BY <2>1, <2>2, <2>3 DEF ExpiresIn
<1> QED BY <1>1, <1>2 DEF ExpiresAt, Document, Own

\* A call that ends keeps the invariant, provided the document it leaves does.
LEMMA ReturnKeeps ==
  ASSUME TokenInv, NEW c \in Call, Return(c), UNCHANGED <<now, skew>>,
         primary' \in Document, Own(primary'), secondary' = secondary
  PROVE  TokenInv'
BY NoDocumentOwn, TokenAssumption DEF TokenInv, TypeOK, Return, Issued, Own, Phase

\* Every step keeps the invariant.
LEMMA TokenInvNext == TokenInv /\ [Next]_vars => TokenInv'
<1> SUFFICES ASSUME TokenInv, [Next]_vars PROVE TokenInv'
  OBVIOUS
<1> USE TokenAssumption
<1> USE DEF TokenInv, TypeOK, Issued, Own, Phase
<1>1. CASE Tick BY <1>1 DEF Tick
<1>2. CASE Replicate BY <1>2 DEF Replicate
<1>3. ASSUME NEW c \in Call, Begin(c) PROVE TokenInv' BY <1>3 DEF Begin
<1>4. ASSUME NEW c \in Call, ReadToken(c) PROVE TokenInv' BY <1>4 DEF ReadToken
<1>5. ASSUME NEW c \in Call, Hits(c) PROVE TokenInv' BY <1>5, ReturnKeeps DEF Hits
<1>6. ASSUME NEW c \in Call, Misses(c) PROVE TokenInv' BY <1>6, NoDocumentOwn DEF Misses
<1>7. ASSUME NEW c \in Call, Issue(c) PROVE TokenInv'
  <2>1. PICK fraction \in Fraction :
          token' = [token EXCEPT ![c] = now + Lifetime * Second + fraction]
    BY <1>7 DEF Issue
  <2>2. fraction \in Nat BY TokenAssumption
  <2>3. token' \in [Call -> Nat] /\ token'[c] >= now + Lifetime * Second
    BY <2>1, <2>2, LifetimesInTicks
  <2> QED BY <1>7, <2>1, <2>3 DEF Issue
<1>8. ASSUME NEW c \in Call, Receive(c) PROVE TokenInv'
  <2>1. PICK expiresIn \in ExpiresIn(c) :
          doc' = [doc EXCEPT ![c] = [value |-> token[c], expiresAt |-> ExpiresAt(c, expiresIn)]]
    BY <1>8 DEF Receive
  <2>2. doc'[c] \in Document /\ Own(doc'[c]) /\ \A d \in Call \ {c} : doc'[d] = doc[d]
    BY <1>8, <2>1, ReceivedOwn DEF Receive
  <2>3. doc' \in [Call -> Document] /\ \A d \in Call : Own(doc'[d]) BY <2>1, <2>2
  <2> QED BY <1>8, <2>3 DEF Receive
<1>9. ASSUME NEW c \in Call, Store(c) PROVE TokenInv' BY <1>9, ReturnKeeps DEF Store
<1>10. ASSUME NEW c \in Call, Fails(c) PROVE TokenInv' BY <1>10, ReturnKeeps DEF Fails
<1>11. CASE UNCHANGED vars BY <1>11 DEF vars
<1> QED
  BY <1>1, <1>2, <1>3, <1>4, <1>5, <1>6, <1>7, <1>8, <1>9, <1>10, <1>11
     DEF Next, GetCrmAuthToken

\* The inductive invariant holds throughout.
THEOREM TokenInvariant == Spec => []TokenInv
BY TokenInvInit, TokenInvNext, PTL DEF Spec

\* The token document, the calls and what they took from the cache stay well formed.
THEOREM TokenTypeCorrect == Spec => []TypeOK
<1>1. TokenInv => TypeOK BY DEF TokenInv
<1> QED BY <1>1, TokenInvariant, PTL

\* Whatever races there are, the cached expiry belongs to the cached token: it is past
\* the token's end by a delay and a skew, or by half a second, at most.
THEOREM ExpiryIsOwn == Spec => []CachedExpiryIsOwn
<1>1. TokenInv => CachedExpiryIsOwn BY DEF TokenInv, CachedExpiryIsOwn, Own
<1> QED BY <1>1, TokenInvariant, PTL

\* Only getToken ends a call that has read the document, and only when its clock is
\* before the expiry: a token from the cache is past its end by less than the slack of
\* its expiry and the skew of the clock it is read by.
THEOREM CachedTokenStaleness == Spec => StalenessBounded
<1> DEFINE Fresh == \A c \in Call : phase[c] = "checking" /\ phase'[c] = "idle"
                       => now < doc[c].value + Slack + MaxSkew
<1>1. ASSUME TokenInv, [Next]_vars, NEW c \in Call, phase[c] = "checking", phase'[c] = "idle"
      PROVE  now < doc[c].value + Slack + MaxSkew
  <2>1. Hits(c)
    BY <1>1 DEF TokenInv, TypeOK, Next, GetCrmAuthToken, Tick, Replicate, Begin, ReadToken, Hits,
                Misses, Issue, Receive, Store, Fails, Return, vars
  <2>2. /\ now \in Nat /\ skew[c] \in -MaxSkew..MaxSkew /\ doc[c] \in Document /\ Own(doc[c])
    BY <1>1, TokenAssumption DEF TokenInv, TypeOK
  <2> QED BY <2>1, <2>2, SlackBounds, TokenAssumption DEF Hits, Clock, Own, Document
<1>2. TokenInv /\ [Next]_vars => [Fresh]_vars BY <1>1
<1> QED BY <1>2, TokenInvariant, PTL DEF Spec, StalenessBounded
=============================================================================
