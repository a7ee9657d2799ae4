----------------------------- MODULE TokenCache -----------------------------
(***************************************************************************)
(* The CRM access token: getCrmAuthToken over the cached document of       *)
(* repos/token.js, with either way of obtaining a token (client secret or  *)
(* federated credentials).                                                 *)
(*                                                                         *)
(* Calls of several instances of the service share one document and        *)
(* nothing else; each reads its own clock.  Entra ID and MongoDB are       *)
(* external.  A token is told apart by what matters of it: the time at     *)
(* which Entra ID stops accepting it.  Reads go to a secondary, which has  *)
(* the document as it was when it was last replicated.                     *)
(*                                                                         *)
(* Clocks count ticks, which are finer than the seconds lifetimes are in.  *)
(***************************************************************************)
EXTENDS Integers

CONSTANTS
  Call,             \* calls of getCrmAuthToken in progress
  Federated,        \* auth.federatedCredentials: not disabled, and an audience
  Second,           \* the ticks in a second: 1000, for milliseconds
  Lifetime,         \* of a token, in seconds: Entra ID's expires_in
  Fraction,         \* in ticks: by how much a token may outlast these whole seconds
  DefaultLifetime,  \* DEFAULT_TOKEN_LIFETIME_SECONDS
  MaxDelay,         \* in ticks: an answer older than this has timed out
  MaxSkew, Skew,    \* by how many ticks an instance's clock is ahead (below 0: behind)
  MaxNow            \* bound of the model: where its clock stops

ASSUME TokenAssumption ==
  /\ Federated \in BOOLEAN
  /\ Second \in Nat \ {0}
  /\ Lifetime \in Nat \ {0} /\ DefaultLifetime \in Nat /\ DefaultLifetime <= Lifetime
  /\ Fraction \subseteq Nat
  /\ MaxDelay \in Nat /\ MaxSkew \in Nat /\ MaxNow \in Nat
  /\ Skew \subseteq -MaxSkew..MaxSkew

VARIABLES
  now,       \* the time
  skew,      \* [Call -> Skew] of the clock of the call's instance
  primary,   \* Document: the token document, or NoDocument
  secondary, \* Document: what a read returns
  phase,     \* [Call -> Phase]
  token,     \* [Call -> Nat] the token Entra ID issued for the call
  issuedAt,  \* [Call -> Nat] when it did
  doc        \* [Call -> Document or NoDocument] read by the call, or to be written

vars == <<now, skew, primary, secondary, phase, token, issuedAt, doc>>

Phase == {"idle", "reading", "checking", "requesting", "issued", "storing"}
Document == [value : Nat, expiresAt : Int]
NoDocument == [value |-> 0, expiresAt |-> -MaxSkew]  \* no clock is before it

TypeOK ==
  /\ now \in Nat
  /\ skew \in [Call -> Skew]
  /\ primary \in Document
  /\ secondary \in Document
  /\ phase \in [Call -> Phase]
  /\ token \in [Call -> Nat]
  /\ issuedAt \in [Call -> Nat]
  /\ doc \in [Call -> Document]

Init ==
  /\ now = 0
  /\ skew \in [Call -> Skew]
  /\ primary = NoDocument
  /\ secondary = NoDocument
  /\ phase = [c \in Call |-> "idle"]
  /\ token = [c \in Call |-> 0]
  /\ issuedAt = [c \in Call |-> 0]
  /\ doc = [c \in Call |-> NoDocument]

-----------------------------------------------------------------------------
Clock(c) == now + skew[c]  \* Date.now() where c runs

\* Math.round(ticks / 1000): half a second or more counts as one.
Round(ticks) == (ticks + Second \div 2) \div Second

\* The seconds a token is said to last: a constant of the answer, or what is left
\* until an absolute time by the local clock, or the default without such a time.
ExpiresIn(c) ==
  IF Federated
  THEN {IF token[c] > Clock(c) THEN Round(token[c] - Clock(c)) ELSE 0, DefaultLifetime}
  ELSE {Lifetime}

ExpiresAt(c, expiresIn) == Clock(c) + expiresIn * Second

-----------------------------------------------------------------------------
Tick ==
  /\ now < MaxNow
  /\ now' = now + 1
  /\ UNCHANGED <<skew, primary, secondary, phase, token, issuedAt, doc>>

\* The call ends, with a token or rejected; what it held is forgotten.
Return(c) ==
  /\ phase' = [phase EXCEPT ![c] = "idle"]
  /\ token' = [token EXCEPT ![c] = 0]
  /\ issuedAt' = [issuedAt EXCEPT ![c] = 0]
  /\ doc' = [doc EXCEPT ![c] = NoDocument]

Replicate ==
  /\ secondary' = primary
  /\ UNCHANGED <<now, skew, primary, phase, token, issuedAt, doc>>

Begin(c) ==
  /\ phase[c] = "idle"
  /\ phase' = [phase EXCEPT ![c] = "reading"]
  /\ UNCHANGED <<now, skew, primary, secondary, token, issuedAt, doc>>

\* getToken: findOne on a secondary.
ReadToken(c) ==
  /\ phase[c] = "reading"
  /\ doc' = [doc EXCEPT ![c] = secondary]
  /\ phase' = [phase EXCEPT ![c] = "checking"]
  /\ UNCHANGED <<now, skew, primary, secondary, token, issuedAt>>

\* getToken: a document that has not expired by the local clock is handed out.
Hits(c) ==
  /\ phase[c] = "checking"
  /\ Clock(c) < doc[c].expiresAt
  /\ Return(c)
  /\ UNCHANGED <<now, skew, primary, secondary>>

Misses(c) ==
  /\ phase[c] = "checking"
  /\ Clock(c) >= doc[c].expiresAt
  /\ phase' = [phase EXCEPT ![c] = "requesting"]
  /\ doc' = [doc EXCEPT ![c] = NoDocument]
  /\ UNCHANGED <<now, skew, primary, secondary, token, issuedAt>>

\* Entra ID issues a token: to the attempt whose answer arrives, if one does.
Issue(c) ==
  /\ phase[c] = "requesting"
  /\ \E fraction \in Fraction :
       token' = [token EXCEPT ![c] = now + Lifetime * Second + fraction]
  /\ issuedAt' = [issuedAt EXCEPT ![c] = now]
  /\ phase' = [phase EXCEPT ![c] = "issued"]
  /\ UNCHANGED <<now, skew, primary, secondary, doc>>

ReceiveWithoutTimeout(c) ==  \* variant: no answer is too late
  /\ phase[c] = "issued"
  /\ \E expiresIn \in ExpiresIn(c) :
       doc' = [doc EXCEPT ![c] = [value |-> token[c], expiresAt |-> ExpiresAt(c, expiresIn)]]
  /\ issuedAt' = [issuedAt EXCEPT ![c] = 0]
  /\ phase' = [phase EXCEPT ![c] = "storing"]
  /\ UNCHANGED <<now, skew, primary, secondary, token>>

\* The answer arrives, and setToken computes expiresAt before it awaits the write.
Receive(c) ==
  /\ phase[c] = "issued"
  /\ now <= issuedAt[c] + MaxDelay
  /\ \E expiresIn \in ExpiresIn(c) :
       doc' = [doc EXCEPT ![c] = [value |-> token[c], expiresAt |-> ExpiresAt(c, expiresIn)]]
  /\ issuedAt' = [issuedAt EXCEPT ![c] = 0]
  /\ phase' = [phase EXCEPT ![c] = "storing"]
  /\ UNCHANGED <<now, skew, primary, secondary, token>>

StoreExpiryFirst(c) ==  \* variant: expiresAt and value are written one after the other
  /\ phase[c] = "storing"
  /\ \E fields \in {"expiresAt", "both"} :
       primary' = IF fields = "both" THEN doc[c] ELSE [primary EXCEPT !.expiresAt = doc[c].expiresAt]
  /\ Return(c)
  /\ UNCHANGED <<now, skew, secondary>>

\* setToken: one updateOne.  The caller gets the new token, whatever the document
\* holds by now, unless the write is not acknowledged.
Store(c) ==
  /\ phase[c] = "storing"
  /\ primary' = doc[c]
  /\ Return(c)
  /\ UNCHANGED <<now, skew, secondary>>

\* The read, the request or the write is rejected or times out: so is the call.
Fails(c) ==
  /\ phase[c] \in {"reading", "requesting", "issued", "storing"}
  /\ Return(c)
  /\ UNCHANGED <<now, skew, primary, secondary>>

GetCrmAuthToken(c) ==
  ReadToken(c) \/ Hits(c) \/ Misses(c) \/ Issue(c) \/ Receive(c) \/ Store(c) \/ Fails(c)

Next == Tick \/ Replicate \/ \E c \in Call : Begin(c) \/ GetCrmAuthToken(c)

Spec == Init /\ [][Next]_vars

-----------------------------------------------------------------------------
\* A lifetime that is counted from the answer ends late by the answer's delay and the
\* clock's skew; one that is counted down to an absolute time, by the rounding alone.
Slack ==
  LET rounding == IF Federated THEN Second \div 2 ELSE 0
  IN  IF rounding > MaxDelay + MaxSkew THEN rounding ELSE MaxDelay + MaxSkew

\* However refreshes race and writes are delayed, the expiry in the document
\* belongs to the token next to it: it is late by at most the delay of that
\* token's answer and the skew of the clock it was computed with or, if this is
\* more, by half a second of rounding.
CachedExpiryIsOwn == \A d \in {primary, secondary} : d.expiresAt <= d.value + Slack

\* A token taken from the cache, stale read or not, is one that Entra ID accepts
\* or has stopped accepting for less than this slack and the skew of the reader's clock.
StalenessBounded ==
  [][\A c \in Call : phase[c] = "checking" /\ phase'[c] = "idle"
       => now < doc[c].value + Slack + MaxSkew]_vars
=============================================================================
