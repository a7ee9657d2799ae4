------------------------ MODULE DeadLetterFlow_proofs ------------------------
(***************************************************************************)
(* Safety of the two queues for any number of events, handlers and people  *)
(* who run the replay script, and any limits: nothing is lost between the  *)
(* queues, and copies come from interruptions only.                        *)
(***************************************************************************)
EXTENDS DeadLetterFlow, FiniteSetTheorems, TLAPS

\* A message on one of the queues.
Exists(i) == message[i].queue # "none"

\* What a copy says is true of its message for as long as this exists.
Matches(c) == Exists(c.id) => message[c.id].item = c.item

\* The message i is in the hands of x.
Holds(x, i) ==
  \/ x \in Handler /\ held[x] # Nothing /\ held[x].id = i
  \/ x \in Operator /\ \E c \in batch[x] : c.id = i
  \/ x \in Operator /\ current[x] # Nothing /\ current[x].id = i

\* Who holds what.
HandsInv ==
  /\ \A h \in Handler : held[h] # Nothing => Matches(held[h])
  /\ \A o \in Operator : \A c \in batch[o] : Matches(c)
  /\ \A o \in Operator : current[o] # Nothing => Matches(current[o])
  /\ \A h \in discarded : held[h] # Nothing
  /\ \A i \in Id : Exists(i) =>
       /\ message[i].latest \in Handler => message[i].queue = "inbound"
       /\ message[i].latest \in Operator => message[i].queue = "dead"

\* The script counts what it replays, and holds nothing when it does not run.
ScriptInv ==
  \A o \in Operator :
    /\ IsFiniteSet(batch[o])
    /\ replayed[o] + Cardinality(batch[o]) + (IF current[o] = Nothing THEN 0 ELSE 1) <= MaxMessages
    /\ ~Running(o) => batch[o] = {} /\ current[o] = Nothing

-----------------------------------------------------------------------------
\* An item of which something more than a log entry has to be left.
Owed(item) ==
  \/ item \in Event \ (processed \cup logged)
  \/ item \in Announcement \ logged /\ announcement[item] = "diverted"

\* It has a message that is not about to be deleted.
Kept(item) == \E i \in Id \ SentOn : Exists(i) /\ message[i].item = item

KeptInv == \A item \in Item : Owed(item) => Kept(item)

-----------------------------------------------------------------------------
\* Nobody else can receive the message before its holder is done with it.
Exclusive(i) == ~message[i].visible /\ Holds(message[i].latest, i)

\* x still has to do something with the copy c.
WorksOn(x, c) ==
  \/ x \in Handler \ discarded /\ held[x] = c
  \/ x \in Operator /\ c \in batch[x]

\* Who may make something of an item: each one who works on a copy of it, and each
\* message of it that someone may receive, now or after its visibility timeout.
Token == [by : Handler \cup Operator \cup {NoOne}, id : Id]
Tokens(item) ==
  {k \in Token : IF k.by = NoOne
                 THEN Exists(k.id) /\ message[k.id].item = item /\ ~Exclusive(k.id)
                 ELSE WorksOn(k.by, [id |-> k.id, item |-> item])}

\* Only an interruption adds to them, and an announcement begins without any.
Budget(item) ==
  interruptions + (IF item \in Announcement /\ announcement[item] = "none" THEN 0 ELSE 1)

TokenInv ==
  \A item \in Item : IsFiniteSet(Tokens(item)) /\ Cardinality(Tokens(item)) <= Budget(item)

FlowInv == TypeOK /\ HandsInv /\ ScriptInv /\ KeptInv /\ TokenInv

-----------------------------------------------------------------------------
(* How sets grow. *)

\* One element at most is added.
LEMMA AddsOne ==
  ASSUME NEW S, IsFiniteSet(S), NEW b, NEW T, T \subseteq S \cup {b}
  PROVE  IsFiniteSet(T) /\ Cardinality(T) <= Cardinality(S) + 1
<1>1. IsFiniteSet(S \cup {b}) /\ Cardinality(S \cup {b}) <= Cardinality(S) + 1
  <2>1. Cardinality(S) \in Nat BY FS_CardinalityType
  <2>2. /\ IsFiniteSet(S \cup {b})
        /\ Cardinality(S \cup {b}) = IF b \in S THEN Cardinality(S) ELSE Cardinality(S) + 1
    BY FS_AddElement
  <2> QED BY <2>1, <2>2
<1>2. IsFiniteSet(T) /\ Cardinality(T) <= Cardinality(S \cup {b}) BY <1>1, FS_Subset
<1> QED BY <1>1, <1>2, FS_CardinalityType

\* Nothing is added, or one element takes the place of another.
LEMMA AddsNone ==
  ASSUME NEW S, IsFiniteSet(S), NEW b, NEW T, T \subseteq S \cup {b},
         b \in T => b \in S \/ \E a \in S : a \notin T
  PROVE  IsFiniteSet(T) /\ Cardinality(T) <= Cardinality(S)
<1>1. CASE T \subseteq S BY <1>1, FS_Subset
<1>2. CASE ~(T \subseteq S)
  <2>1. PICK a \in S : a \notin T BY <1>2
  <2>2. T \subseteq (S \ {a}) \cup {b} BY <2>1
  <2>3. IsFiniteSet(S \ {a}) /\ Cardinality(S \ {a}) = Cardinality(S) - 1
    BY <2>1, FS_RemoveElement
  <2>4. IsFiniteSet(T) /\ Cardinality(T) <= Cardinality(S \ {a}) + 1 BY <2>2, <2>3, AddsOne
  <2> QED BY <2>3, <2>4, FS_CardinalityType
<1> QED BY <1>1, <1>2

\* An image has no more elements than its source.
LEMMA ImageIsNoLarger ==
  ASSUME NEW S, IsFiniteSet(S), NEW f, DOMAIN f = S, NEW T, \A t \in T : \E x \in S : f[x] = t
  PROVE  IsFiniteSet(T) /\ Cardinality(T) <= Cardinality(S)
<1> DEFINE A == {x \in S : f[x] \in T}
           g == [x \in A |-> f[x]]
<1>1. IsFiniteSet(A) /\ Cardinality(A) <= Cardinality(S) BY FS_Subset
<1>2. g \in Surjection(A, T) BY DEF Surjection
<1>3. IsFiniteSet(T) /\ Cardinality(T) <= Cardinality(A)
  <2> HIDE DEF A, g
  <2> QED BY <1>1, <1>2, FS_Surjection
<1> QED BY <1>1, <1>3, FS_CardinalityType

-----------------------------------------------------------------------------
(* Messages and copies. *)

\* A message that exists has an item, a queue, and who received it last.
LEMMA MessageType ==
  ASSUME TypeOK, NEW i \in Id
  PROVE  /\ Exists(i) <=> message[i] \in Message
         /\ ~Exists(i) <=> message[i] = NoMessage
         /\ i \in On("none") <=> ~Exists(i)
BY DEF TypeOK, Exists, Message, NoMessage, On

\* The copies in hand are those that somebody holds.
LEMMA InHandIsHeld ==
  ASSUME TypeOK, NEW i
  PROVE  i \in {c.id : c \in InHand} <=> \E x \in Handler \cup Operator : Holds(x, i)
<1>1. Nothing \notin Copy BY FlowAssumption DEF Copy, Item
<1>2. \A o \in Operator : batch[o] \subseteq Copy BY DEF TypeOK
<1> QED BY <1>1, <1>2, FlowAssumption DEF InHand, Holds

\* A message that was sent on is held by who did so.
LEMMA SentOnIsHeld ==
  ASSUME TypeOK, HandsInv, NEW i \in SentOn
  PROVE  \E x \in Handler \cup Operator : Holds(x, i)
<1>1. CASE \E h \in discarded : i = held[h].id
  <2>1. PICK h \in discarded : i = held[h].id BY <1>1
  <2>2. h \in Handler /\ held[h] # Nothing BY DEF HandsInv, TypeOK
  <2> QED BY <2>1, <2>2 DEF Holds
<1>2. CASE \E o \in Operator : current[o] # Nothing /\ i = current[o].id
  BY <1>2 DEF Holds
<1> QED BY <1>1, <1>2 DEF SentOn

\* What SendMessage makes is new: nobody has a copy of it.
LEMMA SentIsNew ==
  ASSUME TypeOK, NEW item, NEW queue, Send(item, queue)
  PROVE  \E j \in Id : /\ ~Exists(j)
                       /\ \A x \in Handler \cup Operator : ~Holds(x, j)
                       /\ message' = [message EXCEPT ![j] = New(item, queue)]
<1> DEFINE j == CHOOSE i \in Free : TRUE
<1>1. j \in Free BY DEF Send
<1>2. j \in Id /\ ~Exists(j) BY <1>1, MessageType DEF Free, On
<1>3. j \notin {c.id : c \in InHand} BY <1>1 DEF Free
<1>4. message' = [message EXCEPT ![j] = New(item, queue)] BY DEF Send
<1> HIDE DEF j
<1> QED BY <1>2, <1>3, <1>4, InHandIsHeld

-----------------------------------------------------------------------------
\* The messages of the events are on the inbound queue, and nothing has happened.
LEMMA FlowInvInit == Init => FlowInv
<1> SUFFICES ASSUME Init PROVE FlowInv
  OBVIOUS
<1> DEFINE id == CHOOSE f \in [Event -> Id] : IsInjective(f)
           inverse == Inverse(id, Event, Id)
<1>1. id \in [Event -> Id] /\ IsInjective(id) BY FlowAssumption
<1>2. message = [i \in Id |-> IF i \in Range(id) THEN New(inverse[i], "inbound") ELSE NoMessage]
  BY DEF Init
<1> HIDE DEF id
<1>3. \A e \in Event : id[e] \in Range(id) /\ inverse[id[e]] = e
  BY <1>1 DEF Range, Inverse, IsInjective
<1>4. \A i \in Range(id) : inverse[i] \in Event /\ id[inverse[i]] = i /\ i \in Id
  BY <1>1, <1>3 DEF Range
<1> HIDE DEF inverse
<1>5. \A i \in Id : message[i] \in Message \cup {NoMessage}
  BY <1>2, <1>4, FlowAssumption DEF New, Message, Item
<1>6. TypeOK
  <2>1. message \in [Id -> Message \cup {NoMessage}] BY <1>2, <1>5
  <2>2. 0 \in 0..MaxMessages /\ 0 \in 0..MaxInterruptions BY FlowAssumption
  <2> QED BY <2>1, <2>2 DEF Init, TypeOK, Fate, Shell
<1>7. HandsInv
  BY <1>2, FlowAssumption DEF Init, HandsInv, Exists, New, NoMessage
<1>8. ScriptInv BY FS_EmptySet, FlowAssumption DEF Init, ScriptInv
<1>9. \A i \in Id : Exists(i) <=> i \in Range(id) BY <1>2 DEF Exists, New, NoMessage
<1>10. \A i \in Range(id) : message[i].item = inverse[i] /\ message[i].visible
  BY <1>2, <1>4 DEF New
<1>11. KeptInv
  <2>1. SentOn = {} BY DEF Init, SentOn
  <2>2. \A e \in Event : Kept(e) BY <1>1, <1>3, <1>9, <1>10, <2>1 DEF Kept
  <2> QED BY <2>2 DEF Init, KeptInv, Owed
<1>12. TokenInv
  <2> SUFFICES ASSUME NEW item \in Item
               PROVE  IsFiniteSet(Tokens(item)) /\ Cardinality(Tokens(item)) <= Budget(item)
    BY DEF TokenInv
  <2>1. \A k \in Tokens(item) : k.by = NoOne /\ Exists(k.id) /\ message[k.id].item = item /\ k \in Token
    <3>1. Nothing \notin Copy BY FlowAssumption DEF Copy, Item
    <3>2. \A x \in Handler \cup Operator, i \in Id : ~WorksOn(x, [id |-> i, item |-> item])
      BY <3>1 DEF Init, WorksOn, Copy
    <3> QED BY <3>2 DEF Tokens, Token
  <2>2. CASE item \in Event
    <3>1. Tokens(item) \subseteq {} \cup {[by |-> NoOne, id |-> id[item]]}
      <4> SUFFICES ASSUME NEW k \in Tokens(item) PROVE k = [by |-> NoOne, id |-> id[item]]
        OBVIOUS
      <4>1. k.id \in Range(id) /\ inverse[k.id] = item BY <1>9, <1>10, <2>1 DEF Token
      <4>2. k.id = id[item] BY <1>4, <4>1
      <4> QED BY <2>1, <4>2 DEF Token
    <3>2. Budget(item) = 1 BY <2>2, FlowAssumption DEF Budget, Init
    <3>3. IsFiniteSet({}) /\ Cardinality({}) = 0 BY FS_EmptySet
    <3>4. IsFiniteSet(Tokens(item)) /\ Cardinality(Tokens(item)) <= Cardinality({}) + 1
      BY <3>1, <3>3, AddsOne
    <3> QED BY <3>2, <3>3, <3>4
  <2>3. CASE item \in Announcement
    <3>1. Tokens(item) = {}
      <4> SUFFICES ASSUME NEW k \in Tokens(item) PROVE FALSE
        OBVIOUS
      <4>1. k.id \in Range(id) /\ inverse[k.id] = item BY <1>9, <1>10, <2>1 DEF Token
      <4> QED BY <1>4, <2>3, <4>1, FlowAssumption
    <3>2. Budget(item) = 0 BY <2>3 DEF Budget, Init
    <3> QED BY <3>1, <3>2, FS_EmptySet
  <2> QED BY <2>2, <2>3 DEF Item
<1> QED BY <1>6, <1>7, <1>8, <1>11, <1>12 DEF FlowInv

-----------------------------------------------------------------------------
(* What the steps have in common. *)

\* One element more is within a bound that is one higher.
LEMMA WithinBound ==
  ASSUME NEW S, IsFiniteSet(S), NEW m \in Nat, Cardinality(S) <= m, NEW n, NEW b,
         NEW T, T \subseteq S \cup {b},
         \/ n = m /\ (b \in T => b \in S \/ \E a \in S : a \notin T)
         \/ n = m + 1
  PROVE  IsFiniteSet(T) /\ Cardinality(T) <= n
<1>1. Cardinality(S) \in Nat BY FS_CardinalityType
<1>2. IsFiniteSet(T) /\ Cardinality(T) <= Cardinality(S) + 1 BY AddsOne
<1>3. Cardinality(T) \in Nat BY <1>2, FS_CardinalityType
<1>4. CASE n = m /\ (b \in T => b \in S \/ \E a \in S : a \notin T)
  <2>1. Cardinality(T) <= Cardinality(S) BY <1>4, AddsNone
  <2> QED BY <1>1, <1>2, <1>3, <1>4, <2>1
<1>5. CASE n = m + 1 BY <1>1, <1>2, <1>3, <1>5
<1> QED BY <1>4, <1>5

\* A step stays within the budget if it replaces what it adds, or interrupts.
LEMMA WithinBudget ==
  ASSUME TypeOK, TokenInv, NEW item \in Item, NEW b,
         Tokens(item)' \subseteq Tokens(item) \cup {b},
         \/ /\ Budget(item)' = Budget(item)
            /\ b \in Tokens(item)' => b \in Tokens(item) \/ \E a \in Tokens(item) : a \notin Tokens(item)'
         \/ Budget(item)' = Budget(item) + 1
  PROVE  IsFiniteSet(Tokens(item)') /\ Cardinality(Tokens(item)') <= Budget(item)'
<1>1. IsFiniteSet(Tokens(item)) /\ Cardinality(Tokens(item)) <= Budget(item) BY DEF TokenInv
<1>2. Budget(item) \in Nat BY FlowAssumption DEF TypeOK, Budget
<1> QED BY <1>1, <1>2, WithinBound

\* The visibility timeout: whoever holds the message does not hold it alone now.
LEMMA BecomeVisibleKeeps == ASSUME FlowInv, NEW i \in Id, BecomeVisible(i) PROVE FlowInv'
<1> USE DEF FlowInv
<1>1. Exists(i) /\ message[i] \in Message BY MessageType DEF BecomeVisible
<1>2. /\ message' = [message EXCEPT ![i].visible = TRUE]
      /\ UNCHANGED <<held, discarded, processed, announcement, logged, batch, current, replayed, shell>>
  BY DEF BecomeVisible, consumerVars, scriptVars
<1>3. message \in [Id -> Message \cup {NoMessage}] BY DEF TypeOK
<1>4. /\ \A j \in Id : /\ Exists(j)' <=> Exists(j)
                       /\ Exists(j) => /\ message'[j].item = message[j].item
                                       /\ message'[j].queue = message[j].queue
                                       /\ message'[j].latest = message[j].latest
      /\ \A j \in Id \ {i} : message'[j] = message[j]
      /\ message' \in [Id -> Message \cup {NoMessage}]
      /\ message'[i].visible
  BY <1>1, <1>2, <1>3 DEF Exists, Message
<1>5. \/ interruptions' = interruptions
      \/ interruptions' = interruptions + 1 /\ interruptions < MaxInterruptions
  BY DEF BecomeVisible, Interrupt
<1>6. TypeOK' BY <1>2, <1>4, <1>5, FlowAssumption DEF TypeOK
<1>7. HandsInv' BY <1>2, <1>4 DEF HandsInv, Matches, Copy, TypeOK
<1>8. ScriptInv' BY <1>2 DEF ScriptInv, Running
<1>9. KeptInv' BY <1>2, <1>4 DEF KeptInv, Owed, Kept, SentOn
<1>10. TokenInv'
  <2> SUFFICES ASSUME NEW item \in Item
               PROVE  IsFiniteSet(Tokens(item)') /\ Cardinality(Tokens(item)') <= Budget(item)'
    BY DEF TokenInv
  <2> DEFINE b == [by |-> NoOne, id |-> i]
  <2>1. \A x, c : WorksOn(x, c)' <=> WorksOn(x, c) BY <1>2 DEF WorksOn
  <2>2. \A x, j : Holds(x, j)' <=> Holds(x, j) BY <1>2 DEF Holds
  <2>3. Tokens(item)' \subseteq Tokens(item) \cup {b}
    BY <1>4, <2>1, <2>2 DEF Tokens, Token, Exclusive
  <2>4. CASE Exclusive(i)
    <3>1. i \in {c.id : c \in InHand}
      <4>1. message[i].latest \in Handler \cup Operator BY <2>4 DEF Exclusive, Holds
      <4> QED BY <2>4, <4>1, InHandIsHeld DEF Exclusive
    <3>2. Budget(item)' = Budget(item) + 1
      BY <1>2, <3>1, FlowAssumption DEF BecomeVisible, Interrupt, Budget, TypeOK
    <3> QED BY <2>3, <3>2, WithinBudget
  <2>5. CASE ~Exclusive(i)
    <3>1. b \in Tokens(item)' => b \in Tokens(item) BY <1>4, <2>5 DEF Tokens
    <3>2. Budget(item)' = Budget(item) \/ Budget(item)' = Budget(item) + 1
      BY <1>2, <1>5, FlowAssumption DEF Budget, TypeOK
    <3> QED BY <2>3, <3>1, <3>2, WithinBudget
  <2> QED BY <2>4, <2>5
<1> QED BY <1>6, <1>7, <1>8, <1>9, <1>10

\* The dead letters take over what was received too often; nobody holds it alone.
LEMMA RedriveKeeps == ASSUME FlowInv, NEW i \in Id, Redrive(i) PROVE FlowInv'
<1> USE DEF FlowInv
<1>1. Exists(i) /\ message[i] \in Message /\ message[i].visible
  BY MessageType DEF Redrive, Visible, On, Exists
<1>2. /\ message' = [message EXCEPT ![i].queue = "dead", ![i].latest = NoOne, ![i].receives = 0]
      /\ UNCHANGED <<held, discarded, processed, announcement, logged, batch, current, replayed,
                     shell, interruptions>>
  BY DEF Redrive, consumerVars, scriptVars
<1>3. message \in [Id -> Message \cup {NoMessage}] BY DEF TypeOK
<1>4. /\ \A j \in Id : /\ Exists(j)' <=> Exists(j)
                       /\ Exists(j) => /\ message'[j].item = message[j].item
                                       /\ message'[j].visible = message[j].visible
      /\ \A j \in Id \ {i} : message'[j] = message[j]
      /\ message' \in [Id -> Message \cup {NoMessage}]
      /\ message'[i].latest = NoOne
  <2>1. 0 \in 0..MaxReceive BY FlowAssumption
  <2>2. /\ message'[i] = [message[i] EXCEPT !.queue = "dead", !.latest = NoOne, !.receives = 0]
        /\ \A j \in Id \ {i} : message'[j] = message[j]
    BY <1>2, <1>3
  <2>3. /\ message'[i] \in Message /\ message'[i].item = message[i].item
        /\ message'[i].visible = message[i].visible /\ message'[i].latest = NoOne
    <3> DEFINE m == message[i]
               n == [m EXCEPT !.queue = "dead", !.latest = NoOne, !.receives = 0]
    <3>1. m \in Message BY <1>1
    <3> HIDE DEF m
    <3>2. n \in Message /\ n.item = m.item /\ n.visible = m.visible /\ n.latest = NoOne
      BY <2>1, <3>1 DEF Message
    <3> QED BY <2>2, <3>2 DEF m
  <2>4. Exists(i)' BY <2>3 DEF Exists, Message
  <2>5. message' \in [Id -> Message \cup {NoMessage}] BY <1>2, <1>3, <2>2, <2>3
  <2> QED BY <1>1, <2>2, <2>3, <2>4, <2>5 DEF Exists
<1>5. TypeOK' BY <1>2, <1>4 DEF TypeOK
<1>6. HandsInv' BY <1>2, <1>4, FlowAssumption DEF HandsInv, Matches, Copy, TypeOK
<1>7. ScriptInv' BY <1>2 DEF ScriptInv, Running
<1>8. KeptInv' BY <1>2, <1>4 DEF KeptInv, Owed, Kept, SentOn
<1>9. TokenInv'
  <2> SUFFICES ASSUME NEW item \in Item
               PROVE  IsFiniteSet(Tokens(item)') /\ Cardinality(Tokens(item)') <= Budget(item)'
    BY DEF TokenInv
  <2>1. \A x, c : WorksOn(x, c)' <=> WorksOn(x, c) BY <1>2 DEF WorksOn
  <2>2. \A x, j : Holds(x, j)' <=> Holds(x, j) BY <1>2 DEF Holds
  <2>3. Tokens(item)' \subseteq Tokens(item)
    BY <1>1, <1>4, <2>1, <2>2 DEF Tokens, Token, Exclusive
  <2>4. Budget(item)' = Budget(item) BY <1>2 DEF Budget
  <2> QED BY <2>3, <2>4, WithinBudget
<1> QED BY <1>5, <1>6, <1>7, <1>8, <1>9

\* A handler receives a message, and holds it alone.
LEMMA ReceiveKeeps ==
  ASSUME FlowInv, NEW h \in Handler, NEW i \in Id, Receive(h, i) PROVE FlowInv'
<1> USE DEF FlowInv
<1>1. /\ Exists(i) /\ message[i] \in Message /\ message[i].visible
      /\ message[i].queue = "inbound" /\ message[i].receives < MaxReceive /\ held[h] = Nothing
  BY MessageType DEF Receive, Visible, On, Exists
<1>2. /\ message' = [message EXCEPT ![i].visible = FALSE, ![i].latest = h, ![i].receives = @ + 1]
      /\ held' = [held EXCEPT ![h] = [id |-> i, item |-> message[i].item]]
      /\ UNCHANGED <<discarded, processed, announcement, logged, batch, current, replayed,
                     shell, interruptions>>
  BY DEF Receive, scriptVars
<1>3. /\ message \in [Id -> Message \cup {NoMessage}]
      /\ held \in [Handler -> Copy \cup {Nothing}]
  BY DEF TypeOK
<1>4. /\ \A j \in Id : /\ Exists(j)' <=> Exists(j)
                       /\ Exists(j) => /\ message'[j].item = message[j].item
                                       /\ message'[j].queue = message[j].queue
      /\ \A j \in Id \ {i} : message'[j] = message[j]
      /\ message' \in [Id -> Message \cup {NoMessage}]
      /\ ~message'[i].visible /\ message'[i].latest = h
  <2>1. \A j \in Id \ {i} : message'[j] = message[j] BY <1>2, <1>3
  <2>2. message'[i] = [message[i] EXCEPT !.visible = FALSE, !.latest = h, !.receives = @ + 1]
    BY <1>2, <1>3
  <2>3. /\ message'[i] \in Message /\ ~message'[i].visible /\ message'[i].latest = h
        /\ message'[i].item = message[i].item /\ message'[i].queue = message[i].queue
    <3>1. message[i].receives + 1 \in 0..MaxReceive /\ h \in Handler \cup Operator \cup {NoOne}
      BY <1>1, FlowAssumption DEF Message
    <3>2. message'[i] = [item |-> message[i].item, queue |-> message[i].queue, visible |-> FALSE,
                         receives |-> message[i].receives + 1, latest |-> h]
      BY <1>1, <2>2 DEF Message
    <3>3. message[i].item \in Item /\ message[i].queue \in {"inbound", "dead"}
      BY <1>1 DEF Message
    <3>4. message'[i] \in Message BY <3>1, <3>2, <3>3 DEF Message
    <3> QED BY <3>2, <3>4
  <2>4. message' \in [Id -> Message \cup {NoMessage}] BY <1>2, <1>3, <2>3
  <2> QED BY <2>1, <2>3, <2>4 DEF Exists
<1> DEFINE c == [id |-> i, item |-> message[i].item]
<1>5. c \in Copy /\ held'[h] = c /\ h \notin discarded /\ c # Nothing
  <2>1. c \in Copy BY <1>1 DEF Copy, Message
  <2> QED BY <1>1, <1>2, <1>3, <2>1, FlowAssumption DEF HandsInv, Copy, Item
<1>6. TypeOK' BY <1>2, <1>3, <1>4, <1>5 DEF TypeOK
<1>7. HandsInv'
  <2>1. ASSUME NEW k \in Copy, Matches(k) PROVE Matches(k)'
    BY <1>4, <2>1 DEF Matches, Copy
  <2>2. ASSUME NEW g \in Handler, held'[g] # Nothing PROVE Matches(held[g])'
    <3>1. CASE g = h BY <1>4, <1>5, <3>1 DEF Matches
    <3>2. CASE g # h
      <4>1. held'[g] = held[g] /\ held[g] \in Copy BY <1>2, <1>3, <2>2, <3>2
      <4> QED BY <1>4, <2>2, <4>1 DEF HandsInv, Matches, Copy
    <3> QED BY <3>1, <3>2
  <2>3. \A o \in Operator : \A k \in batch'[o] : Matches(k)'
    BY <1>2, <2>1 DEF HandsInv, TypeOK
  <2>4. \A o \in Operator : current'[o] # Nothing => Matches(current[o])'
    BY <1>2, <1>4 DEF HandsInv, TypeOK, Matches, Copy
  <2>5. \A g \in discarded' : held'[g] # Nothing BY <1>2, <1>3, <1>5 DEF HandsInv
  <2>6. \A j \in Id : Exists(j)' =>
          /\ message'[j].latest \in Handler => message'[j].queue = "inbound"
          /\ message'[j].latest \in Operator => message'[j].queue = "dead"
    BY <1>1, <1>4, FlowAssumption DEF HandsInv
  <2> QED BY <2>2, <2>3, <2>4, <2>5, <2>6 DEF HandsInv
<1>8. ScriptInv' BY <1>2 DEF ScriptInv, Running
<1>9. KeptInv'
  <2>1. SentOn' = SentOn BY <1>2, <1>3, <1>5 DEF SentOn
  <2> QED BY <1>2, <1>4, <2>1 DEF KeptInv, Owed, Kept
<1>10. TokenInv'
  <2> SUFFICES ASSUME NEW item \in Item
               PROVE  IsFiniteSet(Tokens(item)') /\ Cardinality(Tokens(item)') <= Budget(item)'
    BY DEF TokenInv
  <2> DEFINE a == [by |-> NoOne, id |-> i]
             b == [by |-> h, id |-> i]
  <2>1. \A x \in Handler \cup Operator : \A d : WorksOn(x, d)' => WorksOn(x, d) \/ (x = h /\ d = c)
    BY <1>2, <1>3, <1>5 DEF WorksOn
  <2>2. \A x, j : Holds(x, j) => Holds(x, j)' BY <1>1, <1>2, <1>3, <1>5 DEF Holds
  <2>0. Exclusive(i)'
    <3>1. Holds(h, i)' BY <1>5 DEF Holds
    <3> QED BY <1>4, <3>1 DEF Exclusive
  <2>3. Tokens(item)' \subseteq Tokens(item) \cup {b}
    <3> SUFFICES ASSUME NEW k \in Tokens(item)', k # b PROVE k \in Tokens(item)
      OBVIOUS
    <3>1. CASE k.by = NoOne
      <4>1. k.id # i BY <2>0, <3>1 DEF Tokens
      <4> QED BY <1>4, <2>2, <3>1, <4>1 DEF Tokens, Token, Exclusive
    <3>2. CASE k.by # NoOne
      <4>1. ~(k.by = h /\ k.id = i) BY DEF Tokens, Token
      <4>2. k.by \in Handler \cup Operator /\ WorksOn(k.by, [id |-> k.id, item |-> item])'
        BY <3>2 DEF Tokens, Token
      <4>3. WorksOn(k.by, [id |-> k.id, item |-> item]) BY <2>1, <4>1, <4>2
      <4> QED BY <3>2, <4>3 DEF Tokens
    <3> QED BY <3>1, <3>2
  <2>4. ASSUME b \in Tokens(item)' PROVE a \in Tokens(item) /\ a \notin Tokens(item)'
    <3>1. message[i].item = item
      <4>1. WorksOn(h, [id |-> i, item |-> item])' BY <2>4, FlowAssumption DEF Tokens
      <4>2. held'[h] = [id |-> i, item |-> item] BY <4>1, FlowAssumption DEF WorksOn
      <4> QED BY <1>5, <4>2
    <3>2. ~Exclusive(i) BY <1>1 DEF Exclusive
    <3> QED BY <1>1, <1>4, <2>0, <3>1, <3>2 DEF Tokens, Token
  <2>5. Budget(item)' = Budget(item) BY <1>2 DEF Budget
  <2> QED BY <2>3, <2>4, <2>5, WithinBudget
<1> QED BY <1>6, <1>7, <1>8, <1>9, <1>10

\* A handler has nothing in its hands any more; the others keep what they have.
LEMMA LetGo ==
  ASSUME TypeOK, NEW h \in Handler, held' = [held EXCEPT ![h] = Nothing],
         discarded' = discarded \ {h} \/ (discarded' = discarded /\ h \notin discarded),
         UNCHANGED <<batch, current>>
  PROVE  /\ held' \in [Handler -> Copy \cup {Nothing}] /\ discarded' \subseteq Handler
         /\ \A g \in Handler \ {h} : held'[g] = held[g]
         /\ held'[h] = Nothing /\ h \notin discarded' /\ discarded' \subseteq discarded
         /\ \A x \in Handler \cup Operator, c \in Copy : WorksOn(x, c)' => WorksOn(x, c)
         /\ \A x, j : Holds(x, j)' <=> Holds(x, j) /\ x # h
         /\ SentOn' \subseteq SentOn
<1>1. /\ held' \in [Handler -> Copy \cup {Nothing}] /\ discarded' \subseteq Handler
      /\ \A g \in Handler \ {h} : held'[g] = held[g]
      /\ held'[h] = Nothing /\ h \notin discarded' /\ discarded' \subseteq discarded
      /\ \A g \in discarded : g # h => g \in discarded'
  BY DEF TypeOK
<1>2. Nothing \notin Copy BY FlowAssumption DEF Copy, Item
<1>3. \A x \in Handler \cup Operator, c \in Copy : WorksOn(x, c)' => WorksOn(x, c)
  BY <1>1, <1>2 DEF WorksOn
<1>4. \A x, j : Holds(x, j)' <=> Holds(x, j) /\ x # h BY <1>1, FlowAssumption DEF Holds
<1>5. SentOn' \subseteq SentOn BY <1>1 DEF SentOn
<1> QED BY <1>1, <1>3, <1>4, <1>5

\* A deletion concerns one message, and this goes if nobody else has received it.
LEMMA DeleteEffect ==
  ASSUME TypeOK, NEW i \in Id, NEW queue \in {"inbound", "dead"}, NEW who, Delete(i, queue, who)
  PROVE  /\ message' \in [Id -> Message \cup {NoMessage}]
         /\ \A j \in Id \ {i} : message'[j] = message[j]
         /\ message'[i] \in {message[i], NoMessage}
         /\ message[i].queue = queue /\ message[i].latest = who => message'[i] = NoMessage
         /\ \A j \in Id : Exists(j)' => message'[j] = message[j] /\ Exists(j)
<1>1. message \in [Id -> Message \cup {NoMessage}] BY DEF TypeOK
<1> QED BY <1>1 DEF Delete, On, Exists, NoMessage

\* Who has received a message and deletes it leaves nothing to others that they
\* did not have.
LEMMA AcknowledgedTokens ==
  ASSUME TypeOK, HandsInv, NEW h \in Handler, held[h] # Nothing,
         Delete(held[h].id, "inbound", h),
         held' = [held EXCEPT ![h] = Nothing],
         discarded' = discarded \ {h} \/ (discarded' = discarded /\ h \notin discarded),
         UNCHANGED <<batch, current>>, NEW item \in Item
  PROVE  Tokens(item)' \subseteq Tokens(item)
<1> DEFINE i == held[h].id
<1>1. i \in Id BY DEF TypeOK, Copy
<1> SUFFICES ASSUME NEW k \in Tokens(item)' PROVE k \in Tokens(item)
  OBVIOUS
<1>2. CASE k.by = NoOne
  <2>1. Exists(k.id)' /\ message'[k.id].item = item /\ ~Exclusive(k.id)' /\ k \in Token
    BY <1>2 DEF Tokens
  <2>2. k.id \in Id BY <2>1 DEF Token
  <2>3. message'[k.id] = message[k.id] /\ Exists(k.id) BY <1>1, <2>1, <2>2, DeleteEffect
  <2>4. ~Exclusive(k.id)
    <3> SUFFICES ASSUME Exclusive(k.id) PROVE FALSE
      OBVIOUS
    <3>1. ~message[k.id].visible /\ Holds(message[k.id].latest, k.id) BY DEF Exclusive
    <3>2. message[k.id].latest = h BY <2>1, <2>3, <3>1, LetGo DEF Exclusive
    <3>3. k.id = i BY <3>1, <3>2, FlowAssumption DEF Holds
    <3>4. message[i].queue = "inbound" BY <1>1, <2>3, <3>2, <3>3 DEF HandsInv
    <3>5. message'[i] = NoMessage BY <1>1, <3>2, <3>3, <3>4, DeleteEffect
    <3> QED BY <2>1, <3>3, <3>5 DEF Exists, NoMessage
  <2> QED BY <1>2, <2>1, <2>3, <2>4 DEF Tokens
<1>3. CASE k.by # NoOne
  <2>1. /\ k \in Token /\ k.by \in Handler \cup Operator /\ k.id \in Id
        /\ WorksOn(k.by, [id |-> k.id, item |-> item])'
    BY <1>3 DEF Tokens, Token
  <2>2. [id |-> k.id, item |-> item] \in Copy BY <2>1 DEF Copy
  <2>3. WorksOn(k.by, [id |-> k.id, item |-> item]) BY <2>1, <2>2, LetGo
  <2> QED BY <1>3, <2>1, <2>3 DEF Tokens
<1> QED BY <1>2, <1>3

\* The work is done, and the message goes, if it is still this handler's.
LEMMA SucceedKeeps == ASSUME FlowInv, NEW h \in Handler, Succeed(h) PROVE FlowInv'
<1> USE DEF FlowInv
<1> DEFINE i == held[h].id
<1>1. /\ held[h] # Nothing /\ h \notin discarded /\ held[h].item \in Event
      /\ processed' = processed \cup {held[h].item}
      /\ Delete(i, "inbound", h)
      /\ held' = [held EXCEPT ![h] = Nothing]
      /\ UNCHANGED <<discarded, announcement, logged, batch, current, replayed, shell, interruptions>>
  BY DEF Succeed, Works, scriptVars
<1>2. i \in Id BY <1>1 DEF TypeOK, Copy
<1>3. /\ message' \in [Id -> Message \cup {NoMessage}]
      /\ \A j \in Id \ {i} : message'[j] = message[j]
      /\ \A j \in Id : Exists(j)' => message'[j] = message[j] /\ Exists(j)
  BY <1>1, <1>2, DeleteEffect
<1>4. /\ held' \in [Handler -> Copy \cup {Nothing}]
      /\ \A g \in Handler \ {h} : held'[g] = held[g]
      /\ held'[h] = Nothing /\ SentOn' \subseteq SentOn
  BY <1>1, LetGo
<1>5. TypeOK' BY <1>1, <1>3, <1>4 DEF TypeOK
<1>6. HandsInv' BY <1>1, <1>3, <1>4 DEF HandsInv, Matches, Copy, TypeOK
<1>7. ScriptInv' BY <1>1 DEF ScriptInv, Running
<1>8. KeptInv'
  <2> SUFFICES ASSUME NEW item \in Item, Owed(item)' PROVE Kept(item)'
    BY DEF KeptInv
  <2>1. Owed(item) /\ item # held[h].item BY <1>1, FlowAssumption DEF Owed
  <2>2. PICK j \in Id \ SentOn : Exists(j) /\ message[j].item = item
    BY <2>1 DEF KeptInv, Kept
  <2>3. j # i BY <1>1, <2>1, <2>2 DEF HandsInv, Matches
  <2> QED BY <1>3, <1>4, <2>2, <2>3 DEF Kept, Exists
<1>9. TokenInv'
  <2> SUFFICES ASSUME NEW item \in Item
               PROVE  IsFiniteSet(Tokens(item)') /\ Cardinality(Tokens(item)') <= Budget(item)'
    BY DEF TokenInv
  <2>1. Tokens(item)' \subseteq Tokens(item) BY <1>1, AcknowledgedTokens
  <2>2. Budget(item)' = Budget(item) BY <1>1 DEF Budget
  <2> QED BY <2>1, <2>2, WithinBudget
<1> QED BY <1>5, <1>6, <1>7, <1>8, <1>9

\* What was sent on is deleted; another message of the item has been made.
LEMMA AcknowledgeKeeps == ASSUME FlowInv, NEW h \in Handler, Acknowledge(h) PROVE FlowInv'
<1> USE DEF FlowInv
<1> DEFINE i == held[h].id
<1>1. /\ held[h] # Nothing /\ h \in discarded
      /\ Delete(i, "inbound", h)
      /\ held' = [held EXCEPT ![h] = Nothing] /\ discarded' = discarded \ {h}
      /\ UNCHANGED <<processed, announcement, logged, batch, current, replayed, shell, interruptions>>
  BY DEF Acknowledge, HandsInv, scriptVars
<1>2. i \in Id BY <1>1 DEF TypeOK, Copy
<1>3. /\ message' \in [Id -> Message \cup {NoMessage}]
      /\ \A j \in Id \ {i} : message'[j] = message[j]
      /\ \A j \in Id : Exists(j)' => message'[j] = message[j] /\ Exists(j)
  BY <1>1, <1>2, DeleteEffect
<1>4. /\ held' \in [Handler -> Copy \cup {Nothing}] /\ discarded' \subseteq Handler
      /\ \A g \in Handler \ {h} : held'[g] = held[g]
      /\ held'[h] = Nothing /\ SentOn' \subseteq SentOn
  BY <1>1, LetGo
<1>5. TypeOK' BY <1>1, <1>3, <1>4 DEF TypeOK
<1>6. HandsInv' BY <1>1, <1>3, <1>4 DEF HandsInv, Matches, Copy, TypeOK
<1>7. ScriptInv' BY <1>1 DEF ScriptInv, Running
<1>8. KeptInv'
  <2> SUFFICES ASSUME NEW item \in Item, Owed(item)' PROVE Kept(item)'
    BY DEF KeptInv
  <2>1. Owed(item) BY <1>1 DEF Owed
  <2>2. PICK j \in Id \ SentOn : Exists(j) /\ message[j].item = item
    BY <2>1 DEF KeptInv, Kept
  <2>3. j # i BY <1>1, <2>2 DEF SentOn
  <2> QED BY <1>3, <1>4, <2>2, <2>3 DEF Kept, Exists
<1>9. TokenInv'
  <2> SUFFICES ASSUME NEW item \in Item
               PROVE  IsFiniteSet(Tokens(item)') /\ Cardinality(Tokens(item)') <= Budget(item)'
    BY DEF TokenInv
  <2>1. Tokens(item)' \subseteq Tokens(item) BY <1>1, AcknowledgedTokens
  <2>2. Budget(item)' = Budget(item) BY <1>1 DEF Budget
  <2> QED BY <2>1, <2>2, WithinBudget
<1> QED BY <1>5, <1>6, <1>7, <1>8, <1>9

\* Who lets a message go without deleting it leaves it to others: this adds nothing
\* if there was something to do with it still.
LEMMA DroppedTokens ==
  ASSUME TypeOK, HandsInv, NEW h \in Handler, held[h] # Nothing, message' = message,
         held' = [held EXCEPT ![h] = Nothing],
         discarded' = discarded \ {h} \/ (discarded' = discarded /\ h \notin discarded),
         UNCHANGED <<batch, current>>, NEW item \in Item
  PROVE  LET b == [by |-> NoOne, id |-> held[h].id] IN
           /\ Tokens(item)' \subseteq Tokens(item) \cup {b}
           /\ h \notin discarded /\ b \in Tokens(item)' =>
                b \in Tokens(item) \/ \E a \in Tokens(item) : a \notin Tokens(item)'
<1> DEFINE i == held[h].id
           b == [by |-> NoOne, id |-> i]
           a == [by |-> h, id |-> i]
<1>1. i \in Id /\ held[h] \in Copy BY DEF TypeOK, Copy
<1>2. ASSUME NEW k \in Tokens(item)', k # b PROVE k \in Tokens(item)
  <2>1. CASE k.by = NoOne
    <3>1. Exists(k.id)' /\ message'[k.id].item = item /\ ~Exclusive(k.id)' /\ k \in Token
      BY <2>1 DEF Tokens
    <3>2. k.id # i BY <1>2, <2>1, <3>1 DEF Token
    <3>3. ASSUME Exclusive(k.id) PROVE FALSE
      <4>1. ~message[k.id].visible /\ Holds(message[k.id].latest, k.id) BY <3>3 DEF Exclusive
      <4>2. message[k.id].latest = h BY <3>1, <4>1, LetGo DEF Exclusive
      <4> QED BY <3>2, <4>1, <4>2, FlowAssumption DEF Holds
    <3> QED BY <2>1, <3>1, <3>3 DEF Tokens, Exists
  <2>2. CASE k.by # NoOne
    <3>1. /\ k \in Token /\ k.by \in Handler \cup Operator /\ k.id \in Id
          /\ WorksOn(k.by, [id |-> k.id, item |-> item])'
      BY <2>2 DEF Tokens, Token
    <3>2. [id |-> k.id, item |-> item] \in Copy BY <3>1 DEF Copy
    <3>3. WorksOn(k.by, [id |-> k.id, item |-> item]) BY <3>1, <3>2, LetGo
    <3> QED BY <2>2, <3>1, <3>3 DEF Tokens
  <2> QED BY <2>1, <2>2
<1>3. ASSUME h \notin discarded, b \in Tokens(item)' PROVE a \in Tokens(item) /\ a \notin Tokens(item)'
  <2>1. Exists(i) /\ message[i].item = item BY <1>3 DEF Tokens, Exists
  <2>2. held[h] = [id |-> i, item |-> item] BY <1>1, <2>1 DEF HandsInv, Matches, Copy
  <2>3. held'[h] = Nothing BY LetGo
  <2>4. held'[h] # [id |-> i, item |-> item] /\ h \notin Operator /\ h # NoOne
    BY <1>1, <2>3, FlowAssumption DEF Copy, Item
  <2>5. a \in Tokens(item) BY <1>1, <1>3, <2>2, <2>4 DEF Tokens, Token, WorksOn
  <2>6. a \notin Tokens(item)' BY <2>4 DEF Tokens, WorksOn
  <2> QED BY <2>5, <2>6
<1> QED BY <1>2, <1>3

\* A retryable failure: the message is left to its visibility timeout.
LEMMA LeaveKeeps == ASSUME FlowInv, NEW h \in Handler, Leave(h) PROVE FlowInv'
<1> USE DEF FlowInv
<1>1. /\ held[h] # Nothing /\ h \notin discarded
      /\ held' = [held EXCEPT ![h] = Nothing]
      /\ UNCHANGED <<message, discarded, processed, announcement, logged, batch, current, replayed,
                     shell, interruptions>>
  BY DEF Leave, Works, scriptVars
<1>2. /\ held' \in [Handler -> Copy \cup {Nothing}]
      /\ \A g \in Handler \ {h} : held'[g] = held[g]
      /\ held'[h] = Nothing /\ SentOn' \subseteq SentOn
  BY <1>1, LetGo
<1>3. TypeOK' BY <1>1, <1>2 DEF TypeOK
<1>4. HandsInv' BY <1>1, <1>2 DEF HandsInv, Matches, Exists, TypeOK
<1>5. ScriptInv' BY <1>1 DEF ScriptInv, Running
<1>6. KeptInv' BY <1>1, <1>2 DEF KeptInv, Owed, Kept, Exists
<1>7. TokenInv'
  <2> SUFFICES ASSUME NEW item \in Item
               PROVE  IsFiniteSet(Tokens(item)') /\ Cardinality(Tokens(item)') <= Budget(item)'
    BY DEF TokenInv
  <2>1. Budget(item)' = Budget(item) BY <1>1 DEF Budget
  <2> QED BY <1>1, <2>1, DroppedTokens, WithinBudget
<1> QED BY <1>3, <1>4, <1>5, <1>6, <1>7

\* A crash is the same, at any moment, and is an interruption.
LEMMA CrashKeeps == ASSUME FlowInv, NEW h \in Handler, Crash(h) PROVE FlowInv'
<1> USE DEF FlowInv
<1>1. /\ held[h] # Nothing /\ interruptions < MaxInterruptions
      /\ interruptions' = interruptions + 1
      /\ held' = [held EXCEPT ![h] = Nothing] /\ discarded' = discarded \ {h}
      /\ UNCHANGED <<message, processed, announcement, logged, batch, current, replayed, shell>>
  BY DEF Crash, Interrupt, scriptVars
<1>2. /\ held' \in [Handler -> Copy \cup {Nothing}] /\ discarded' \subseteq Handler
      /\ \A g \in Handler \ {h} : held'[g] = held[g]
      /\ held'[h] = Nothing /\ SentOn' \subseteq SentOn
  BY <1>1, LetGo
<1>3. TypeOK' BY <1>1, <1>2, FlowAssumption DEF TypeOK
<1>4. HandsInv' BY <1>1, <1>2 DEF HandsInv, Matches, Exists, TypeOK
<1>5. ScriptInv' BY <1>1 DEF ScriptInv, Running
<1>6. KeptInv' BY <1>1, <1>2 DEF KeptInv, Owed, Kept, Exists
<1>7. TokenInv'
  <2> SUFFICES ASSUME NEW item \in Item
               PROVE  IsFiniteSet(Tokens(item)') /\ Cardinality(Tokens(item)') <= Budget(item)'
    BY DEF TokenInv
  <2>1. Budget(item)' = Budget(item) + 1 BY <1>1, FlowAssumption DEF Budget, TypeOK
  <2>2. Tokens(item)' \subseteq Tokens(item) \cup {[by |-> NoOne, id |-> held[h].id]}
    BY <1>1, DroppedTokens
  <2> QED BY <2>1, <2>2, WithinBudget
<1> QED BY <1>3, <1>4, <1>5, <1>6, <1>7

\* A new message is the only trace of its item that a sending adds, and there is
\* always one that is not about to be deleted then.
LEMMA SentTokens ==
  ASSUME TypeOK, HandsInv, NEW sent \in Item, NEW queue \in {"inbound", "dead"}, NEW j \in Id,
         ~Exists(j), \A x \in Handler \cup Operator : ~Holds(x, j),
         message' = [message EXCEPT ![j] = New(sent, queue)],
         \A x \in Handler \cup Operator, i \in Id : Holds(x, i) <=> Holds(x, i)',
         \A x \in Handler \cup Operator, c \in Copy : WorksOn(x, c)' => WorksOn(x, c)
  PROVE  /\ message' \in [Id -> Message \cup {NoMessage}]
         /\ \A i \in Id \ {j} : message'[i] = message[i]
         /\ Exists(j)' /\ message'[j] = New(sent, queue)
         /\ \A item \in Item :
              Tokens(item)' \subseteq Tokens(item) \cup {[by |-> NoOne, id |-> j]}
         /\ \A item \in Item \ {sent} : Tokens(item)' \subseteq Tokens(item)
<1> DEFINE b == [by |-> NoOne, id |-> j]
<1>1. New(sent, queue) \in Message
  <2>1. 0 \in 0..MaxReceive BY FlowAssumption
  <2> QED BY <2>1 DEF New, Message
<1>2. /\ message' \in [Id -> Message \cup {NoMessage}]
      /\ \A i \in Id \ {j} : message'[i] = message[i]
      /\ message'[j] = New(sent, queue)
  BY <1>1 DEF TypeOK
<1>3. Exists(j)' BY <1>2 DEF Exists, New
<1>4. ASSUME NEW item \in Item, NEW k \in Tokens(item)', k # b \/ item # sent
      PROVE  k \in Tokens(item)
  <2>1. CASE k.by = NoOne
    <3>1. Exists(k.id)' /\ message'[k.id].item = item /\ ~Exclusive(k.id)' /\ k \in Token
      BY <2>1 DEF Tokens
    <3>2. k.id \in Id /\ k.id # j
      <4>1. ASSUME k.id = j PROVE FALSE
        <5>1. k = b BY <2>1, <3>1, <4>1 DEF Token
        <5>2. item = sent BY <1>2, <3>1, <4>1 DEF New
        <5> QED BY <1>4, <5>1, <5>2
      <4> QED BY <3>1, <4>1 DEF Token
    <3>3. message'[k.id] = message[k.id] BY <1>2, <3>2
    <3>4. Exists(k.id) /\ message[k.id] \in Message BY <3>1, <3>2, <3>3, MessageType DEF Exists
    <3>5. ~Exclusive(k.id)
      <4>1. ASSUME Exclusive(k.id) PROVE Exclusive(k.id)'
        <5>1. message[k.id].latest \in Handler \cup Operator BY <4>1 DEF Exclusive, Holds
        <5> QED BY <3>2, <3>3, <4>1, <5>1 DEF Exclusive
      <4> QED BY <3>1, <4>1
    <3> QED BY <2>1, <3>1, <3>3, <3>4, <3>5 DEF Tokens
  <2>2. CASE k.by # NoOne
    <3>1. /\ k \in Token /\ k.by \in Handler \cup Operator /\ k.id \in Id
          /\ WorksOn(k.by, [id |-> k.id, item |-> item])'
      BY <2>2 DEF Tokens, Token
    <3>2. [id |-> k.id, item |-> item] \in Copy BY <3>1 DEF Copy
    <3>3. WorksOn(k.by, [id |-> k.id, item |-> item]) BY <3>1, <3>2
    <3> QED BY <2>2, <3>1, <3>3 DEF Tokens
  <2> QED BY <2>1, <2>2
<1> QED BY <1>2, <1>3, <1>4

\* The announcement is published, diverted to the dead letters, or logged.
LEMMA PublishKeeps ==
  ASSUME FlowInv, NEW h \in Handler, NEW a \in Announcement, Publish(h, a) PROVE FlowInv'
<1> USE DEF FlowInv
<1>1. /\ announcement[a] = "none"
      /\ UNCHANGED <<held, discarded, processed, batch, current, replayed, shell, interruptions>>
  BY DEF Publish, Announces, scriptVars
<1>2. /\ \A x, c : WorksOn(x, c)' <=> WorksOn(x, c)
      /\ \A x, i : Holds(x, i)' <=> Holds(x, i)
      /\ SentOn' = SentOn
  BY <1>1 DEF WorksOn, Holds, SentOn
<1>3. ScriptInv' BY <1>1 DEF ScriptInv, Running
<1>4. a \in Item /\ a \notin Event BY FlowAssumption DEF Item
<1>5. CASE \/ announcement' = [announcement EXCEPT ![a] = "published"] /\ UNCHANGED <<message, logged>>
           \/ /\ announcement' = [announcement EXCEPT ![a] = "logged"]
              /\ logged' = logged \cup {a} /\ UNCHANGED message
  <2>1. /\ message' = message /\ announcement' \in [Announcement -> Fate]
        /\ \A d \in Announcement \ {a} : announcement'[d] = announcement[d]
        /\ announcement'[a] \in {"published", "logged"}
        /\ logged' \in {logged, logged \cup {a}}
    BY <1>5 DEF TypeOK, Fate
  <2>2. TypeOK' BY <1>1, <1>4, <2>1 DEF TypeOK
  <2>3. HandsInv' BY <1>1, <2>1 DEF HandsInv, Matches, Exists
  <2>4. KeptInv' BY <1>1, <1>2, <1>4, <2>1 DEF KeptInv, Owed, Kept, Exists
  <2>5. TokenInv'
    <3> SUFFICES ASSUME NEW item \in Item
                 PROVE  IsFiniteSet(Tokens(item)') /\ Cardinality(Tokens(item)') <= Budget(item)'
      BY DEF TokenInv
    <3>1. Tokens(item)' = Tokens(item) BY <1>2, <2>1 DEF Tokens, Exists, Exclusive
    <3>2. Budget(item)' = Budget(item) \/ Budget(item)' = Budget(item) + 1
      BY <1>1, <2>1, FlowAssumption DEF Budget, TypeOK
    <3> QED BY <3>1, <3>2, WithinBudget
  <2> QED BY <1>3, <2>2, <2>3, <2>4, <2>5
<1>6. CASE /\ announcement' = [announcement EXCEPT ![a] = "diverted"]
           /\ Send(a, "dead") /\ UNCHANGED logged
  <2>1. PICK j \in Id : /\ ~Exists(j)
                        /\ \A x \in Handler \cup Operator : ~Holds(x, j)
                        /\ message' = [message EXCEPT ![j] = New(a, "dead")]
    BY <1>6, SentIsNew
  <2>2. /\ message' \in [Id -> Message \cup {NoMessage}]
        /\ \A i \in Id \ {j} : message'[i] = message[i]
        /\ Exists(j)' /\ message'[j] = New(a, "dead")
        /\ \A item \in Item :
             Tokens(item)' \subseteq Tokens(item) \cup {[by |-> NoOne, id |-> j]}
        /\ \A item \in Item \ {a} : Tokens(item)' \subseteq Tokens(item)
    BY <1>2, <1>4, <2>1, SentTokens
  <2>3. /\ announcement' \in [Announcement -> Fate] /\ logged' = logged
        /\ \A d \in Announcement \ {a} : announcement'[d] = announcement[d]
        /\ announcement'[a] = "diverted"
    BY <1>6 DEF TypeOK, Fate
  <2>4. TypeOK' BY <1>1, <2>2, <2>3 DEF TypeOK
  <2>5. HandsInv'
    BY <1>1, <2>1, <2>2, FlowAssumption DEF HandsInv, Matches, Exists, Holds, TypeOK, Copy, New
  <2>6. KeptInv'
    <3> SUFFICES ASSUME NEW item \in Item, Owed(item)' PROVE Kept(item)'
      BY DEF KeptInv
    <3>1. CASE item = a
      <4>1. j \notin SentOn BY <2>1, SentOnIsHeld
      <4> QED BY <1>2, <2>2, <3>1, <4>1 DEF Kept, New
    <3>2. CASE item # a
      <4>1. Owed(item) BY <1>1, <2>3, <3>2 DEF Owed
      <4>2. PICK i \in Id \ SentOn : Exists(i) /\ message[i].item = item
        BY <4>1 DEF KeptInv, Kept
      <4> QED BY <1>2, <2>1, <2>2, <4>2 DEF Kept, Exists
    <3> QED BY <3>1, <3>2
  <2>7. TokenInv'
    <3> SUFFICES ASSUME NEW item \in Item
                 PROVE  IsFiniteSet(Tokens(item)') /\ Cardinality(Tokens(item)') <= Budget(item)'
      BY DEF TokenInv
    <3>1. CASE item = a
      <4>1. Budget(item)' = Budget(item) + 1
        BY <1>1, <2>3, <3>1, FlowAssumption DEF Budget, TypeOK
      <4> QED BY <2>2, <4>1, WithinBudget
    <3>2. CASE item # a
      <4>1. Budget(item)' = Budget(item) BY <1>1, <2>3, <3>2 DEF Budget
      <4> QED BY <2>2, <3>2, <4>1, WithinBudget
    <3> QED BY <3>1, <3>2
  <2> QED BY <1>3, <2>4, <2>5, <2>6, <2>7
<1> QED BY <1>5, <1>6 DEF Publish

\* A message is sent to the dead letters, or a log entry is left in its place.
LEMMA DiscardKeeps == ASSUME FlowInv, NEW h \in Handler, Discard(h) PROVE FlowInv'
<1> USE DEF FlowInv
<1> DEFINE sent == held[h].item
<1>1. /\ held[h] # Nothing /\ h \notin discarded /\ discarded' = discarded \cup {h}
      /\ UNCHANGED <<held, processed, announcement, batch, current, replayed, shell, interruptions>>
  BY DEF Discard, Works, scriptVars
<1>2. held[h] \in Copy /\ held[h].id \in Id /\ sent \in Item /\ h \notin Operator /\ h # NoOne
  BY <1>1, FlowAssumption DEF TypeOK, Copy
<1>3. /\ \A x, c : WorksOn(x, c)' => WorksOn(x, c)
      /\ \A x, i : Holds(x, i)' <=> Holds(x, i)
      /\ SentOn' = SentOn \cup {held[h].id}
  BY <1>1 DEF WorksOn, Holds, SentOn
<1>4. ScriptInv' BY <1>1 DEF ScriptInv, Running
<1>5. CASE logged' = logged \cup {sent} /\ UNCHANGED message
  <2>1. TypeOK' BY <1>1, <1>2, <1>5 DEF TypeOK
  <2>2. HandsInv' BY <1>1, <1>5 DEF HandsInv, Matches, Exists
  <2>3. KeptInv'
    <3> SUFFICES ASSUME NEW item \in Item, Owed(item)' PROVE Kept(item)'
      BY DEF KeptInv
    <3>1. Owed(item) /\ item # sent BY <1>1, <1>5 DEF Owed
    <3>2. PICK i \in Id \ SentOn : Exists(i) /\ message[i].item = item
      BY <3>1 DEF KeptInv, Kept
    <3>3. i # held[h].id BY <1>1, <3>1, <3>2 DEF HandsInv, Matches
    <3> QED BY <1>3, <1>5, <3>2, <3>3 DEF Kept, Exists
  <2>4. TokenInv'
    <3> SUFFICES ASSUME NEW item \in Item
                 PROVE  IsFiniteSet(Tokens(item)') /\ Cardinality(Tokens(item)') <= Budget(item)'
      BY DEF TokenInv
    <3>1. Tokens(item)' \subseteq Tokens(item) BY <1>3, <1>5 DEF Tokens, Exists, Exclusive
    <3>2. Budget(item)' = Budget(item) BY <1>1 DEF Budget
    <3> QED BY <3>1, <3>2, WithinBudget
  <2> QED BY <1>4, <2>1, <2>2, <2>3, <2>4
<1>6. CASE Send(sent, "dead") /\ UNCHANGED logged
  <2>1. PICK j \in Id : /\ ~Exists(j)
                        /\ \A x \in Handler \cup Operator : ~Holds(x, j)
                        /\ message' = [message EXCEPT ![j] = New(sent, "dead")]
    BY <1>6, SentIsNew
  <2> DEFINE b == [by |-> NoOne, id |-> j]
             a == [by |-> h, id |-> held[h].id]
  <2>2. /\ message' \in [Id -> Message \cup {NoMessage}]
        /\ \A i \in Id \ {j} : message'[i] = message[i]
        /\ Exists(j)' /\ message'[j] = New(sent, "dead")
        /\ \A item \in Item : Tokens(item)' \subseteq Tokens(item) \cup {b}
        /\ \A item \in Item \ {sent} : Tokens(item)' \subseteq Tokens(item)
    BY <1>2, <1>3, <2>1, SentTokens
  <2>3. TypeOK' BY <1>1, <1>6, <2>2 DEF TypeOK
  <2>4. HandsInv'
    BY <1>1, <2>1, <2>2, FlowAssumption DEF HandsInv, Matches, Exists, Holds, TypeOK, Copy, New
  <2>5. j \notin SentOn' /\ j # held[h].id
    <3>1. j \notin SentOn BY <2>1, SentOnIsHeld
    <3>2. j # held[h].id BY <1>1, <2>1 DEF Holds
    <3> QED BY <1>3, <3>1, <3>2
  <2>6. KeptInv'
    <3> SUFFICES ASSUME NEW item \in Item, Owed(item)' PROVE Kept(item)'
      BY DEF KeptInv
    <3>1. CASE item = sent BY <2>2, <2>5, <3>1 DEF Kept, New
    <3>2. CASE item # sent
      <4>1. Owed(item) BY <1>1, <1>6 DEF Owed
      <4>2. PICK i \in Id \ SentOn : Exists(i) /\ message[i].item = item
        BY <4>1 DEF KeptInv, Kept
      <4>3. i # held[h].id BY <1>1, <3>2, <4>2 DEF HandsInv, Matches
      <4> QED BY <1>3, <2>1, <2>2, <4>2, <4>3 DEF Kept, Exists
    <3> QED BY <3>1, <3>2
  <2>7. TokenInv'
    <3> SUFFICES ASSUME NEW item \in Item
                 PROVE  IsFiniteSet(Tokens(item)') /\ Cardinality(Tokens(item)') <= Budget(item)'
      BY DEF TokenInv
    <3>1. Budget(item)' = Budget(item) BY <1>1 DEF Budget
    <3>2. CASE item = sent
      <4>1. held[h] = [id |-> held[h].id, item |-> item] BY <1>2, <3>2 DEF Copy
      <4>2. a \in Tokens(item) BY <1>1, <1>2, <4>1 DEF Tokens, Token, WorksOn
      <4>3. a \notin Tokens(item)' BY <1>1, <1>2 DEF Tokens, WorksOn
      <4> QED BY <2>2, <3>1, <4>2, <4>3, WithinBudget
    <3>3. CASE item # sent BY <2>2, <3>1, <3>3, WithinBudget
    <3> QED BY <3>2, <3>3
  <2> QED BY <1>4, <2>3, <2>4, <2>6, <2>7
<1> QED BY <1>5, <1>6 DEF Discard

\* A step that touches no message and no hand leaves nothing more to do.
LEMMA SameTokens ==
  ASSUME NEW item \in Item, UNCHANGED <<message, held, discarded, batch, current>>
  PROVE  Tokens(item)' \subseteq Tokens(item)
<1> SUFFICES ASSUME NEW k \in Tokens(item)' PROVE k \in Tokens(item)
  OBVIOUS
<1>1. CASE k.by = NoOne
  <2>1. k \in Token /\ Exists(k.id)' /\ message'[k.id].item = item /\ ~Exclusive(k.id)'
    BY <1>1 DEF Tokens
  <2>2. Exists(k.id) /\ message[k.id].item = item /\ ~Exclusive(k.id)
    BY <2>1 DEF Exists, Exclusive, Holds
  <2> QED BY <1>1, <2>1, <2>2 DEF Tokens
<1>2. CASE k.by # NoOne
  <2>1. k \in Token /\ WorksOn(k.by, [id |-> k.id, item |-> item])' BY <1>2 DEF Tokens
  <2>2. WorksOn(k.by, [id |-> k.id, item |-> item]) BY <2>1 DEF WorksOn
  <2> QED BY <1>2, <2>1, <2>2 DEF Tokens
<1> QED BY <1>1, <1>2

\* The script starts, or ends because there is no more to do: it holds nothing.
LEMMA ShellKeeps ==
  ASSUME FlowInv, NEW o \in Operator, NEW state \in Shell,
         shell' = [shell EXCEPT ![o] = state],
         replayed' = [replayed EXCEPT ![o] = 0] \/ replayed' = replayed,
         batch[o] = {} /\ current[o] = Nothing,
         UNCHANGED <<message, consumerVars, batch, current, interruptions>>
  PROVE  FlowInv'
<1> USE DEF FlowInv
<1>1. UNCHANGED <<message, held, discarded, processed, announcement, logged, batch, current, interruptions>>
  BY DEF consumerVars
<1>2. 0 \in 0..MaxMessages /\ MaxMessages \in Nat BY FlowAssumption
<1>3. TypeOK' BY <1>1, <1>2 DEF TypeOK
<1>4. HandsInv' BY <1>1 DEF HandsInv, Matches, Exists
<1>5. ScriptInv'
  <2> SUFFICES ASSUME NEW p \in Operator
               PROVE  /\ IsFiniteSet(batch'[p])
                      /\ replayed'[p] + Cardinality(batch'[p])
                           + (IF current'[p] = Nothing THEN 0 ELSE 1) <= MaxMessages
                      /\ ~Running(p)' => batch'[p] = {} /\ current'[p] = Nothing
    BY DEF ScriptInv
  <2>1. CASE p = o
    <3>1. batch'[p] = {} /\ current'[p] = Nothing BY <1>1, <2>1
    <3>2. IsFiniteSet(batch'[p]) /\ Cardinality(batch'[p]) = 0 BY <3>1, FS_EmptySet
    <3>3. replayed'[p] = 0 \/ replayed'[p] = replayed[p] BY <2>1 DEF TypeOK
    <3>4. /\ replayed[p] \in Nat /\ Cardinality(batch[p]) = 0
          /\ replayed[p] + Cardinality(batch[p]) <= MaxMessages
      BY <2>1, FS_EmptySet DEF ScriptInv, TypeOK
    <3> QED BY <1>2, <3>1, <3>2, <3>3, <3>4
  <2>2. CASE p # o
    <3>1. batch'[p] = batch[p] /\ current'[p] = current[p] BY <1>1
    <3>2. shell'[p] = shell[p] /\ replayed'[p] = replayed[p] BY <2>2 DEF TypeOK
    <3> QED BY <3>1, <3>2 DEF ScriptInv, Running
  <2> QED BY <2>1, <2>2
<1>6. KeptInv' BY <1>1 DEF KeptInv, Owed, Kept, Exists, SentOn
<1>7. TokenInv'
  <2> SUFFICES ASSUME NEW item \in Item
               PROVE  IsFiniteSet(Tokens(item)') /\ Cardinality(Tokens(item)') <= Budget(item)'
    BY DEF TokenInv
  <2>1. Tokens(item)' \subseteq Tokens(item) BY <1>1, SameTokens
  <2>2. Budget(item)' = Budget(item) BY <1>1 DEF Budget
  <2> QED BY <2>1, <2>2, WithinBudget
<1> QED BY <1>3, <1>4, <1>5, <1>6, <1>7

\* A token for a token: the messages that an operator takes were anybody's.
LEMMA BatchTokens ==
  ASSUME TypeOK, HandsInv, NEW o \in Operator, NEW ids \in SUBSET Visible("dead"),
         batch[o] = {}, current[o] = Nothing,
         \A i \in ids : [id |-> i, item |-> message[i].item] \in batch'[o],
         \A c \in batch'[o] : c.id \in ids /\ c.item = message[c.id].item,
         \A p \in Operator \ {o} : batch'[p] = batch[p],
         \A i \in Id \ ids : message'[i] = message[i],
         \A i \in ids : ~message'[i].visible /\ message'[i].latest = o,
         held' = held, discarded' = discarded, current' = current,
         NEW item \in Item, NEW k \in Tokens(item)'
  PROVE  \E l \in Tokens(item) :
           k = IF l.by = NoOne /\ l.id \in ids THEN [by |-> o, id |-> l.id] ELSE l
<1>1. ids \subseteq Id BY DEF Visible, On
<1>2. \A i \in ids : Exists(i) /\ message[i].visible /\ message[i] \in Message
  BY <1>1, MessageType DEF Visible, On, Exists
<1>3. o # NoOne /\ o \notin Handler BY FlowAssumption
<1>4. CASE k.by = NoOne
  <2>1. Exists(k.id)' /\ message'[k.id].item = item /\ ~Exclusive(k.id)' /\ k \in Token
    BY <1>4 DEF Tokens
  <2>2. k.id \in Id /\ k.id \notin ids
    <3>1. ASSUME k.id \in ids PROVE FALSE
      <4>1. [id |-> k.id, item |-> message[k.id].item] \in batch'[o] BY <3>1
      <4>2. Holds(o, k.id)' BY <4>1 DEF Holds
      <4> QED BY <2>1, <3>1, <4>2 DEF Exclusive
    <3> QED BY <2>1, <3>1 DEF Token
  <2>3. message'[k.id] = message[k.id] BY <2>2
  <2>4. ~Exclusive(k.id)
    <3>1. ASSUME Exclusive(k.id) PROVE Exclusive(k.id)'
      <4>1. Holds(message[k.id].latest, k.id) BY <3>1 DEF Exclusive
      <4>2. message[k.id].latest # o BY <1>3, <4>1 DEF Holds
      <4>3. Holds(message[k.id].latest, k.id)' BY <2>3, <4>1, <4>2 DEF Holds
      <4> QED BY <2>3, <3>1, <4>3 DEF Exclusive
    <3> QED BY <2>1, <3>1
  <2>5. k \in Tokens(item) BY <1>4, <2>1, <2>3, <2>4 DEF Tokens, Exists
  <2> QED BY <2>2, <2>5
<1>5. CASE k.by # NoOne
  <2>1. /\ k \in Token /\ k.by \in Handler \cup Operator /\ k.id \in Id
        /\ WorksOn(k.by, [id |-> k.id, item |-> item])'
    BY <1>5 DEF Tokens, Token
  <2>2. CASE k.by = o
    <3>1. [id |-> k.id, item |-> item] \in batch'[o] BY <1>3, <2>1, <2>2 DEF WorksOn
    <3>2. k.id \in ids /\ message[k.id].item = item BY <3>1
    <3>3. ~Exclusive(k.id) BY <1>2, <3>2 DEF Exclusive
    <3>4. [by |-> NoOne, id |-> k.id] \in Tokens(item) BY <1>2, <2>1, <3>2, <3>3 DEF Tokens, Token
    <3>5. k = [by |-> o, id |-> k.id] BY <2>1, <2>2 DEF Token
    <3> QED BY <3>2, <3>4, <3>5
  <2>3. CASE k.by # o
    <3>1. WorksOn(k.by, [id |-> k.id, item |-> item]) BY <2>1, <2>3 DEF WorksOn
    <3>2. k \in Tokens(item) BY <1>5, <2>1, <3>1 DEF Tokens
    <3> QED BY <1>5, <3>2
  <2> QED BY <2>2, <2>3
<1> QED BY <1>4, <1>5

\* The script receives no more than it may still replay.
LEMMA ReceiveBatchKeeps == ASSUME FlowInv, NEW o \in Operator, ReceiveBatch(o) PROVE FlowInv'
<1> USE DEF FlowInv
<1>1. Running(o) /\ batch[o] = {} /\ current[o] = Nothing /\ replayed[o] < MaxMessages
  BY DEF ReceiveBatch, Receives
<1>2. PICK ids \in SUBSET Visible("dead") :
        /\ Cardinality(ids) <= BatchLimit(o)
        /\ batch' = [batch EXCEPT ![o] = {[id |-> i, item |-> message[i].item] : i \in ids}]
        /\ message' = [i \in Id |->
             IF i \in ids THEN [message[i] EXCEPT !.visible = FALSE, !.latest = o] ELSE message[i]]
  BY DEF ReceiveBatch
<1>3. UNCHANGED <<held, discarded, processed, announcement, logged, current, replayed, shell, interruptions>>
  BY DEF ReceiveBatch, consumerVars
<1>4. ids \subseteq Id /\ IsFiniteSet(ids)
  <2>1. ids \subseteq Id BY DEF Visible, On
  <2> QED BY <2>1, FlowAssumption, FS_Subset
<1>5. \A i \in ids : /\ Exists(i) /\ message[i].visible /\ message[i] \in Message
                     /\ message[i].queue = "dead"
  BY <1>4, MessageType DEF Visible, On, Exists
<1>6. message \in [Id -> Message \cup {NoMessage}] /\ batch \in [Operator -> SUBSET Copy] BY DEF TypeOK
<1>7. /\ \A i \in Id : /\ Exists(i)' <=> Exists(i)
                       /\ Exists(i) => /\ message'[i].item = message[i].item
                                       /\ message'[i].queue = message[i].queue
      /\ \A i \in Id \ ids : message'[i] = message[i]
      /\ \A i \in ids : ~message'[i].visible /\ message'[i].latest = o /\ message'[i] \in Message
  BY <1>2, <1>4, <1>5, <1>6 DEF Exists, Message
<1>8. message' \in [Id -> Message \cup {NoMessage}] BY <1>2, <1>4, <1>6, <1>7
<1>9. /\ batch'[o] = {[id |-> i, item |-> message[i].item] : i \in ids}
      /\ \A p \in Operator \ {o} : batch'[p] = batch[p]
      /\ batch' \in [Operator -> SUBSET Copy]
  <2>1. \A i \in ids : [id |-> i, item |-> message[i].item] \in Copy
    BY <1>4, <1>5 DEF Copy, Message
  <2> QED BY <1>2, <1>6, <2>1
<1>10. TypeOK' BY <1>3, <1>8, <1>9 DEF TypeOK
<1>11. HandsInv'
  <2>1. \A c \in batch'[o] : Matches(c)' BY <1>4, <1>5, <1>7, <1>9 DEF Matches
  <2> QED BY <1>3, <1>5, <1>7, <1>9, <2>1, FlowAssumption DEF HandsInv, Matches, Copy, TypeOK
<1>12. IsFiniteSet(batch'[o]) /\ Cardinality(batch'[o]) <= Cardinality(ids)
  <2> DEFINE f == [i \in ids |-> [id |-> i, item |-> message[i].item]]
  <2>1. \A c \in batch'[o] : \E i \in ids : f[i] = c BY <1>9
  <2> HIDE DEF f
  <2>2. DOMAIN f = ids BY DEF f
  <2> QED BY <1>4, <2>1, <2>2, ImageIsNoLarger
<1>13. ScriptInv'
  <2>1. replayed[o] + Cardinality(batch'[o]) + 0 <= MaxMessages
    <3>1. /\ Cardinality(ids) \in Nat /\ Cardinality(batch'[o]) \in Nat
          /\ replayed[o] \in Nat /\ MaxMessages \in Nat
      BY <1>4, <1>12, FS_CardinalityType, FlowAssumption DEF TypeOK
    <3>2. Cardinality(ids) <= MaxMessages - replayed[o]
      <4>1. MaxBatch \in Nat BY FlowAssumption
      <4>2. BatchLimit(o) <= MaxMessages - replayed[o] /\ BatchLimit(o) \in Int
        BY <3>1, <4>1 DEF BatchLimit
      <4>3. Cardinality(ids) <= BatchLimit(o) BY <1>2
      <4> QED BY <3>1, <4>2, <4>3
    <3> QED BY <1>12, <3>1, <3>2
  <2> QED BY <1>1, <1>3, <1>9, <1>12, <2>1 DEF ScriptInv, Running
<1>14. KeptInv' BY <1>3, <1>7 DEF KeptInv, Owed, Kept, SentOn
<1>15. TokenInv'
  <2> SUFFICES ASSUME NEW item \in Item
               PROVE  IsFiniteSet(Tokens(item)') /\ Cardinality(Tokens(item)') <= Budget(item)'
    BY DEF TokenInv
  <2> DEFINE f == [l \in Tokens(item) |->
                     IF l.by = NoOne /\ l.id \in ids THEN [by |-> o, id |-> l.id] ELSE l]
  <2>1. ASSUME NEW k \in Tokens(item)' PROVE \E l \in Tokens(item) : f[l] = k
    <3>1. held' = held /\ discarded' = discarded /\ current' = current BY <1>3
    <3>2. PICK l \in Tokens(item) :
            k = IF l.by = NoOne /\ l.id \in ids THEN [by |-> o, id |-> l.id] ELSE l
      BY <1>1, <1>7, <1>9, <3>1, BatchTokens
    <3> QED BY <3>2
  <2> HIDE DEF f
  <2>2. DOMAIN f = Tokens(item) BY DEF f
  <2>3. IsFiniteSet(Tokens(item)) /\ Cardinality(Tokens(item)) <= Budget(item) BY DEF TokenInv
  <2>4. IsFiniteSet(Tokens(item)') /\ Cardinality(Tokens(item)') <= Cardinality(Tokens(item))
    BY <2>1, <2>2, <2>3, ImageIsNoLarger
  <2>5. Budget(item)' = Budget(item) /\ Budget(item) \in Nat
    BY <1>3, FlowAssumption DEF Budget, TypeOK
  <2>6. Cardinality(Tokens(item)) \in Nat /\ Cardinality(Tokens(item)') \in Nat
    BY <2>3, <2>4, FS_CardinalityType
  <2> QED BY <2>3, <2>4, <2>5, <2>6
<1> QED BY <1>10, <1>11, <1>13, <1>14, <1>15

\* The script sends back a copy of its batch, and still has the message to delete.
LEMMA ReplaySendKeeps ==
  ASSUME FlowInv, NEW o \in Operator, NEW c \in batch[o], ReplaySend(o, c) PROVE FlowInv'
<1> USE DEF FlowInv
<1>1. /\ Running(o) /\ current[o] = Nothing
      /\ Send(c.item, "inbound")
      /\ batch' = [batch EXCEPT ![o] = @ \ {c}] /\ current' = [current EXCEPT ![o] = c]
      /\ UNCHANGED <<held, discarded, processed, announcement, logged, replayed, shell, interruptions>>
  BY DEF ReplaySend, consumerVars
<1>2. /\ c \in Copy /\ c.id \in Id /\ c.item \in Item /\ c # Nothing
      /\ c = [id |-> c.id, item |-> c.item]
      /\ o \notin Handler /\ o # NoOne
  <2>1. c \in Copy BY DEF TypeOK
  <2> QED BY <2>1, FlowAssumption DEF Copy, Item
<1>3. /\ batch' \in [Operator -> SUBSET Copy] /\ current' \in [Operator -> Copy \cup {Nothing}]
      /\ batch'[o] = batch[o] \ {c} /\ current'[o] = c
      /\ \A p \in Operator \ {o} : batch'[p] = batch[p] /\ current'[p] = current[p]
  <2>1. batch \in [Operator -> SUBSET Copy] /\ current \in [Operator -> Copy \cup {Nothing}]
    BY DEF TypeOK
  <2>2. batch[o] \ {c} \in SUBSET Copy BY <2>1
  <2> QED BY <1>1, <1>2, <2>1, <2>2
<1>4. \A x \in Handler \cup Operator, i \in Id : Holds(x, i) <=> Holds(x, i)'
  <2> SUFFICES ASSUME NEW x \in Handler \cup Operator, NEW i \in Id
               PROVE  Holds(x, i) <=> Holds(x, i)'
    OBVIOUS
  <2>1. CASE x = o
    <3>1. Holds(o, i) <=> \E d \in batch[o] : d.id = i BY <1>1, <1>2 DEF Holds
    <3>2. Holds(o, i)' <=> (\E d \in batch[o] \ {c} : d.id = i) \/ c.id = i
      BY <1>2, <1>3 DEF Holds
    <3> QED BY <2>1, <3>1, <3>2
  <2>2. CASE x # o BY <1>1, <1>3, <2>2 DEF Holds
  <2> QED BY <2>1, <2>2
<1>5. \A x \in Handler \cup Operator, d \in Copy : WorksOn(x, d)' => WorksOn(x, d) /\ ~(x = o /\ d = c)
  BY <1>1, <1>2, <1>3 DEF WorksOn
<1>6. SentOn' = SentOn \cup {c.id}
  <2>1. {p \in Operator : current'[p] # Nothing} = {p \in Operator : current[p] # Nothing} \cup {o}
    BY <1>2, <1>3
  <2>2. \A p \in Operator : current[p] # Nothing => current'[p] = current[p] BY <1>1, <1>3
  <2> QED BY <1>1, <1>3, <2>1, <2>2 DEF SentOn
<1>7. PICK j \in Id : /\ ~Exists(j)
                      /\ \A x \in Handler \cup Operator : ~Holds(x, j)
                      /\ message' = [message EXCEPT ![j] = New(c.item, "inbound")]
  BY <1>1, SentIsNew
<1> DEFINE b == [by |-> NoOne, id |-> j]
           a == [by |-> o, id |-> c.id]
<1>8. /\ message' \in [Id -> Message \cup {NoMessage}]
      /\ \A i \in Id \ {j} : message'[i] = message[i]
      /\ Exists(j)' /\ message'[j] = New(c.item, "inbound")
      /\ \A item \in Item : Tokens(item)' \subseteq Tokens(item) \cup {b}
      /\ \A item \in Item \ {c.item} : Tokens(item)' \subseteq Tokens(item)
  BY <1>2, <1>4, <1>5, <1>7, SentTokens
<1>9. TypeOK' BY <1>1, <1>3, <1>8 DEF TypeOK
<1>10. j \notin SentOn' /\ j # c.id
  <2>1. j \notin SentOn BY <1>7, SentOnIsHeld
  <2>2. j # c.id BY <1>7 DEF Holds
  <2> QED BY <1>6, <2>1, <2>2
<1>11. HandsInv'
  <2>1. ASSUME NEW d \in Copy, Matches(d), d.id # j PROVE Matches(d)'
    BY <1>8, <2>1 DEF Matches, Exists, Copy
  <2>2. (\A h \in Handler : held[h] # Nothing => Matches(held[h]))'
    <3>1. \A h \in Handler : held[h] # Nothing =>
            Matches(held[h]) /\ held[h] \in Copy /\ held[h].id \in Id /\ held[h].id # j
      BY <1>7 DEF HandsInv, Holds, TypeOK, Copy
    <3> QED BY <1>1, <2>1, <3>1 DEF Matches
  <2>3. (\A p \in Operator : \A d \in batch[p] : Matches(d))'
    <3>1. \A p \in Operator : \A d \in batch[p] : Matches(d) /\ d \in Copy /\ d.id # j
      BY <1>7 DEF HandsInv, Holds, TypeOK
    <3>2. \A p \in Operator : batch'[p] \subseteq batch[p] BY <1>3
    <3> QED BY <2>1, <3>1, <3>2
  <2>4. (\A p \in Operator : current[p] # Nothing => Matches(current[p]))'
    <3>1. \A p \in Operator \ {o} : current[p] # Nothing =>
            Matches(current[p]) /\ current[p] \in Copy /\ current[p].id # j
      BY <1>7 DEF HandsInv, Holds, TypeOK
    <3>2. Matches(c)' BY <1>2, <1>10, <2>1 DEF HandsInv
    <3> QED BY <1>3, <2>1, <3>1, <3>2 DEF Matches
  <2>5. \A i \in Id : Exists(i)' =>
          /\ message'[i].latest \in Handler => message'[i].queue = "inbound"
          /\ message'[i].latest \in Operator => message'[i].queue = "dead"
    BY <1>8, FlowAssumption DEF HandsInv, Exists, New
  <2> QED BY <1>1, <2>2, <2>3, <2>4, <2>5 DEF HandsInv
<1>12. ScriptInv'
  <2> SUFFICES ASSUME NEW p \in Operator
               PROVE  /\ IsFiniteSet(batch'[p])
                      /\ replayed'[p] + Cardinality(batch'[p])
                           + (IF current'[p] = Nothing THEN 0 ELSE 1) <= MaxMessages
                      /\ ~Running(p)' => batch'[p] = {} /\ current'[p] = Nothing
    BY DEF ScriptInv
  <2>1. CASE p = o
    <3>1. IsFiniteSet(batch[o]) /\ replayed[o] + Cardinality(batch[o]) + 0 <= MaxMessages
      BY <1>1 DEF ScriptInv
    <3>2. IsFiniteSet(batch[o] \ {c}) /\ Cardinality(batch[o] \ {c}) = Cardinality(batch[o]) - 1
      BY <3>1, FS_RemoveElement
    <3>3. replayed[o] \in Nat /\ Cardinality(batch[o]) \in Nat /\ MaxMessages \in Nat
      BY <3>1, FS_CardinalityType, FlowAssumption DEF TypeOK
    <3>4. replayed[o] + Cardinality(batch[o] \ {c}) + 1 <= MaxMessages
      BY <3>1, <3>2, <3>3
    <3> QED BY <1>1, <1>2, <1>3, <2>1, <3>2, <3>4 DEF Running
  <2>2. CASE p # o BY <1>1, <1>3, <2>2 DEF ScriptInv, Running
  <2> QED BY <2>1, <2>2
<1>13. KeptInv'
  <2> SUFFICES ASSUME NEW item \in Item, Owed(item)' PROVE Kept(item)'
    BY DEF KeptInv
  <2>1. CASE item = c.item BY <1>8, <1>10, <2>1 DEF Kept, New
  <2>2. CASE item # c.item
    <3>1. Owed(item) BY <1>1 DEF Owed
    <3>2. PICK i \in Id \ SentOn : Exists(i) /\ message[i].item = item
      BY <3>1 DEF KeptInv, Kept
    <3>3. i # c.id BY <2>2, <3>2 DEF HandsInv, Matches
    <3> QED BY <1>6, <1>7, <1>8, <3>2, <3>3 DEF Kept, Exists
  <2> QED BY <2>1, <2>2
<1>14. TokenInv'
  <2> SUFFICES ASSUME NEW item \in Item
               PROVE  IsFiniteSet(Tokens(item)') /\ Cardinality(Tokens(item)') <= Budget(item)'
    BY DEF TokenInv
  <2>1. Budget(item)' = Budget(item) BY <1>1 DEF Budget
  <2>2. CASE item = c.item
    <3>1. a \in Tokens(item) BY <1>2, <2>2 DEF Tokens, Token, WorksOn
    <3>2. a \notin Tokens(item)' BY <1>2, <1>5, <2>2 DEF Tokens
    <3> QED BY <1>8, <2>1, <3>1, <3>2, WithinBudget
  <2>3. CASE item # c.item BY <1>8, <2>1, <2>3, WithinBudget
  <2> QED BY <2>2, <2>3
<1> QED BY <1>9, <1>11, <1>12, <1>13, <1>14

\* The message of the copy that was sent back goes, if it is still this operator's.
LEMMA ReplayDeleteKeeps == ASSUME FlowInv, NEW o \in Operator, ReplayDelete(o) PROVE FlowInv'
<1> USE DEF FlowInv
<1> DEFINE i == current[o].id
<1>1. /\ Running(o) /\ current[o] # Nothing
      /\ Delete(i, "dead", o)
      /\ current' = [current EXCEPT ![o] = Nothing]
      /\ replayed' = [replayed EXCEPT ![o] = @ + 1]
      /\ UNCHANGED <<held, discarded, processed, announcement, logged, batch, shell, interruptions>>
  BY DEF ReplayDelete, consumerVars
<1>2. i \in Id /\ o \notin Handler /\ o # NoOne BY <1>1, FlowAssumption DEF TypeOK, Copy
<1>3. /\ message' \in [Id -> Message \cup {NoMessage}]
      /\ \A j \in Id \ {i} : message'[j] = message[j]
      /\ \A j \in Id : Exists(j)' => message'[j] = message[j] /\ Exists(j)
      /\ message[i].queue = "dead" /\ message[i].latest = o => message'[i] = NoMessage
  BY <1>1, <1>2, DeleteEffect
<1>4. /\ current' \in [Operator -> Copy \cup {Nothing}]
      /\ \A p \in Operator \ {o} : current'[p] = current[p]
      /\ current'[o] = Nothing
  BY <1>1 DEF TypeOK
<1>5. /\ SentOn' \subseteq SentOn
      /\ \A x, c : WorksOn(x, c)' <=> WorksOn(x, c)
      /\ \A x, j : Holds(x, j) /\ j # i => Holds(x, j)'
      /\ \A x, j : Holds(x, j) /\ x # o => Holds(x, j)'
  <2>1. SentOn' \subseteq SentOn BY <1>1, <1>4 DEF SentOn
  <2>2. \A x, c : WorksOn(x, c)' <=> WorksOn(x, c) BY <1>1 DEF WorksOn
  <2>3. \A x, j : Holds(x, j) /\ (j # i \/ x # o) => Holds(x, j)' BY <1>1, <1>4 DEF Holds
  <2> QED BY <2>1, <2>2, <2>3
<1>6. IsFiniteSet(batch[o]) /\ replayed[o] + Cardinality(batch[o]) + 1 <= MaxMessages
  BY <1>1 DEF ScriptInv
<1>7. replayed[o] \in Nat /\ Cardinality(batch[o]) \in Nat /\ MaxMessages \in Nat
  BY <1>6, FS_CardinalityType, FlowAssumption DEF TypeOK
<1>8. /\ replayed' \in [Operator -> 0..MaxMessages] /\ replayed'[o] = replayed[o] + 1
      /\ \A p \in Operator \ {o} : replayed'[p] = replayed[p]
  <2>1. replayed[o] + 1 \in 0..MaxMessages BY <1>6, <1>7
  <2> QED BY <1>1, <2>1 DEF TypeOK
<1>9. TypeOK' BY <1>1, <1>3, <1>4, <1>8 DEF TypeOK
<1>10. HandsInv'
  <2>1. ASSUME NEW d \in Copy, Matches(d) PROVE Matches(d)' BY <1>3, <2>1 DEF Matches, Copy
  <2>2. (\A h \in Handler : held[h] # Nothing => Matches(held[h]))'
    <3>1. \A h \in Handler : held[h] # Nothing => Matches(held[h]) /\ held[h] \in Copy
      BY DEF HandsInv, TypeOK
    <3> QED BY <1>1, <2>1, <3>1 DEF Matches
  <2>3. (\A p \in Operator : \A d \in batch[p] : Matches(d))'
    <3>1. \A p \in Operator : \A d \in batch[p] : Matches(d) /\ d \in Copy
      BY DEF HandsInv, TypeOK
    <3> QED BY <1>1, <2>1, <3>1
  <2>4. (\A p \in Operator : current[p] # Nothing => Matches(current[p]))'
    <3>1. \A p \in Operator : current[p] # Nothing => Matches(current[p]) /\ current[p] \in Copy
      BY DEF HandsInv, TypeOK
    <3> QED BY <1>4, <2>1, <3>1 DEF Matches
  <2>5. (\A j \in Id : Exists(j) =>
          /\ message[j].latest \in Handler => message[j].queue = "inbound"
          /\ message[j].latest \in Operator => message[j].queue = "dead")'
    BY <1>3 DEF HandsInv
  <2> QED BY <1>1, <2>2, <2>3, <2>4, <2>5 DEF HandsInv
<1>11. ScriptInv'
  <2> SUFFICES ASSUME NEW p \in Operator
               PROVE  /\ IsFiniteSet(batch'[p])
                      /\ replayed'[p] + Cardinality(batch'[p])
                           + (IF current'[p] = Nothing THEN 0 ELSE 1) <= MaxMessages
                      /\ ~Running(p)' => batch'[p] = {} /\ current'[p] = Nothing
    BY DEF ScriptInv
  <2>1. CASE p = o
    <3>1. replayed'[o] + Cardinality(batch'[o]) + 0 <= MaxMessages
      <4>1. batch'[o] = batch[o] BY <1>1
      <4>2. replayed[o] + 1 + Cardinality(batch[o]) + 0 <= MaxMessages BY <1>6, <1>7
      <4> QED BY <1>8, <4>1, <4>2
    <3> QED BY <1>1, <1>4, <1>6, <2>1, <3>1 DEF Running
  <2>2. CASE p # o BY <1>1, <1>4, <1>8, <2>2 DEF ScriptInv, Running
  <2> QED BY <2>1, <2>2
<1>12. KeptInv'
  <2> SUFFICES ASSUME NEW item \in Item, Owed(item)' PROVE Kept(item)'
    BY DEF KeptInv
  <2>1. Owed(item) BY <1>1 DEF Owed
  <2>2. PICK j \in Id \ SentOn : Exists(j) /\ message[j].item = item
    BY <2>1 DEF KeptInv, Kept
  <2>3. j # i BY <1>1, <2>2 DEF SentOn
  <2> QED BY <1>3, <1>5, <2>2, <2>3 DEF Kept, Exists
<1>13. TokenInv'
  <2> SUFFICES ASSUME NEW item \in Item
               PROVE  IsFiniteSet(Tokens(item)') /\ Cardinality(Tokens(item)') <= Budget(item)'
    BY DEF TokenInv
  <2>1. ASSUME NEW k \in Tokens(item)' PROVE k \in Tokens(item)
    <3>1. CASE k.by = NoOne
      <4>1. Exists(k.id)' /\ message'[k.id].item = item /\ ~Exclusive(k.id)' /\ k \in Token
        BY <3>1 DEF Tokens
      <4>2. k.id \in Id BY <4>1 DEF Token
      <4>3. message'[k.id] = message[k.id] /\ Exists(k.id) BY <1>3, <4>1, <4>2
      <4>4. ASSUME Exclusive(k.id) PROVE FALSE
        <5>1. ~message[k.id].visible /\ Holds(message[k.id].latest, k.id) BY <4>4 DEF Exclusive
        <5>2. message[k.id].latest = o /\ k.id = i BY <1>5, <4>1, <4>3, <5>1 DEF Exclusive
        <5>3. message[i].queue = "dead" BY <1>2, <4>3, <5>2 DEF HandsInv
        <5>4. message'[i] = NoMessage BY <1>3, <5>2, <5>3
        <5> QED BY <4>1, <5>2, <5>4 DEF Exists, NoMessage
      <4> QED BY <3>1, <4>1, <4>3, <4>4 DEF Tokens
    <3>2. CASE k.by # NoOne BY <1>5, <3>2 DEF Tokens
    <3> QED BY <3>1, <3>2
  <2>2. Budget(item)' = Budget(item) BY <1>1 DEF Budget
  <2> QED BY <2>1, <2>2, WithinBudget
<1> QED BY <1>9, <1>10, <1>11, <1>12, <1>13

\* What an interrupted script held is anybody's again, and one message more than
\* there were tokens for: the one that it has sent back but not deleted.
LEMMA AbandonedTokens ==
  ASSUME TypeOK, HandsInv, NEW o \in Operator,
         batch'[o] = {}, current'[o] = Nothing,
         \A p \in Operator \ {o} : batch'[p] = batch[p] /\ current'[p] = current[p],
         message' = message, held' = held, discarded' = discarded,
         NEW item \in Item, NEW k \in Tokens(item)', k # [by |-> NoOne, id |-> current[o].id]
  PROVE  \E l \in Tokens(item) : k = IF l.by = o THEN [by |-> NoOne, id |-> l.id] ELSE l
<1>1. o # NoOne /\ o \notin Handler BY FlowAssumption
<1>2. CASE k.by = NoOne
  <2>1. Exists(k.id) /\ message[k.id].item = item /\ ~Exclusive(k.id)' /\ k \in Token /\ k.id \in Id
    BY <1>2 DEF Tokens, Token, Exists
  <2>2. CASE Exclusive(k.id)
    <3>1. ~message[k.id].visible /\ Holds(message[k.id].latest, k.id) BY <2>2 DEF Exclusive
    <3>2. message[k.id].latest = o BY <2>1, <3>1 DEF Exclusive, Holds
    <3>3. k.id # current[o].id BY <1>2, <2>1 DEF Token
    <3>4. PICK c \in batch[o] : c.id = k.id BY <1>1, <3>1, <3>2, <3>3 DEF Holds
    <3>5. c \in Copy /\ c.item = item BY <2>1, <3>4 DEF TypeOK, HandsInv, Matches
    <3>6. c = [id |-> k.id, item |-> item] BY <3>4, <3>5 DEF Copy
    <3>7. [by |-> o, id |-> k.id] \in Tokens(item)
      BY <1>1, <2>1, <3>4, <3>6 DEF Tokens, Token, WorksOn
    <3>8. k = [by |-> NoOne, id |-> k.id] BY <1>2, <2>1 DEF Token
    <3> QED BY <3>7, <3>8
  <2>3. CASE ~Exclusive(k.id)
    <3>1. k \in Tokens(item) BY <1>2, <2>1, <2>3 DEF Tokens
    <3> QED BY <1>1, <1>2, <3>1
  <2> QED BY <2>2, <2>3
<1>3. CASE k.by # NoOne
  <2>1. /\ k \in Token /\ k.by \in Handler \cup Operator
        /\ WorksOn(k.by, [id |-> k.id, item |-> item])'
    BY <1>3 DEF Tokens, Token
  <2>2. k.by # o BY <1>1, <2>1 DEF WorksOn
  <2>3. WorksOn(k.by, [id |-> k.id, item |-> item]) BY <2>1, <2>2 DEF WorksOn
  <2>4. k \in Tokens(item) BY <1>3, <2>1, <2>3 DEF Tokens
  <2> QED BY <2>2, <2>4
<1> QED BY <1>2, <1>3

\* A failed command ends the script, wherever it stands, and is an interruption.
LEMMA AbortKeeps == ASSUME FlowInv, NEW o \in Operator, Abort(o) PROVE FlowInv'
<1> USE DEF FlowInv
<1>1. /\ interruptions < MaxInterruptions /\ interruptions' = interruptions + 1
      /\ shell' = [shell EXCEPT ![o] = "idle"] /\ replayed' = [replayed EXCEPT ![o] = 0]
      /\ batch' = [batch EXCEPT ![o] = {}] /\ current' = [current EXCEPT ![o] = Nothing]
      /\ message' = message /\ held' = held /\ discarded' = discarded
      /\ UNCHANGED <<processed, announcement, logged>>
  BY DEF Abort, Interrupt, consumerVars
<1>2. /\ batch' \in [Operator -> SUBSET Copy] /\ current' \in [Operator -> Copy \cup {Nothing}]
      /\ shell' \in [Operator -> Shell]
      /\ batch'[o] = {} /\ current'[o] = Nothing
      /\ \A p \in Operator \ {o} :
           /\ batch'[p] = batch[p] /\ current'[p] = current[p]
           /\ shell'[p] = shell[p] /\ replayed'[p] = replayed[p]
      /\ replayed' \in [Operator -> 0..MaxMessages] /\ replayed'[o] = 0
  BY <1>1, FlowAssumption DEF TypeOK, Shell
<1>3. TypeOK' BY <1>1, <1>2, FlowAssumption DEF TypeOK
<1>4. HandsInv' BY <1>1, <1>2 DEF HandsInv, Matches, Exists
<1>5. ScriptInv'
  <2> SUFFICES ASSUME NEW p \in Operator
               PROVE  /\ IsFiniteSet(batch'[p])
                      /\ replayed'[p] + Cardinality(batch'[p])
                           + (IF current'[p] = Nothing THEN 0 ELSE 1) <= MaxMessages
                      /\ ~Running(p)' => batch'[p] = {} /\ current'[p] = Nothing
    BY DEF ScriptInv
  <2>1. CASE p = o
    <3>1. IsFiniteSet({}) /\ Cardinality({}) = 0 BY FS_EmptySet
    <3>2. batch'[p] = {} /\ current'[p] = Nothing /\ replayed'[p] = 0 BY <1>2, <2>1
    <3>3. 0 + 0 + 0 <= MaxMessages BY FlowAssumption
    <3> QED BY <3>1, <3>2, <3>3
  <2>2. CASE p # o BY <1>1, <1>2, <2>2 DEF ScriptInv, Running
  <2> QED BY <2>1, <2>2
<1>6. KeptInv'
  <2>1. SentOn' \subseteq SentOn BY <1>1, <1>2 DEF SentOn
  <2> QED BY <1>1, <2>1 DEF KeptInv, Owed, Kept, Exists
<1>7. TokenInv'
  <2> SUFFICES ASSUME NEW item \in Item
               PROVE  IsFiniteSet(Tokens(item)') /\ Cardinality(Tokens(item)') <= Budget(item)'
    BY DEF TokenInv
  <2> DEFINE b == [by |-> NoOne, id |-> current[o].id]
             f == [l \in Tokens(item) |-> IF l.by = o THEN [by |-> NoOne, id |-> l.id] ELSE l]
             others == Tokens(item)' \ {b}
  <2>1. ASSUME NEW k \in others PROVE \E l \in Tokens(item) : f[l] = k
    <3>1. PICK l \in Tokens(item) : k = IF l.by = o THEN [by |-> NoOne, id |-> l.id] ELSE l
      BY <1>1, <1>2, AbandonedTokens
    <3> QED BY <3>1
  <2>2. DOMAIN f = Tokens(item) OBVIOUS
  <2>3. IsFiniteSet(Tokens(item)) /\ Cardinality(Tokens(item)) <= Budget(item) BY DEF TokenInv
  <2>4. Tokens(item)' \subseteq others \cup {b} OBVIOUS
  <2> HIDE DEF f, others
  <2>5. IsFiniteSet(others) /\ Cardinality(others) <= Cardinality(Tokens(item))
    BY <2>1, <2>2, <2>3, ImageIsNoLarger
  <2>6. IsFiniteSet(Tokens(item)') /\ Cardinality(Tokens(item)') <= Cardinality(others) + 1
    BY <2>4, <2>5, AddsOne
  <2>7. Budget(item)' = Budget(item) + 1 /\ Budget(item) \in Nat
    BY <1>1, FlowAssumption DEF Budget, TypeOK
  <2>8. /\ Cardinality(Tokens(item)) \in Nat /\ Cardinality(others) \in Nat
        /\ Cardinality(Tokens(item)') \in Nat
    BY <2>3, <2>5, <2>6, FS_CardinalityType
  <2> QED BY <2>3, <2>5, <2>6, <2>7, <2>8
<1> QED BY <1>3, <1>4, <1>5, <1>6, <1>7

-----------------------------------------------------------------------------
\* Every step of the consumer, the queues and the script keeps the invariant.
LEMMA FlowInvNext == FlowInv /\ [Next]_vars => FlowInv'
<1> SUFFICES ASSUME FlowInv, [Next]_vars PROVE FlowInv'
  OBVIOUS
<1>1. CASE \E i \in Id : BecomeVisible(i) \/ Redrive(i) \/ \E h \in Handler : Receive(h, i)
  BY <1>1, BecomeVisibleKeeps, RedriveKeeps, ReceiveKeeps
<1>2. CASE \E h \in Handler : \E a \in Announcement : Publish(h, a)
  BY <1>2, PublishKeeps
<1>3. CASE \E h \in Handler : Succeed(h) \/ Leave(h) \/ Discard(h) \/ Acknowledge(h) \/ Crash(h)
  BY <1>3, SucceedKeeps, LeaveKeeps, DiscardKeeps, AcknowledgeKeeps, CrashKeeps
<1>4. ASSUME NEW o \in Operator, Start(o) PROVE FlowInv'
  <2>1. batch[o] = {} /\ current[o] = Nothing BY <1>4 DEF Start, FlowInv, ScriptInv
  <2>2. "replaying" \in Shell BY DEF Shell
  <2> QED BY <1>4, <2>1, <2>2, ShellKeeps DEF Start
<1>5. ASSUME NEW o \in Operator, ReachLimit(o) \/ ReceiveNothing(o) PROVE FlowInv'
  <2>1. batch[o] = {} /\ current[o] = Nothing
    BY <1>5 DEF ReachLimit, ReceiveNothing, Receives
  <2>2. Stop(o) /\ "idle" \in Shell BY <1>5 DEF ReachLimit, ReceiveNothing, Shell
  <2> QED BY <2>1, <2>2, ShellKeeps DEF Stop
<1>6. CASE \E o \in Operator : Start(o) \/ ScriptStep(o) \/ Abort(o)
  BY <1>4, <1>5, <1>6, ReceiveBatchKeeps, ReplaySendKeeps, ReplayDeleteKeeps, AbortKeeps
  DEF ScriptStep
<1>7. CASE UNCHANGED vars
  <2>1. /\ UNCHANGED <<message, held, discarded, processed, announcement, logged, batch, current>>
        /\ UNCHANGED <<replayed, shell, interruptions>>
    BY <1>7 DEF vars, consumerVars, scriptVars
  <2>2. TypeOK' BY <2>1 DEF FlowInv, TypeOK
  <2>3. HandsInv' BY <2>1 DEF FlowInv, HandsInv, Matches, Exists
  <2>4. ScriptInv' BY <2>1 DEF FlowInv, ScriptInv, Running
  <2>5. KeptInv' BY <2>1 DEF FlowInv, KeptInv, Owed, Kept, Exists, SentOn
  <2>6. TokenInv'
    <3> SUFFICES ASSUME NEW item \in Item
                 PROVE  IsFiniteSet(Tokens(item)') /\ Cardinality(Tokens(item)') <= Budget(item)'
      BY DEF TokenInv
    <3>1. Tokens(item)' \subseteq Tokens(item) BY <2>1, SameTokens
    <3>2. Budget(item)' = Budget(item) BY <2>1 DEF Budget
    <3> QED BY <3>1, <3>2, WithinBudget DEF FlowInv
  <2> QED BY <2>2, <2>3, <2>4, <2>5, <2>6 DEF FlowInv
<1> QED BY <1>1, <1>2, <1>3, <1>6, <1>7 DEF Next

\* The inductive invariant: whoever received a message last holds it alone until its
\* visibility timeout, and everything that may still be made of an item is counted.
THEOREM FlowInvariantHolds == Spec => []FlowInv
<1> QED BY FlowInvInit, FlowInvNext, PTL DEF Spec

\* The consumer, the queues and the script keep their state in its types, whatever
\* the numbers of messages, handlers and operators; in particular a run of
\* replay-dlq-messages.sh never counts more than MAX_MESSAGES.
THEOREM FlowTypeCorrect == Spec => []TypeOK
<1>1. FlowInv => TypeOK BY DEF FlowInv
<1> QED BY <1>1, FlowInvariantHolds, PTL

\* Nothing vanishes silently between the queues: sendToDlq, publishWithDurability and
\* the script delete or give up a message only after another one of its item has been
\* sent, or a log entry tells of it, also when they are interrupted in between.
THEOREM NothingIsEverLost == Spec => []NothingLost
<1>1. ASSUME FlowInv PROVE NothingLost
  <2>1. ASSUME NEW item \in Item, Kept(item) PROVE Carriers(item) # {}
    <3>1. PICK i \in Id \ SentOn : Exists(i) /\ message[i].item = item BY <2>1 DEF Kept
    <3>2. i \in Carriers(item) BY <1>1, <3>1, MessageType DEF FlowInv, Carriers
    <3> QED BY <3>2
  <2>2. \A item \in Item : Owed(item) => Carriers(item) # {} BY <1>1, <2>1 DEF FlowInv, KeptInv
  <2> QED BY <2>2 DEF NothingLost, Owed, Item
<1> QED BY <1>1, FlowInvariantHolds, PTL

\* Discarding and replaying move a message: what is on the queues beyond one copy of
\* an item can be traced to as many interruptions, a crash between the sending and
\* the deleting or a visibility timeout that ran out on a holder, and to nothing else.
THEOREM EveryCopyIsAnInterruption == Spec => []CopiesAreInterruptions
<1>1. ASSUME FlowInv PROVE CopiesAreInterruptions
  <2> SUFFICES ASSUME NEW item \in Item
               PROVE  Cardinality(Carriers(item) \ SentOn) <= 1 + interruptions
    BY DEF CopiesAreInterruptions
  <2> DEFINE f == [k \in Tokens(item) |-> k.id]
  <2>1. ASSUME NEW i \in Carriers(item) \ SentOn PROVE \E k \in Tokens(item) : f[k] = i
    <3>1. i \in Id /\ Exists(i) /\ message[i].item = item
      BY <1>1, MessageType DEF FlowInv, Carriers
    <3>2. CASE ~Exclusive(i)
      <4>1. [by |-> NoOne, id |-> i] \in Tokens(item) BY <3>1, <3>2 DEF Tokens, Token
      <4> QED BY <4>1
    <3>3. CASE Exclusive(i)
      <4>1. PICK x \in Handler \cup Operator : Holds(x, i)
        BY <3>3 DEF Exclusive, Holds
      <4>2. WorksOn(x, [id |-> i, item |-> item]) /\ x # NoOne
        <5>1. CASE x \in Handler /\ held[x] # Nothing /\ held[x].id = i
          <6>1. x \notin discarded BY <5>1 DEF SentOn
          <6>2. held[x] \in Copy /\ held[x].item = item
            BY <1>1, <3>1, <5>1 DEF FlowInv, TypeOK, HandsInv, Matches
          <6>3. held[x] = [id |-> i, item |-> item] BY <5>1, <6>2 DEF Copy
          <6> QED BY <5>1, <6>1, <6>3, FlowAssumption DEF WorksOn
        <5>2. CASE x \in Operator /\ \E c \in batch[x] : c.id = i
          <6>1. PICK c \in batch[x] : c.id = i BY <5>2
          <6>2. c \in Copy /\ c.item = item
            BY <1>1, <3>1, <5>2, <6>1 DEF FlowInv, TypeOK, HandsInv, Matches
          <6>3. c = [id |-> i, item |-> item] BY <6>1, <6>2 DEF Copy
          <6> QED BY <5>2, <6>1, <6>3, FlowAssumption DEF WorksOn
        <5>3. ~(x \in Operator /\ current[x] # Nothing /\ current[x].id = i) BY DEF SentOn
        <5> QED BY <4>1, <5>1, <5>2, <5>3 DEF Holds
      <4>3. [by |-> x, id |-> i] \in Tokens(item) BY <3>1, <4>1, <4>2 DEF Tokens, Token
      <4> QED BY <4>3
    <3> QED BY <3>2, <3>3
  <2>2. DOMAIN f = Tokens(item) OBVIOUS
  <2> HIDE DEF f
  <2>3. IsFiniteSet(Tokens(item)) /\ Cardinality(Tokens(item)) <= Budget(item)
    BY <1>1 DEF FlowInv, TokenInv
  <2>4. /\ IsFiniteSet(Carriers(item) \ SentOn)
        /\ Cardinality(Carriers(item) \ SentOn) <= Cardinality(Tokens(item))
    BY <2>1, <2>2, <2>3, ImageIsNoLarger
  <2>5. Budget(item) \in Nat /\ Budget(item) <= 1 + interruptions /\ interruptions \in Nat
    BY <1>1, FlowAssumption DEF Budget, FlowInv, TypeOK
  <2>6. Cardinality(Tokens(item)) \in Nat /\ Cardinality(Carriers(item) \ SentOn) \in Nat
    BY <2>3, <2>4, FS_CardinalityType
  <2> QED BY <2>3, <2>4, <2>5, <2>6
<1> QED BY <1>1, FlowInvariantHolds, PTL

-----------------------------------------------------------------------------
(* What ReplayEnds rests on, as far as single steps show it: the commands  *)
(* that a run of the script has left, three for each message it may replay. *)

CommandsLeft(o) ==
  IF ~Running(o) THEN 0
  ELSE 3 * (MaxMessages - replayed[o]) +
       (IF current[o] # Nothing THEN 1 ELSE IF batch[o] # {} THEN 2 ELSE 3)

script(o) == <<batch[o], current[o], replayed[o], shell[o]>>

\* A run has a command left, and no more than MAX_MESSAGES allows, however much the
\* consumer refills the dead-letter queue.
THEOREM CommandsAreCounted ==
  Spec => [](\A o \in Operator : Running(o) => CommandsLeft(o) \in 1..3 * MaxMessages + 3)
<1>1. ASSUME NEW n \in Nat, NEW r \in 0..n, NEW k \in 1..3
      PROVE  3 * (n - r) + k \in 1..3 * n + 3
  OBVIOUS
<1>2. ASSUME FlowInv, NEW o \in Operator, Running(o)
      PROVE  CommandsLeft(o) \in 1..3 * MaxMessages + 3
  <2>1. replayed[o] \in 0..MaxMessages /\ MaxMessages \in Nat
    BY <1>2, FlowAssumption DEF FlowInv, TypeOK
  <2>2. PICK k \in 1..3 : CommandsLeft(o) = 3 * (MaxMessages - replayed[o]) + k
    BY <1>2 DEF CommandsLeft
  <2> QED BY <1>1, <2>1, <2>2
<1>3. FlowInv => \A o \in Operator : Running(o) => CommandsLeft(o) \in 1..3 * MaxMessages + 3
  BY <1>2
<1> QED BY <1>3, FlowInvariantHolds, PTL

\* A step of the script's own run, or of its start, and which steps are others'.
LEMMA ScriptMoves ==
  ASSUME TypeOK, NEW o \in Operator, [Next]_vars
  PROVE  \/ UNCHANGED script(o)
         \/ Start(o) \/ ScriptStep(o) \/ Abort(o)
<1>1. CASE UNCHANGED scriptVars BY <1>1 DEF scriptVars, script
<1>2. ASSUME NEW p \in Operator, p # o, Start(p) \/ ScriptStep(p) \/ Abort(p)
      PROVE  UNCHANGED script(o)
  BY <1>2 DEF script, TypeOK, Start, ScriptStep, Abort, ReachLimit, ReceiveBatch,
              ReceiveNothing, ReplayDelete, ReplaySend, Stop
<1>3. \/ UNCHANGED scriptVars
      \/ \E p \in Operator : Start(p) \/ ScriptStep(p) \/ Abort(p)
  BY DEF Next, vars, BecomeVisible, Redrive, Receive, Publish, Succeed, Leave, Discard,
         Acknowledge, Crash, scriptVars
<1> QED BY <1>1, <1>2, <1>3

\* Every command of a run, and what ends it, leaves it fewer; nothing that the consumer,
\* the queues or another operator do gives it more.
THEOREM ScriptRunsOut ==
  Spec => [][\A o \in Operator : Running(o) =>
               UNCHANGED script(o) \/ CommandsLeft(o)' < CommandsLeft(o)]_vars
<1> DEFINE Fewer(o) == UNCHANGED script(o) \/ CommandsLeft(o)' < CommandsLeft(o)
<1>1. ASSUME FlowInv, NEW o \in Operator, Running(o), ScriptStep(o) \/ Abort(o) PROVE Fewer(o)
  <2>1. /\ TypeOK /\ replayed[o] \in 0..MaxMessages /\ MaxMessages \in Nat
    BY <1>1, FlowAssumption DEF FlowInv, TypeOK
  <2>2. CASE ReachLimit(o) \/ ReceiveNothing(o) \/ Abort(o)
    <3>1. shell'[o] # "replaying"
      BY <2>1, <2>2 DEF ReachLimit, ReceiveNothing, Abort, Stop, TypeOK
    <3> QED BY <1>1, <2>1, <3>1 DEF CommandsLeft, Running
  <2>3. CASE ReceiveBatch(o)
    <3>1. /\ batch[o] = {} /\ current[o] = Nothing /\ current'[o] = Nothing
          /\ batch'[o] # {} /\ replayed'[o] = replayed[o] /\ shell'[o] = shell[o]
      <4>1. PICK ids \in SUBSET Visible("dead") :
              /\ ids # {}
              /\ batch' = [batch EXCEPT ![o] = {[id |-> i, item |-> message[i].item] : i \in ids}]
        BY <2>3 DEF ReceiveBatch
      <4>2. batch'[o] = {[id |-> i, item |-> message[i].item] : i \in ids}
        BY <2>1, <4>1 DEF TypeOK
      <4>3. batch'[o] # {} BY <4>1, <4>2
      <4> QED BY <2>3, <4>3 DEF ReceiveBatch, Receives
    <3> QED BY <1>1, <2>1, <3>1 DEF CommandsLeft, Running
  <2>4. CASE \E c \in batch[o] : ReplaySend(o, c)
    <3>1. PICK c \in batch[o] : ReplaySend(o, c) BY <2>4
    <3>2. c \in Copy /\ c # Nothing BY <2>1, <3>1, FlowAssumption DEF TypeOK, Copy, Item
    <3>3. /\ current[o] = Nothing /\ batch[o] # {} /\ current'[o] = c
          /\ replayed'[o] = replayed[o] /\ shell'[o] = shell[o]
      BY <2>1, <3>1 DEF ReplaySend, TypeOK
    <3> QED BY <1>1, <2>1, <3>2, <3>3 DEF CommandsLeft, Running
  <2>5. CASE ReplayDelete(o)
    <3>1. /\ current[o] # Nothing /\ current'[o] = Nothing
          /\ replayed'[o] = replayed[o] + 1 /\ shell'[o] = shell[o]
      BY <2>1, <2>5 DEF ReplayDelete, TypeOK
    <3> QED BY <1>1, <2>1, <3>1 DEF CommandsLeft, Running
  <2> QED BY <1>1, <2>2, <2>3, <2>4, <2>5 DEF ScriptStep
<1>2. ASSUME FlowInv, [Next]_vars, NEW o \in Operator, Running(o) PROVE Fewer(o)
  <2>1. ~Start(o) BY <1>2 DEF Start
  <2> QED BY <1>1, <1>2, <2>1, ScriptMoves DEF FlowInv
<1>3. FlowInv /\ [Next]_vars => [\A o \in Operator : Running(o) => Fewer(o)]_vars BY <1>2
<1> QED BY <1>3, FlowInvariantHolds, PTL DEF Spec
=============================================================================
