--------------------------- MODULE DeadLetterFlow ---------------------------
(***************************************************************************)
(* What travels between the inbound queue and its dead-letter queue: the   *)
(* events the consumer discards, the announcements that SNS refused, which *)
(* publishWithDurability sends to the same dead-letter queue, and the      *)
(* copies that scripts/replay-dlq-messages.sh sends back.                  *)
(*                                                                         *)
(* CaseProcessing models the consumer's work and takes a replay as one     *)
(* step; here the work is one step, and the messages have copies, receipts *)
(* and visibility timeouts.  SQS and SNS are external.                     *)
(***************************************************************************)
EXTENDS Integers, FiniteSets, Functions

CONSTANTS
  Event,            \* inbound events, each sent once by its producer
  Announcement,     \* bound: the case-created events the service makes of them
  Handler,          \* calls of handleMessage
  Operator,         \* people who run the replay script
  Id,               \* bound: the messages that exist at the same time
  NoOne, Nothing,
  MaxReceive,       \* maxReceiveCount of the inbound queue
  MaxBatch,         \* BATCH_SIZE, 10 in the script
  MaxMessages,      \* MAX_MESSAGES of a run of the script
  MaxInterruptions  \* bound: crashes, kills, failed commands, late holders

ASSUME FlowAssumption ==
  /\ MaxReceive \in Nat \ {0} /\ MaxBatch \in Nat \ {0}
  /\ MaxMessages \in Nat /\ MaxInterruptions \in Nat
  /\ NoOne \notin Handler \cup Operator
  /\ Event \cap Announcement = {} /\ Handler \cap Operator = {}
  /\ Nothing \notin [id : Id, item : Event \cup Announcement]
  /\ IsFiniteSet(Id) /\ \E f \in [Event -> Id] : IsInjective(f)

VARIABLES
  message,        \* [Id -> Message or NoMessage]
  held,           \* [Handler -> Copy or Nothing] what a handler works on
  discarded,      \* handlers that have sent what they hold to the dead letters
  processed,      \* events whose handler returned successfully
  announcement,   \* [Announcement -> Fate]
  logged,         \* items of which nothing but a log entry may remain
  batch,          \* [Operator -> SUBSET Copy] received by the script, not replayed
  current,        \* [Operator -> Copy or Nothing] sent back, but not deleted
  replayed,       \* [Operator -> Nat] REPLAYED
  shell,          \* [Operator -> Shell] whether the operator's script runs
  interruptions   \* interruptions so far

consumerVars == <<held, discarded, processed, announcement, logged>>
scriptVars == <<batch, current, replayed, shell>>
vars == <<message, consumerVars, scriptVars, interruptions>>

Item == Event \cup Announcement
Copy == [id : Id, item : Item]
Message == [item : Item, queue : {"inbound", "dead"}, visible : BOOLEAN,
            receives : 0..MaxReceive, latest : Handler \cup Operator \cup {NoOne}]
NoMessage == [queue |-> "none"]
Fate == {"none", "published", "diverted", "logged"}
Shell == {"idle", "replaying"}

TypeOK ==
  /\ message \in [Id -> Message \cup {NoMessage}]
  /\ held \in [Handler -> Copy \cup {Nothing}]
  /\ discarded \subseteq Handler
  /\ processed \subseteq Event
  /\ announcement \in [Announcement -> Fate]
  /\ logged \subseteq Item
  /\ batch \in [Operator -> SUBSET Copy]
  /\ current \in [Operator -> Copy \cup {Nothing}]
  /\ replayed \in [Operator -> 0..MaxMessages]
  /\ shell \in [Operator -> Shell]
  /\ interruptions \in 0..MaxInterruptions

New(item, queue) ==
  [item |-> item, queue |-> queue, visible |-> TRUE, receives |-> 0, latest |-> NoOne]

Init ==
  /\ LET id == CHOOSE f \in [Event -> Id] : IsInjective(f) IN
       message = [i \in Id |->
         IF i \in Range(id) THEN New(Inverse(id, Event, Id)[i], "inbound") ELSE NoMessage]
  /\ held = [h \in Handler |-> Nothing]
  /\ discarded = {} /\ processed = {} /\ logged = {}
  /\ announcement = [a \in Announcement |-> "none"]
  /\ batch = [o \in Operator |-> {}]
  /\ current = [o \in Operator |-> Nothing]
  /\ replayed = [o \in Operator |-> 0]
  /\ shell = [o \in Operator |-> "idle"]
  /\ interruptions = 0

-----------------------------------------------------------------------------
(* The two queues. *)

On(queue) == {i \in Id : message[i].queue = queue}
Visible(queue) == {i \in On(queue) : message[i].visible}

\* The copies that someone still works on.
InHand == ({held[h] : h \in Handler} \cup UNION {batch[o] \cup {current[o]} : o \in Operator})
            \ {Nothing}
Free == On("none") \ {c.id : c \in InHand}

Interrupt ==
  /\ interruptions < MaxInterruptions
  /\ interruptions' = interruptions + 1

\* SendMessage makes a new message; which identifier it gets does not matter.
Send(item, queue) ==
  Free # {} /\ message' = [message EXCEPT ![CHOOSE i \in Free : TRUE] = New(item, queue)]

\* DeleteMessage with the receipt of who: without effect when the message has left
\* the queue, and perhaps so when someone else has received it since.
Delete(i, queue, who) ==
  IF i \notin On(queue) THEN UNCHANGED message
  ELSE \/ message' = [message EXCEPT ![i] = NoMessage]
       \/ message[i].latest # who /\ UNCHANGED message

\* The visibility timeout of a message that is not deleted in time, which may
\* still be in the hands of whoever received it.
BecomeVisible(i) ==
  /\ i \notin On("none") /\ ~message[i].visible
  /\ message' = [message EXCEPT ![i].visible = TRUE]
  /\ IF i \in {c.id : c \in InHand} THEN Interrupt ELSE UNCHANGED interruptions
  /\ UNCHANGED <<consumerVars, scriptVars>>

Redrive(i) ==
  /\ i \in Visible("inbound")
  /\ message[i].receives = MaxReceive
  /\ message' = [message EXCEPT ![i].queue = "dead", ![i].latest = NoOne, ![i].receives = 0]
  /\ UNCHANGED <<consumerVars, scriptVars, interruptions>>

-----------------------------------------------------------------------------
(* The consumer. *)

Works(h) == held[h] # Nothing /\ h \notin discarded

Receive(h, i) ==
  /\ held[h] = Nothing
  /\ i \in Visible("inbound")
  /\ message[i].receives < MaxReceive
  /\ message' = [message EXCEPT ![i].visible = FALSE, ![i].latest = h, ![i].receives = @ + 1]
  /\ held' = [held EXCEPT ![h] = [id |-> i, item |-> message[i].item]]
  /\ UNCHANGED <<discarded, processed, announcement, logged, scriptVars, interruptions>>

\* The work creates a case, and publishReceivedEvent announces it.
Announces(h, a) == Works(h) /\ held[h].item \in Event /\ announcement[a] = "none"

\* SNS takes the announcement, or it is wrapped and diverted to publishDlqUrl (SNS
\* may have taken it all the same), or that fails too or the outbound schema has
\* refused it, of which a log entry remains.  The work goes on in any case.
Publish(h, a) ==
  /\ Announces(h, a)
  /\ \/ /\ announcement' = [announcement EXCEPT ![a] = "published"]
        /\ UNCHANGED <<message, logged>>
     \/ /\ announcement' = [announcement EXCEPT ![a] = "diverted"]
        /\ Send(a, "dead")
        /\ UNCHANGED logged
     \/ /\ announcement' = [announcement EXCEPT ![a] = "logged"]
        /\ logged' = logged \cup {a}
        /\ UNCHANGED message
  /\ UNCHANGED <<held, discarded, processed, scriptVars, interruptions>>

\* The work succeeds and the message is acknowledged.  A diverted announcement
\* that is replayed is no event of the inbound schema and never gets this far.
Succeed(h) ==
  /\ Works(h) /\ held[h].item \in Event
  /\ processed' = processed \cup {held[h].item}
  /\ Delete(held[h].id, "inbound", h)
  /\ held' = [held EXCEPT ![h] = Nothing]
  /\ UNCHANGED <<discarded, announcement, logged, scriptVars, interruptions>>

\* A retryable failure leaves the message to its visibility timeout.
Leave(h) ==
  /\ Works(h) /\ held[h].item \in Event
  /\ held' = [held EXCEPT ![h] = Nothing]
  /\ UNCHANGED <<message, discarded, processed, announcement, logged, scriptVars, interruptions>>

\* Invalid, or a failure that is not retryable: sendToDlq, which swallows its own.
Discard(h) ==
  /\ Works(h)
  /\ discarded' = discarded \cup {h}
  /\ \/ Send(held[h].item, "dead") /\ UNCHANGED logged
     \/ logged' = logged \cup {held[h].item} /\ UNCHANGED message
  /\ UNCHANGED <<held, processed, announcement, scriptVars, interruptions>>

Acknowledge(h) ==
  /\ h \in discarded
  /\ Delete(held[h].id, "inbound", h)
  /\ held' = [held EXCEPT ![h] = Nothing]
  /\ discarded' = discarded \ {h}
  /\ UNCHANGED <<processed, announcement, logged, scriptVars, interruptions>>

Crash(h) ==
  /\ held[h] # Nothing
  /\ Interrupt
  /\ held' = [held EXCEPT ![h] = Nothing]
  /\ discarded' = discarded \ {h}
  /\ UNCHANGED <<message, processed, announcement, logged, scriptVars>>

-----------------------------------------------------------------------------
(* The replay script. *)

Running(o) == shell[o] = "replaying"
Receives(o) == Running(o) /\ batch[o] = {} /\ current[o] = Nothing

Start(o) ==
  /\ ~Running(o)
  /\ shell' = [shell EXCEPT ![o] = "replaying"]
  /\ UNCHANGED <<message, consumerVars, batch, current, replayed, interruptions>>

\* The script ends between two batches, and its count with it.
Stop(o) ==
  /\ shell' = [shell EXCEPT ![o] = "idle"]
  /\ replayed' = [replayed EXCEPT ![o] = 0]
  /\ UNCHANGED <<message, consumerVars, batch, current, interruptions>>

ReachLimit(o) == Receives(o) /\ replayed[o] >= MaxMessages /\ Stop(o)

BatchLimitUnclipped(o) == MaxBatch  \* variant: the last batch is as large as the others
BatchLimit(o) == IF MaxMessages - replayed[o] < MaxBatch THEN MaxMessages - replayed[o] ELSE MaxBatch

ReceiveBatchVisibly(o) ==  \* variant: the batch is not hidden from others
  /\ Receives(o) /\ replayed[o] < MaxMessages
  /\ \E ids \in SUBSET Visible("dead") :
       /\ ids # {} /\ Cardinality(ids) <= BatchLimit(o)
       /\ batch' = [batch EXCEPT ![o] = {[id |-> i, item |-> message[i].item] : i \in ids}]
  /\ UNCHANGED <<message, consumerVars, current, replayed, shell, interruptions>>

ReceiveBatch(o) ==
  /\ Receives(o) /\ replayed[o] < MaxMessages
  /\ \E ids \in SUBSET Visible("dead") :
       /\ ids # {} /\ Cardinality(ids) <= BatchLimit(o)
       /\ batch' = [batch EXCEPT ![o] = {[id |-> i, item |-> message[i].item] : i \in ids}]
       /\ message' = [i \in Id |->
            IF i \in ids THEN [message[i] EXCEPT !.visible = FALSE, !.latest = o] ELSE message[i]]
  /\ UNCHANGED <<consumerVars, current, replayed, shell, interruptions>>

\* A receive that fails or finds nothing (a short poll may) is an empty batch.
ReceiveNothing(o) == Receives(o) /\ replayed[o] < MaxMessages /\ Stop(o)

ReplaySendUnchecked(o, c) ==  \* variant: without set -e
  /\ Running(o) /\ current[o] = Nothing /\ c \in batch[o]
  /\ Send(c.item, "inbound") \/ UNCHANGED message
  /\ batch' = [batch EXCEPT ![o] = @ \ {c}]
  /\ current' = [current EXCEPT ![o] = c]
  /\ UNCHANGED <<consumerVars, replayed, shell, interruptions>>

\* send-message to the inbound queue.
ReplaySend(o, c) ==
  /\ Running(o) /\ current[o] = Nothing /\ c \in batch[o]
  /\ Send(c.item, "inbound")
  /\ batch' = [batch EXCEPT ![o] = @ \ {c}]
  /\ current' = [current EXCEPT ![o] = c]
  /\ UNCHANGED <<consumerVars, replayed, shell, interruptions>>

ReplayDeleteUncounted(o) ==  \* variant: REPLAYED is not incremented
  /\ Running(o) /\ current[o] # Nothing
  /\ Delete(current[o].id, "dead", o)
  /\ current' = [current EXCEPT ![o] = Nothing]
  /\ UNCHANGED <<consumerVars, batch, replayed, shell, interruptions>>

\* delete-message on the dead-letter queue, "only after successful send".
ReplayDelete(o) ==
  /\ Running(o) /\ current[o] # Nothing
  /\ Delete(current[o].id, "dead", o)
  /\ current' = [current EXCEPT ![o] = Nothing]
  /\ replayed' = [replayed EXCEPT ![o] = @ + 1]
  /\ UNCHANGED <<consumerVars, batch, shell, interruptions>>

\* set -e: a command that fails ends the script, as killing it does.
Abort(o) ==
  /\ Running(o)
  /\ Interrupt
  /\ shell' = [shell EXCEPT ![o] = "idle"]
  /\ replayed' = [replayed EXCEPT ![o] = 0]
  /\ batch' = [batch EXCEPT ![o] = {}]
  /\ current' = [current EXCEPT ![o] = Nothing]
  /\ UNCHANGED <<message, consumerVars>>

ScriptStep(o) ==
  \/ ReachLimit(o) \/ ReceiveBatch(o) \/ ReceiveNothing(o) \/ ReplayDelete(o)
  \/ \E c \in batch[o] : ReplaySend(o, c)

Next ==
  \/ \E i \in Id : BecomeVisible(i) \/ Redrive(i) \/ \E h \in Handler : Receive(h, i)
  \/ \E h \in Handler : \E a \in Announcement : Publish(h, a)
  \/ \E h \in Handler : Succeed(h) \/ Leave(h) \/ Discard(h) \/ Acknowledge(h) \/ Crash(h)
  \/ \E o \in Operator : Start(o) \/ ScriptStep(o) \/ Abort(o)

Spec == Init /\ [][Next]_vars

\* Each command of the script returns.
FairSpec == Spec /\ \A o \in Operator : WF_vars(ScriptStep(o))

-----------------------------------------------------------------------------
\* The messages that carry an item, but for those that were sent on already and
\* are about to be deleted.
SentOn ==
  {held[h].id : h \in discarded} \cup {current[o].id : o \in {p \in Operator : current[p] # Nothing}}
Carriers(item) == {i \in Id \ On("none") : message[i].item = item}

\* Nothing vanishes silently between the queues: an event is processed or still on
\* a queue, a diverted announcement is still on a queue, or a log entry tells of it.
NothingLost ==
  /\ \A e \in Event \ (processed \cup logged) : Carriers(e) # {}
  /\ \A a \in Announcement \ logged : announcement[a] = "diverted" => Carriers(a) # {}

\* A replay moves a message: every copy beyond the first, on either queue, is the
\* trace of an interruption.
CopiesAreInterruptions ==
  \A item \in Item : Cardinality(Carriers(item) \ SentOn) <= 1 + interruptions

\* A run of the script ends, although the consumer refills the dead-letter queue
\* with what it sends back.  (A send waits while the bound Id leaves no room.)
ReplayEnds == \A o \in Operator : Running(o) ~> ~Running(o) \/ Free = {}
=============================================================================
