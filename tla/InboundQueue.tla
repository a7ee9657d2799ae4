---------------------------- MODULE InboundQueue ----------------------------
(***************************************************************************)
(* The inbound SQS queue and its dead-letter queue, as the consumer uses   *)
(* them: a standard queue with a visibility timeout and a redrive policy   *)
(* (maxReceiveCount), whose dead letters an operator may replay.  The      *)
(* service's own sends to the dead-letter queue are actions of the handler *)
(* (CaseProcessing) built from the operators here.                         *)
(***************************************************************************)
EXTENDS Naturals, FileEvents

CONSTANTS
  MaxReceive,  \* the redrive policy's maxReceiveCount
  MaxReplays   \* bound: how many replays operators make

ASSUME QueueAssumption == MaxReceive \in Nat \ {0} /\ MaxReplays \in Nat

VARIABLES
  queue,       \* [Message -> QueueState] on the inbound queue
  receives,    \* [Message -> Nat] the message's receive count
  deadLetter,  \* messages on the dead-letter queue
  replays      \* replays made so far

sqsVars == <<queue, receives, deadLetter, replays>>

QueueState == {"absent", "visible", "hidden"}

QueueTypeOK ==
  /\ queue \in [Message -> QueueState]
  /\ receives \in [Message -> Nat]
  /\ deadLetter \subseteq Message
  /\ replays \in Nat

QueueInit ==
  /\ queue = [m \in Message |-> "visible"]
  /\ receives = [m \in Message |-> 0]
  /\ deadLetter = {}
  /\ replays = 0

DeliverUncounted(m) ==  \* variant: a queue without a receive count
  /\ queue[m] = "visible"
  /\ queue' = [queue EXCEPT ![m] = "hidden"]
  /\ UNCHANGED <<receives, deadLetter, replays>>

\* ReceiveMessage: the message becomes invisible to other consumers.
Deliver(m) ==
  /\ queue[m] = "visible"
  /\ receives[m] < MaxReceive
  /\ queue' = [queue EXCEPT ![m] = "hidden"]
  /\ receives' = [receives EXCEPT ![m] = @ + 1]
  /\ UNCHANGED <<deadLetter, replays>>

\* The message was not deleted before its visibility timeout.
BecomeVisible(m) ==
  /\ queue[m] = "hidden"
  /\ queue' = [queue EXCEPT ![m] = "visible"]
  /\ UNCHANGED <<receives, deadLetter, replays>>

\* The redrive policy: a message received maxReceiveCount times is moved.
MoveToDeadLetter(m) ==
  /\ queue[m] = "visible"
  /\ receives[m] >= MaxReceive
  /\ queue' = [queue EXCEPT ![m] = "absent"]
  /\ deadLetter' = deadLetter \cup {m}
  /\ UNCHANGED <<receives, replays>>

\* DeleteMessage.
Delete(m) ==
  /\ queue' = [queue EXCEPT ![m] = "absent"]
  /\ UNCHANGED <<receives, deadLetter, replays>>

\* SendMessage to the dead-letter queue.
SendDeadLetter(m) ==
  /\ deadLetter' = deadLetter \cup {m}
  /\ UNCHANGED <<queue, receives, replays>>

\* The replay script sends the dead letter to the inbound queue as a new
\* message and only then deletes it; killed in between, it is on both queues.
\* Bound: it is not replayed while a copy is still on the inbound queue.
Resend(m) ==
  /\ m \in deadLetter
  /\ queue[m] = "absent"
  /\ replays < MaxReplays
  /\ queue' = [queue EXCEPT ![m] = "visible"]
  /\ receives' = [receives EXCEPT ![m] = 0]
  /\ deadLetter' \in {deadLetter, deadLetter \ {m}}
  /\ replays' = replays + 1
=============================================================================
