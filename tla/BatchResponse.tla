---------------------------- MODULE BatchResponse ----------------------------
(***************************************************************************)
(* The multipart framing of a changeset: buildChangesetRequest, what       *)
(* Dataverse answers to it, parseBatchResponse, and the check of the parts *)
(* in writeCaseChangesetOrSuppress (the outer status is 200).              *)
(*                                                                         *)
(* A message is a sequence of lines that the parser tells apart; the lines *)
(* of an answer arrive one by one, and what is read of the body may end    *)
(* after any of them.  Dataverse is external.                              *)
(***************************************************************************)
EXTENDS Naturals, Sequences, SequencesExt

CONSTANTS
  Part,     \* the number of parts of the changeset: 3 in crm.js
  Statuses  \* of a part's answer

ASSUME BatchAssumption == Part \in Nat \ {0} /\ 204 \in Statuses /\ Statuses \subseteq Nat

VARIABLES
  answers,    \* Seq(Statuses): what Dataverse answers to the parts, in order
  wrapped,    \* whether the answers are nested in a changeset response
  committed,  \* whether Dataverse committed the changeset
  outgoing,   \* the lines of the response that are still to come
  arrived     \* the lines that responseText has

vars == <<answers, wrapped, committed, outgoing, arrived>>

-----------------------------------------------------------------------------
(* Lines. *)

Line(kind) == [kind |-> kind, value |-> 0]
ContentId(i) == [kind |-> "Content-ID", value |-> i]
StatusLine(s) == [kind |-> "HTTP/1.1", value |-> s]
Is(line, kinds) == line.kind \in kinds

\* The request: each part with its Content-ID, in one changeset in one batch.
BuildChangesetRequest(n) ==
  <<Line("--batch"), Line("boundary=changeset")>>
    \o FlattenSeq([i \in 1..n |-> <<Line("--changeset"), ContentId(i), Line("PATCH")>>])
    \o <<Line("--changeset--"), Line("--batch--")>>

\* The response: the Content-IDs of the request are given back with the statuses.
ResponseTo(request, statuses, nested) ==
  LET ids == SelectSeq(request, LAMBDA line : Is(line, {"Content-ID"}))
      section(i) == <<ids[i], StatusLine(statuses[i])>>
  IN IF nested
     THEN <<Line("--batch"), Line("boundary=changeset")>>
            \o FlattenSeq([i \in 1..Len(statuses) |-> <<Line("--changeset")>> \o section(i)])
            \o <<Line("--changeset--"), Line("--batch--")>>
     ELSE FlattenSeq([i \in 1..Len(statuses) |-> <<Line("--batch")>> \o section(i)])
            \o <<Line("--batch--")>>

Succeeded(statuses) == \A i \in DOMAIN statuses : statuses[i] < 300

\* Dataverse answers every part of a changeset that it commits, within a changeset
\* response.  Of one that it rejects it answers the parts up to the first that
\* fails, with or without a changeset response around them, or none at all, as
\* it does for a body in which it finds no parts.
Init ==
  /\ committed \in BOOLEAN
  /\ wrapped \in {TRUE, committed}
  /\ answers \in UNION {[1..n -> Statuses] : n \in 0..Part}
  /\ IF committed
     THEN Len(answers) = Part /\ Succeeded(answers)
     ELSE answers # <<>> => Succeeded(Front(answers)) /\ ~Succeeded(answers)
  /\ outgoing = ResponseTo(BuildChangesetRequest(Part), answers, wrapped)
  /\ arrived = <<>>

\* The next line of the body is read.
Arrive ==
  /\ outgoing # <<>>
  /\ arrived' = Append(arrived, Head(outgoing))
  /\ outgoing' = Tail(outgoing)
  /\ UNCHANGED <<answers, wrapped, committed>>

Next == Arrive

Spec == Init /\ [][Next]_vars

-----------------------------------------------------------------------------
(* parseBatchResponse *)

SplitterOuter(text) == {"--batch", "--batch--"}  \* variant: always the batch boundary

\* The changeset boundary, once the response declares one.
Splitter(text) ==
  IF \E i \in 1..Len(text) : Is(text[i], {"boundary=changeset"})
  THEN {"--changeset", "--changeset--"} ELSE {"--batch", "--batch--"}

\* split: the blocks before, between and after the delimiters.
Blocks(text) ==
  LET cuts  == {0, Len(text) + 1} \cup {i \in 1..Len(text) : Is(text[i], Splitter(text))}
      order == SetToSortSeq(cuts, <)
  IN [b \in 1..Len(order) - 1 |-> SubSeq(text, order[b] + 1, order[b + 1] - 1)]

\* The first line of a kind in a block, as exec finds it, or 0.
FirstValue(block, kind) ==
  LET found == SelectSeq(block, LAMBDA line : Is(line, {kind}))
  IN IF found = <<>> THEN 0 ELSE found[1].value

\* One result for each block that has a status line.
ParseBatchResponse(text) ==
  LET results == [b \in 1..Len(Blocks(text)) |->
                    [contentId |-> FirstValue(Blocks(text)[b], "Content-ID"),
                     status    |-> FirstValue(Blocks(text)[b], "HTTP/1.1")]]
  IN SelectSeq(results, LAMBDA part : part.status # 0)

AcceptsNoParts(text) ==  \* variant: the number of parts is not checked
  \A i \in 1..Len(ParseBatchResponse(text)) : ParseBatchResponse(text)[i].status = 204

\* writeCaseChangesetOrSuppress: all parts are there, and every one says 204.
Accepts(text) ==
  LET parts == ParseBatchResponse(text)
  IN Len(parts) = Part /\ \A i \in 1..Len(parts) : parts[i].status = 204

-----------------------------------------------------------------------------
\* A response is taken for success only if Dataverse committed the changeset, be
\* it cut off anywhere, rejected at any part, or empty: writeCaseChangesetOrSuppress
\* reports a case only when all its records exist.
AcceptedIsCommitted == Accepts(arrived) => committed

\* The complete response to a committed changeset is understood: parseBatchResponse
\* finds each nested part with the Content-ID its request had, so that a case that
\* was created is not reported as malformed when its parts say 204.
CommittedIsAccepted ==
  outgoing = <<>> /\ committed =>
    /\ ParseBatchResponse(arrived)
         = [i \in 1..Part |-> [contentId |-> i, status |-> answers[i]]]
    /\ (\A i \in 1..Part : answers[i] = 204) => Accepts(arrived)
=============================================================================
