----------------------------- MODULE CreateOnce -----------------------------
(***************************************************************************)
(* What the repository promises its callers of a conditional upsert        *)
(* (upsertRecord and writeCaseChangesetOrSuppress in repos/crm.js),        *)
(* without attempts, answers or time: calls that write the same record,    *)
(* one of which creates it.                                                *)
(***************************************************************************)
CONSTANTS Call, NoCall

VARIABLES
  creator,  \* the call that made the record, or NoCall
  told      \* [Call -> what the caller is told]

vars == <<creator, told>>

Told == {"nothing", "created", "exists", "failed"}

Init == creator = NoCall /\ told = [c \in Call |-> "nothing"]

\* The record comes into being, once: before its call has been answered, or after
\* the call was told that it failed, which says nothing about the record.
Create(c) ==
  /\ creator = NoCall
  /\ told[c] \in {"nothing", "failed"}
  /\ creator' = c
  /\ UNCHANGED told

\* Only the creator is told that it made the record, and "exists" (a suppressed
\* 412) is told to no one before there is a record.
Answer(c) ==
  /\ told[c] = "nothing"
  /\ \E answer \in Told \ {"nothing"} :
       /\ answer = "created" => creator = c
       /\ answer = "exists" => creator # NoCall
       /\ told' = [told EXCEPT ![c] = answer]
  /\ UNCHANGED creator

Next == \E c \in Call : Create(c) \/ Answer(c)

Spec == Init /\ [][Next]_vars
=============================================================================
