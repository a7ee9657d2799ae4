------------------------------ MODULE Dataverse ------------------------------
(***************************************************************************)
(* What Dataverse does with the requests of the service: every record is   *)
(* written by a conditional upsert (If-None-Match: * ) on a key derived    *)
(* from the correlationId or from the (correlationId, fileId) pair, and    *)
(* the changeset that creates a case is atomic.  Records are counted for   *)
(* each submission and file, so that a second record is visible however it *)
(* is keyed.                                                               *)
(***************************************************************************)
EXTENDS Naturals, FileEvents

VARIABLES
  incidents,  \* [Submission -> Nat] cases, each with its online submission
  metadata    \* [Submission -> [File -> Nat]] metadata records

crmVars == <<incidents, metadata>>

CrmTypeOK ==
  /\ incidents \in [Submission -> Nat]
  /\ metadata \in [Submission -> [File -> Nat]]

CrmInit ==
  /\ incidents = [c \in Submission |-> 0]
  /\ metadata = [c \in Submission |-> [f \in File |-> 0]]

HasIncident(c) == incidents[c] > 0

HasMetadata(c, f) == metadata[c][f] > 0

\* A part of the changeset names a record that exists: the answer is 412.
ChangesetConflictsRandomKey(c, f) == FALSE  \* variant: a fresh key for each attempt
ChangesetConflicts(c, f) == HasIncident(c) \/ HasMetadata(c, f)

\* The changeset: incident, online submission and the file's metadata, or none.
ApplyChangeset(c, f) ==
  /\ ~ChangesetConflicts(c, f)
  /\ incidents' = [incidents EXCEPT ![c] = @ + 1]
  /\ metadata' = [metadata EXCEPT ![c][f] = @ + 1]

ApplyMetadataOverwriting(c, f) ==  \* variant: the write has no If-None-Match
  /\ metadata' = [metadata EXCEPT ![c][f] = 1]
  /\ UNCHANGED incidents

\* A metadata record on its own.  That the online submission it binds to exists
\* is left to the service to ensure.
ApplyMetadata(c, f) ==
  /\ ~HasMetadata(c, f)
  /\ metadata' = [metadata EXCEPT ![c][f] = @ + 1]
  /\ UNCHANGED incidents
=============================================================================
