-------------------------- MODULE MCUnindexedCases --------------------------
(* One submission with two files, each announced once. *)
EXTENDS UnindexedCases, TLC

CONSTANTS c1, f1, f2, m1, m2, h1, h2

TwoSubmissionOf == m1 :> c1 @@ m2 :> c1
TwoFileOf == m1 :> f1 @@ m2 :> f2
=============================================================================
