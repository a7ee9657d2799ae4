-------------------------- MODULE MCCaseProcessing --------------------------
(* Small instances of CaseProcessing and of its inductive invariant for TLC. *)
EXTENDS CaseInvariant, TLC

CONSTANTS c1, f1, f2, m1, m2, m3, h1, h2

OneSubmission == {c1}
TwoFiles == {f1, f2}
TwoHandlers == {h1, h2}

\* Two files of one submission.
TwoMessages == {m1, m2}
TwoSubmissionOf == m1 :> c1 @@ m2 :> c1
TwoFileOf == m1 :> f1 @@ m2 :> f2

\* The first file announced twice, and an event of a second file.
ThreeMessages == {m1, m2, m3}
ThreeSubmissionOf == m1 :> c1 @@ m2 :> c1 @@ m3 :> c1
ThreeFileOf == m1 :> f1 @@ m2 :> f1 @@ m3 :> f2

HandlerSymmetry == Permutations(TwoHandlers)
=============================================================================
