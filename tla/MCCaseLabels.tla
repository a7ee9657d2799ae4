---------------------------- MODULE MCCaseLabels ----------------------------
(* A file announced by two events, of which one names a case type and one none, *)
(* and a second file whose event names none. *)
EXTENDS CaseLabels, TLC

CONSTANTS c1, f1, f2, m1, m2, m3, h1, h2, upload, claim, uploadDoc, claimDoc

ThreeSubmissionOf == m1 :> c1 @@ m2 :> c1 @@ m3 :> c1
ThreeFileOf == m1 :> f1 @@ m2 :> f1 @@ m3 :> f2

OneNamed == m1 :> claim @@ m2 :> Unnamed @@ m3 :> Unnamed
TwoTypes == claim :> claimDoc @@ upload :> uploadDoc

HandlerSymmetry == Permutations(Handler)
=============================================================================
