---------------------------- MODULE MCHttpClient ----------------------------
(* Two calls in progress at the same time. *)
EXTENDS HttpClient
CONSTANTS r1, r2
TwoCalls == {r1, r2}
=============================================================================
