---------------------------- MODULE MCRetryDelay ----------------------------
(* One call; throttling that is over at once, in less than a second, with the *)
(* ceiling, and only after it; clocks that differ either way. *)
EXTENDS RetryDelay
CONSTANT r1
OneCall == {r1}
Windows == {0, 400, 60000, 90000}
Skews == {-300, 300}
=============================================================================
