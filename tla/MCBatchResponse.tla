--------------------------- MODULE MCBatchResponse ---------------------------
(* The statuses that matter: the expected one, another 2xx, a conflict. *)
EXTENDS BatchResponse
ThreeStatuses == {200, 204, 412}
=============================================================================
