----------------------------- MODULE MCSyncQueue -----------------------------
(* Two producers with two puts each, and at most two faults: enough for a   *)
(* put to race every step of the consumer, to fail on an empty and on a     *)
(* non-empty queue, and to come after the close.                            *)
EXTENDS SyncQueue

MCFaults == {"signal", "alloc"}
=============================================================================
