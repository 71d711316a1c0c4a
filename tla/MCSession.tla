------------------------------ MODULE MCSession ------------------------------
(* Lengths in abstract units: the claims 1 and 2 are messages of the least  *)
(* and the greatest length, 2 and 3 units; 7 wraps around to 0, and 4 makes *)
(* a message of 5, more than the buffer holds.                              *)
EXTENDS Session

TaskNames == {"auth", "keepalive", "call"}
=============================================================================
