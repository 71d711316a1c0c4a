----------------------------- MODULE ItemChannel -----------------------------
(***************************************************************************)
(* What the synchronized queue promises to the threads that share it: a    *)
(* first-in first-out channel of items that any thread may send to while   *)
(* it is open, from which one thread takes every item in order, and that   *)
(* its owner closes for good.  Only a closed channel may be emptied        *)
(* without its items being taken.                                          *)
(***************************************************************************)
EXTENDS Sequences

CONSTANT Item

VARIABLES pending, open

vars == <<pending, open>>

Init == pending = << >> /\ open = TRUE

Send(item) ==
  /\ open
  /\ pending' = Append(pending, item)
  /\ UNCHANGED open

Take ==
  /\ pending # << >>
  /\ pending' = Tail(pending)
  /\ UNCHANGED open

Close ==
  /\ open' = FALSE
  /\ UNCHANGED pending

Discard ==
  /\ ~open
  /\ pending' = << >>
  /\ UNCHANGED open

Next == (\E item \in Item : Send(item)) \/ Take \/ Close \/ Discard

(* A pending item does not wait for ever.                                  *)
Spec == Init /\ [][Next]_vars /\ WF_vars(Take \/ Discard)
=============================================================================
