-------------------------------- MODULE Alarms --------------------------------
(***************************************************************************)
(* What a task runner promises (sccp_task.h): a set of alarms, each set at *)
(* most once, which ring when their time has come, and then are no longer  *)
(* set.                                                                    *)
(***************************************************************************)
EXTENDS Integers

CONSTANTS
  Tasks,   \* the alarms
  Delay    \* Delay[t]: what the alarm t is set to

VARIABLES
  left,    \* the time until each alarm rings, for those that are set
  rung     \* the alarm that has just rung, and is handled

Off == -1

Init == left = [t \in Tasks |-> Off] /\ rung = {}

(* Whoever handles a message or an alarm sets some of the alarms, again or *)
(* for the first time, and switches others off.                            *)
Handle ==
  /\ \E on, off \in SUBSET Tasks :
       left' = [t \in Tasks |-> IF t \in on THEN Delay[t]
                               ELSE IF t \in off THEN Off ELSE left[t]]
  /\ rung' = {}

Ring ==
  /\ \E t \in Tasks :
       /\ left[t] = 0
       /\ rung' = {t}
       /\ left' = [left EXCEPT ![t] = Off]

Tick ==
  /\ left' = [t \in Tasks |-> IF left[t] > 0 THEN left[t] - 1 ELSE left[t]]
  /\ UNCHANGED rung

Next == Handle \/ Ring \/ Tick

Spec == Init /\ [][Next]_<<left, rung>>
=============================================================================
