---------------------------- MODULE TaskRunnerOps ----------------------------
(***************************************************************************)
(* struct sccp_task_runner and its operations (sccp_task.c).  A task is    *)
(* known by its callback and data: adding one that is known only moves it. *)
(* The list says which tasks are known, the heap which one is due first;   *)
(* nothing depends on the order of the list, so it is a set here.          *)
(*                                                                         *)
(* left is the time until a task is due, in ticks; it stops at 0, so two   *)
(* tasks that are both overdue have no order.                              *)
(***************************************************************************)
EXTENDS Integers

CONSTANTS
  Tasks,     \* the tasks that may be added
  MaxDelay   \* bound: the longest delay

ASSUME TaskRunnerAssumption == MaxDelay \in Nat

RunnerType ==
  [list : SUBSET Tasks, heap : SUBSET Tasks, left : [Tasks -> 0 .. MaxDelay]]

sccp_task_runner_create ==
  [list |-> {}, heap |-> {}, left |-> [t \in Tasks |-> 0]]

Known(r) == r.list

\* Variant for the mutation runs: a task that is known keeps its time.
Added_Kept(r, t, delay) ==
  IF t \in Known(r) THEN r
  ELSE [list |-> r.list \cup {t}, heap |-> r.heap \cup {t}, left |-> [r.left EXCEPT ![t] = delay]]

(* sccp_task_runner_add, when it does not fail. *)
Added(r, t, delay) ==
  [list |-> r.list \cup {t},
   heap |-> r.heap \cup {t},
   left |-> [r.left EXCEPT ![t] = delay]]

(* Only a new task can fail to be added, when memory is short: a known one *)
(* gives its place in the heap back before it takes one again.             *)
AddOutcomes(r, t, delay, short) ==
  {Added(r, t, delay)} \cup IF short /\ t \notin Known(r) THEN {r} ELSE {}

sccp_task_runner_remove(r, t) ==
  [list |-> r.list \ {t}, heap |-> r.heap \ {t}, left |-> [r.left EXCEPT ![t] = 0]]

\* Variant for the mutation runs: whether a task is due is not looked at.
Due_Any(r) == {t \in r.heap : \A u \in r.heap : r.left[t] <= r.left[u]}

(* The tasks that sccp_task_runner_run may take next. *)
Due(r) == {t \in r.heap : r.left[t] = 0}

(* A tick of the clock; a task that is not in the heap is not due at all.  *)
Ticked(r) ==
  [r EXCEPT !.left = [t \in Tasks |-> IF @[t] > 0 THEN @[t] - 1 ELSE 0]]
=============================================================================
