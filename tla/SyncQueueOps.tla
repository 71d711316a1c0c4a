---------------------------- MODULE SyncQueueOps ----------------------------
(***************************************************************************)
(* The synchronized queue of sccp_queue.c as a value: the FIFO of          *)
(* containers, the counter of the eventfd, and the closed flag.  Every     *)
(* operation of the C code runs under the queue's mutex, so each one is a  *)
(* single step of whoever calls it.  Modules whose processes own such a    *)
(* queue (SyncQueue, Server) build their actions from these operators.     *)
(***************************************************************************)
EXTENDS Integers, Sequences

(* Return codes of sccp_queue.h. *)
QUEUE_OK     == 0
QUEUE_FAILED == -1
QUEUE_CLOSED == 1

(* What may go wrong in a put: the write to the eventfd, the allocation.   *)
PutFaults == {"signal", "alloc"}

SyncQueueType(Item) == [items : Seq(Item), fd : Nat, closed : BOOLEAN]

CreateQueue == [items |-> << >>, fd |-> 0, closed |-> FALSE]

CloseQueue(q) == [q EXCEPT !.closed = TRUE]

IsEmptyQueue(q) == q.items = << >>

(* poll(2) reports POLLIN on the eventfd while its counter is not 0.       *)
FdReady(q) == q.fd > 0

SignalFd(q) == [q EXCEPT !.fd = @ + 1]

\* Variant for the mutation runs: the test of the empty queue is inverted.
Signalled_WhenNotEmpty(q) == IF IsEmptyQueue(q) THEN q ELSE SignalFd(q)

(* The fd is written before the item is stored, and only for the first     *)
(* item.                                                                   *)
Signalled(q) == IF IsEmptyQueue(q) THEN SignalFd(q) ELSE q

\* Variant for the mutation runs: the container goes in at the head of the list.
Stored_AtHead(q, item) == [Signalled(q) EXCEPT !.items = <<item>> \o @]

Stored(q, item) == [Signalled(q) EXCEPT !.items = Append(@, item)]

(* sccp_sync_queue_put_no_lock past its test of the closed flag.           *)
PutWhileOpen(q, item, faults) ==
  {[ret |-> QUEUE_OK, q |-> Stored(q, item)]}
    \cup {[ret |-> QUEUE_FAILED, q |-> Signalled(q)] : f \in faults \cap {"alloc"}}
    \cup {[ret |-> QUEUE_FAILED, q |-> q] :
            f \in {g \in faults : g = "signal" /\ IsEmptyQueue(q)}}

(* The possible outcomes of sccp_sync_queue_put: a return code and the     *)
(* queue it leaves.  A failed allocation leaves the fd signalled.          *)
PutOutcomes(q, item, faults) ==
  IF q.closed THEN {[ret |-> QUEUE_CLOSED, q |-> q]}
              ELSE PutWhileOpen(q, item, faults)

\* Variants for the mutation runs: the items are copied but not moved; the fd is
\* read even if nothing moved, and read as a semaphore.
AfterGetAll_Copied(q) == [q EXCEPT !.fd = IF IsEmptyQueue(q) THEN @ ELSE 0]
AfterGetAll_ReadsOne(q) == [q EXCEPT !.items = << >>, !.fd = @ - 1]

(* The queue sccp_sync_queue_get_all leaves: everything has moved to the   *)
(* caller's queue, and the fd is read, which resets its counter, only if   *)
(* something did.                                                          *)
AfterGetAll(q) ==
  [items  |-> << >>,
   fd     |-> IF IsEmptyQueue(q) THEN q.fd ELSE 0,
   closed |-> q.closed]

\* Variant for the mutation runs: the fd is read after every item.
AfterGet_AlwaysClears(q) == [q EXCEPT !.items = Tail(@), !.fd = 0]

(* The queue sccp_sync_queue_get leaves when it returns an item.           *)
AfterGet(q) ==
  [items  |-> Tail(q.items),
   fd     |-> IF Len(q.items) = 1 THEN 0 ELSE q.fd,
   closed |-> q.closed]
=============================================================================
