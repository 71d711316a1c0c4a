------------------------------ MODULE SyncQueue ------------------------------
(***************************************************************************)
(* Threads that share one synchronized queue of sccp_queue.c.  Producers   *)
(* put items from any thread; the one consumer is the poll loop that the   *)
(* server thread and every session thread run: poll the fd, move all the   *)
(* items out (or get one), handle them one by one with sccp_queue_get, and *)
(* when the loop ends, close the queue and destroy what is left in it.     *)
(***************************************************************************)
EXTENDS SyncQueueOps

CONSTANTS
  Producers,  \* threads that put items
  MaxPuts,    \* bound: puts that each producer attempts
  Faults,     \* the faults that a put may meet, a subset of PutFaults
  MaxFaults   \* bound: puts that fail

ASSUME SyncQueueAssumption ==
  /\ MaxPuts \in Nat
  /\ MaxFaults \in Nat
  /\ Faults \subseteq PutFaults

VARIABLES
  q,          \* the struct sccp_sync_queue
  puts,       \* how many puts each producer has attempted
  failures,   \* how many puts failed
  accepted,   \* the items whose put returned 0, in order
  pc,         \* where the consumer is
  batch,      \* the consumer's own struct sccp_queue
  delivered,  \* the items the consumer handled, in order
  discarded   \* the items destroyed after the queue was closed

vars == <<q, puts, failures, accepted, pc, batch, delivered, discarded>>
consumerVars == <<pc, batch, delivered, discarded>>

Item == Producers \X (1 .. MaxPuts)

Init ==
  /\ q = CreateQueue
  /\ puts = [p \in Producers |-> 0]
  /\ failures = 0
  /\ accepted = << >>
  /\ pc = "poll"
  /\ batch = << >>
  /\ delivered = << >>
  /\ discarded = << >>

-----------------------------------------------------------------------------
(* sccp_sync_queue_put, called by a producer. *)
Put(p) ==
  LET item     == <<p, puts[p] + 1>>
      possible == IF failures < MaxFaults THEN Faults ELSE {}
  IN  /\ puts[p] < MaxPuts
      /\ puts' = [puts EXCEPT ![p] = @ + 1]
      /\ \E out \in PutOutcomes(q, item, possible) :
           /\ q' = out.q
           /\ accepted' = IF out.ret = QUEUE_OK THEN Append(accepted, item)
                                                ELSE accepted
           /\ failures' = IF out.ret = QUEUE_FAILED THEN failures + 1
                                                    ELSE failures
      /\ UNCHANGED consumerVars

(* sccp_sync_queue_get_all, called when poll reports the fd. *)
GetAll ==
  /\ pc = "poll"
  /\ FdReady(q)
  /\ batch' = q.items
  /\ q' = AfterGetAll(q)
  /\ pc' = "drain"
  /\ UNCHANGED <<puts, failures, accepted, delivered, discarded>>

(* sccp_sync_queue_get, the other way to take an item after a poll: it     *)
(* returns SCCP_QUEUE_EMPTY on an empty queue, whatever the fd says.       *)
GetOne ==
  /\ pc = "poll"
  /\ FdReady(q)
  /\ \/ /\ ~IsEmptyQueue(q)
        /\ delivered' = Append(delivered, Head(q.items))
        /\ q' = AfterGet(q)
     \/ /\ IsEmptyQueue(q)
        /\ UNCHANGED <<q, delivered>>
  /\ UNCHANGED <<puts, failures, accepted, pc, batch, discarded>>

(* sccp_queue_get on the consumer's own queue: the next item is handled,   *)
(* or the queue is found empty and the consumer goes back to poll.         *)
DrainItem ==
  /\ pc = "drain"
  /\ batch # << >>
  /\ delivered' = Append(delivered, Head(batch))
  /\ batch' = Tail(batch)
  /\ UNCHANGED <<q, puts, failures, accepted, pc, discarded>>

DrainEnd ==
  /\ pc = "drain"
  /\ batch = << >>
  /\ pc' = "poll"
  /\ UNCHANGED <<q, puts, failures, accepted, batch, delivered, discarded>>

(* The poll loop ends, for a reason of its own, at any turn. *)
Close ==
  /\ pc = "poll"
  /\ q' = CloseQueue(q)
  /\ pc' = "closed"
  /\ UNCHANGED <<puts, failures, accepted, batch, delivered, discarded>>

(* server_empty_queue and sccp_session_empty_queue. *)
EmptyQueue ==
  /\ pc = "closed"
  /\ q' = AfterGetAll(q)
  /\ discarded' = q.items
  /\ pc' = "done"
  /\ UNCHANGED <<puts, failures, accepted, batch, delivered>>

Consume == GetAll \/ GetOne \/ DrainItem \/ DrainEnd \/ EmptyQueue

Next == (\E p \in Producers : Put(p)) \/ Consume \/ Close

(* The consumer thread is scheduled; it takes every batch to its end, and  *)
(* between two polls it does not prefer sccp_sync_queue_get for ever.      *)
Spec == Init /\ [][Next]_vars /\ WF_vars(Consume)

-----------------------------------------------------------------------------
TypeOK ==
  /\ q \in SyncQueueType(Item)
  /\ puts \in [Producers -> 0 .. MaxPuts]
  /\ failures \in 0 .. MaxFaults
  /\ accepted \in Seq(Item)
  /\ pc \in {"poll", "drain", "closed", "done"}
  /\ batch \in Seq(Item)
  /\ delivered \in Seq(Item)
  /\ discarded \in Seq(Item)

(* No lost wake-up: whatever puts, failed puts and gets were interleaved,  *)
(* a queue that holds an item has a ready fd ("The file descriptor is      *)
(* ready when the queue is not empty", sccp_queue.h), so that the thread   *)
(* that polls it cannot sleep on a message.                                *)
ReadyWhenNotEmpty == ~IsEmptyQueue(q) => FdReady(q)

(* The converse holds as long as no put failed: only the allocation that   *)
(* fails after the fd was signalled leaves a ready fd on an empty queue    *)
(* (sccp_sync_queue_put_no_lock), and makes the consumer's poll spin.      *)
ReadyOnEmptyNeedsFailure ==
  (IsEmptyQueue(q) /\ FdReady(q)) => failures > 0

(* The fd follows the queue. *)
FdFollowsQueue == ReadyWhenNotEmpty /\ ReadyOnEmptyNeedsFailure

(* An item whose put returned 0 is handled once, in the order of the puts, *)
(* or destroyed after the close; it is never lost in between.              *)
EveryItemOnce == accepted = delivered \o batch \o q.items \o discarded

(* The last sccp_queue_get_all of the owner is final: the message of a     *)
(* thread that puts after the close is refused, so that nothing is left in *)
(* a queue that nobody reads (its messages hold references).               *)
NothingAfterEmptying == (pc = "done") => IsEmptyQueue(q)

(* What is accepted is handled or destroyed, once; nothing is left over.   *)
ItemsOnce == EveryItemOnce /\ NothingAfterEmptying

(* The queue implements the channel: items are taken in the order they     *)
(* were sent, none is sent to a closed channel, and every item is          *)
(* eventually taken or, after the close, discarded.                        *)
Channel == INSTANCE ItemChannel
             WITH pending <- batch \o q.items, open <- ~q.closed
ImplementsChannel == Channel!Spec
=============================================================================
