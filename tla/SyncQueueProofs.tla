--------------------------- MODULE SyncQueueProofs ---------------------------
(***************************************************************************)
(* What SyncQueue promises for any set of producers, any number of puts    *)
(* and any mix of faults.                                                  *)
(***************************************************************************)
EXTENDS SyncQueue, SequenceTheorems, TLAPS

-----------------------------------------------------------------------------
(* The operators of SyncQueueOps.                                          *)

LEMMA PutOutcomeFacts ==
  ASSUME NEW I, NEW s \in SyncQueueType(I), NEW item \in I,
         NEW faults \in SUBSET PutFaults, NEW out \in PutOutcomes(s, item, faults)
  PROVE  /\ out.q \in SyncQueueType(I)
         /\ out.q.closed = s.closed
         /\ out.ret \in {QUEUE_OK, QUEUE_FAILED, QUEUE_CLOSED}
         /\ out.ret = QUEUE_OK => /\ ~s.closed
                                  /\ out.q.items = Append(s.items, item)
         /\ out.ret # QUEUE_OK => out.q.items = s.items
         /\ out.ret = QUEUE_FAILED => faults # {}
         /\ (~IsEmptyQueue(s) => FdReady(s)) => (~IsEmptyQueue(out.q) => FdReady(out.q))
         /\ (out.ret # QUEUE_FAILED /\ IsEmptyQueue(out.q)) => out.q.fd = s.fd
  BY SMTT(60)
  DEF SyncQueueType, PutOutcomes, PutWhileOpen, PutFaults, Stored, Signalled,
      SignalFd, IsEmptyQueue, FdReady, QUEUE_OK, QUEUE_FAILED, QUEUE_CLOSED

LEMMA AfterGetAllFacts ==
  ASSUME NEW I, NEW s \in SyncQueueType(I)
  PROVE  /\ AfterGetAll(s) \in SyncQueueType(I)
         /\ AfterGetAll(s).closed = s.closed
         /\ AfterGetAll(s).items = << >>
         /\ AfterGetAll(s).fd = IF s.items = << >> THEN s.fd ELSE 0
<1> DEFINE n == IF s.items = << >> THEN s.fd ELSE 0
<1>1. /\ s = [items |-> s.items, fd |-> s.fd, closed |-> s.closed]
      /\ s.fd \in Nat
      /\ s.closed \in BOOLEAN
  BY DEF SyncQueueType
<1>2. AfterGetAll(s) = [items |-> << >>, fd |-> n, closed |-> s.closed]
  BY <1>1 DEF AfterGetAll, IsEmptyQueue
<1>3. << >> \in Seq(I)
  BY EmptySeq
<1>4. n \in Nat
  BY <1>1
<1> QED
  BY <1>1, <1>2, <1>3, <1>4 DEF SyncQueueType

LEMMA AfterGetFacts ==
  ASSUME NEW I, NEW s \in SyncQueueType(I), ~IsEmptyQueue(s)
  PROVE  /\ AfterGet(s) \in SyncQueueType(I)
         /\ AfterGet(s).closed = s.closed
         /\ AfterGet(s).items = Tail(s.items)
         /\ AfterGet(s).fd = IF Len(s.items) = 1 THEN 0 ELSE s.fd
<1> DEFINE n == IF Len(s.items) = 1 THEN 0 ELSE s.fd
<1>1. /\ s = [items |-> s.items, fd |-> s.fd, closed |-> s.closed]
      /\ s.items \in Seq(I)
      /\ s.fd \in Nat
      /\ s.closed \in BOOLEAN
  BY DEF SyncQueueType
<1>2. AfterGet(s) = [items |-> Tail(s.items), fd |-> n, closed |-> s.closed]
  BY <1>1 DEF AfterGet
<1>3. Tail(s.items) \in Seq(I)
  BY <1>1, HeadTailProperties DEF IsEmptyQueue
<1>4. n \in Nat
  BY <1>1
<1> QED
  BY <1>1, <1>2, <1>3, <1>4 DEF SyncQueueType

-----------------------------------------------------------------------------
(* The inductive invariant adds to the invariants of SyncQueue where the   *)
(* consumer is when its own queue, or the discarded items, are not empty.  *)
ConsumerInv ==
  /\ (pc # "drain") => batch = << >>
  /\ (pc # "done") => discarded = << >>
  /\ q.closed <=> pc \in {"closed", "done"}

IInv ==
  /\ TypeOK
  /\ ConsumerInv
  /\ ReadyWhenNotEmpty
  /\ ReadyOnEmptyNeedsFailure
  /\ NothingAfterEmptying
  /\ EveryItemOnce

LEMMA InitIInv == Init => IInv
<1> SUFFICES ASSUME Init PROVE IInv
  OBVIOUS
<1> USE DEF Init
<1>1. << >> \in Seq(Item)
  BY EmptySeq
<1>2. TypeOK
  BY <1>1, SyncQueueAssumption
     DEF TypeOK, CreateQueue, SyncQueueType, QUEUE_OK
<1>3. ConsumerInv /\ ReadyWhenNotEmpty /\ NothingAfterEmptying
  BY DEF ConsumerInv, ReadyWhenNotEmpty, NothingAfterEmptying, CreateQueue, IsEmptyQueue
<1>4. ReadyOnEmptyNeedsFailure
  BY DEF ReadyOnEmptyNeedsFailure, CreateQueue, FdReady
<1>5. EveryItemOnce
  BY <1>1, ConcatEmptySeq DEF EveryItemOnce, CreateQueue
<1> QED
  BY <1>2, <1>3, <1>4, <1>5 DEF IInv

(* Moving one item from the head of a queue to the end of the one before   *)
(* it does not change their concatenation.                                 *)
LEMMA ShiftHead ==
  ASSUME NEW S, NEW s \in Seq(S), NEW t \in Seq(S), t # << >>
  PROVE  Append(s, Head(t)) \o Tail(t) = s \o t
<1>1. /\ Head(t) \in S
      /\ Tail(t) \in Seq(S)
      /\ Len(Tail(t)) = Len(t) - 1
      /\ \A i \in 1 .. Len(Tail(t)) : Tail(t)[i] = t[i + 1]
  BY HeadTailProperties
<1> QED
  BY <1>1

LEMMA AppendToSuffix ==
  ASSUME NEW S, NEW s \in Seq(S), NEW t \in Seq(S), NEW e \in S
  PROVE  s \o Append(t, e) = Append(s \o t, e)
<1>1. Append(s \o t, e) = (s \o t) \o <<e>> /\ Append(t, e) = t \o <<e>>
  BY AppendIsConcat, ConcatProperties
<1>2. <<e>> \in Seq(S)
  OBVIOUS
<1> QED
  BY <1>1, <1>2, ConcatAssociative

LEMMA PutStep ==
  ASSUME IInv, NEW p \in Producers, Put(p)
  PROVE  IInv'
<1> DEFINE item     == <<p, puts[p] + 1>>
           possible == IF failures < MaxFaults THEN Faults ELSE {}
<1>1. PICK out \in PutOutcomes(q, item, possible) :
        /\ q' = out.q
        /\ accepted' = IF out.ret = QUEUE_OK THEN Append(accepted, item) ELSE accepted
        /\ failures' = IF out.ret = QUEUE_FAILED THEN failures + 1 ELSE failures
  BY DEF Put
<1>2. /\ puts[p] < MaxPuts
      /\ puts' = [puts EXCEPT ![p] = @ + 1]
      /\ UNCHANGED <<pc, batch, delivered, discarded>>
  BY DEF Put, consumerVars
<1>3. /\ item \in Item
      /\ puts' \in [Producers -> 0 .. MaxPuts]
  BY <1>2, SyncQueueAssumption DEF IInv, TypeOK, Item
<1>4. q \in SyncQueueType(Item) /\ possible \in SUBSET PutFaults
  BY SyncQueueAssumption DEF IInv, TypeOK
<1>5. /\ q' \in SyncQueueType(Item)
      /\ q'.closed = q.closed
      /\ out.ret = QUEUE_OK => ~q.closed /\ q'.items = Append(q.items, item)
      /\ out.ret # QUEUE_OK => q'.items = q.items
      /\ out.ret = QUEUE_FAILED => possible # {}
      /\ (~IsEmptyQueue(q) => FdReady(q)) => (~IsEmptyQueue(q') => FdReady(q'))
      /\ (out.ret # QUEUE_FAILED /\ IsEmptyQueue(q')) => q'.fd = q.fd
  BY <1>1, <1>3, <1>4, PutOutcomeFacts
<1>6. TypeOK'
  <2>1. failures' \in 0 .. MaxFaults
    BY <1>1, <1>5, SyncQueueAssumption DEF IInv, TypeOK
  <2>2. accepted' \in Seq(Item)
    BY <1>1, <1>3 DEF IInv, TypeOK
  <2> QED
    BY <1>2, <1>3, <1>5, <2>1, <2>2 DEF IInv, TypeOK
<1>7. ConsumerInv'
  BY <1>2, <1>5 DEF IInv, ConsumerInv
<1>8. ReadyWhenNotEmpty'
  BY <1>5 DEF IInv, ReadyWhenNotEmpty
<1>9. NothingAfterEmptying'
  BY <1>1, <1>2, <1>5 DEF IInv, NothingAfterEmptying, ConsumerInv, IsEmptyQueue
<1>10. ReadyOnEmptyNeedsFailure'
  <2>1. CASE out.ret = QUEUE_FAILED
    BY <1>1, <2>1 DEF IInv, TypeOK, ReadyOnEmptyNeedsFailure
  <2>2. CASE out.ret = QUEUE_OK
    <3>1. q'.items # << >>
      BY <1>3, <1>5, <2>2 DEF IInv, TypeOK, SyncQueueType
    <3> QED
      BY <3>1 DEF ReadyOnEmptyNeedsFailure, IsEmptyQueue
  <2>3. CASE out.ret \notin {QUEUE_OK, QUEUE_FAILED}
    BY <1>1, <1>5, <2>3 DEF IInv, ReadyOnEmptyNeedsFailure, IsEmptyQueue, FdReady
  <2> QED
    BY <2>1, <2>2, <2>3
<1>11. EveryItemOnce'
  <2> DEFINE before == delivered \o batch
  <2>1. /\ before \in Seq(Item) /\ q.items \in Seq(Item)
        /\ accepted = before \o q.items \o discarded
    BY DEF IInv, EveryItemOnce, TypeOK, SyncQueueType
  <2>2. CASE out.ret = QUEUE_OK
    <3>1. pc # "done" /\ discarded = << >>
      BY <1>5, <2>2 DEF IInv, ConsumerInv
    <3>2. accepted = before \o q.items
      BY <2>1, <3>1, ConcatEmptySeq, ConcatProperties
    <3>3. before \o Append(q.items, item) = Append(before \o q.items, item)
      <4> HIDE DEF item, before
      <4> QED
        BY <1>3, <2>1, AppendToSuffix
    <3>4. before \o Append(q.items, item) \o << >> = before \o Append(q.items, item)
      BY <1>3, <2>1
    <3> QED
      BY <1>1, <1>2, <1>5, <2>2, <3>1, <3>2, <3>3, <3>4 DEF EveryItemOnce
  <2>3. CASE out.ret # QUEUE_OK
    BY <1>1, <1>2, <1>5, <2>1, <2>3 DEF EveryItemOnce
  <2> QED
    BY <2>2, <2>3
<1> QED
  BY <1>6, <1>7, <1>8, <1>9, <1>10, <1>11 DEF IInv

LEMMA GetAllStep ==
  ASSUME IInv, GetAll
  PROVE  IInv'
<1> USE DEF IInv, GetAll
<1>1. /\ q \in SyncQueueType(Item)
      /\ q' \in SyncQueueType(Item)
      /\ q'.closed = q.closed
      /\ q'.items = << >>
      /\ q'.fd = IF q.items = << >> THEN q.fd ELSE 0
  BY AfterGetAllFacts DEF TypeOK
<1>2. TypeOK'
  BY <1>1 DEF TypeOK, SyncQueueType
<1>3. ConsumerInv' /\ ReadyWhenNotEmpty' /\ NothingAfterEmptying'
  BY <1>1 DEF ConsumerInv, ReadyWhenNotEmpty, NothingAfterEmptying, IsEmptyQueue
<1>4. ReadyOnEmptyNeedsFailure'
  BY <1>1 DEF ReadyOnEmptyNeedsFailure, IsEmptyQueue, FdReady
<1>5. EveryItemOnce'
  <2>1. batch = << >> /\ delivered \in Seq(Item) /\ q.items \in Seq(Item)
    BY <1>1 DEF ConsumerInv, TypeOK, SyncQueueType
  <2>2. delivered \o batch \o q.items = delivered \o q.items \o << >>
    BY <2>1, ConcatEmptySeq, ConcatProperties
  <2> QED
    BY <1>1, <2>1, <2>2 DEF EveryItemOnce
<1> QED
  BY <1>2, <1>3, <1>4, <1>5

LEMMA GetOneStep ==
  ASSUME IInv, GetOne
  PROVE  IInv'
<1> USE DEF IInv
<1>1. CASE IsEmptyQueue(q)
  BY <1>1 DEF GetOne, TypeOK, ConsumerInv, ReadyWhenNotEmpty, ReadyOnEmptyNeedsFailure,
              NothingAfterEmptying, EveryItemOnce
<1>2. CASE ~IsEmptyQueue(q)
  <2>1. /\ q \in SyncQueueType(Item)
        /\ q.items \in Seq(Item) /\ q.items # << >>
        /\ Head(q.items) \in Item
        /\ Tail(q.items) \in Seq(Item)
        /\ Len(Tail(q.items)) = Len(q.items) - 1
    BY <1>2, HeadTailProperties DEF TypeOK, SyncQueueType, IsEmptyQueue
  <2>2. /\ pc = "poll" /\ FdReady(q)
        /\ delivered' = Append(delivered, Head(q.items))
        /\ q' = AfterGet(q)
        /\ UNCHANGED <<puts, failures, accepted, pc, batch, discarded>>
    BY <1>2 DEF GetOne
  <2>3. /\ q' \in SyncQueueType(Item)
        /\ q'.closed = q.closed
        /\ q'.items = Tail(q.items)
        /\ q'.fd = IF Len(q.items) = 1 THEN 0 ELSE q.fd
    BY <1>2, <2>1, <2>2, AfterGetFacts
  <2>4. TypeOK'
    BY <2>1, <2>2, <2>3 DEF TypeOK
  <2>5. ConsumerInv' /\ NothingAfterEmptying'
    BY <2>2, <2>3 DEF ConsumerInv, NothingAfterEmptying
  <2>6. q'.items = << >> <=> Len(q.items) = 1
    <3>1. ASSUME q'.items # << >> PROVE Len(q.items) # 1
      <4>1. Len(Tail(q.items)) # 0
        BY <2>1, <2>3, <3>1, EmptySeq
      <4> QED
        BY <2>1, <4>1
    <3>2. ASSUME q'.items = << >> PROVE Len(q.items) = 1
      <4>1. Len(Tail(q.items)) = 0
        BY <2>3, <3>2, EmptySeq
      <4> QED
        BY <2>1, <4>1, LenProperties
    <3> QED
      BY <3>1, <3>2
  <2>7. ReadyWhenNotEmpty' /\ ReadyOnEmptyNeedsFailure'
    BY <2>2, <2>3, <2>6 DEF ReadyWhenNotEmpty, ReadyOnEmptyNeedsFailure, IsEmptyQueue, FdReady
  <2>8. EveryItemOnce'
    <3>1. batch = << >> /\ discarded = << >> /\ delivered \in Seq(Item)
      BY <2>2 DEF ConsumerInv, TypeOK
    <3>2. Append(delivered, Head(q.items)) \o Tail(q.items) = delivered \o q.items
      BY <2>1, <3>1, ShiftHead
    <3>3. Append(delivered, Head(q.items)) \o << >> = Append(delivered, Head(q.items))
      BY <2>1, <3>1
    <3> QED
      BY <2>2, <2>3, <3>1, <3>2, <3>3, ConcatEmptySeq DEF EveryItemOnce
  <2> QED
    BY <2>4, <2>5, <2>7, <2>8
<1> QED
  BY <1>1, <1>2

LEMMA DrainItemStep ==
  ASSUME IInv, DrainItem
  PROVE  IInv'
<1> USE DEF IInv, DrainItem
<1>1. /\ Head(batch) \in Item
      /\ Tail(batch) \in Seq(Item)
      /\ delivered \in Seq(Item) /\ batch \in Seq(Item)
  BY HeadTailProperties DEF TypeOK
<1>2. TypeOK'
  BY <1>1 DEF TypeOK
<1>3. ConsumerInv' /\ ReadyWhenNotEmpty' /\ ReadyOnEmptyNeedsFailure' /\ NothingAfterEmptying'
  BY DEF ConsumerInv, ReadyWhenNotEmpty, ReadyOnEmptyNeedsFailure, NothingAfterEmptying
<1>4. EveryItemOnce'
  <2>1. Append(delivered, Head(batch)) \o Tail(batch) = delivered \o batch
    BY <1>1, ShiftHead
  <2> QED
    BY <2>1, Zenon DEF EveryItemOnce
<1> QED
  BY <1>2, <1>3, <1>4

LEMMA EmptyQueueStep ==
  ASSUME IInv, EmptyQueue
  PROVE  IInv'
<1> USE DEF IInv, EmptyQueue
<1>1. /\ q \in SyncQueueType(Item)
      /\ q' \in SyncQueueType(Item)
      /\ q'.closed = q.closed
      /\ q'.items = << >>
      /\ q'.fd = IF q.items = << >> THEN q.fd ELSE 0
  BY AfterGetAllFacts DEF TypeOK
<1>2. TypeOK'
  BY <1>1 DEF TypeOK, SyncQueueType
<1>3. ConsumerInv' /\ ReadyWhenNotEmpty' /\ NothingAfterEmptying'
  BY <1>1 DEF ConsumerInv, ReadyWhenNotEmpty, NothingAfterEmptying, IsEmptyQueue
<1>4. ReadyOnEmptyNeedsFailure'
  BY <1>1 DEF ReadyOnEmptyNeedsFailure, IsEmptyQueue, FdReady
<1>5. EveryItemOnce'
  <2>1. /\ batch = << >> /\ discarded = << >>
        /\ delivered \in Seq(Item) /\ q.items \in Seq(Item)
    BY <1>1 DEF ConsumerInv, TypeOK, SyncQueueType
  <2>2. delivered \o << >> \o q.items \o << >> = delivered \o << >> \o << >> \o q.items
    BY <2>1, ConcatEmptySeq, ConcatProperties
  <2> QED
    BY <1>1, <2>1, <2>2 DEF EveryItemOnce
<1> QED
  BY <1>2, <1>3, <1>4, <1>5

LEMMA NextIInv == IInv /\ [Next]_vars => IInv'
<1> SUFFICES ASSUME IInv, [Next]_vars PROVE IInv'
  OBVIOUS
<1> USE DEF TypeOK, ConsumerInv, ReadyWhenNotEmpty, ReadyOnEmptyNeedsFailure,
            NothingAfterEmptying, EveryItemOnce
<1>1. CASE \E p \in Producers : Put(p)
  BY <1>1, PutStep
<1>2. CASE GetAll
  BY <1>2, GetAllStep
<1>3. CASE GetOne
  BY <1>3, GetOneStep
<1>4. CASE DrainItem
  BY <1>4, DrainItemStep
<1>5. CASE DrainEnd
  BY <1>5 DEF IInv, DrainEnd
<1>6. CASE EmptyQueue
  BY <1>6, EmptyQueueStep
<1>7. CASE Close
  BY <1>7 DEF IInv, Close, CloseQueue, SyncQueueType, IsEmptyQueue, FdReady
<1>8. CASE UNCHANGED vars
  BY <1>8 DEF IInv, vars
<1> QED
  BY <1>1, <1>2, <1>3, <1>4, <1>5, <1>6, <1>7, <1>8 DEF Next, Consume

LEMMA SpecIInv == Spec => []IInv
  BY InitIInv, NextIInv, PTL DEF Spec

-----------------------------------------------------------------------------
(* Type correctness of the queue and of the threads around it.             *)
THEOREM SyncQueueTypeOK == Spec => []TypeOK
  BY SpecIInv, PTL DEF IInv

(* No wake-up is lost: whatever the number of producers and whichever puts *)
(* fail, the fd of a queue that holds an item is ready                     *)
(* (sccp_sync_queue_put_no_lock, sccp_sync_queue_get_all_no_lock).         *)
THEOREM NoLostWakeUp == Spec => []ReadyWhenNotEmpty
  BY SpecIInv, PTL DEF IInv

(* A ready fd on an empty queue comes from a put that failed, and from     *)
(* nothing else.                                                           *)
THEOREM SpuriousWakeUpNeedsFailure == Spec => []ReadyOnEmptyNeedsFailure
  BY SpecIInv, PTL DEF IInv

(* The fd of the queue is ready when it has to be, and only then.          *)
THEOREM FdIsRight == Spec => []FdFollowsQueue
  BY NoLostWakeUp, SpuriousWakeUpNeedsFailure, PTL DEF FdFollowsQueue

(* Items are handled exactly once, in the order in which they were put.    *)
THEOREM FifoExactlyOnce == Spec => []EveryItemOnce
  BY SpecIInv, PTL DEF IInv

(* After its owner has emptied it, a closed queue stays empty.             *)
THEOREM ClosedQueueStaysEmpty == Spec => []NothingAfterEmptying
  BY SpecIInv, PTL DEF IInv

(* Nothing that was accepted is lost, handled twice or left over.          *)
THEOREM ItemsAreHandledOnce == Spec => []ItemsOnce
  BY FifoExactlyOnce, ClosedQueueStaysEmpty, PTL DEF ItemsOnce

-----------------------------------------------------------------------------
(* Refinement of ItemChannel: its state is the consumer's batch followed   *)
(* by the queue, and the complement of the closed flag.                    *)
LEMMA InitChannel == Init => Channel!Init
<1> SUFFICES ASSUME Init PROVE Channel!Init
  OBVIOUS
<1>1. << >> \o << >> = << >>
  BY EmptySeq, ConcatEmptySeq
<1> QED
  BY <1>1 DEF Init, Channel!Init, CreateQueue

LEMMA PutIsSend ==
  ASSUME IInv, NEW p \in Producers, Put(p)
  PROVE  [Channel!Next]_Channel!vars
<1> DEFINE item     == <<p, puts[p] + 1>>
           possible == IF failures < MaxFaults THEN Faults ELSE {}
<1>1. PICK out \in PutOutcomes(q, item, possible) : q' = out.q
  BY DEF Put
<1>2. item \in Item /\ batch' = batch /\ batch \in Seq(Item) /\ q.items \in Seq(Item)
  BY SyncQueueAssumption DEF Put, consumerVars, IInv, TypeOK, Item, SyncQueueType
<1>3. q \in SyncQueueType(Item) /\ possible \in SUBSET PutFaults
  BY SyncQueueAssumption DEF IInv, TypeOK
<1>4. /\ q'.closed = q.closed
      /\ out.ret = QUEUE_OK => ~q.closed /\ q'.items = Append(q.items, item)
      /\ out.ret # QUEUE_OK => q'.items = q.items
  BY <1>1, <1>2, <1>3, PutOutcomeFacts
<1>5. CASE out.ret = QUEUE_OK
  <2>1. batch \o Append(q.items, item) = Append(batch \o q.items, item)
    <3> HIDE DEF item
    <3> QED
      BY <1>2, AppendToSuffix
  <2>2. Channel!Send(item)
    BY <1>2, <1>4, <1>5, <2>1 DEF Channel!Send
  <2> QED
    BY <1>2, <2>2 DEF Channel!Next
<1>6. CASE out.ret # QUEUE_OK
  BY <1>2, <1>4, <1>6 DEF Channel!vars
<1> QED
  BY <1>5, <1>6

LEMMA ConsumerRefines ==
  ASSUME IInv, Consume \/ Close
  PROVE  [Channel!Next]_Channel!vars
<1>1. /\ q \in SyncQueueType(Item)
      /\ q.items \in Seq(Item) /\ batch \in Seq(Item)
      /\ (pc # "drain") => batch = << >>
      /\ q.closed <=> pc \in {"closed", "done"}
  BY DEF IInv, TypeOK, ConsumerInv, SyncQueueType
<1>2. CASE GetAll
  <2>1. batch = << >> /\ batch' = q.items /\ q'.items = << >> /\ q'.closed = q.closed
    BY <1>1, <1>2, AfterGetAllFacts DEF GetAll
  <2>2. q.items \o << >> = << >> \o q.items
    BY <1>1, ConcatEmptySeq
  <2> QED
    BY <2>1, <2>2 DEF Channel!vars
<1>3. CASE GetOne
  <2>1. CASE IsEmptyQueue(q)
    BY <1>3, <2>1 DEF GetOne, Channel!vars
  <2>2. CASE ~IsEmptyQueue(q)
    <3>1. /\ batch = << >> /\ batch' = batch
          /\ q'.items = Tail(q.items) /\ q'.closed = q.closed
      BY <1>1, <1>3, <2>2, AfterGetFacts DEF GetOne
    <3>2. << >> \o q.items = q.items /\ << >> \o Tail(q.items) = Tail(q.items)
      BY <1>1, <2>2, HeadTailProperties, ConcatEmptySeq DEF IsEmptyQueue
    <3>3. Channel!Take
      BY <2>2, <3>1, <3>2 DEF Channel!Take, IsEmptyQueue
    <3> QED
      BY <3>3 DEF Channel!Next
  <2> QED
    BY <2>1, <2>2
<1>4. CASE DrainItem
  <2>1. batch # << >> /\ batch' = Tail(batch) /\ q' = q
    BY <1>4 DEF DrainItem
  <2>2. /\ Tail(batch) \o q.items = Tail(batch \o q.items)
        /\ batch \o q.items # << >>
    BY <1>1, <2>1, HeadTailProperties, ConcatProperties, EmptySeq
  <2>3. Channel!Take
    BY <2>1, <2>2 DEF Channel!Take
  <2> QED
    BY <2>3 DEF Channel!Next
<1>5. CASE DrainEnd
  BY <1>5 DEF DrainEnd, Channel!vars
<1>6. CASE EmptyQueue
  <2>1. /\ batch = << >> /\ batch' = batch /\ q.closed
        /\ q'.items = << >> /\ q'.closed = q.closed
    BY <1>1, <1>6, AfterGetAllFacts DEF EmptyQueue
  <2>2. << >> \o << >> = << >>
    BY EmptySeq, ConcatEmptySeq
  <2>3. Channel!Discard
    BY <2>1, <2>2 DEF Channel!Discard
  <2> QED
    BY <2>3 DEF Channel!Next
<1>7. CASE Close
  <2>1. q'.items = q.items /\ q'.closed = TRUE /\ batch' = batch
    BY <1>1, <1>7 DEF Close, CloseQueue, SyncQueueType
  <2>2. Channel!Close
    BY <2>1 DEF Channel!Close
  <2> QED
    BY <2>2 DEF Channel!Next
<1> QED
  BY <1>2, <1>3, <1>4, <1>5, <1>6, <1>7 DEF Consume

(* The safety part of ImplementsChannel: every step of the threads is a    *)
(* step of the abstract channel or leaves it unchanged.                    *)
THEOREM QueueImplementsChannel == Spec => Channel!Init /\ [][Channel!Next]_Channel!vars
<1>1. IInv /\ [Next]_vars => [Channel!Next]_Channel!vars
  <2> SUFFICES ASSUME IInv, [Next]_vars PROVE [Channel!Next]_Channel!vars
    OBVIOUS
  <2>1. CASE \E p \in Producers : Put(p)
    BY <2>1, PutIsSend
  <2>2. CASE Consume \/ Close
    BY <2>2, ConsumerRefines
  <2>3. CASE UNCHANGED vars
    BY <2>3 DEF vars, Channel!vars
  <2> QED
    BY <2>1, <2>2, <2>3 DEF Next
<1> QED
  BY <1>1, InitChannel, SpecIInv, PTL DEF Spec
=============================================================================
