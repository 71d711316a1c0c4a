---------------------------- MODULE SessionProofs ----------------------------
(***************************************************************************)
(* What a session promises for any buffer, any messages and any delays.    *)
(***************************************************************************)
EXTENDS Session, SequenceTheorems, TLAPS

-----------------------------------------------------------------------------
(* The operators of TaskRunnerOps.                                         *)

(* The delays are tasks' delays, and the tasks those of the session. *)
LEMMA DelayType ==
  /\ \A t \in Tasks : Delay[t] \in 0 .. MaxDelay
  /\ Delay["keepalive"] = KeepAlive /\ KeepAlive \in 0 .. MaxDelay
  /\ {"auth", "keepalive", "call"} = Tasks
  /\ MaxDelay \in Nat /\ MaxOoms \in Nat
BY SessionAssumption, TaskRunnerAssumption
   DEF Delay, SessionAssumption, TaskRunnerAssumption

(* The fields of a task runner. *)
LEMMA RunnerFacts ==
  ASSUME NEW r \in RunnerType
  PROVE  /\ r.list \in SUBSET Tasks /\ r.heap \in SUBSET Tasks
         /\ r.left \in [Tasks -> 0 .. MaxDelay]
BY DEF RunnerType

(* What sccp_task_runner_add does to a task runner. *)
LEMMA AddEffect ==
  ASSUME NEW r \in RunnerType, NEW t \in Tasks, NEW delay \in 0 .. MaxDelay
  PROVE  /\ Added(r, t, delay) \in RunnerType
         /\ r.list = r.heap => Added(r, t, delay).list = Added(r, t, delay).heap
         /\ t \in Added(r, t, delay).list
         /\ Added(r, t, delay).heap = r.heap \cup {t}
         /\ Added(r, t, delay).left = [r.left EXCEPT ![t] = delay]
BY RunnerFacts DEF Added, RunnerType

(* What sccp_task_runner_remove does to a task runner. *)
LEMMA RemoveEffect ==
  ASSUME NEW r \in RunnerType, NEW t \in Tasks
  PROVE  LET o == sccp_task_runner_remove(r, t)
         IN  /\ o \in RunnerType
             /\ r.list = r.heap => o.list = o.heap
             /\ o.heap = r.heap \ {t}
             /\ o.left = [r.left EXCEPT ![t] = 0]
BY TaskRunnerAssumption DEF sccp_task_runner_remove, RunnerType, TaskRunnerAssumption

(* What a tick of the clock does to a task runner. *)
LEMMA TickEffect ==
  ASSUME NEW r \in RunnerType
  PROVE  LET o == Ticked(r)
         IN  /\ o \in RunnerType
             /\ o.list = r.list /\ o.heap = r.heap
             /\ o.left = [t \in Tasks |-> IF r.left[t] > 0 THEN r.left[t] - 1 ELSE 0]
<1> DEFINE l == [t \in Tasks |-> IF r.left[t] > 0 THEN r.left[t] - 1 ELSE 0]
<1>1. Ticked(r) = [list |-> r.list, heap |-> r.heap, left |-> l]
  BY DEF Ticked, RunnerType
<1>2. l \in [Tasks -> 0 .. MaxDelay]
  BY RunnerFacts, TaskRunnerAssumption DEF TaskRunnerAssumption
<1> QED
  BY <1>1, <1>2, RunnerFacts DEF RunnerType

(* Arming a task, now that the number of failures is known: it is armed,   *)
(* or there is one failure more.                                           *)
LEMMA ArmEffect ==
  ASSUME ooms \in 0 .. MaxOoms,
         NEW r \in RunnerType, NEW t \in Tasks, SetTasks(Arm(r, t), t)
  PROVE  /\ tasks' \in RunnerType
         /\ r.list = r.heap => tasks'.list = tasks'.heap
         /\ ooms' \in 0 .. MaxOoms
         /\ \/ t \notin tasks'.list /\ tasks' = r /\ ooms' = ooms + 1
            \/ /\ tasks'.heap = r.heap \cup {t} /\ ooms' = ooms
               /\ tasks'.left = [r.left EXCEPT ![t] = Delay[t]]
<1>1. PICK o \in AddOutcomes(r, t, Delay[t], ooms < MaxOoms) :
        tasks' = o /\ ooms' = IF t \in o.list THEN ooms ELSE ooms + 1
  BY DEF SetTasks, Arm, Count, Known
<1>2. o = Added(r, t, Delay[t]) \/ (o = r /\ t \notin r.list /\ ooms < MaxOoms)
  BY DEF AddOutcomes, Known
<1>3. Delay[t] \in 0 .. MaxDelay
  BY DelayType
<1>4. CASE o = Added(r, t, Delay[t])
  BY <1>1, <1>3, <1>4, AddEffect
<1>5. CASE o = r /\ t \notin r.list /\ ooms < MaxOoms
  BY <1>1, <1>5, DelayType
<1> QED
  BY <1>2, <1>4, <1>5

-----------------------------------------------------------------------------
(* The operators of DeserializerOps.                                       *)

(* Every message is sent with at least one byte, also a malformed one. *)
LEMMA LenPositive ==
  \A c \in Claims : TotalLen(c) \in Nat /\ SentLen(c) \in Nat \ {0}
BY DeserializerAssumption DEF TotalLen, SentLen, IsMalformed, DeserializerAssumption

(* The bytes of a message, and their number. *)
LEMMA BytesOfType ==
  ASSUME NEW c \in Claims
  PROVE  /\ BytesOf(c) \in Seq(Byte)
         /\ Len(BytesOf(c)) = SentLen(c)
         /\ \A k \in 1 .. SentLen(c) : BytesOf(c)[k] = [claim |-> c, pos |-> k]
<1>1. SentLen(c) \in Nat \ {0}
  BY LenPositive
<1>2. \A k \in 1 .. SentLen(c) : [claim |-> c, pos |-> k] \in Byte
  BY <1>1 DEF Byte
<1>3. BytesOf(c) \in [1 .. SentLen(c) -> Byte]
  BY <1>2 DEF BytesOf
<1>4. BytesOf(c) \in Seq(Byte)
  BY <1>1, <1>3, SeqDef
<1> QED
  BY <1>1, <1>3, <1>4 DEF BytesOf

(* The buffer does not run over. *)
Fits(d) == d.start + Len(d.bytes) <= BufSize

(* Reading no more than there is room for does not overrun the buffer. *)
LEMMA FilledType ==
  ASSUME NEW d \in DeserializerType, NEW bytes \in Seq(Byte),
         Len(bytes) <= BytesLeft(d)
  PROVE  /\ Filled(d, bytes) \in DeserializerType /\ Fits(Filled(d, bytes))
         /\ Filled(d, bytes).bytes = d.bytes \o bytes
<1>1. /\ d.start \in 0 .. BufSize /\ d.bytes \in Seq(Byte)
      /\ d = [start |-> d.start, bytes |-> d.bytes]
  BY DEF DeserializerType
<1>a. Filled(d, bytes) = [start |-> d.start, bytes |-> d.bytes \o bytes]
  BY DEF Filled
<1>2. d.bytes \o bytes \in Seq(Byte) /\ Len(d.bytes \o bytes) = Len(d.bytes) + Len(bytes)
  BY <1>1, ConcatProperties
<1>3. Len(d.bytes) \in Nat /\ Len(bytes) \in Nat
  BY <1>1
<1> QED
  BY <1>1, <1>a, <1>2, <1>3, DeserializerAssumption
     DEF DeserializerType, Fits, BytesLeft, DeserializerAssumption

(* A message that is taken is at the start of the buffer, and whole. *)
LEMMA PopEffect ==
  ASSUME NEW d \in DeserializerType, Fits(d),
         sccp_deserializer_pop(d).code = "MSG"
  PROVE  /\ d.bytes # << >> /\ d.bytes[1] \in Byte
         /\ TotalLen(d.bytes[1].claim) \in 1 .. Len(d.bytes)
         /\ ~IsMalformed(d.bytes[1].claim)
         /\ sccp_deserializer_pop(d).d \in DeserializerType
         /\ Fits(sccp_deserializer_pop(d).d)
         /\ sccp_deserializer_pop(d).d.bytes =
              SubSeq(d.bytes, TotalLen(d.bytes[1].claim) + 1, Len(d.bytes))
<1> DEFINE total == TotalLen(d.bytes[1].claim)
           rest == SubSeq(d.bytes, total + 1, Len(d.bytes))
<1>0. MinTotal \in Nat \ {0} /\ BufSize \in Nat
  BY DeserializerAssumption DEF DeserializerAssumption
<1>1. d.start \in 0 .. BufSize /\ d.bytes \in Seq(Byte) /\ Len(d.bytes) \in Nat
  BY DEF DeserializerType
<1>2. ~(Len(d.bytes) < MinTotal \/ Len(d.bytes) < TotalLen(Head(d.bytes).claim))
  BY DEF sccp_deserializer_pop, Popped
<1>3. d.bytes # << >> /\ Head(d.bytes) = d.bytes[1] /\ d.bytes[1] \in Byte
  BY <1>0, <1>1, <1>2
<1>4. total \in Nat
  BY <1>3, LenPositive DEF Byte
<1>5. ~IsMalformed(d.bytes[1].claim) /\ sccp_deserializer_pop(d).d = After(d, total)
  BY <1>2, <1>3 DEF sccp_deserializer_pop, Popped
<1>6. total \in 1 .. Len(d.bytes)
  BY <1>0, <1>1, <1>2, <1>3, <1>4, <1>5 DEF IsMalformed
<1>7. /\ rest \in Seq(Byte)
      /\ Len(rest) = Len(d.bytes) - total
  <2>1. \A i \in total + 1 .. Len(d.bytes) : d.bytes[i] \in Byte
    BY <1>1, <1>6
  <2> QED
    BY <1>1, <1>6, <2>1, SubSeqProperties
<1> DEFINE popped == sccp_deserializer_pop(d).d
<1>8. CASE total = Len(d.bytes)
  <2>1. After(d, total) = [start |-> 0, bytes |-> << >>] /\ rest = << >>
    BY <1>1, <1>7, <1>8 DEF After, sccp_deserializer_init
  <2>2. 0 \in 0 .. BufSize /\ << >> \in Seq(Byte) /\ Len(<< >>) = 0
    BY <1>0, EmptySeq
  <2> HIDE DEF total, rest
  <2>3. popped \in DeserializerType /\ Fits(popped) /\ popped.bytes = rest
    BY <1>0, <1>5, <2>1, <2>2 DEF DeserializerType, Fits
  <2> QED
    BY <1>3, <1>5, <1>6, <2>3 DEF total, rest
<1>9. CASE total # Len(d.bytes)
  <2>1. After(d, total) = [start |-> d.start + total, bytes |-> rest]
    BY <1>9 DEF After
  <2>2. d.start + Len(d.bytes) <= BufSize
    BY DEF Fits
  <2> HIDE DEF total, rest
  <2>3. d.start + total \in 0 .. BufSize /\ d.start + total + Len(rest) <= BufSize
    BY <1>0, <1>1, <1>6, <1>7, <2>2
  <2>4. popped \in DeserializerType /\ Fits(popped) /\ popped.bytes = rest
    BY <1>5, <1>7, <2>1, <2>3 DEF DeserializerType, Fits
  <2> QED
    BY <1>3, <1>5, <1>6, <2>4 DEF total, rest
<1> QED
  BY <1>8, <1>9

-----------------------------------------------------------------------------
(* The timers.                                                             *)

(* The types of what the timers depend on. *)
SimpleType ==
  /\ pc \in {"start", "poll", "tasks", "queue", "sock", "pop", "end", "done"}
  /\ sockReady \in BOOLEAN /\ stop \in BOOLEAN /\ eof \in BOOLEAN
  /\ tasks \in RunnerType
  /\ device \in {"none", "working", "connlost"}
  /\ ooms \in 0 .. MaxOoms /\ ran \in SUBSET Tasks /\ quiet \in 0 .. MaxDelay

(* The types of the queue, the socket and the buffer. *)
StreamType ==
  /\ queue \in Seq({"noop", "reload"}) /\ unread \in Seq(Byte)
  /\ dzer \in DeserializerType /\ Fits(dzer)

(* The session goes on: it will not end before it waits for events again.  *)
GoesOn == pc \notin {"start", "end", "done"} /\ ~(pc = "tasks" /\ stop)

(* What is known to the task runner is in its heap. *)
ListIsHeap == tasks.list = tasks.heap

(* A callback is only remembered while tasks are run. *)
RanIsNow == ran # {} => pc = "tasks"

(* The first timer is armed by the thread of the session. *)
NoTimerAtStart == pc = "start" => tasks.heap = {} /\ device = "none"

(* The authentication timer only without a device, the keep-alive timer    *)
(* only with one.                                                          *)
OnlyItsTimer ==
  pc # "done" => /\ "auth" \in tasks.heap => device = "none"
                 /\ "keepalive" \in tasks.heap => device # "none"

(* A session that goes on has the timer that its state calls for. *)
HasItsTimer ==
  (GoesOn /\ ooms = 0) => IF device = "none" THEN "auth" \in tasks.heap
                                             ELSE "keepalive" \in tasks.heap

(* Nothing is on its way that would re-arm the timer before tasks are run. *)
NothingComes == pc = "tasks" \/ (unread = << >> /\ ~eof)

(* The time that is left and the silence so far make the whole delay. *)
KeepAliveCovers ==
  ("keepalive" \in tasks.heap /\ NothingComes) => tasks.left["keepalive"] + quiet >= KeepAlive

(* The part of the invariant about the timers. *)
TimerInv ==
  /\ SimpleType /\ ListIsHeap /\ RanIsNow /\ NoTimerAtStart
  /\ OnlyItsTimer /\ HasItsTimer /\ KeepAliveCovers /\ DropIsJustified

(* A new session has no timer. *)
LEMMA TimerInit == Init => TimerInv
<1> SUFFICES ASSUME Init PROVE TimerInv
  OBVIOUS
<1>1. sccp_task_runner_create \in RunnerType
  BY DelayType DEF sccp_task_runner_create, RunnerType
<1>2. tasks.list = {} /\ tasks.heap = {}
  BY DEF Init, sccp_task_runner_create
<1>a. 0 \in 0 .. MaxDelay /\ 0 \in 0 .. MaxOoms
  BY DelayType
<1>b. tasks \in RunnerType /\ ran \in SUBSET Tasks /\ quiet = 0 /\ ooms = 0
  BY <1>1 DEF Init
<1>3. SimpleType
  BY <1>a, <1>b DEF Init, SimpleType
<1>4. ListIsHeap /\ RanIsNow /\ NoTimerAtStart /\ OnlyItsTimer /\ HasItsTimer
  BY <1>2 DEF Init, ListIsHeap, RanIsNow, NoTimerAtStart, OnlyItsTimer, GoesOn, HasItsTimer
<1>5. KeepAliveCovers /\ DropIsJustified
  BY <1>2 DEF Init, KeepAliveCovers, DropIsJustified
<1> QED
  BY <1>3, <1>4, <1>5 DEF TimerInv

(* A step that leaves the timers alone. *)
LEMMA TimerFrame ==
  ASSUME TimerInv, UNCHANGED <<tasks, device, ooms, ran, quiet>>,
         \/ pc' = pc
         \/ pc # "done" /\ pc' = "end" /\ ran = {}
         \/ pc \in {"poll", "queue", "sock", "pop"} /\ pc' \in {"poll", "queue", "sock"},
         sockReady' \in BOOLEAN, stop' \in BOOLEAN, eof' \in BOOLEAN, stop => stop',
         (unread' = << >> /\ ~eof') => (unread = << >> /\ ~eof)
  PROVE  TimerInv'
<1> USE DEF TimerInv
<1>1. SimpleType'
  BY DEF SimpleType
<1>2. ListIsHeap' /\ RanIsNow' /\ NoTimerAtStart' /\ OnlyItsTimer'
  BY DEF SimpleType, ListIsHeap, RanIsNow, NoTimerAtStart, OnlyItsTimer
<1>3. HasItsTimer'
  BY DEF SimpleType, GoesOn, HasItsTimer
<1>4. KeepAliveCovers'
  BY DEF NothingComes, KeepAliveCovers
<1>5. DropIsJustified'
  BY DEF DropIsJustified
<1> QED
  BY <1>1, <1>2, <1>3, <1>4, <1>5

(* The phone sends: the silence is over unless tasks are being run. *)
LEMMA PhoneSendsTimers == TimerInv /\ StreamType /\ PhoneSends => TimerInv'
<1> SUFFICES ASSUME TimerInv, StreamType, PhoneSends PROVE TimerInv'
  OBVIOUS
<1> USE DEF TimerInv, PhoneSends
<1>1. PICK claim \in Claims : unread' = unread \o BytesOf(claim)
  OBVIOUS
<1>2. unread' # << >>
  <2>1. BytesOf(claim) \in Seq(Byte) /\ Len(BytesOf(claim)) \in Nat \ {0}
    BY BytesOfType, LenPositive
  <2>2. unread \in Seq(Byte)
    BY DEF StreamType
  <2> QED
    BY <1>1, <2>1, <2>2, ConcatProperties
<1>3. quiet \in 0 .. MaxDelay /\ quiet' \in 0 .. MaxDelay /\ (pc = "tasks" => quiet' = quiet)
  BY DelayType DEF SimpleType
<1>4. SimpleType'
  BY <1>3 DEF SimpleType
<1>5. ListIsHeap' /\ RanIsNow' /\ NoTimerAtStart' /\ OnlyItsTimer' /\ HasItsTimer'
  BY DEF ListIsHeap, RanIsNow, NoTimerAtStart, OnlyItsTimer, GoesOn, HasItsTimer
<1>6. KeepAliveCovers'
  BY <1>2, <1>3 DEF NothingComes, KeepAliveCovers
<1>7. DropIsJustified'
  BY <1>3 DEF RanIsNow, DropIsJustified
<1> QED
  BY <1>4, <1>5, <1>6, <1>7

(* What the keep-alive timer loses, the silence gains. *)
LEMMA TickTimers == TimerInv /\ Tick => TimerInv'
<1> SUFFICES ASSUME TimerInv, Tick PROVE TimerInv'
  OBVIOUS
<1> USE DEF TimerInv, Tick, net
<1>1. tasks \in RunnerType /\ quiet \in 0 .. MaxDelay
  BY DEF SimpleType
<1>2. /\ tasks' \in RunnerType /\ tasks'.list = tasks.list /\ tasks'.heap = tasks.heap
      /\ tasks'.left = [t \in Tasks |-> IF tasks.left[t] > 0 THEN tasks.left[t] - 1 ELSE 0]
  BY <1>1, TickEffect
<1>3. quiet' \in 0 .. MaxDelay /\ quiet' = IF quiet < MaxDelay THEN quiet + 1 ELSE quiet
  BY <1>1, DelayType
<1>4. SimpleType'
  BY <1>2, <1>3 DEF SimpleType
<1>5. ListIsHeap' /\ RanIsNow' /\ NoTimerAtStart' /\ OnlyItsTimer' /\ HasItsTimer'
  BY <1>2 DEF ListIsHeap, RanIsNow, NoTimerAtStart, OnlyItsTimer, GoesOn, HasItsTimer
<1>6. KeepAliveCovers'
  <2>1. "keepalive" \in Tasks /\ KeepAlive \in 0 .. MaxDelay
    BY DelayType
  <2>2. tasks.left["keepalive"] \in 0 .. MaxDelay
    BY <1>1, <2>1, RunnerFacts
  <2>3. tasks'.left["keepalive"] =
          IF tasks.left["keepalive"] > 0 THEN tasks.left["keepalive"] - 1 ELSE 0
    BY <1>2, <2>1
  <2>4. NothingComes' => NothingComes
    BY DEF NothingComes
  <2>5. tasks.left["keepalive"] + quiet >= KeepAlive =>
          tasks'.left["keepalive"] + quiet' >= KeepAlive
    <3> HIDE DEF Tick, TimerInv
    <3> QED
      BY <1>1, <1>3, <2>1, <2>2, <2>3, DelayType
  <2> QED
    BY <1>2, <2>4, <2>5 DEF KeepAliveCovers
<1>7. DropIsJustified'
  BY <1>1, <1>3, DelayType DEF DropIsJustified
<1> QED
  BY <1>4, <1>5, <1>6, <1>7

(* The session arms its first timer. *)
LEMMA StartTimers == TimerInv /\ add_auth_timeout_task => TimerInv'
<1> SUFFICES ASSUME TimerInv, add_auth_timeout_task PROVE TimerInv'
  OBVIOUS
<1> USE DEF TimerInv, add_auth_timeout_task, net
<1>1. tasks \in RunnerType /\ ooms \in 0 .. MaxOoms /\ "auth" \in Tasks /\ ran = {}
  BY DelayType DEF SimpleType, RanIsNow
<1>2. /\ tasks' \in RunnerType
      /\ tasks.list = tasks.heap => tasks'.list = tasks'.heap
      /\ ooms' \in 0 .. MaxOoms
      /\ \/ tasks' = tasks /\ ooms' = ooms + 1
         \/ tasks'.heap = tasks.heap \cup {"auth"} /\ ooms' = ooms
  BY <1>1, ArmEffect
<1>3. tasks.heap = {} /\ device = "none"
  BY DEF NoTimerAtStart
<1>4. SimpleType'
  BY <1>2 DEF SimpleType
<1>5. ListIsHeap' /\ RanIsNow' /\ NoTimerAtStart' /\ OnlyItsTimer' /\ KeepAliveCovers'
  BY <1>1, <1>2, <1>3
     DEF ListIsHeap, RanIsNow, NoTimerAtStart, OnlyItsTimer, KeepAliveCovers
<1>6. HasItsTimer'
  BY <1>1, <1>2, <1>3 DEF GoesOn, HasItsTimer
<1>7. DropIsJustified'
  BY <1>1 DEF DropIsJustified
<1> QED
  BY <1>4, <1>5, <1>6, <1>7

(* Tasks are run only when nothing is on its way. *)
LEMMA TimesOutTimers == TimerInv /\ PollTimesOut => TimerInv'
<1> SUFFICES ASSUME TimerInv, PollTimesOut PROVE TimerInv'
  OBVIOUS
<1> USE DEF TimerInv, PollTimesOut, net
<1>1. unread = << >> /\ ~eof /\ ran = {}
  BY DEF Readable, RanIsNow
<1>2. SimpleType' /\ ListIsHeap' /\ RanIsNow' /\ NoTimerAtStart' /\ OnlyItsTimer'
  BY <1>1 DEF SimpleType, ListIsHeap, RanIsNow, NoTimerAtStart, OnlyItsTimer
<1>3. HasItsTimer' /\ KeepAliveCovers' /\ DropIsJustified'
  BY <1>1 DEF GoesOn, HasItsTimer, NothingComes, KeepAliveCovers, DropIsJustified
<1> QED
  BY <1>2, <1>3

(* A task runs: the session stops, or the task is not a timer of its own. *)
LEMMA RunTimers == TimerInv /\ sccp_task_runner_run => TimerInv'
<1> SUFFICES ASSUME TimerInv, sccp_task_runner_run PROVE TimerInv'
  OBVIOUS
<1> USE DEF TimerInv, sccp_task_runner_run, net
<1>1. CASE Due(tasks) = {}
  <2>1. SimpleType' /\ ListIsHeap' /\ RanIsNow' /\ NoTimerAtStart' /\ OnlyItsTimer'
    BY <1>1 DEF SimpleType, ListIsHeap, RanIsNow, NoTimerAtStart, OnlyItsTimer
  <2>2. HasItsTimer' /\ KeepAliveCovers' /\ DropIsJustified'
    BY <1>1 DEF GoesOn, HasItsTimer, NothingComes, KeepAliveCovers, DropIsJustified
  <2> QED
    BY <2>1, <2>2
<1>2. ASSUME Due(tasks) # {} PROVE TimerInv'
  <2>1. PICK t \in Due(tasks) :
          /\ tasks' = sccp_task_runner_remove(tasks, t)
          /\ Callback(t) /\ ran' = {t} /\ pc' = pc
    BY <1>2
  <2>2. tasks \in RunnerType
    BY DEF SimpleType
  <2>3. t \in Tasks /\ t \in tasks.heap /\ tasks.left[t] = 0
    BY <2>1, <2>2, RunnerFacts DEF Due
  <2>4. /\ tasks' \in RunnerType
        /\ tasks.list = tasks.heap => tasks'.list = tasks'.heap
        /\ tasks'.heap = tasks.heap \ {t}
        /\ tasks'.left = [tasks.left EXCEPT ![t] = 0]
    BY <2>1, <2>2, <2>3, RemoveEffect
  <2>5. /\ t = "auth" => stop' = TRUE
        /\ t = "keepalive" => stop' = TRUE
        /\ t \notin {"auth", "keepalive"} => stop' = stop
    BY <2>1 DEF Callback
  <2>6. SimpleType'
    BY <2>1, <2>3, <2>4, <2>5, DelayType DEF SimpleType
  <2>7. ListIsHeap' /\ RanIsNow' /\ NoTimerAtStart' /\ OnlyItsTimer'
    BY <2>1, <2>4 DEF ListIsHeap, RanIsNow, NoTimerAtStart, OnlyItsTimer
  <2>8. HasItsTimer'
    BY <2>1, <2>4, <2>5 DEF SimpleType, GoesOn, HasItsTimer
  <2>9. KeepAliveCovers'
    <3>1. "keepalive" # t => tasks'.left["keepalive"] = tasks.left["keepalive"]
      BY <2>2, <2>4, RunnerFacts, DelayType
    <3> QED
      BY <2>1, <2>4, <3>1 DEF NothingComes, KeepAliveCovers
  <2>10. DropIsJustified'
    <3>1. quiet \in 0 .. MaxDelay
      BY DEF SimpleType
    <3> QED
      BY <2>1, <2>3, <3>1 DEF OnlyItsTimer, NothingComes, KeepAliveCovers, DropIsJustified
  <2> QED
    BY <2>6, <2>7, <2>8, <2>9, <2>10
<1> QED
  BY <1>1, <1>2

(* Data arms the keep-alive timer again. *)
LEMMA ReadDataTimers == TimerInv /\ ReadData => TimerInv'
<1> SUFFICES ASSUME TimerInv, ReadData PROVE TimerInv'
  OBVIOUS
<1> USE DEF TimerInv, ReadData
<1>1. /\ pc = "sock" /\ pc' = "pop" /\ ran = {} /\ ran' = {}
      /\ UNCHANGED <<sockReady, stop, eof, device, quiet>>
  BY DEF RanIsNow
<1>2. tasks \in RunnerType /\ ooms \in 0 .. MaxOoms /\ quiet \in 0 .. MaxDelay
  BY DEF SimpleType
<1>3. CASE device = "none"
  <2>1. UNCHANGED <<tasks, ooms>> /\ "keepalive" \notin tasks'.heap
    BY <1>1, <1>3 DEF OnlyItsTimer
  <2> QED
    BY <1>1, <1>3, <2>1
       DEF SimpleType, ListIsHeap, RanIsNow, NoTimerAtStart, OnlyItsTimer, GoesOn, HasItsTimer,
           KeepAliveCovers, DropIsJustified
<1>4. CASE device # "none"
  <2>1. /\ tasks' \in RunnerType
        /\ tasks.list = tasks.heap => tasks'.list = tasks'.heap
        /\ ooms' \in 0 .. MaxOoms
        /\ \/ "keepalive" \notin tasks'.list /\ tasks' = tasks /\ ooms' = ooms + 1
           \/ /\ tasks'.heap = tasks.heap \cup {"keepalive"} /\ ooms' = ooms
              /\ tasks'.left = [tasks.left EXCEPT !["keepalive"] = KeepAlive]
    BY <1>2, <1>4, ArmEffect, DelayType
  <2>2. SimpleType' /\ ListIsHeap' /\ RanIsNow' /\ NoTimerAtStart' /\ DropIsJustified'
    BY <1>1, <2>1 DEF SimpleType, ListIsHeap, RanIsNow, NoTimerAtStart, DropIsJustified
  <2>3. OnlyItsTimer' /\ HasItsTimer'
    BY <1>1, <1>2, <1>4, <2>1 DEF OnlyItsTimer, GoesOn, HasItsTimer
  <2>4. "keepalive" \in tasks'.heap => tasks'.left["keepalive"] = KeepAlive
    <3>1. "keepalive" \in Tasks /\ tasks.left \in [Tasks -> 0 .. MaxDelay]
      BY <1>2, RunnerFacts, DelayType
    <3> QED
      BY <2>1, <2>2, <3>1 DEF ListIsHeap
  <2>5. KeepAliveCovers'
    BY <1>1, <1>2, <2>4, DelayType DEF KeepAliveCovers
  <2> QED
    BY <2>2, <2>3, <2>5
<1> QED
  BY <1>3, <1>4

(* The messages of the phone: registration, and the device's own timer.    *)
LEMMA RegisteredTimers ==
  ASSUME TimerInv, UNCHANGED <<pc, ran, sockReady, stop, unread, eof, quiet>>, pc = "pop",
         device = "none", device' = "working",
         SetTasks(Arm(sccp_task_runner_remove(tasks, "auth"), "keepalive"), "keepalive")
  PROVE  TimerInv'
<1> USE DEF TimerInv
<1>1. /\ tasks \in RunnerType /\ ooms \in 0 .. MaxOoms /\ quiet \in 0 .. MaxDelay
      /\ {"auth", "keepalive"} \subseteq Tasks
  BY DelayType DEF SimpleType
<1>2. PICK r \in RunnerType :
        /\ r = sccp_task_runner_remove(tasks, "auth")
        /\ tasks.list = tasks.heap => r.list = r.heap
        /\ r.heap = tasks.heap \ {"auth"}
  BY <1>1, RemoveEffect
<1>3. /\ tasks' \in RunnerType
      /\ r.list = r.heap => tasks'.list = tasks'.heap
      /\ ooms' \in 0 .. MaxOoms
      /\ \/ "keepalive" \notin tasks'.list /\ tasks' = r /\ ooms' = ooms + 1
         \/ /\ tasks'.heap = r.heap \cup {"keepalive"} /\ ooms' = ooms
            /\ tasks'.left = [r.left EXCEPT !["keepalive"] = KeepAlive]
  BY <1>1, <1>2, ArmEffect, DelayType
<1>4. SimpleType' /\ ListIsHeap' /\ RanIsNow' /\ NoTimerAtStart' /\ DropIsJustified'
  BY <1>2, <1>3 DEF SimpleType, ListIsHeap, RanIsNow, NoTimerAtStart, DropIsJustified
<1>5. OnlyItsTimer' /\ HasItsTimer'
  BY <1>1, <1>2, <1>3 DEF OnlyItsTimer, GoesOn, HasItsTimer
<1>6. "keepalive" \in tasks'.heap => tasks'.left["keepalive"] = KeepAlive
  <2>1. "keepalive" \in Tasks /\ r.left \in [Tasks -> 0 .. MaxDelay]
    BY <1>1, RunnerFacts
  <2> QED
    BY <1>3, <1>4, <2>1 DEF ListIsHeap
<1>7. KeepAliveCovers'
  BY <1>1, <1>6, DelayType DEF KeepAliveCovers
<1> QED
  BY <1>4, <1>5, <1>7

(* A timer of the device does not touch those of the session. *)
LEMMA OtherTaskTimers ==
  ASSUME TimerInv, UNCHANGED <<pc, ran, sockReady, stop, device, unread, eof, quiet>>, pc = "pop",
         tasks' \in RunnerType, tasks.list = tasks.heap => tasks'.list = tasks'.heap,
         ooms' \in 0 .. MaxOoms, ooms' = 0 => ooms = 0,
         tasks'.heap \ {"call"} = tasks.heap \ {"call"},
         tasks'.left["keepalive"] = tasks.left["keepalive"]
  PROVE  TimerInv'
<1> USE DEF TimerInv
<1>1. SimpleType' /\ ListIsHeap' /\ RanIsNow' /\ NoTimerAtStart' /\ DropIsJustified'
  BY DEF SimpleType, ListIsHeap, RanIsNow, NoTimerAtStart, DropIsJustified
<1>2. /\ "auth" \in tasks'.heap <=> "auth" \in tasks.heap
      /\ "keepalive" \in tasks'.heap <=> "keepalive" \in tasks.heap
  OBVIOUS
<1>3. OnlyItsTimer' /\ HasItsTimer'
  BY <1>2 DEF OnlyItsTimer, GoesOn, HasItsTimer
<1>4. KeepAliveCovers'
  BY <1>2 DEF NothingComes, KeepAliveCovers
<1> QED
  BY <1>1, <1>3, <1>4

(* A message is handled. *)
LEMMA HandleMsgTimers == TimerInv /\ HandleMsg => TimerInv'
<1> SUFFICES ASSUME TimerInv, HandleMsg PROVE TimerInv'
  OBVIOUS
<1>1. /\ pc = "pop" /\ ran = {} /\ UNCHANGED <<pc, ran, sockReady, unread, eof, quiet>>
      /\ tasks \in RunnerType /\ ooms \in 0 .. MaxOoms
      /\ {"call", "keepalive"} \subseteq Tasks
      /\ tasks.left \in [Tasks -> 0 .. MaxDelay]
      /\ stop \in BOOLEAN /\ sockReady \in BOOLEAN /\ eof \in BOOLEAN
  BY DelayType, RunnerFacts DEF HandleMsg, TimerInv, SimpleType, RanIsNow, net
<1>2. CASE UNCHANGED <<device, tasks, ooms>> /\ (stop' = stop \/ stop' = TRUE)
  BY <1>1, <1>2, TimerFrame
<1>3. CASE /\ device = "none" /\ device' = "working" /\ UNCHANGED stop
           /\ SetTasks(Arm(sccp_task_runner_remove(tasks, "auth"), "keepalive"), "keepalive")
  BY <1>1, <1>3, RegisteredTimers
<1>4. CASE UNCHANGED <<stop, device>> /\ SetTasks(Arm(tasks, "call"), "call")
  <2>1. /\ tasks' \in RunnerType
        /\ tasks.list = tasks.heap => tasks'.list = tasks'.heap
        /\ ooms' \in 0 .. MaxOoms
        /\ \/ tasks' = tasks /\ ooms' = ooms + 1
           \/ /\ tasks'.heap = tasks.heap \cup {"call"} /\ ooms' = ooms
              /\ tasks'.left = [tasks.left EXCEPT !["call"] = Delay["call"]]
    BY <1>1, <1>4, ArmEffect
  <2>2. tasks'.left["keepalive"] = tasks.left["keepalive"]
    BY <1>1, <2>1
  <2> QED
    BY <1>1, <1>4, <2>1, <2>2, OtherTaskTimers
<1>5. CASE tasks' = sccp_task_runner_remove(tasks, "call") /\ UNCHANGED <<stop, device, ooms>>
  <2>1. /\ tasks' \in RunnerType
        /\ tasks.list = tasks.heap => tasks'.list = tasks'.heap
        /\ tasks'.heap = tasks.heap \ {"call"}
        /\ tasks'.left = [tasks.left EXCEPT !["call"] = 0]
    BY <1>1, <1>5, RemoveEffect
  <2>2. tasks'.left["keepalive"] = tasks.left["keepalive"]
    BY <1>1, <2>1
  <2> QED
    BY <1>1, <1>5, <2>1, <2>2, OtherTaskTimers
<1> QED
  BY <1>2, <1>3, <1>4, <1>5 DEF HandleMsg, handle_msg_register, device_handle_msg

(* The session ends, or is about to. *)
LEMMA EndTimers == TimerInv /\ (EndSession \/ ReadEof) => TimerInv'
<1> SUFFICES ASSUME TimerInv, EndSession \/ ReadEof PROVE TimerInv'
  OBVIOUS
<1> USE DEF TimerInv
<1>1. CASE EndSession
  BY <1>1
     DEF EndSession, net, SimpleType, ListIsHeap, RanIsNow, NoTimerAtStart, OnlyItsTimer, GoesOn,
         HasItsTimer, NothingComes, KeepAliveCovers, DropIsJustified
<1>2. CASE ReadEof
  BY <1>2
     DEF ReadEof, StopNow, net, SimpleType, ListIsHeap, RanIsNow, NoTimerAtStart, OnlyItsTimer,
         GoesOn, HasItsTimer, NothingComes, KeepAliveCovers, DropIsJustified
<1> QED
  BY <1>1, <1>2

(* Every step preserves the part of the invariant about the timers. *)
LEMMA TimerStep == TimerInv /\ StreamType /\ [Next]_vars => TimerInv'
<1> SUFFICES ASSUME TimerInv, StreamType, [Next]_vars PROVE TimerInv'
  OBVIOUS
<1>a. /\ stop \in BOOLEAN /\ sockReady \in BOOLEAN /\ eof \in BOOLEAN
      /\ pc # "tasks" => ran = {}
  BY DEF TimerInv, SimpleType, RanIsNow
<1>1. CASE PhoneSends
  BY <1>1, PhoneSendsTimers
<1>2. CASE PhoneCloses
  BY <1>2, <1>a, TimerFrame DEF PhoneCloses
<1>3. CASE Tick
  BY <1>3, TickTimers
<1>4. CASE Stop \/ TransmitFails \/ Reload
  BY <1>4, <1>a, TimerFrame DEF Stop, TransmitFails, Reload, net
<1>5. CASE PollFails
  BY <1>5, <1>a, TimerFrame DEF PollFails, net
<1>6. CASE add_auth_timeout_task
  BY <1>6, StartTimers
<1>7. CASE PollEvents
  <2>1. /\ pc = "poll" /\ pc' \in {"queue", "sock", "end"} /\ sockReady' \in BOOLEAN
        /\ UNCHANGED <<tasks, device, ooms, ran, quiet, stop, unread, eof>>
    BY <1>7 DEF PollEvents, Readable, net
  <2> QED
    BY <2>1, <1>a, TimerFrame
<1>8. CASE PollTimesOut
  BY <1>8, TimesOutTimers
<1>9. CASE sccp_task_runner_run
  BY <1>9, RunTimers
<1>10. CASE on_queue_events
  <2>1. /\ pc = "queue" /\ pc' \in {"poll", "sock", "end"} /\ ran' = ran
        /\ UNCHANGED <<tasks, device, ooms, quiet, sockReady, unread, eof>>
        /\ stop' \in BOOLEAN /\ (stop => stop')
    BY <1>10, <1>a DEF on_queue_events, net
  <2> QED
    BY <2>1, <1>a, TimerFrame
<1>11. CASE ReadData
  BY <1>11, ReadDataTimers
<1>12. CASE ReadFails \/ Malformed
  BY <1>12, <1>a, TimerFrame DEF ReadFails, Malformed, StopNow, net
<1>13. CASE HandleMsg
  BY <1>13, HandleMsgTimers
<1>14. CASE NoMsg
  BY <1>14, <1>a, TimerFrame DEF NoMsg, net
<1>15. CASE EndSession \/ ReadEof
  BY <1>15, EndTimers
<1>16. CASE UNCHANGED vars
  BY <1>16, <1>a, TimerFrame DEF vars
<1> QED
  BY <1>1, <1>2, <1>3, <1>4, <1>5, <1>6, <1>7, <1>8, <1>9, <1>10, <1>11, <1>12, <1>13, <1>14,
     <1>15, <1>16 DEF Next, SessionThread

-----------------------------------------------------------------------------
(* The queue and the buffer.                                               *)

(* What is put into the queue. *)
SentType == {"noop", "reload"}

(* The pieces into which a read cuts the bytes in the socket. *)
LEMMA SubSeqType ==
  ASSUME NEW S, NEW s \in Seq(S), NEW n \in 0 .. Len(s)
  PROVE  /\ SubSeq(s, 1, n) \in Seq(S) /\ Len(SubSeq(s, 1, n)) = n
         /\ \A i \in 1 .. n : SubSeq(s, 1, n)[i] = s[i]
         /\ SubSeq(s, n + 1, Len(s)) \in Seq(S) /\ Len(SubSeq(s, n + 1, Len(s))) = Len(s) - n
         /\ \A i \in 1 .. Len(s) - n : SubSeq(s, n + 1, Len(s))[i] = s[n + i]
<1>1. Len(s) \in Nat /\ (\A i \in 1 .. n : s[i] \in S) /\ (\A i \in n + 1 .. Len(s) : s[i] \in S)
  OBVIOUS
<1>2. /\ SubSeq(s, 1, n) \in Seq(S)
      /\ Len(SubSeq(s, 1, n)) = IF 1 <= n THEN n - 1 + 1 ELSE 0
      /\ \A i \in 1 .. n - 1 + 1 : SubSeq(s, 1, n)[i] = s[1 + i - 1]
  BY <1>1, SubSeqProperties
<1>3. /\ SubSeq(s, n + 1, Len(s)) \in Seq(S)
      /\ Len(SubSeq(s, n + 1, Len(s))) = IF n + 1 <= Len(s) THEN Len(s) - (n + 1) + 1 ELSE 0
      /\ \A i \in 1 .. Len(s) - (n + 1) + 1 : SubSeq(s, n + 1, Len(s))[i] = s[n + 1 + i - 1]
  BY <1>1, SubSeqProperties
<1> QED
  BY <1>1, <1>2, <1>3

(* Every step preserves the types of the queue, the socket and the buffer. *)
LEMMA StreamStep == StreamType /\ [Next]_vars => StreamType'
<1> SUFFICES ASSUME StreamType, [Next]_vars PROVE StreamType'
  OBVIOUS
<1>a. queue \in Seq(SentType) /\ unread \in Seq(Byte) /\ dzer \in DeserializerType /\ Fits(dzer)
  BY DEF StreamType, SentType
<1>b. << >> \in Seq(SentType) /\ \A m \in SentType : Append(queue, m) \in Seq(SentType)
  BY <1>a, EmptySeq, AppendProperties
<1>c. queue' \in Seq(SentType)
  BY <1>a, <1>b
     DEF Next, SessionThread, vars, net, PhoneSends, PhoneCloses, Tick, Stop, TransmitFails, Reload,
         PollFails, add_auth_timeout_task, PollEvents, PollTimesOut, sccp_task_runner_run, Callback,
         on_queue_events, ReadData, ReadEof, ReadFails, HandleMsg, handle_msg_register,
         device_handle_msg, NoMsg, Malformed, EndSession, StopNow, SentType
<1>d. CASE PhoneSends
  <2>1. PICK claim \in Claims : unread' = unread \o BytesOf(claim)
    BY <1>d DEF PhoneSends
  <2>2. unread' \in Seq(Byte)
    BY <1>a, <2>1, BytesOfType, ConcatProperties
  <2> QED
    BY <1>a, <1>c, <1>d, <2>2 DEF PhoneSends, StreamType, SentType
<1>e. CASE PhoneCloses
  <2>1. PICK n \in 0 .. Len(unread) : unread' = SubSeq(unread, 1, n)
    BY <1>e DEF PhoneCloses
  <2>2. unread' \in Seq(Byte)
    BY <1>a, <2>1, SubSeqType
  <2> QED
    BY <1>a, <1>c, <1>e, <2>2 DEF PhoneCloses, StreamType, SentType
<1>f. CASE ReadData
  <2>1. PICK n \in 1 .. Len(unread) :
          /\ n <= BytesLeft(dzer)
          /\ dzer' = Filled(dzer, SubSeq(unread, 1, n))
          /\ unread' = SubSeq(unread, n + 1, Len(unread))
    BY <1>f DEF ReadData
  <2>2. /\ SubSeq(unread, 1, n) \in Seq(Byte) /\ Len(SubSeq(unread, 1, n)) = n
        /\ unread' \in Seq(Byte)
    BY <1>a, <2>1, SubSeqType
  <2>3. dzer' \in DeserializerType /\ Fits(dzer')
    BY <1>a, <2>1, <2>2, FilledType
  <2> QED
    BY <1>c, <2>2, <2>3 DEF StreamType, SentType
<1>g. CASE HandleMsg
  <2>1. /\ sccp_deserializer_pop(dzer).code = "MSG"
        /\ dzer' = sccp_deserializer_pop(dzer).d /\ unread' = unread
    BY <1>g DEF HandleMsg, net
  <2>2. dzer' \in DeserializerType /\ Fits(dzer')
    BY <1>a, <2>1, PopEffect
  <2> QED
    BY <1>a, <1>c, <2>1, <2>2 DEF StreamType, SentType
<1>h. CASE UNCHANGED <<unread, dzer>>
  BY <1>a, <1>c, <1>h DEF StreamType, SentType, Fits
<1> QED
  BY <1>d, <1>e, <1>f, <1>g, <1>h
     DEF Next, SessionThread, vars, net, Tick, Stop, TransmitFails, Reload, PollFails,
         add_auth_timeout_task, PollEvents, PollTimesOut, sccp_task_runner_run, on_queue_events,
         ReadEof, ReadFails, NoMsg, Malformed, EndSession

(* After the buffer was emptied of messages, none is left in it until the  *)
(* socket is read again.                                                   *)
BufferInv ==
  pc \in {"start", "poll", "tasks", "queue", "sock"} => sccp_deserializer_pop(dzer).code = "NOMSG"

(* The empty buffer holds no message. *)
LEMMA BufferInit == Init => BufferInv
<1> SUFFICES ASSUME Init PROVE sccp_deserializer_pop(dzer).code = "NOMSG"
  BY DEF BufferInv
<1>1. Len(dzer.bytes) < MinTotal
  BY EmptySeq, DeserializerAssumption
     DEF Init, sccp_deserializer_init, DeserializerAssumption
<1> QED
  BY <1>1 DEF sccp_deserializer_pop, Popped

(* The session goes back to poll only when the buffer holds no message. *)
LEMMA BufferStep == SimpleType /\ BufferInv /\ [Next]_vars => BufferInv'
BY DEF SimpleType, BufferInv, Next, SessionThread, vars, net, PhoneSends, PhoneCloses, Tick, Stop,
       TransmitFails, Reload, PollFails, add_auth_timeout_task, PollEvents, PollTimesOut,
       sccp_task_runner_run, on_queue_events, ReadData, ReadEof, ReadFails, HandleMsg, NoMsg,
       Malformed, EndSession, StopNow

-----------------------------------------------------------------------------
(* The stream: bytes in the buffer, and then in the socket.                *)

(* Every byte belongs to a message whose first byte is in the stream, and  *)
(* every first byte is followed by the rest of its message.                *)
Belongs(s, i) ==
  /\ s[i].pos <= i /\ s[i].pos <= SentLen(s[i].claim)
  /\ s[i - s[i].pos + 1].pos = 1 /\ s[i - s[i].pos + 1].claim = s[i].claim

(* The j-th byte of the message that starts at i, if it is there. *)
Follows(s, i, j) ==
  i + j - 1 <= Len(s) => s[i + j - 1].pos = j /\ s[i + j - 1].claim = s[i].claim

(* The stream is whole messages but for the end of the last one. *)
Whole(s) ==
  \A i \in 1 .. Len(s) :
    /\ Belongs(s, i)
    /\ s[i].pos = 1 => \A j \in 1 .. SentLen(s[i].claim) : Follows(s, i, j)

(* The last message has been sent to its end.                              *)
Finished(s) == s # << >> => s[Len(s)].pos = SentLen(s[Len(s)].claim)

(* A byte of the stream, and the place of its message's first byte. *)
LEMMA ByteFacts ==
  ASSUME NEW s \in Seq(Byte)
  PROVE  /\ Len(s) \in Nat
         /\ \A i \in 1 .. Len(s) : /\ s[i].claim \in Claims /\ s[i].pos \in Nat \ {0}
                                  /\ SentLen(s[i].claim) \in Nat \ {0}
<1>1. ASSUME NEW i \in 1 .. Len(s) PROVE s[i].claim \in Claims /\ s[i].pos \in Nat \ {0}
  <2>1. s[i] \in Byte
    BY ElementOfSeq
  <2> QED
    BY <2>1 DEF Byte
<1> QED
  BY <1>1, LenPositive

(* A connection may end anywhere: what came before is still whole          *)
(* messages.                                                               *)
LEMMA PrefixWhole ==
  ASSUME NEW s \in Seq(Byte), Whole(s), NEW n \in 0 .. Len(s)
  PROVE  Whole(SubSeq(s, 1, n))
<1> DEFINE p == SubSeq(s, 1, n)
<1>1. p \in Seq(Byte) /\ Len(p) = n /\ \A i \in 1 .. n : p[i] = s[i]
  BY SubSeqType
<1> HIDE DEF p
<1>2. SUFFICES ASSUME NEW i \in 1 .. n
               PROVE  /\ Belongs(p, i)
                      /\ p[i].pos = 1 => \A j \in 1 .. SentLen(p[i].claim) : Follows(p, i, j)
  BY <1>1 DEF Whole, p
<1>3. i \in 1 .. Len(s) /\ p[i] = s[i] /\ s[i].pos \in Nat \ {0} /\ SentLen(s[i].claim) \in Nat
  BY <1>1, ByteFacts
<1>4. Belongs(p, i)
  <2>1. Belongs(s, i)
    BY <1>3 DEF Whole
  <2>2. i - s[i].pos + 1 \in 1 .. n
    BY <1>3, <2>1 DEF Belongs
  <2> QED
    BY <1>1, <1>3, <2>1, <2>2 DEF Belongs
<1>5. ASSUME p[i].pos = 1, NEW j \in 1 .. SentLen(p[i].claim), i + j - 1 <= n
      PROVE  p[i + j - 1].pos = j /\ p[i + j - 1].claim = p[i].claim
  <2>1. Follows(s, i, j)
    BY <1>3, <1>5 DEF Whole
  <2>2. i + j - 1 \in 1 .. n /\ i + j - 1 <= Len(s)
    BY <1>3, <1>5
  <2> QED
    BY <1>1, <1>3, <2>1, <2>2 DEF Follows
<1> QED
  BY <1>1, <1>4, <1>5 DEF Follows

(* Where the first byte of a byte's message is. *)
LEMMA BelongsMeans ==
  ASSUME NEW s, NEW i, NEW p, NEW c, s[i].pos = p, s[i].claim = c, Belongs(s, i)
  PROVE  p <= i /\ p <= SentLen(c) /\ s[i - p + 1].pos = 1 /\ s[i - p + 1].claim = c
BY DEF Belongs

(* Without its first message the stream still starts with a message. *)
LEMMA SuffixWhole ==
  ASSUME NEW s \in Seq(Byte), Whole(s), s # << >>, SentLen(s[1].claim) <= Len(s)
  PROVE  Whole(SubSeq(s, SentLen(s[1].claim) + 1, Len(s)))
<1> DEFINE n == SentLen(s[1].claim)
           r == SubSeq(s, n + 1, Len(s))
<1>1. Len(s) \in Nat \ {0} /\ n \in 1 .. Len(s)
  BY ByteFacts, EmptySeq
<1>2. /\ r \in Seq(Byte) /\ Len(r) = Len(s) - n
      /\ \A i \in 1 .. Len(s) - n : r[i] = s[n + i]
  BY <1>1, SubSeqType
<1>3. s[1].pos = 1 /\ \A j \in 1 .. n : s[j].pos = j /\ s[j].claim = s[1].claim
  <2>1. s[1].pos = 1
    <3>1. s[1].pos \in Nat \ {0} /\ 1 \in 1 .. Len(s)
      BY <1>1, ByteFacts
    <3>2. s[1].pos <= 1
      BY <3>1, Zenon DEF Whole, Belongs
    <3> QED
      BY <3>1, <3>2
  <2>2. ASSUME NEW j \in 1 .. n PROVE s[j].pos = j /\ s[j].claim = s[1].claim
    <3>1. Follows(s, 1, j)
      BY <1>1, <2>1, <2>2 DEF Whole
    <3> QED
      BY <1>1, <2>2, <3>1 DEF Follows
  <2> QED
    BY <2>1, <2>2
<1> HIDE DEF n, r
<1>4. SUFFICES ASSUME NEW i \in 1 .. Len(s) - n
               PROVE  /\ Belongs(r, i)
                      /\ r[i].pos = 1 => \A j \in 1 .. SentLen(r[i].claim) : Follows(r, i, j)
  BY <1>2 DEF Whole, n, r
<1>5. /\ n + i \in 1 .. Len(s) /\ r[i] = s[n + i]
      /\ s[n + i].pos \in Nat \ {0} /\ SentLen(s[n + i].claim) \in Nat
  BY <1>1, <1>2, ByteFacts
<1>6. Belongs(r, i)
  <2>0. PICK m \in 1 .. Len(s) : m = n + i
    BY <1>5
  <2>1. PICK p \in Nat \ {0} : p = s[m].pos
    BY <1>5, <2>0
  <2>2. PICK c : c = s[m].claim
    OBVIOUS
  <2>3. p <= m /\ p <= SentLen(c) /\ s[m - p + 1].pos = 1 /\ s[m - p + 1].claim = c
    <3>1. Belongs(s, m)
      BY DEF Whole
    <3> QED
      BY <2>1, <2>2, <3>1, BelongsMeans
  <2>4. n \in Nat \ {0} /\ i \in Nat \ {0} /\ i <= Len(s) - n /\ Len(s) \in Nat
    BY <1>1
  <2>5. p <= i
    <3>1. SUFFICES ASSUME m - p + 1 \in 1 .. n PROVE FALSE
      BY <2>0, <2>3, <2>4
    <3>2. m - p + 1 = 1 /\ c = s[1].claim
      BY <1>3, <2>3, <3>1
    <3>3. p <= n
      BY <2>3, <3>2 DEF n
    <3> QED
      BY <2>0, <2>4, <3>2, <3>3
  <2>6. i - p + 1 \in 1 .. Len(s) - n /\ n + (i - p + 1) = m - p + 1
    BY <2>0, <2>4, <2>5
  <2>7. r[i - p + 1].pos = 1 /\ r[i - p + 1].claim = c
    <3>1. r[i - p + 1] = s[n + (i - p + 1)]
      BY <1>2, <2>6
    <3> QED
      BY <2>3, <2>6, <3>1
  <2>8. r[i].pos = p /\ r[i].claim = c
    BY <1>5, <2>0, <2>1, <2>2
  <2> QED
    BY <2>3, <2>5, <2>7, <2>8, Zenon DEF Belongs
<1>7. ASSUME r[i].pos = 1, NEW j \in 1 .. SentLen(r[i].claim), i + j - 1 <= Len(s) - n
      PROVE  r[i + j - 1].pos = j /\ r[i + j - 1].claim = r[i].claim
  <2>1. Follows(s, n + i, j)
    BY <1>5, <1>7 DEF Whole
  <2>2. i + j - 1 \in 1 .. Len(s) - n /\ n + (i + j - 1) = n + i + j - 1 /\ n + i + j - 1 <= Len(s)
    BY <1>1, <1>5, <1>7
  <2> QED
    BY <1>2, <1>5, <2>1, <2>2 DEF Follows
<1> QED
  BY <1>2, <1>6, <1>7 DEF Follows

(* A message may follow one that has been sent to its end. *)
LEMMA AppendWhole ==
  ASSUME NEW s \in Seq(Byte), Whole(s), Finished(s), NEW c \in Claims
  PROVE  Whole(s \o BytesOf(c)) /\ Finished(s \o BytesOf(c))
<1> DEFINE m == Len(s)
           l == SentLen(c)
           t == s \o BytesOf(c)
<1>1. m \in Nat /\ l \in Nat \ {0}
  BY LenPositive
<1>2. /\ t \in Seq(Byte) /\ Len(t) = m + l
      /\ \A i \in 1 .. m : t[i] = s[i]
      /\ \A i \in 1 .. l : t[m + i].claim = c /\ t[m + i].pos = i
  <2>1. /\ BytesOf(c) \in Seq(Byte) /\ Len(BytesOf(c)) = l
        /\ \A k \in 1 .. l : BytesOf(c)[k] = [claim |-> c, pos |-> k]
    BY BytesOfType
  <2>2. /\ t \in Seq(Byte) /\ Len(t) = m + l
        /\ \A i \in 1 .. m + l : t[i] = IF i <= m THEN s[i] ELSE BytesOf(c)[i - m]
    BY <2>1, ConcatProperties
  <2>3. ASSUME NEW i \in 1 .. l PROVE t[m + i].claim = c /\ t[m + i].pos = i
    <3>1. m + i \in 1 .. m + l /\ ~(m + i <= m) /\ m + i - m = i
      BY <1>1
    <3>2. t[m + i] = [claim |-> c, pos |-> i]
      BY <2>1, <2>2, <3>1
    <3> HIDE DEF t
    <3> QED
      BY <3>2
  <2>4. ASSUME NEW i \in 1 .. m PROVE t[i] = s[i]
    BY <1>1, <2>2
  <2> HIDE DEF t, l
  <2>5. \A i \in 1 .. l : t[m + i].claim = c /\ t[m + i].pos = i
    BY <2>3
  <2> QED
    BY <2>2, <2>4, <2>5
<1> HIDE DEF l, t
<1>3. ASSUME NEW i \in 1 .. m
      PROVE  /\ Belongs(t, i)
             /\ t[i].pos = 1 => \A j \in 1 .. SentLen(t[i].claim) : Follows(t, i, j)
  <2>1. t[i] = s[i] /\ s[i].pos \in Nat \ {0} /\ SentLen(s[i].claim) \in Nat \ {0}
    BY <1>2, ByteFacts
  <2>2. Belongs(t, i)
    <3>1. Belongs(s, i)
      BY DEF Whole
    <3>2. i - s[i].pos + 1 \in 1 .. m
      BY <1>1, <2>1, <3>1 DEF Belongs
    <3> QED
      BY <1>2, <2>1, <3>1, <3>2 DEF Belongs
  <2>3. ASSUME s[i].pos = 1, NEW j \in 1 .. SentLen(s[i].claim)
        PROVE  i + j - 1 <= m /\ Follows(t, i, j)
    <3>1. \A h \in 1 .. SentLen(s[i].claim) : Follows(s, i, h)
      BY <2>3 DEF Whole
    <3>2. i + SentLen(s[i].claim) - 1 <= m
      <4>1. SUFFICES ASSUME m - i + 1 \in 1 .. SentLen(s[i].claim) PROVE m - i + 1 = SentLen(s[i].claim)
        BY <1>1, <2>1
      <4>2. Follows(s, i, m - i + 1)
        BY <3>1, <4>1
      <4>3. s[m].pos = m - i + 1 /\ s[m].claim = s[i].claim
        BY <1>1, <4>2 DEF Follows
      <4>4. s[m].pos = SentLen(s[m].claim)
        BY <1>1, EmptySeq DEF Finished
      <4> QED
        BY <4>3, <4>4
    <3>3. i + j - 1 \in 1 .. m
      BY <1>1, <2>1, <3>2
    <3> QED
      BY <1>2, <2>1, <3>1, <3>3 DEF Follows
  <2> QED
    BY <2>1, <2>2, <2>3
<1>4. ASSUME NEW i \in 1 .. l
      PROVE  /\ Belongs(t, m + i)
             /\ t[m + i].pos = 1 => \A j \in 1 .. SentLen(t[m + i].claim) : Follows(t, m + i, j)
  <2>1. t[m + i].claim = c /\ t[m + i].pos = i /\ t[m + 1].claim = c /\ t[m + 1].pos = 1
    BY <1>1, <1>2
  <2>2. Belongs(t, m + i)
    <3>1. m + i - i + 1 = m + 1
      BY <1>1
    <3> QED
      BY <1>1, <2>1, <3>1 DEF Belongs, l
  <2>3. ASSUME i = 1, NEW j \in 1 .. l PROVE Follows(t, m + i, j)
    <3>1. m + i + j - 1 = m + j
      BY <1>1, <2>3
    <3> QED
      BY <1>2, <2>1, <3>1 DEF Follows
  <2> QED
    BY <2>1, <2>2, <2>3 DEF l
<1>5. Whole(t)
  <2>1. SUFFICES ASSUME NEW i \in 1 .. m + l
                 PROVE  /\ Belongs(t, i)
                        /\ t[i].pos = 1 => \A j \in 1 .. SentLen(t[i].claim) : Follows(t, i, j)
    BY <1>2 DEF Whole
  <2>2. CASE i <= m
    BY <1>1, <1>3, <2>2
  <2>3. CASE i > m
    <3>1. i - m \in 1 .. l /\ m + (i - m) = i
      BY <1>1, <2>3
    <3> QED
      BY <1>4, <3>1
  <2> QED
    BY <1>1, <2>2, <2>3
<1>6. Finished(t)
  BY <1>1, <1>2 DEF Finished, l
<1> QED
  BY <1>5, <1>6 DEF t

(* Where every byte belongs to a message, the messages follow each other. *)
LEMMA WholeIsCut ==
  ASSUME NEW s \in Seq(Byte), Whole(s), NEW i \in 1 .. Len(s)
  PROVE  IF s[i].pos = 1
         THEN i > 1 => s[i - 1].pos = SentLen(s[i - 1].claim)
         ELSE i > 1 /\ s[i - 1] = [s[i] EXCEPT !.pos = @ - 1]
<1>1. /\ s[i].pos \in Nat \ {0} /\ SentLen(s[i].claim) \in Nat \ {0}
      /\ \A j \in 1 .. Len(s) : Belongs(s, j)
  BY ByteFacts DEF Whole
<1>2. CASE s[i].pos = 1 /\ i > 1
  <2> DEFINE p == s[i - 1].pos
  <2>1. /\ i - 1 \in 1 .. Len(s) /\ p \in Nat \ {0} /\ Belongs(s, i - 1)
        /\ SentLen(s[i - 1].claim) \in Nat
    BY <1>1, <1>2, ByteFacts
  <2>2. /\ p <= SentLen(s[i - 1].claim) /\ i - p \in 1 .. Len(s)
        /\ s[i - p].pos = 1 /\ s[i - p].claim = s[i - 1].claim
    <3>1. i - 1 - p + 1 = i - p
      BY <2>1
    <3> QED
      BY <2>1, <3>1 DEF Belongs
  <2>3. SUFFICES ASSUME p + 1 \in 1 .. SentLen(s[i - 1].claim) PROVE FALSE
    BY <1>2, <2>1, <2>2
  <2>4. Follows(s, i - p, p + 1)
    BY <2>2, <2>3 DEF Whole
  <2>5. i - p + (p + 1) - 1 = i
    BY <2>1
  <2>6. s[i].pos = p + 1
    BY <2>4, <2>5 DEF Follows
  <2> QED
    BY <1>2, <2>1, <2>6
<1>3. CASE s[i].pos # 1
  <2> DEFINE p == s[i].pos
  <2>1. /\ p \in Nat /\ p > 1 /\ p <= i /\ p <= SentLen(s[i].claim)
        /\ s[i - p + 1].pos = 1 /\ s[i - p + 1].claim = s[i].claim
    BY <1>1, <1>3 DEF Belongs
  <2>2. i - p + 1 \in 1 .. Len(s) /\ p - 1 \in 1 .. SentLen(s[i].claim)
    BY <1>1, <2>1
  <2>3. Follows(s, i - p + 1, p - 1)
    BY <2>1, <2>2 DEF Whole
  <2>4. i - p + 1 + (p - 1) - 1 = i - 1 /\ i - 1 \in 1 .. Len(s)
    BY <2>1
  <2>5. s[i - 1].pos = p - 1 /\ s[i - 1].claim = s[i].claim
    BY <2>1, <2>3, <2>4 DEF Follows
  <2>6. s[i - 1] \in Byte /\ s[i] \in Byte
    BY <2>4, ElementOfSeq
  <2>7. s[i - 1] = [s[i] EXCEPT !.pos = @ - 1]
    BY <2>5, <2>6 DEF Byte
  <2> QED
    BY <1>3, <2>1, <2>7
<1> QED
  BY <1>2, <1>3

(* Appending is associative. *)
LEMMA ConcatTwice ==
  ASSUME NEW b \in Seq(Byte), NEW u \in Seq(Byte), NEW v \in Seq(Byte)
  PROVE  (b \o u) \o v = b \o (u \o v)
BY ConcatAssociative

(* What is taken from the buffer is taken from the stream. *)
LEMMA ConcatSuffix ==
  ASSUME NEW b \in Seq(Byte), NEW u \in Seq(Byte), NEW n \in 0 .. Len(b)
  PROVE  SubSeq(b, n + 1, Len(b)) \o u = SubSeq(b \o u, n + 1, Len(b \o u))
<1> DEFINE x == SubSeq(b, n + 1, Len(b))
           y == SubSeq(b \o u, n + 1, Len(b \o u))
<1>1. Len(b) \in Nat /\ Len(u) \in Nat
  OBVIOUS
<1>2. /\ b \o u \in Seq(Byte) /\ Len(b \o u) = Len(b) + Len(u)
      /\ \A i \in 1 .. Len(b) + Len(u) : (b \o u)[i] = IF i <= Len(b) THEN b[i] ELSE u[i - Len(b)]
  BY ConcatProperties
<1>3. /\ x \in Seq(Byte) /\ Len(x) = Len(b) - n
      /\ \A i \in 1 .. Len(b) - n : x[i] = b[n + i]
  BY SubSeqType
<1>4. /\ x \o u \in Seq(Byte) /\ Len(x \o u) = Len(b) - n + Len(u)
      /\ \A i \in 1 .. Len(b) - n + Len(u) :
           (x \o u)[i] = IF i <= Len(b) - n THEN x[i] ELSE u[i - (Len(b) - n)]
  BY <1>3, ConcatProperties
<1>5. /\ y \in Seq(Byte) /\ Len(y) = Len(b) + Len(u) - n
      /\ \A i \in 1 .. Len(b) + Len(u) - n : y[i] = (b \o u)[n + i]
  <2>1. n \in 0 .. Len(b \o u)
    BY <1>1, <1>2
  <2> QED
    BY <1>2, <2>1, SubSeqType
<1> HIDE DEF x, y
<1>6. ASSUME NEW i \in 1 .. Len(b) + Len(u) - n PROVE (x \o u)[i] = y[i]
  <2>1. n + i \in 1 .. Len(b) + Len(u) /\ i \in 1 .. Len(b) - n + Len(u)
        /\ n + i - Len(b) = i - (Len(b) - n) /\ (n + i <= Len(b) <=> i <= Len(b) - n)
    BY <1>1
  <2>2. i <= Len(b) - n => x[i] = b[n + i]
    BY <1>1, <1>3
  <2>3. y[i] = IF n + i <= Len(b) THEN b[n + i] ELSE u[n + i - Len(b)]
    BY <1>2, <1>5, <2>1
  <2> QED
    BY <1>4, <2>1, <2>2, <2>3
<1>7. Len(x \o u) = Len(y) /\ \A i \in 1 .. Len(x \o u) : (x \o u)[i] = y[i]
  BY <1>1, <1>4, <1>5, <1>6
<1>8. x \o u = y
  BY <1>4, <1>5, <1>7, SeqEqual
<1> QED
  BY <1>8 DEF x, y

(* What the end of the connection cuts off, is cut off the stream. *)
LEMMA ConcatPrefix ==
  ASSUME NEW b \in Seq(Byte), NEW u \in Seq(Byte), NEW n \in 0 .. Len(u)
  PROVE  b \o SubSeq(u, 1, n) = SubSeq(b \o u, 1, Len(b) + n)
<1> DEFINE x == SubSeq(u, 1, n)
           y == SubSeq(b \o u, 1, Len(b) + n)
<1>1. Len(b) \in Nat /\ Len(u) \in Nat
  OBVIOUS
<1>2. /\ b \o u \in Seq(Byte) /\ Len(b \o u) = Len(b) + Len(u)
      /\ \A i \in 1 .. Len(b) + Len(u) : (b \o u)[i] = IF i <= Len(b) THEN b[i] ELSE u[i - Len(b)]
  BY ConcatProperties
<1>3. x \in Seq(Byte) /\ Len(x) = n /\ \A i \in 1 .. n : x[i] = u[i]
  BY SubSeqType
<1>4. /\ b \o x \in Seq(Byte) /\ Len(b \o x) = Len(b) + n
      /\ \A i \in 1 .. Len(b) + n : (b \o x)[i] = IF i <= Len(b) THEN b[i] ELSE x[i - Len(b)]
  BY <1>3, ConcatProperties
<1>5. /\ y \in Seq(Byte) /\ Len(y) = Len(b) + n
      /\ \A i \in 1 .. Len(b) + n : y[i] = (b \o u)[i]
  <2>1. Len(b) + n \in 0 .. Len(b \o u)
    BY <1>1, <1>2
  <2> QED
    BY <1>2, <2>1, SubSeqType
<1> HIDE DEF x, y
<1>6. ASSUME NEW i \in 1 .. Len(b) + n PROVE (b \o x)[i] = y[i]
  <2>1. i \in 1 .. Len(b) + Len(u) /\ (~(i <= Len(b)) => i - Len(b) \in 1 .. n)
    BY <1>1
  <2> QED
    BY <1>2, <1>3, <1>4, <1>5, <2>1
<1>7. Len(b \o x) = Len(y) /\ \A i \in 1 .. Len(b \o x) : (b \o x)[i] = y[i]
  BY <1>1, <1>4, <1>5, <1>6
<1>8. b \o x = y
  BY <1>4, <1>5, <1>7, SeqEqual
<1> QED
  BY <1>8 DEF x, y

(* Taking the first message leaves the last one as it is. *)
LEMMA SuffixFinished ==
  ASSUME NEW s \in Seq(Byte), NEW n \in 0 .. Len(s), Finished(s)
  PROVE  Finished(SubSeq(s, n + 1, Len(s)))
<1> DEFINE r == SubSeq(s, n + 1, Len(s))
<1>1. r \in Seq(Byte) /\ Len(r) = Len(s) - n /\ \A i \in 1 .. Len(s) - n : r[i] = s[n + i]
  BY SubSeqType
<1> HIDE DEF r
<1>2. CASE n = Len(s)
  <2>1. r = << >>
    BY <1>1, <1>2, EmptySeq
  <2> QED
    BY <2>1 DEF Finished, r
<1>3. CASE n < Len(s)
  <2>1. Len(s) - n \in 1 .. Len(s) - n /\ n + (Len(s) - n) = Len(s) /\ s # << >>
    BY <1>3, EmptySeq
  <2>2. r[Len(r)] = s[Len(s)]
    BY <1>1, <2>1
  <2> QED
    BY <2>1, <2>2 DEF Finished, r
<1> QED
  BY <1>2, <1>3

(* What the phone sent and no message was made of yet. *)
Stream == dzer.bytes \o unread

(* The part of the invariant about the stream. *)
StreamInv == Whole(Stream) /\ (~eof => Finished(Stream))

(* The stream is empty at first. *)
LEMMA StreamInit == Init => StreamType /\ StreamInv
<1> SUFFICES ASSUME Init PROVE StreamType /\ StreamInv
  OBVIOUS
<1>1. << >> \in Seq(Byte) /\ << >> \in Seq(SentType) /\ Len(<< >>) = 0
  BY EmptySeq
<1>2. 0 \in 0 .. BufSize /\ BufSize \in Nat
  BY DeserializerAssumption DEF DeserializerAssumption
<1>3. StreamType
  BY <1>1, <1>2 DEF Init, sccp_deserializer_init, StreamType, DeserializerType, Fits, SentType
<1>4. Stream = << >>
  BY <1>1, ConcatEmptySeq DEF Init, sccp_deserializer_init, Stream
<1> QED
  BY <1>1, <1>3, <1>4 DEF StreamInv, Whole, Finished

(* Every step keeps the stream in whole messages. *)
LEMMA CutStep == StreamType /\ StreamInv /\ [Next]_vars => StreamInv'
<1> SUFFICES ASSUME StreamType, StreamInv, [Next]_vars PROVE StreamInv'
  OBVIOUS
<1>a. unread \in Seq(Byte) /\ dzer \in DeserializerType /\ dzer.bytes \in Seq(Byte) /\ Fits(dzer)
  BY DEF StreamType, DeserializerType
<1>b. Stream \in Seq(Byte) /\ Len(Stream) = Len(dzer.bytes) + Len(unread)
  BY <1>a, ConcatProperties DEF Stream
<1>1. CASE PhoneSends
  <2>1. PICK claim \in Claims : unread' = unread \o BytesOf(claim)
    BY <1>1 DEF PhoneSends
  <2>2. BytesOf(claim) \in Seq(Byte)
    BY BytesOfType
  <2>3. Stream' = Stream \o BytesOf(claim)
    <3>1. Stream' = dzer.bytes \o (unread \o BytesOf(claim))
      BY <1>1, <2>1 DEF PhoneSends, Stream
    <3>2. (dzer.bytes \o unread) \o BytesOf(claim) = dzer.bytes \o (unread \o BytesOf(claim))
      BY <1>a, <2>2, ConcatTwice, Zenon
    <3> QED
      BY <3>1, <3>2 DEF Stream
  <2>4. Whole(Stream) /\ Finished(Stream)
    BY <1>1 DEF PhoneSends, StreamInv
  <2>5. Whole(Stream \o BytesOf(claim)) /\ Finished(Stream \o BytesOf(claim))
    BY <1>b, <2>4, AppendWhole
  <2> QED
    BY <2>3, <2>5 DEF StreamInv
<1>2. CASE PhoneCloses
  <2>1. PICK n \in 0 .. Len(unread) : unread' = SubSeq(unread, 1, n)
    BY <1>2 DEF PhoneCloses
  <2>2. Stream' = SubSeq(Stream, 1, Len(dzer.bytes) + n)
    BY <1>2, <1>a, <2>1, ConcatPrefix DEF PhoneCloses, Stream
  <2>3. Len(dzer.bytes) + n \in 0 .. Len(Stream)
    BY <1>a, <1>b, <2>1
  <2>4. Whole(SubSeq(Stream, 1, Len(dzer.bytes) + n))
    BY <1>b, <2>3, PrefixWhole DEF StreamInv
  <2> QED
    BY <1>2, <2>2, <2>4 DEF PhoneCloses, StreamInv
<1>3. CASE ReadData
  <2>1. PICK n \in 1 .. Len(unread) :
          /\ n <= BytesLeft(dzer)
          /\ dzer' = Filled(dzer, SubSeq(unread, 1, n))
          /\ unread' = SubSeq(unread, n + 1, Len(unread))
    BY <1>3 DEF ReadData
  <2>2. /\ SubSeq(unread, 1, n) \in Seq(Byte) /\ Len(SubSeq(unread, 1, n)) = n
        /\ SubSeq(unread, n + 1, Len(unread)) \in Seq(Byte)
    BY <1>a, <2>1, SubSeqType
  <2>3. dzer'.bytes = dzer.bytes \o SubSeq(unread, 1, n)
    BY <1>a, <2>1, <2>2, FilledType
  <2>4. SubSeq(unread, 1, n) \o SubSeq(unread, n + 1, Len(unread)) = SubSeq(unread, 1, Len(unread))
    <3>1. 1 \in 1 .. Len(unread) + 1 /\ n \in 1 - 1 .. Len(unread) /\ Len(unread) \in n .. Len(unread)
      BY <1>a, <2>1
    <3> QED
      BY <1>a, <3>1, ConcatAdjacentSubSeq
  <2>5. SubSeq(unread, 1, Len(unread)) = unread
    BY <1>a, SubSeqFull
  <2>6. Stream' = dzer.bytes \o (SubSeq(unread, 1, n) \o SubSeq(unread, n + 1, Len(unread)))
    <3>1. Stream' = (dzer.bytes \o SubSeq(unread, 1, n)) \o SubSeq(unread, n + 1, Len(unread))
      BY <2>1, <2>3 DEF Stream
    <3> QED
      BY <1>a, <2>2, <3>1, ConcatTwice, Zenon
  <2>7. Stream' = Stream
    BY <2>4, <2>5, <2>6 DEF Stream
  <2> QED
    BY <1>3, <2>7 DEF ReadData, StreamInv
<1>4. CASE HandleMsg
  <2> DEFINE c == dzer.bytes[1].claim
  <2>1. /\ sccp_deserializer_pop(dzer).code = "MSG"
        /\ dzer' = sccp_deserializer_pop(dzer).d /\ UNCHANGED <<unread, eof>>
    BY <1>4 DEF HandleMsg, net
  <2>2. /\ dzer.bytes # << >> /\ dzer.bytes[1] \in Byte
        /\ TotalLen(c) \in 1 .. Len(dzer.bytes)
        /\ ~IsMalformed(c)
        /\ dzer'.bytes = SubSeq(dzer.bytes, TotalLen(c) + 1, Len(dzer.bytes))
    BY <1>a, <2>1, PopEffect
  <2>3. SentLen(c) = TotalLen(c)
    BY <2>2 DEF SentLen
  <2>4. Stream' = SubSeq(Stream, SentLen(c) + 1, Len(Stream))
    <3>1. TotalLen(c) \in 0 .. Len(dzer.bytes)
      BY <2>2
    <3> QED
      BY <1>a, <2>1, <2>2, <2>3, <3>1, ConcatSuffix DEF Stream
  <2>5. Stream # << >> /\ Stream[1].claim = c /\ SentLen(c) \in 0 .. Len(Stream)
    <3>1. 1 \in 1 .. Len(dzer.bytes) /\ 1 \in 1 .. Len(dzer.bytes) + Len(unread)
      BY <1>a, <2>2
    <3>2. Stream[1] = dzer.bytes[1]
      BY <1>a, <3>1, ConcatProperties DEF Stream
    <3>3. SentLen(c) \in 0 .. Len(Stream) /\ Len(Stream) # 0
      BY <1>a, <1>b, <2>2, <2>3
    <3> QED
      BY <3>2, <3>3, EmptySeq
  <2>6. Whole(SubSeq(Stream, SentLen(c) + 1, Len(Stream)))
    <3>1. SentLen(Stream[1].claim) <= Len(Stream) /\ Whole(Stream)
      BY <1>b, <2>5 DEF StreamInv
    <3>2. Whole(SubSeq(Stream, SentLen(Stream[1].claim) + 1, Len(Stream)))
      BY <1>b, <2>5, <3>1, SuffixWhole
    <3> QED
      BY <2>5, <3>2
  <2>7. ~eof => Finished(SubSeq(Stream, SentLen(c) + 1, Len(Stream)))
    BY <1>b, <2>5, SuffixFinished DEF StreamInv
  <2> QED
    BY <2>1, <2>4, <2>6, <2>7 DEF StreamInv
<1>5. CASE UNCHANGED <<unread, dzer, eof>>
  BY <1>5 DEF StreamInv, Stream
<1> QED
  BY <1>1, <1>2, <1>3, <1>4, <1>5
     DEF Next, SessionThread, vars, net, Tick, Stop, TransmitFails, Reload, PollFails,
         add_auth_timeout_task, PollEvents, PollTimesOut, sccp_task_runner_run, on_queue_events,
         ReadEof, ReadFails, NoMsg, Malformed, EndSession

-----------------------------------------------------------------------------
(* The theorems.                                                           *)

(* The inductive invariant of a session. *)
SessionInv == TimerInv /\ StreamType /\ BufferInv /\ StreamInv

(* The inductive invariant holds in every state of a session.              *)
THEOREM SessionInvariant == Spec => []SessionInv
<1>1. Init => SessionInv
  BY TimerInit, StreamInit, BufferInit DEF SessionInv
<1>2. SessionInv /\ [Next]_vars => SessionInv'
  BY TimerStep, StreamStep, BufferStep, CutStep DEF SessionInv, TimerInv
<1> QED
  BY <1>1, <1>2, PTL DEF Spec

(* The buffer never runs over, and no whole message stays in it while the  *)
(* session waits for the socket (sccp_session_on_sock_events).             *)
THEOREM SessionBuffer == Spec => []BufferIsSound
<1>1. SessionInv => TypeOK
  BY DEF SessionInv, TimerInv, SimpleType, StreamType, Fits, TypeOK
<1>2. SessionInv => NothingLeftInBuffer
  BY DEF SessionInv, BufferInv, NothingLeftInBuffer
<1> QED
  BY <1>1, <1>2, SessionInvariant, PTL DEF BufferIsSound

(* A session that waits has the timer that its phone's state calls for, and *)
(* no other one (sccp_session_handle_msg_register, sccp_session_read_sock). *)
THEOREM SessionTimers == Spec => []TimersFollowDevice
<1>1. SessionInv => TimersFollowDevice
  BY DEF SessionInv, TimerInv, OnlyItsTimer, HasItsTimer, GoesOn, TimersFollowDevice
<1> QED
  BY <1>1, SessionInvariant, PTL

(* No timer ends a session without a reason (on_auth_timeout,              *)
(* on_keepalive_timeout).                                                  *)
THEOREM SessionDrops == Spec => []DropIsJustified
<1>1. SessionInv => DropIsJustified
  BY DEF SessionInv, TimerInv
<1> QED
  BY <1>1, SessionInvariant, PTL

(* The stream is cut where the phone joined it (sccp_deserializer_pop).    *)
THEOREM SessionStream == Spec => []CutWhereJoined
<1>1. SessionInv => CutWhereJoined
  <2> SUFFICES ASSUME SessionInv PROVE CutWhereJoined
    OBVIOUS
  <2>1. Stream \in Seq(Byte) /\ Whole(Stream)
    BY ConcatProperties DEF SessionInv, StreamType, DeserializerType, StreamInv, Stream
  <2>2. \A i \in 1 .. Len(Stream) :
          IF Stream[i].pos = 1
          THEN i > 1 => Stream[i - 1].pos = SentLen(Stream[i - 1].claim)
          ELSE i > 1 /\ Stream[i - 1] = [Stream[i] EXCEPT !.pos = @ - 1]
    BY <2>1, WholeIsCut
  <2>3. DOMAIN Stream = 1 .. Len(Stream)
    BY <2>1
  <2> QED
    BY <2>2, <2>3 DEF CutWhereJoined, Stream
<1> QED
  BY <1>1, SessionInvariant, PTL
-----------------------------------------------------------------------------
(* The task runner is a set of alarms: the steps of the session, seen in   *)
(* Alarms.                                                                 *)

(* The time left of Alarms: the refinement mapping. *)
TimeLeft == [t \in Tasks |-> IF t \in tasks.heap THEN tasks.left[t] ELSE -1]

(* The tasks of on are armed, those of off removed, and the others stay.   *)
Rearms(on, off) ==
  \A t \in Tasks :
    IF t \in on THEN t \in tasks'.heap /\ tasks'.left[t] = Delay[t]
    ELSE IF t \in off THEN t \notin tasks'.heap
    ELSE /\ t \in tasks'.heap <=> t \in tasks.heap
         /\ t \in tasks.heap => tasks'.left[t] = tasks.left[t]

(* Arming and removing tasks is a step of the abstract alarms.             *)
LEMMA RearmHandles ==
  ASSUME NEW on \in SUBSET Tasks, NEW off \in SUBSET Tasks, Rearms(on, off), ran' = {}
  PROVE  Alarm!Handle
<1>1. TimeLeft' = [t \in Tasks |-> IF t \in on THEN Delay[t]
                                   ELSE IF t \in off THEN -1 ELSE TimeLeft[t]]
  BY DEF Rearms, TimeLeft
<1> QED
  BY <1>1 DEF Alarm!Handle, Alarm!Off, TimeLeft

(* Arming one task, after another one was removed or none was.             *)
LEMMA ArmHandles ==
  ASSUME SimpleType, NEW off \in SUBSET Tasks, NEW r \in RunnerType, NEW t \in Tasks,
         t \notin off, r.heap = tasks.heap \ off,
         \A u \in Tasks \ off : r.left[u] = tasks.left[u],
         SetTasks(Arm(r, t), t), ran' = {}
  PROVE  Alarm!Handle
<1>1. r.left \in [Tasks -> 0 .. MaxDelay] /\ r.heap \in SUBSET Tasks
  BY RunnerFacts
<1>2. \/ tasks' = r
      \/ /\ tasks'.heap = r.heap \cup {t}
         /\ tasks'.left = [r.left EXCEPT ![t] = Delay[t]]
  BY ArmEffect DEF SimpleType
<1>3. CASE tasks' = r
  <2>1. Rearms({}, off)
    BY <1>1, <1>3 DEF Rearms
  <2> QED
    BY <2>1, RearmHandles
<1>4. CASE /\ tasks'.heap = r.heap \cup {t}
           /\ tasks'.left = [r.left EXCEPT ![t] = Delay[t]]
  <2>1. Rearms({t}, off)
    BY <1>1, <1>4 DEF Rearms
  <2> QED
    BY <2>1, RearmHandles
<1> QED
  BY <1>2, <1>3, <1>4

(* Nothing is armed and nothing removed: what rang has been handled.       *)
LEMMA IdleHandles == UNCHANGED tasks /\ ran' = {} => Alarm!Handle
<1> SUFFICES ASSUME UNCHANGED tasks, ran' = {} PROVE Alarm!Handle
  OBVIOUS
<1>1. Rearms({}, {})
  BY DEF Rearms
<1> QED
  BY <1>1, RearmHandles

(* Removing one task. *)
LEMMA RemoveHandles ==
  ASSUME SimpleType, NEW t \in Tasks, tasks' = sccp_task_runner_remove(tasks, t), ran' = {}
  PROVE  Alarm!Handle
<1>1. /\ tasks'.heap = tasks.heap \ {t}
      /\ tasks'.left = [tasks.left EXCEPT ![t] = 0]
      /\ tasks.left \in [Tasks -> 0 .. MaxDelay]
  BY RemoveEffect, RunnerFacts DEF SimpleType
<1>2. Rearms({}, {t})
  BY <1>1 DEF Rearms
<1> QED
  BY <1>2, RearmHandles

(* A task that runs is due, and is not set any more when it runs.          *)
LEMMA RunRings == SimpleType /\ sccp_task_runner_run => Alarm!Ring \/ Alarm!Handle
<1> SUFFICES ASSUME SimpleType, sccp_task_runner_run PROVE Alarm!Ring \/ Alarm!Handle
  OBVIOUS
<1>1. CASE Due(tasks) # {}
  <2>1. PICK t \in Due(tasks) : tasks' = sccp_task_runner_remove(tasks, t) /\ ran' = {t}
    BY <1>1 DEF sccp_task_runner_run
  <2>2. t \in tasks.heap /\ tasks.left[t] = 0 /\ t \in Tasks
    BY RunnerFacts DEF Due, SimpleType
  <2>3. /\ tasks'.heap = tasks.heap \ {t}
        /\ tasks'.left = [tasks.left EXCEPT ![t] = 0]
        /\ tasks.left \in [Tasks -> 0 .. MaxDelay]
    BY <2>1, <2>2, RemoveEffect, RunnerFacts DEF SimpleType
  <2>4. TimeLeft[t] = 0 /\ TimeLeft' = [TimeLeft EXCEPT ![t] = -1]
    BY <2>2, <2>3 DEF TimeLeft
  <2> QED
    BY <2>1, <2>2, <2>4 DEF Alarm!Ring, Alarm!Off, TimeLeft
<1>2. CASE Due(tasks) = {}
  BY <1>2, IdleHandles DEF sccp_task_runner_run
<1> QED
  BY <1>1, <1>2

(* A tick of the clock is one of the alarms' clock. *)
LEMMA TickTicks == SimpleType /\ Tick => Alarm!Tick
<1> SUFFICES ASSUME SimpleType, Tick PROVE Alarm!Tick
  OBVIOUS
<1>1. /\ tasks'.heap = tasks.heap
      /\ tasks'.left = [t \in Tasks |-> IF tasks.left[t] > 0 THEN tasks.left[t] - 1 ELSE 0]
      /\ tasks.left \in [Tasks -> 0 .. MaxDelay] /\ MaxDelay \in Nat
  BY TickEffect, RunnerFacts, DelayType DEF Tick, SimpleType
<1>2. TimeLeft' = [t \in Tasks |-> IF TimeLeft[t] > 0 THEN TimeLeft[t] - 1 ELSE TimeLeft[t]]
  BY <1>1 DEF TimeLeft
<1>3. UNCHANGED ran
  BY DEF Tick
<1> QED
  BY <1>2, <1>3 DEF Alarm!Tick, TimeLeft

(* A message re-arms, or removes, the timers of the session or of the device. *)
LEMMA HandleMsgHandles == SimpleType /\ HandleMsg => Alarm!Handle
<1> SUFFICES ASSUME SimpleType, HandleMsg PROVE Alarm!Handle
  OBVIOUS
<1> USE DelayType
<1>1. tasks \in RunnerType /\ ran' = {}
  BY DEF SimpleType, HandleMsg
<1>2. CASE UNCHANGED tasks
  BY <1>1, <1>2, IdleHandles
<1>3. CASE SetTasks(Arm(sccp_task_runner_remove(tasks, "auth"), "keepalive"), "keepalive")
  <2> DEFINE o == sccp_task_runner_remove(tasks, "auth")
  <2>1. /\ o \in RunnerType /\ o.heap = tasks.heap \ {"auth"}
        /\ o.left = [tasks.left EXCEPT !["auth"] = 0]
        /\ tasks.left \in [Tasks -> 0 .. MaxDelay]
    BY <1>1, RemoveEffect, RunnerFacts
  <2>2. \A u \in Tasks \ {"auth"} : o.left[u] = tasks.left[u]
    BY <2>1
  <2> HIDE DEF o
  <2> QED
    BY <1>1, <1>3, <2>1, <2>2, ArmHandles DEF o
<1>4. CASE SetTasks(Arm(tasks, "call"), "call")
  BY <1>1, <1>4, ArmHandles
<1>5. CASE tasks' = sccp_task_runner_remove(tasks, "call")
  BY <1>1, <1>5, RemoveHandles
<1> QED
  BY <1>2, <1>3, <1>4, <1>5 DEF HandleMsg, handle_msg_register, device_handle_msg

(* Every step of the session is one of the alarms, or leaves them alone.   *)
LEMMA AlarmStep == TimerInv /\ [Next]_vars => [Alarm!Next]_<<TimeLeft, ran>>
<1> SUFFICES ASSUME TimerInv, [Next]_vars PROVE [Alarm!Next]_<<TimeLeft, ran>>
  OBVIOUS
<1>1. SimpleType /\ tasks \in RunnerType
  BY DEF TimerInv, SimpleType
<1>2. CASE UNCHANGED <<tasks, ran>>
  BY <1>2 DEF TimeLeft
<1>3. CASE Tick
  BY <1>1, <1>3, TickTicks DEF Alarm!Next
<1>4. CASE add_auth_timeout_task
  <2>1. ran' = {}
    BY <1>4 DEF add_auth_timeout_task, TimerInv, RanIsNow
  <2>2. SetTasks(Arm(tasks, "auth"), "auth") /\ "auth" \in Tasks
    BY <1>4, DelayType DEF add_auth_timeout_task
  <2>3. Alarm!Handle
    BY <1>1, <2>1, <2>2, ArmHandles
  <2> QED
    BY <2>3 DEF Alarm!Next
<1>5. CASE sccp_task_runner_run
  BY <1>1, <1>5, RunRings DEF Alarm!Next
<1>6. CASE on_queue_events
  BY <1>6, IdleHandles DEF on_queue_events, Alarm!Next
<1>7. CASE ReadData
  <2>1. ran' = {} /\ "keepalive" \in Tasks
    BY <1>7, DelayType DEF ReadData
  <2>2. UNCHANGED tasks \/ SetTasks(Arm(tasks, "keepalive"), "keepalive")
    BY <1>7 DEF ReadData
  <2>3. Alarm!Handle
    BY <1>1, <2>1, <2>2, IdleHandles, ArmHandles
  <2> QED
    BY <2>3 DEF Alarm!Next
<1>8. CASE HandleMsg
  BY <1>1, <1>8, HandleMsgHandles DEF Alarm!Next
<1> QED
  BY <1>2, <1>3, <1>4, <1>5, <1>6, <1>7, <1>8
     DEF Next, SessionThread, PhoneSends, PhoneCloses, Stop, TransmitFails, Reload,
         PollFails, PollEvents, PollTimesOut, ReadEof, ReadFails, NoMsg, Malformed,
         EndSession, vars

(* The task runner of a session is a set of alarms: what is set rings when *)
(* its time has come and once, whatever the messages and the clock do      *)
(* (sccp_task_runner_add, sccp_task_runner_remove, sccp_task_runner_run).  *)
THEOREM SessionImplementsAlarms == Spec => ImplementsAlarms
<1>1. Init => Alarm!Init
  <2>1. ASSUME Init PROVE tasks.heap = {} /\ ran = {}
    BY <2>1 DEF Init, sccp_task_runner_create
  <2> QED
    BY <2>1 DEF Alarm!Init, Alarm!Off
<1>2. SessionInv /\ [Next]_vars => [Alarm!Next]_<<TimeLeft, ran>>
  BY AlarmStep DEF SessionInv
<1> QED
  BY <1>1, <1>2, SessionInvariant, PTL DEF Spec, ImplementsAlarms, Alarm!Spec, TimeLeft
=============================================================================
