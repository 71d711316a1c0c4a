----------------------------- MODULE DeviceProofs -----------------------------
(***************************************************************************)
(* The calls of a device, for any finite number of subchannels and         *)
(* channels, any use of the features, any number of unanswered messages    *)
(* and any number of failed allocations.                                   *)
(*                                                                         *)
(* First the operators of DeviceOps: what each of them changes (Calm,      *)
(* Same, ...Facts), and that it keeps the calls in order (Good); then one  *)
(* lemma per action.                                                       *)
(***************************************************************************)
EXTENDS Device, FiniteSetTheorems, SequenceTheorems, NaturalsInduction,
        WellFoundedInduction, TLAPS

(* A list without duplicates.                                              *)
OneEach(q) == \A i, j \in DOMAIN q : q[i] = q[j] => i = j

(* Tasks none of which starts a call: what a handler may leave to be done  *)
(* once the device is unlocked, whatever else it does.                     *)
Plain(q) == \A i \in DOMAIN q : q[i].exec # "start_channel"

(* The list has each subchannel once, and only what was created.           *)
Sound(d) == OneEach(d.subchans) /\ \A s \in Listed(d) : d.sub[s].dir # "none"

(* FwdTimerInInput, of any device.                                         *)
FwdOK(d) == d.fwdtimer => d.callfwd = "INPUTEXTEN"

(* A set of positions that is not empty has a least one, which Min         *)
(* returns.                                                                *)
LEMMA LeastIndex ==
  ASSUME NEW n \in Nat, NEW I \in SUBSET (1 .. n), I # {}
  PROVE  Min(I) \in I /\ \A j \in I : Min(I) <= j
<1>1. PICK d \in I : \A e \in I : ~ (<<e, d>> \in OpToRel(<, Nat))
  BY I \subseteq Nat, NatLessThanWellFounded, WFMin, Zenon
<1>2. \A e \in I : d <= e
  <2> SUFFICES ASSUME NEW e \in I, ~(d <= e) PROVE FALSE
    OBVIOUS
  <2>1. d \in Nat /\ e \in Nat /\ e < d
    OBVIOUS
  <2>2. <<e, d>> \in Nat \X Nat /\ <<e, d>>[1] = e /\ <<e, d>>[2] = d
    BY <2>1
  <2>3. <<e, d>> \in OpToRel(<, Nat)
    BY <2>1, <2>2 DEF OpToRel
  <2> QED
    BY <1>1, <2>3
<1> QED
  BY <1>2 DEF Min

(* What is appended (AST_LIST_INSERT_TAIL) is added to the list, and is in *)
(* it once if it was not there.                                            *)
LEMMA AppendFacts ==
  ASSUME NEW S, NEW q \in Seq(S), NEW x \in S
  PROVE  /\ Append(q, x) \in Seq(S)
         /\ Range(Append(q, x)) = Range(q) \cup {x}
         /\ OneEach(q) /\ x \notin Range(q) => OneEach(Append(q, x))
<1> DEFINE r == Append(q, x)
<1>1. /\ r \in Seq(S) /\ Len(r) = Len(q) + 1 /\ \A i \in 1 .. Len(q) : r[i] = q[i]
      /\ r[Len(q) + 1] = x /\ Len(q) \in Nat
  BY AppendProperties
<1> HIDE DEF r
<1> QED
  BY <1>1 DEF OneEach, Range

(* RemoveAt closes the gap that it leaves.                                 *)
LEMMA RemoveAtFacts ==
  ASSUME NEW S, NEW q \in Seq(S), NEW k \in 1 .. Len(q)
  PROVE  /\ RemoveAt(q, k) \in Seq(S) /\ Len(RemoveAt(q, k)) = Len(q) - 1
         /\ \A i \in 1 .. Len(q) - 1 :
              RemoveAt(q, k)[i] = IF i < k THEN q[i] ELSE q[i + 1]
<1> DEFINE u == SubSeq(q, 1, k - 1)
           v == SubSeq(q, k + 1, Len(q))
<1>0. Len(q) \in Nat /\ k \in Nat /\ k <= Len(q) /\ k >= 1 /\ \A i \in 1 .. Len(q) : q[i] \in S
  OBVIOUS
<1>1. u \in Seq(S) /\ Len(u) = k - 1 /\ \A i \in 1 .. k - 1 : u[i] = q[i]
  <2>1. u \in Seq(S) /\ Len(u) = (IF 1 <= k - 1 THEN (k - 1) - 1 + 1 ELSE 0)
        /\ \A i \in 1 .. (k - 1) - 1 + 1 : u[i] = q[1 + i - 1]
    <3>1. 1 \in Int /\ k - 1 \in Int /\ \A i \in 1 .. k - 1 : q[i] \in S
      BY <1>0
    <3> QED
      BY <3>1, SubSeqProperties
  <2> HIDE DEF u
  <2> QED
    BY <1>0, <2>1
<1>2. v \in Seq(S) /\ Len(v) = Len(q) - k /\ \A i \in 1 .. Len(q) - k : v[i] = q[k + i]
  <2>1. v \in Seq(S) /\ Len(v) = (IF k + 1 <= Len(q) THEN Len(q) - (k + 1) + 1 ELSE 0)
        /\ \A i \in 1 .. Len(q) - (k + 1) + 1 : v[i] = q[k + 1 + i - 1]
    <3>1. k + 1 \in Int /\ Len(q) \in Int /\ \A i \in k + 1 .. Len(q) : q[i] \in S
      BY <1>0
    <3> QED
      BY <3>1, SubSeqProperties
  <2> HIDE DEF v
  <2> QED
    BY <1>0, <2>1
<1>3. RemoveAt(q, k) = u \o v
  BY DEF RemoveAt
<1> HIDE DEF u, v
<1> DEFINE w == u \o v
<1>4. /\ w \in Seq(S) /\ Len(w) = Len(u) + Len(v)
      /\ \A i \in 1 .. Len(u) + Len(v) : w[i] = IF i <= Len(u) THEN u[i] ELSE v[i - Len(u)]
  BY <1>1, <1>2, ConcatProperties
<1> HIDE DEF w
<1>5. Len(w) = Len(q) - 1
  BY <1>0, <1>1, <1>2, <1>4
<1>6. ASSUME NEW i \in 1 .. Len(q) - 1 PROVE w[i] = IF i < k THEN q[i] ELSE q[i + 1]
  <2>1. CASE i < k
    BY <1>0, <1>1, <1>2, <1>4, <2>1
  <2>2. CASE ~(i < k)
    <3>1. i - (k - 1) \in 1 .. Len(q) - k /\ k + (i - (k - 1)) = i + 1
      BY <1>0, <2>2
    <3>2. Len(u) = k - 1 /\ ~(i <= k - 1) /\ i \in 1 .. Len(u) + Len(v)
      BY <1>0, <1>1, <1>2, <2>2
    <3>3. w[i] = v[i - (k - 1)]
      BY <1>4, <3>2
    <3>4. v[i - (k - 1)] = q[k + (i - (k - 1))]
      BY <1>2, <3>1
    <3> QED
      BY <2>2, <3>1, <3>3, <3>4
  <2> QED
    BY <2>1, <2>2
<1> QED
  BY <1>3, <1>4, <1>5, <1>6 DEF w

(* RemoveFirst (AST_LIST_REMOVE) takes what it is given off a list without *)
(* duplicates, and leaves one.                                             *)
LEMMA RemoveFacts ==
  ASSUME NEW S, NEW q \in Seq(S), NEW x
  PROVE  /\ RemoveFirst(q, x) \in Seq(S)
         /\ OneEach(q) => /\ OneEach(RemoveFirst(q, x))
                          /\ Range(RemoveFirst(q, x)) = Range(q) \ {x}
<1>1. CASE ~\E i \in 1 .. Len(q) : q[i] = x
  BY <1>1 DEF RemoveFirst, Range
<1>2. CASE \E i \in 1 .. Len(q) : q[i] = x
  <2> DEFINE I == {i \in 1 .. Len(q) : q[i] = x}
             k == Min(I)
             r == RemoveAt(q, k)
  <2>1. k \in I
    <3>1. I # {} /\ I \in SUBSET (1 .. Len(q)) /\ Len(q) \in Nat
      BY <1>2
    <3> HIDE DEF I
    <3> QED
      BY <3>1, LeastIndex
  <2>2. RemoveFirst(q, x) = r
    BY <1>2 DEF RemoveFirst, SelectInSeq
  <2>3. k \in 1 .. Len(q) /\ q[k] = x /\ Len(q) \in Nat
    BY <2>1
  <2> HIDE DEF I, k
  <2>4. /\ r \in Seq(S) /\ Len(r) = Len(q) - 1
        /\ \A i \in 1 .. Len(q) - 1 : r[i] = IF i < k THEN q[i] ELSE q[i + 1]
    BY <2>3, RemoveAtFacts
  <2> HIDE DEF r
  <2> DEFINE at(i) == IF i < k THEN i ELSE i + 1
  <2>a. ASSUME NEW i \in 1 .. Len(r)
        PROVE  r[i] = q[at(i)] /\ at(i) \in 1 .. Len(q) /\ at(i) # k /\ i \in Int
    BY <2>3, <2>4
  <2>b. ASSUME NEW i \in Int, NEW j \in Int, at(i) = at(j) PROVE i = j
    BY <2>3, <2>b
  <2>c. DOMAIN r = 1 .. Len(r) /\ DOMAIN q = 1 .. Len(q)
    BY <2>4
  <2> HIDE DEF at
  <2>5. ASSUME OneEach(q) PROVE OneEach(r)
    <3> SUFFICES ASSUME NEW i \in 1 .. Len(r), NEW j \in 1 .. Len(r), r[i] = r[j] PROVE i = j
      BY <2>c DEF OneEach
    <3>1. at(i) = at(j)
      BY <2>5, <2>a, <2>c DEF OneEach
    <3> QED
      BY <2>a, <2>b, <3>1
  <2>6. ASSUME OneEach(q) PROVE Range(r) = Range(q) \ {x}
    <3>1. ASSUME NEW i \in 1 .. Len(r) PROVE r[i] \in Range(q) \ {x}
      <4>1. r[i] = q[at(i)] /\ at(i) \in DOMAIN q /\ at(i) # k /\ k \in DOMAIN q
        BY <2>3, <2>a, <2>c, <3>1
      <4> QED
        BY <2>3, <2>6, <4>1 DEF OneEach, Range
    <3>2. ASSUME NEW i \in 1 .. Len(q), q[i] # x PROVE q[i] \in Range(r)
      <4>1. CASE i < k
        BY <2>3, <2>4, <3>2, <4>1 DEF Range
      <4>2. CASE ~(i < k)
        <5>1. i - 1 \in 1 .. Len(r) /\ ~(i - 1 < k) /\ (i - 1) + 1 = i
          BY <2>3, <2>4, <3>2, <4>2
        <5> QED
          BY <2>4, <5>1 DEF Range
      <4> QED
        BY <4>1, <4>2
    <3> QED
      BY <2>c, <3>1, <3>2 DEF Range
  <2> QED
    BY <2>2, <2>4, <2>5, <2>6
<1> QED
  BY <1>1, <1>2

(* A list of tasks taken after another one: nothing is lost or added.      *)
LEMMA ConcatFacts ==
  ASSUME NEW S, NEW p \in Seq(S), NEW q \in Seq(S)
  PROVE  p \o q \in Seq(S) /\ Range(p \o q) = Range(p) \cup Range(q)
<1> DEFINE r == p \o q
<1>1. /\ r \in Seq(S) /\ Len(r) = Len(p) + Len(q) /\ Len(p) \in Nat /\ Len(q) \in Nat
      /\ \A i \in 1 .. Len(p) + Len(q) : r[i] = IF i <= Len(p) THEN p[i] ELSE q[i - Len(p)]
  BY ConcatProperties
<1> HIDE DEF r
<1>2. ASSUME NEW i \in 1 .. Len(q) PROVE q[i] \in Range(r)
  <2>1. i + Len(p) \in 1 .. Len(r) /\ ~(i + Len(p) <= Len(p)) /\ (i + Len(p)) - Len(p) = i
    BY <1>1
  <2> QED
    BY <1>1, <2>1 DEF Range
<1>3. ASSUME NEW i \in 1 .. Len(r) PROVE r[i] \in Range(p) \cup Range(q)
  <2>1. CASE i <= Len(p)
    BY <1>1, <2>1 DEF Range
  <2>2. CASE ~(i <= Len(p))
    <3>1. i - Len(p) \in 1 .. Len(q)
      BY <1>1, <2>2
    <3> QED
      BY <1>1, <2>2, <3>1 DEF Range
  <2> QED
    BY <2>1, <2>2
<1>4. ASSUME NEW i \in 1 .. Len(p) PROVE p[i] \in Range(r)
  <2>1. i \in 1 .. Len(r) /\ i <= Len(p) /\ i \in DOMAIN r
    BY <1>1
  <2>2. r[i] = p[i]
    BY <1>1, <2>1
  <2> QED
    BY <2>1, <2>2 DEF Range
<1>5. DOMAIN r = 1 .. Len(r) /\ DOMAIN p = 1 .. Len(p) /\ DOMAIN q = 1 .. Len(q)
  BY <1>1
<1>6. Range(r) = Range(p) \cup Range(q)
  BY <1>2, <1>3, <1>4, <1>5 DEF Range
<1> QED
  BY <1>1, <1>6 DEF r

(* sccp_lines_get_next_subchan returns nothing, or a subchannel of the     *)
(* list that is in the state asked for.                                    *)
LEMMA FirstFacts ==
  ASSUME NEW d \in DeviceType, NEW st
  PROVE  \/ FirstInState(d, st) = NULL
         \/ /\ FirstInState(d, st) \in Listed(d) /\ FirstInState(d, st) \in Subchans
            /\ d.sub[FirstInState(d, st)].state = st
<1> DEFINE q == d.subchans
           I == {i \in 1 .. Len(q) : d.sub[q[i]].state = st}
<1>0. q \in Seq(Subchans) /\ Len(q) \in Nat
  BY DEF DeviceType
<1>1. SelectInSeq(q, LAMBDA s : d.sub[s].state = st) = IF I # {} THEN Min(I) ELSE 0
  BY DEF SelectInSeq
<1>2. CASE I = {}
  BY <1>1, <1>2 DEF FirstInState
<1>3. CASE I # {}
  <2> DEFINE m == Min(I)
  <2>1. m \in I
    <3>1. I \in SUBSET (1 .. Len(q))
      OBVIOUS
    <3> HIDE DEF I
    <3> QED
      BY <1>0, <1>3, <3>1, LeastIndex
  <2>2. m \in 1 .. Len(q) /\ d.sub[q[m]].state = st /\ m # 0
    <3> HIDE DEF m
    <3> QED
      BY <1>0, <2>1
  <2>3. FirstInState(d, st) = q[m]
    <3>1. SelectInSeq(q, LAMBDA s : d.sub[s].state = st) = m
      BY <1>1, <1>3
    <3> HIDE DEF m, I
    <3> QED
      BY <2>2, <3>1 DEF FirstInState
  <2> HIDE DEF m, I
  <2> QED
    BY <1>0, <2>2, <2>3 DEF Listed, Range
<1> QED
  BY <1>2, <1>3

-----------------------------------------------------------------------------
(* What every operation on a locked device keeps, whatever state the calls *)
(* are in: the types, the list, the timer of the input, and that the       *)
(* device is neither destroyed nor brought back. Tasks that start a call   *)
(* are not added.                                                          *)
Calm(d, e) ==
  /\ e \in DeviceType
  /\ FwdOK(d) => FwdOK(e)
  /\ Plain(d.tasks) => Plain(e.tasks)
  /\ e.state = "DESTROYED" <=> d.state = "DESTROYED"
  /\ Sound(d) => Sound(e)
  /\ e.oom = d.oom

(* An operation that changes nothing of the calls.                         *)
Same(d, e) ==
  /\ Calm(d, e)
  /\ e.subchans = d.subchans /\ e.sub = d.sub
  /\ e.active = d.active /\ e.dialtimers = d.dialtimers

(* The fields of a device have the types that DeviceType says.             *)
LEMMA Fields ==
  ASSUME NEW d \in DeviceType
  PROVE  /\ d.subchans \in Seq(Subchans) /\ d.sub \in [Subchans -> SubchannelType]
         /\ d.active \in Subchans \cup {NULL} /\ d.dialtimers \in SUBSET Subchans
         /\ d.tasks \in Seq(NolockTask) /\ d.oom \in {"none", "task", "subchan"}
         /\ d.fwdtimer \in BOOLEAN /\ Listed(d) \subseteq Subchans
         /\ NULL \notin Subchans /\ NULL \notin Chans
<1>1. d.subchans \in Seq(Subchans)
  BY DEF DeviceType
<1>2. Listed(d) \subseteq Subchans
  BY <1>1 DEF Listed, Range
<1> QED
  BY <1>1, <1>2, DeviceOpsAssumption DEF DeviceType

(* So have the fields of its subchannels.                                  *)
LEMMA SubFields ==
  ASSUME NEW d \in DeviceType, NEW s \in Subchans
  PROVE  /\ d.sub[s] \in SubchannelType
         /\ d.sub[s].dir \in {"none", "incoming", "outgoing"}
         /\ d.sub[s].chan \in Chans \cup {NULL}
         /\ d.sub[s].rtp \in BOOLEAN /\ d.sub[s].resuming \in BOOLEAN
         /\ d.sub[s].related \in Subchans \cup {NULL}
         /\ d.sub[s].refs \in Int
<1>1. d.sub[s] \in SubchannelType
  BY Fields
<1> QED
  BY <1>1 DEF SubchannelType

(* It is enough that the fields that calls are made of are the same, the   *)
(* device is still destroyed or not, and neither a timer of the input nor  *)
(* a task that starts a call was added.                                    *)
LEMMA FieldsSame ==
  ASSUME NEW d, NEW e \in DeviceType,
         e.subchans = d.subchans, e.sub = d.sub,
         e.active = d.active, e.dialtimers = d.dialtimers,
         e.state = "DESTROYED" <=> d.state = "DESTROYED", e.oom = d.oom,
         FwdOK(d) => FwdOK(e), Plain(d.tasks) => Plain(e.tasks)
  PROVE  Same(d, e)
BY DEF Same, Calm, Sound, Listed

(* sccp_device_panic changes the state of the device, not its calls.       *)
LEMMA PanicSame == ASSUME NEW d \in DeviceType PROVE Same(d, sccp_device_panic(d))
BY DEF Same, Calm, Sound, FwdOK, Listed, sccp_device_panic, DeviceType

(* A task that does not start a call may be added to others like it.       *)
LEMMA AppendPlain ==
  ASSUME NEW q \in Seq(NolockTask), NEW k \in NolockTask
  PROVE  /\ Append(q, k) \in Seq(NolockTask)
         /\ Plain(q) /\ k.exec # "start_channel" => Plain(Append(q, k))
<1> DEFINE r == Append(q, k)
<1>1. /\ r \in Seq(NolockTask) /\ Len(r) = Len(q) + 1 /\ \A i \in 1 .. Len(q) : r[i] = q[i]
      /\ r[Len(q) + 1] = k /\ Len(q) \in Nat
  BY AppendProperties
<1> HIDE DEF r
<1>2. DOMAIN r = 1 .. Len(q) + 1 /\ DOMAIN q = 1 .. Len(q)
  BY <1>1
<1> QED
  BY <1>1, <1>2 DEF Plain, r

(* add_nolock_task, with memory or without, changes no call by itself.     *)
LEMMA AddTaskSame ==
  ASSUME NEW d \in DeviceType, NEW k \in NolockTask, k.exec # "start_channel"
  PROVE  Same(d, add_nolock_task(d, k).d)
<1>1. CASE d.oom = "task"
  BY <1>1, PanicSame DEF add_nolock_task, Result
<1>2. CASE d.oom # "task"
  <2> DEFINE t == Append(d.tasks, k)
  <2>1. t \in Seq(NolockTask) /\ (Plain(d.tasks) => Plain(t))
    BY AppendPlain, Fields
  <2>2. add_nolock_task(d, k).d = [d EXCEPT !.tasks = t]
    BY <1>2 DEF add_nolock_task, Result
  <2> HIDE DEF t
  <2> DEFINE e == [d EXCEPT !.tasks = t]
  <2>3. e \in DeviceType
    BY <2>1 DEF DeviceType
  <2>4. /\ e.subchans = d.subchans /\ e.sub = d.sub /\ e.active = d.active
        /\ e.dialtimers = d.dialtimers /\ e.state = d.state /\ e.oom = d.oom
        /\ e.fwdtimer = d.fwdtimer /\ e.callfwd = d.callfwd /\ e.tasks = t
    BY DEF DeviceType
  <2> HIDE DEF e
  <2>5. Same(d, e)
    BY <2>1, <2>3, <2>4, FieldsSame DEF FwdOK
  <2> QED
    BY <2>2, <2>5 DEF e
<1> QED
  BY <1>1, <1>2

(* The same for a task that is not kept.                                   *)
LEMMA CanAddSame ==
  ASSUME NEW d \in DeviceType
  PROVE  Same(d, CanAddTask(d).d) /\ CanAddTask(d).ok \in BOOLEAN
BY PanicSame DEF CanAddTask, Result, Same, Calm

(* Closing the receive channel changes no call.                            *)
LEMMA CloseSame ==
  ASSUME NEW d \in DeviceType PROVE Same(d, transmit_close_receive_channel(d))
<1> DEFINE e == transmit_close_receive_channel(d)
<1>1. e \in DeviceType
  BY DEF transmit_close_receive_channel, DeviceType
<1>2. /\ e.subchans = d.subchans /\ e.sub = d.sub /\ e.active = d.active
      /\ e.dialtimers = d.dialtimers /\ e.state = d.state /\ e.oom = d.oom
      /\ e.fwdtimer = d.fwdtimer /\ e.callfwd = d.callfwd /\ e.tasks = d.tasks
  BY DEF transmit_close_receive_channel, DeviceType
<1> HIDE DEF e
<1>3. Same(d, e)
  BY <1>1, <1>2, FieldsSame DEF FwdOK
<1> QED
  BY <1>3 DEF e

(* Nor does opening it.                                                    *)
LEMMA OpenSame ==
  ASSUME NEW d \in DeviceType PROVE Same(d, transmit_subchan_open_receive_channel(d))
<1>1. CASE d.recv = "CLOSED"
  <2> DEFINE n == d.acks + 1
             e == [d EXCEPT !.recv = "OPENING", !.acks = n]
  <2>1. n \in Nat
    BY DEF DeviceType
  <2> HIDE DEF n
  <2>2. e \in DeviceType
    BY <2>1 DEF DeviceType
  <2>3. Same(d, e)
    <3>1. /\ e.subchans = d.subchans /\ e.sub = d.sub /\ e.active = d.active
          /\ e.dialtimers = d.dialtimers /\ e.state = d.state /\ e.oom = d.oom
          /\ e.fwdtimer = d.fwdtimer /\ e.callfwd = d.callfwd /\ e.tasks = d.tasks
      BY DEF DeviceType
    <3> HIDE DEF e
    <3> QED
      BY <2>2, <3>1, FieldsSame DEF FwdOK
  <2> QED
    BY <1>1, <2>3 DEF transmit_subchan_open_receive_channel, n
<1>2. CASE d.recv # "CLOSED"
  BY <1>2 DEF Same, Calm, transmit_subchan_open_receive_channel
<1> QED
  BY <1>1, <1>2

(* Nor does what was dialled so far.                                       *)
LEMMA ExtenSame ==
  ASSUME NEW d \in DeviceType, NEW b \in BOOLEAN PROVE Same(d, [d EXCEPT !.exten = b])
<1> DEFINE e == [d EXCEPT !.exten = b]
<1>1. e \in DeviceType
  BY DEF DeviceType
<1>2. /\ e.subchans = d.subchans /\ e.sub = d.sub /\ e.active = d.active
      /\ e.dialtimers = d.dialtimers /\ e.state = d.state /\ e.oom = d.oom
      /\ e.fwdtimer = d.fwdtimer /\ e.callfwd = d.callfwd /\ e.tasks = d.tasks
  BY DEF DeviceType
<1> HIDE DEF e
<1>3. Same(d, e)
  BY <1>1, <1>2, FieldsSame DEF FwdOK
<1> QED
  BY <1>3 DEF e

(* Arming and removing dial timers leaves the subchannels alone.           *)
LEMMA TimerFacts ==
  ASSUME NEW d \in DeviceType, NEW D \in SUBSET Subchans
  PROVE  LET e == [UseRunner(d) EXCEPT !.dialtimers = D]
         IN  /\ Calm(d, e) /\ e.dialtimers = D
             /\ e.subchans = d.subchans /\ e.sub = d.sub /\ e.active = d.active
<1> DEFINE b == d.offthread \/ d.holder # SessionThread
           e == [d EXCEPT !.offthread = b, !.dialtimers = D]
<1>1. [UseRunner(d) EXCEPT !.dialtimers = D] = e /\ b \in BOOLEAN
  BY DEF UseRunner, DeviceType
<1> HIDE DEF b
<1>2. e \in DeviceType
  BY <1>1 DEF DeviceType
<1>3. /\ e.subchans = d.subchans /\ e.sub = d.sub /\ e.active = d.active
      /\ e.dialtimers = D /\ e.state = d.state /\ e.oom = d.oom
      /\ e.fwdtimer = d.fwdtimer /\ e.callfwd = d.callfwd /\ e.tasks = d.tasks
  BY DEF DeviceType
<1> HIDE DEF e
<1>4. Calm(d, e)
  BY <1>2, <1>3 DEF Calm, Sound, FwdOK, Listed
<1> QED
  BY <1>1, <1>3, <1>4

(* Another active subchannel, and nothing else.                            *)
LEMMA ActiveFacts ==
  ASSUME NEW d \in DeviceType, NEW x \in Subchans \cup {NULL}
  PROVE  LET e == [d EXCEPT !.active = x]
         IN  /\ Calm(d, e) /\ e.active = x
             /\ e.subchans = d.subchans /\ e.sub = d.sub /\ e.dialtimers = d.dialtimers
<1> DEFINE e == [d EXCEPT !.active = x]
<1>1. e \in DeviceType
  BY DEF DeviceType
<1>2. /\ e.subchans = d.subchans /\ e.sub = d.sub /\ e.active = x
      /\ e.dialtimers = d.dialtimers /\ e.state = d.state /\ e.oom = d.oom
      /\ e.fwdtimer = d.fwdtimer /\ e.callfwd = d.callfwd /\ e.tasks = d.tasks
  BY DEF DeviceType
<1> HIDE DEF e
<1>3. Calm(d, e)
  BY <1>1, <1>2 DEF Calm, Sound, FwdOK, Listed
<1> QED
  BY <1>2, <1>3 DEF e

(* One subchannel changes (not whether it was created), and nothing else.  *)
LEMMA SubFacts ==
  ASSUME NEW d \in DeviceType, NEW s \in Subchans, NEW u \in SubchannelType,
         u.dir = d.sub[s].dir
  PROVE  LET e == [d EXCEPT !.sub[s] = u]
         IN  /\ Calm(d, e) /\ e.sub[s] = u /\ \A x \in Subchans \ {s} : e.sub[x] = d.sub[x]
             /\ e.subchans = d.subchans /\ e.active = d.active /\ e.dialtimers = d.dialtimers
<1> DEFINE f == [d.sub EXCEPT ![s] = u]
<1>1. /\ f \in [Subchans -> SubchannelType] /\ f[s] = u
      /\ \A x \in Subchans \ {s} : f[x] = d.sub[x]
      /\ \A x \in Subchans : f[x].dir = d.sub[x].dir
  BY Fields
<1>2. [d EXCEPT !.sub[s] = u] = [d EXCEPT !.sub = f]
  BY DEF DeviceType
<1> HIDE DEF f
<1> DEFINE e == [d EXCEPT !.sub = f]
<1>a. e = [d EXCEPT !.sub[s] = u]
  BY <1>2
<1>3. Listed(d) \subseteq Subchans
  BY Fields
<1>4. e \in DeviceType
  BY <1>1 DEF DeviceType
<1>5. /\ e.sub = f /\ e.subchans = d.subchans /\ e.active = d.active
      /\ e.dialtimers = d.dialtimers /\ e.fwdtimer = d.fwdtimer /\ e.callfwd = d.callfwd
      /\ e.tasks = d.tasks /\ e.state = d.state /\ e.oom = d.oom
  BY DEF DeviceType
<1> HIDE DEF e
<1>6. Calm(d, e)
  BY <1>1, <1>3, <1>4, <1>5 DEF Calm, Sound, FwdOK, Listed
<1> QED
  BY <1>a, <1>1, <1>5, <1>6

-----------------------------------------------------------------------------
(* sccp_line_new_subchannel appends a subchannel that was not created      *)
(* before, in the state of a call about to be dialled, with the reference  *)
(* of the list.                                                            *)
LEMMA NewFacts ==
  ASSUME NEW d \in DeviceType, NEW s \in NewSubchannels(d), NEW dir \in {"incoming", "outgoing"}
  PROVE  LET e == sccp_line_new_subchannel(d, s, dir)
         IN  /\ Calm(d, e) /\ s \in Subchans /\ d.sub[s].dir = "none"
             /\ Listed(e) = Listed(d) \cup {s}
             /\ e.active = d.active /\ e.dialtimers = d.dialtimers
             /\ e.sub[s].dir = dir /\ e.sub[s].state = "OFFHOOK" /\ e.sub[s].chan = NULL
             /\ ~e.sub[s].rtp /\ e.sub[s].related = NULL /\ e.sub[s].refs = 1
             /\ \A x \in Subchans \ {s} : e.sub[x] = d.sub[x]
<1> DEFINE u == [NewSubchannel EXCEPT !.dir = dir, !.refs = 1]
           q == Append(d.subchans, s)
           f == [d.sub EXCEPT ![s] = u]
           e == [d EXCEPT !.subchans = q, !.sub = f]
<1>0. s \in Subchans /\ d.sub[s].dir = "none"
  BY DEF NewSubchannels, Unused
<1>1. /\ u \in SubchannelType
      /\ u.dir = dir /\ u.state = "OFFHOOK" /\ u.chan = NULL
      /\ ~u.rtp /\ u.related = NULL /\ u.refs = 1
  <2>1. NewSubchannel \in SubchannelType
    BY DEF SubchannelType, NewSubchannel
  <2> DEFINE n == NewSubchannel
             v == [n EXCEPT !.dir = dir, !.refs = 1]
  <2>2. n \in SubchannelType
    BY <2>1
  <2> HIDE DEF n
  <2>3. dir \in {"none", "incoming", "outgoing"} /\ 1 \in Int
    OBVIOUS
  <2>4. v \in SubchannelType
    BY <2>2, <2>3 DEF SubchannelType
  <2>5. /\ v.dir = dir /\ v.refs = 1 /\ v.state = n.state /\ v.chan = n.chan
        /\ v.rtp = n.rtp /\ v.related = n.related
    BY <2>2 DEF SubchannelType
  <2>6. n.state = "OFFHOOK" /\ n.chan = NULL /\ n.rtp = FALSE /\ n.related = NULL
    BY DEF n, NewSubchannel
  <2> QED
    BY <2>4, <2>5, <2>6 DEF n
<1> HIDE DEF u
<1>2. /\ q \in Seq(Subchans) /\ Range(q) = Range(d.subchans) \cup {s}
      /\ OneEach(d.subchans) /\ s \notin Range(d.subchans) => OneEach(q)
  BY <1>0, AppendFacts, Fields
<1>3. /\ f \in [Subchans -> SubchannelType] /\ f[s] = u
      /\ \A x \in Subchans \ {s} : f[x] = d.sub[x]
  BY <1>0, <1>1, Fields
<1>4. sccp_line_new_subchannel(d, s, dir) = e
  BY DEF sccp_line_new_subchannel, u, DeviceType
<1> HIDE DEF q, f
<1>5. e \in DeviceType
  BY <1>2, <1>3 DEF DeviceType
<1>6. /\ e.sub = f /\ e.subchans = q /\ e.active = d.active
      /\ e.dialtimers = d.dialtimers /\ e.fwdtimer = d.fwdtimer /\ e.callfwd = d.callfwd
      /\ e.tasks = d.tasks /\ e.state = d.state /\ e.oom = d.oom
  BY DEF DeviceType
<1> HIDE DEF e
<1>7. Listed(d) \subseteq Subchans
  BY Fields
<1>8. Sound(d) => Sound(e)
  BY <1>0, <1>1, <1>2, <1>3, <1>6, <1>7 DEF Sound, Listed
<1>9. Calm(d, e)
  BY <1>5, <1>6, <1>8 DEF Calm, FwdOK
<1> QED
  BY <1>0, <1>1, <1>2, <1>3, <1>4, <1>6, <1>9 DEF Listed

(* Unlinked empties one subchannel and makes the one related to it forget  *)
(* it; no other subchannel changes.                                        *)
LEMMA UnlinkedFacts ==
  ASSUME NEW d \in DeviceType, NEW s \in Subchans
  PROVE  LET f == Unlinked(d, s)
         IN  /\ f \in [Subchans -> SubchannelType]
             /\ \A x \in Subchans : f[x].dir = d.sub[x].dir /\ f[x].state = d.sub[x].state
             /\ f[s].chan = NULL /\ f[s].rtp = FALSE /\ f[s].related = NULL
             /\ f[s].refs = d.sub[s].refs - 1
             /\ \A x \in Subchans \ {s} :
                  /\ f[x].chan = d.sub[x].chan /\ f[x].rtp = d.sub[x].rtp
                  /\ f[x].refs = d.sub[x].refs
                  /\ f[x].related = IF d.sub[s].related = x THEN NULL ELSE d.sub[x].related
<1> DEFINE f == Unlinked(d, s)
<1>1. f = [x \in Subchans |-> f[x]] /\ DOMAIN f = Subchans
  BY DEF Unlinked
<1>2. /\ f[s] \in SubchannelType /\ f[s].dir = d.sub[s].dir /\ f[s].state = d.sub[s].state
      /\ f[s].chan = NULL /\ f[s].rtp = FALSE /\ f[s].related = NULL
      /\ f[s].refs = d.sub[s].refs - 1
  <2> DEFINE n == d.sub[s].refs - 1
             u == [d.sub[s] EXCEPT !.rtp = FALSE, !.chan = NULL, !.related = NULL, !.refs = n]
  <2>1. f[s] = u
    BY DEF Unlinked
  <2>2. n \in Int /\ d.sub[s] \in SubchannelType
    BY SubFields
  <2> HIDE DEF n
  <2>3. /\ u \in SubchannelType /\ u.dir = d.sub[s].dir /\ u.state = d.sub[s].state
        /\ u.chan = NULL /\ u.rtp = FALSE /\ u.related = NULL /\ u.refs = n
    BY <2>2 DEF SubchannelType
  <2> QED
    BY <2>1, <2>3 DEF n
<1>3. ASSUME NEW x \in Subchans, x # s
      PROVE  /\ f[x] \in SubchannelType
             /\ f[x].dir = d.sub[x].dir /\ f[x].state = d.sub[x].state
             /\ f[x].chan = d.sub[x].chan /\ f[x].rtp = d.sub[x].rtp
             /\ f[x].refs = d.sub[x].refs
             /\ f[x].related = IF d.sub[s].related = x THEN NULL ELSE d.sub[x].related
  <2>0. d.sub[x] \in SubchannelType
    BY SubFields
  <2>1. CASE d.sub[s].related = x
    <3>1. f[x] = [d.sub[x] EXCEPT !.related = NULL]
      BY <1>3, <2>1 DEF Unlinked
    <3> HIDE DEF f
    <3> QED
      BY <2>0, <2>1, <3>1 DEF SubchannelType
  <2>2. CASE d.sub[s].related # x
    <3>1. f[x] = d.sub[x]
      BY <1>3, <2>2 DEF Unlinked
    <3> QED
      BY <2>0, <2>2, <3>1
  <2> QED
    BY <2>1, <2>2
<1> HIDE DEF f
<1>4. f \in [Subchans -> SubchannelType]
  BY <1>1, <1>2, <1>3
<1> QED
  BY <1>2, <1>3, <1>4 DEF f

(* e is d once s was cleared, with n references left: out of the list, not *)
(* active any more, without channel, RTP instance or related subchannel.   *)
ClearedFrom(d, e, s, n) ==
  /\ Calm(d, e)
  /\ Sound(d) => Listed(e) = Listed(d) \ {s}
  /\ d.subchans = << >> => e.subchans = << >>
  /\ e.active = (IF d.active = s THEN NULL ELSE d.active) /\ e.dialtimers = d.dialtimers
  /\ \A x \in Subchans : e.sub[x].dir = d.sub[x].dir /\ e.sub[x].state = d.sub[x].state
  /\ e.sub[s].chan = NULL /\ e.sub[s].rtp = FALSE /\ e.sub[s].related = NULL
  /\ e.sub[s].refs = n
  /\ \A x \in Subchans \ {s} :
       /\ e.sub[x].chan = d.sub[x].chan /\ e.sub[x].rtp = d.sub[x].rtp
       /\ e.sub[x].refs = d.sub[x].refs
       /\ e.sub[x].related = IF d.sub[s].related = x THEN NULL ELSE d.sub[x].related

(* do_clear_subchannel does that, and gives back one reference.            *)
LEMMA ClearFacts ==
  ASSUME NEW d \in DeviceType, NEW s \in Subchans
  PROVE  ClearedFrom(d, do_clear_subchannel(d, s), s, d.sub[s].refs - 1)
<1> DEFINE r == IF s = d.active THEN "CLOSED" ELSE d.recv
           q == RemoveFirst(d.subchans, s)
           f == Unlinked(d, s)
           a == IF d.active = s THEN NULL ELSE d.active
           b == d.fault \/ (q = << >> /\ r # "CLOSED")
           e == [d EXCEPT !.sub = f, !.subchans = q, !.active = a, !.recv = r, !.fault = b]
<1>1. do_clear_subchannel(d, s) = e
  BY DEF do_clear_subchannel, DeviceType
<1>2. /\ r \in {"CLOSED", "OPENING", "OPENED"} /\ b \in BOOLEAN
      /\ a \in Subchans \cup {NULL}
  BY DEF DeviceType
<1>3. /\ q \in Seq(Subchans)
      /\ OneEach(d.subchans) => OneEach(q) /\ Range(q) = Range(d.subchans) \ {s}
  BY Fields, RemoveFacts
<1>4. d.subchans = << >> => q = << >>
  BY DEF RemoveFirst
<1>5. /\ f \in [Subchans -> SubchannelType]
      /\ \A x \in Subchans : f[x].dir = d.sub[x].dir /\ f[x].state = d.sub[x].state
      /\ f[s].chan = NULL /\ f[s].rtp = FALSE /\ f[s].related = NULL
      /\ f[s].refs = d.sub[s].refs - 1
      /\ \A x \in Subchans \ {s} :
           /\ f[x].chan = d.sub[x].chan /\ f[x].rtp = d.sub[x].rtp
           /\ f[x].refs = d.sub[x].refs
           /\ f[x].related = IF d.sub[s].related = x THEN NULL ELSE d.sub[x].related
  BY UnlinkedFacts
<1> HIDE DEF r, q, f, b
<1>6. e \in DeviceType
  <2> HIDE DEF a
  <2> QED
    BY <1>2, <1>3, <1>5 DEF DeviceType
<1>7. /\ e.sub = f /\ e.subchans = q /\ e.active = a
      /\ e.dialtimers = d.dialtimers /\ e.fwdtimer = d.fwdtimer /\ e.callfwd = d.callfwd
      /\ e.tasks = d.tasks /\ e.state = d.state /\ e.oom = d.oom
  BY DEF DeviceType
<1> HIDE DEF e
<1>8. Listed(d) \subseteq Subchans
  BY Fields
<1>9. Sound(d) => Sound(e) /\ Listed(e) = Listed(d) \ {s}
  BY <1>3, <1>5, <1>7, <1>8 DEF Sound, Listed
<1>10. Calm(d, e)
  BY <1>6, <1>7, <1>9 DEF Calm, FwdOK
<1> QED
  BY <1>1, <1>4, <1>5, <1>7, <1>9, <1>10 DEF ClearedFrom

-----------------------------------------------------------------------------
(* Every subchannel has one reference for its channel and one for the      *)
(* list.                                                                   *)
Counted(d) ==
  \A s \in Subchans :
    d.sub[s].refs = (IF d.sub[s].chan # NULL THEN 1 ELSE 0) + (IF s \in Listed(d) THEN 1 ELSE 0)

(* An RTP instance belongs to a subchannel that somebody holds.            *)
Held(d) == \A s \in Subchans : d.sub[s].rtp => d.sub[s].chan # NULL \/ s \in Listed(d)

(* As long as the device is not destroyed, the subchannels that have a     *)
(* channel are in the list, and so is the active one.                      *)
InList(d) ==
  /\ \A s \in Subchans : d.sub[s].chan # NULL => s \in Listed(d)
  /\ d.active \in Listed(d) \cup {NULL}

(* A subchannel about to be dialled.                                       *)
Fresh(d, s) == s \in Listed(d) /\ d.sub[s].state = "OFFHOOK" /\ d.sub[s].chan = NULL

(* Related subchannels point at each other, and are in the list.           *)
Paired(d) ==
  \A s \in Subchans : d.sub[s].related # NULL =>
    /\ d.sub[d.sub[s].related].related = s
    /\ s \in Listed(d) /\ d.sub[s].related # s

(* The calls of a device are in order, while start_the_call works for a,   *)
(* or for nobody (NULL): a is in the list, about to be dialled, and no     *)
(* dial timer is armed with it, so that nothing clears it and no timer     *)
(* starts it a second time.                                                *)
Good(d, a) ==
  /\ d \in DeviceType /\ Sound(d)
  /\ Counted(d) /\ Held(d)
  /\ d.state = "DESTROYED" => d.subchans = << >>
  /\ d.state # "DESTROYED" =>
       /\ InList(d) /\ Paired(d)
       /\ \A s \in d.dialtimers : Fresh(d, s)
  /\ a # NULL => Fresh(d, a) /\ a \notin d.dialtimers /\ d.state # "DESTROYED"

(* What does not change the calls keeps them in order.                     *)
LEMMA SameGood ==
  ASSUME NEW d, NEW e, NEW a, Same(d, e), Good(d, a)
  PROVE  Good(e, a)
BY DEF Same, Calm, Good, Counted, Held, InList, Fresh, Paired, Listed

(* Dial timers may be armed with subchannels about to be dialled, but not  *)
(* with the one that is being dialled.                                     *)
LEMMA TimerGood ==
  ASSUME NEW d, NEW a \in Subchans \cup {NULL}, Good(d, a), NEW D \in SUBSET Subchans,
         d.state # "DESTROYED" => \A s \in D : Fresh(d, s) /\ s # a
  PROVE  Good([UseRunner(d) EXCEPT !.dialtimers = D], a)
<1> DEFINE e == [UseRunner(d) EXCEPT !.dialtimers = D]
<1>1. d \in DeviceType
  BY DEF Good
<1>2. /\ Calm(d, e) /\ e.dialtimers = D
      /\ e.subchans = d.subchans /\ e.sub = d.sub /\ e.active = d.active
  BY <1>1, TimerFacts
<1> HIDE DEF e
<1>3. Good(e, a)
  BY <1>2 DEF Calm, Good, Counted, Held, InList, Fresh, Paired, Listed
<1> QED
  BY <1>3 DEF e

(* Any subchannel of the list may become the active one.                   *)
LEMMA ActiveGood ==
  ASSUME NEW d, NEW a, Good(d, a), NEW x \in Listed(d) \cup {NULL}
  PROVE  Good([d EXCEPT !.active = x], a)
<1> DEFINE e == [d EXCEPT !.active = x]
<1>1. d \in DeviceType /\ x \in Subchans \cup {NULL}
  BY Fields DEF Good
<1>2. /\ Calm(d, e) /\ e.active = x
      /\ e.subchans = d.subchans /\ e.sub = d.sub /\ e.dialtimers = d.dialtimers
  BY <1>1, ActiveFacts
<1> HIDE DEF e
<1>3. Good(e, a)
  BY <1>2 DEF Calm, Good, Counted, Held, InList, Fresh, Paired, Listed
<1> QED
  BY <1>3 DEF e

(* A subchannel may change its state if it has a channel, so that no timer *)
(* and no start_the_call is waiting for it, and be given an RTP instance   *)
(* if it is in the list.                                                   *)
LEMMA SubGood ==
  ASSUME NEW d, NEW a, Good(d, a), NEW s \in Subchans, NEW u \in SubchannelType,
         u.dir = d.sub[s].dir, u.chan = d.sub[s].chan, u.refs = d.sub[s].refs,
         u.related = d.sub[s].related,
         u.rtp => d.sub[s].rtp \/ s \in Listed(d),
         u.state = d.sub[s].state \/ d.sub[s].chan # NULL
  PROVE  Good([d EXCEPT !.sub[s] = u], a)
<1> DEFINE e == [d EXCEPT !.sub[s] = u]
<1>1. d \in DeviceType /\ Listed(d) \subseteq Subchans /\ d.dialtimers \in SUBSET Subchans
  BY Fields DEF Good
<1>2. /\ Calm(d, e) /\ e.sub[s] = u /\ \A x \in Subchans \ {s} : e.sub[x] = d.sub[x]
      /\ e.subchans = d.subchans /\ e.active = d.active /\ e.dialtimers = d.dialtimers
  BY <1>1, SubFacts
<1> HIDE DEF e
<1>3. \A x \in Subchans : /\ e.sub[x].chan = d.sub[x].chan /\ e.sub[x].refs = d.sub[x].refs
                          /\ e.sub[x].related = d.sub[x].related
                          /\ e.sub[x].rtp => d.sub[x].rtp \/ x \in Listed(d)
                          /\ e.sub[x].state = d.sub[x].state \/ d.sub[x].chan # NULL
  BY <1>2
<1>4. Listed(e) = Listed(d)
  BY <1>2 DEF Listed
<1>5. \A x \in Subchans : Fresh(d, x) => Fresh(e, x)
  BY <1>3, <1>4 DEF Fresh
<1>6. Paired(d) => Paired(e)
  <2>1. \A x \in Subchans : d.sub[x].related \in Subchans \cup {NULL}
    BY <1>1, SubFields
  <2> QED
    BY <1>3, <1>4, <2>1 DEF Paired
<1>7. Counted(d) => Counted(e)
  BY <1>3, <1>4 DEF Counted
<1>8. (Held(d) => Held(e)) /\ (InList(d) => InList(e))
  BY <1>2, <1>3, <1>4 DEF Held, InList
<1>9. Good(e, a)
  BY <1>1, <1>2, <1>3, <1>4, <1>5, <1>6, <1>7, <1>8 DEF Calm, Good, Fresh
<1> QED
  BY <1>9 DEF e

(* A new subchannel disturbs no other one, and nobody knew it before.      *)
LEMMA NewGood ==
  ASSUME NEW d, NEW a, Good(d, a), d.state # "DESTROYED",
         NEW s \in NewSubchannels(d), NEW dir \in {"incoming", "outgoing"}
  PROVE  LET e == sccp_line_new_subchannel(d, s, dir)
         IN  Good(e, a) /\ s \notin Listed(d) /\ d.sub[s].chan = NULL /\ s # a
<1> DEFINE e == sccp_line_new_subchannel(d, s, dir)
<1>1. d \in DeviceType /\ Listed(d) \subseteq Subchans /\ d.dialtimers \in SUBSET Subchans
      /\ NULL \notin Subchans
  BY Fields DEF Good
<1>2. /\ Calm(d, e) /\ s \in Subchans /\ d.sub[s].dir = "none"
      /\ Listed(e) = Listed(d) \cup {s}
      /\ e.active = d.active /\ e.dialtimers = d.dialtimers
      /\ e.sub[s].dir = dir /\ e.sub[s].state = "OFFHOOK" /\ e.sub[s].chan = NULL
      /\ ~e.sub[s].rtp /\ e.sub[s].related = NULL /\ e.sub[s].refs = 1
      /\ \A x \in Subchans \ {s} : e.sub[x] = d.sub[x]
  BY <1>1, NewFacts
<1> HIDE DEF e
<1>3. s \notin Listed(d) /\ d.sub[s].chan = NULL /\ d.sub[s].related = NULL /\ s # a
      /\ s \notin d.dialtimers
  BY <1>1, <1>2 DEF Good, Sound, InList, Paired, Fresh
<1>4. \A x \in Subchans : Fresh(d, x) => Fresh(e, x)
  BY <1>2, <1>3 DEF Fresh
<1>5. Paired(d) => Paired(e)
  <2>1. \A x \in Subchans : d.sub[x].related \in Subchans \cup {NULL}
    BY <1>1, SubFields
  <2> QED
    BY <1>2, <1>3, <2>1 DEF Paired
<1>6. Counted(d) => Counted(e)
  <2> SUFFICES ASSUME Counted(d), NEW x \in Subchans
               PROVE  e.sub[x].refs = (IF e.sub[x].chan # NULL THEN 1 ELSE 0)
                                      + (IF x \in Listed(e) THEN 1 ELSE 0)
    BY DEF Counted
  <2>1. CASE x = s
    BY <1>2, <2>1
  <2>2. CASE x # s
    <3>1. e.sub[x] = d.sub[x] /\ (x \in Listed(e) <=> x \in Listed(d))
      BY <1>2, <2>2
    <3> QED
      BY <3>1 DEF Counted
  <2> QED
    BY <2>1, <2>2
<1>7. Held(d) => Held(e)
  BY <1>2 DEF Held
<1>8. InList(d) => InList(e)
  BY <1>2 DEF InList
<1>9. Good(e, a)
  BY <1>1, <1>2, <1>3, <1>4, <1>5, <1>6, <1>7, <1>8 DEF Calm, Good, Fresh
<1> QED
  BY <1>3, <1>9 DEF e

(* Clearing a subchannel whose last reference is the list's keeps the      *)
(* calls in order, if it is not the one being dialled and has no dial      *)
(* timer.                                                                  *)
LEMMA ClearGood ==
  ASSUME NEW d, NEW a, Good(d, a), d.state # "DESTROYED",
         NEW s \in Listed(d), s # a, s \notin d.dialtimers,
         NEW e, ClearedFrom(d, e, s, 0)
  PROVE  Good(e, a)
<1>1. d \in DeviceType /\ Listed(d) \subseteq Subchans /\ d.dialtimers \in SUBSET Subchans
      /\ NULL \notin Subchans /\ s \in Subchans /\ Sound(d)
  BY Fields DEF Good
<1>2. /\ Calm(d, e) /\ Listed(e) = Listed(d) \ {s}
      /\ e.active = (IF d.active = s THEN NULL ELSE d.active) /\ e.dialtimers = d.dialtimers
      /\ \A x \in Subchans : e.sub[x].dir = d.sub[x].dir /\ e.sub[x].state = d.sub[x].state
      /\ e.sub[s].chan = NULL /\ e.sub[s].rtp = FALSE /\ e.sub[s].related = NULL
      /\ e.sub[s].refs = 0
      /\ \A x \in Subchans \ {s} :
           /\ e.sub[x].chan = d.sub[x].chan /\ e.sub[x].rtp = d.sub[x].rtp
           /\ e.sub[x].refs = d.sub[x].refs
           /\ e.sub[x].related = IF d.sub[s].related = x THEN NULL ELSE d.sub[x].related
  BY <1>1 DEF ClearedFrom
<1>3. \A x \in Subchans : Fresh(d, x) /\ x # s => Fresh(e, x)
  BY <1>2 DEF Fresh
<1>4. Paired(d) => Paired(e)
  <2>1. \A x \in Subchans : d.sub[x].related \in Subchans \cup {NULL}
    BY <1>1, SubFields
  <2> SUFFICES ASSUME Paired(d), NEW x \in Subchans, e.sub[x].related # NULL
               PROVE  /\ e.sub[e.sub[x].related].related = x
                      /\ x \in Listed(e) /\ e.sub[x].related # x
    BY DEF Paired
  <2>2. x # s /\ d.sub[s].related # x /\ e.sub[x].related = d.sub[x].related
    BY <1>2
  <2> DEFINE r == d.sub[x].related
  <2>3. r \in Subchans /\ d.sub[r].related = x /\ x \in Listed(d) /\ r # x
    BY <2>1, <2>2 DEF Paired
  <2>4. r # s
    BY <2>2, <2>3
  <2>5. e.sub[r].related = x
    <3>1. d.sub[s].related # r
      BY <1>1, <2>1, <2>2, <2>3, <2>4 DEF Paired
    <3> QED
      BY <1>2, <2>3, <2>4, <3>1
  <2> QED
    BY <1>2, <2>2, <2>3, <2>5
<1>5. Counted(d) => Counted(e)
  <2> SUFFICES ASSUME Counted(d), NEW x \in Subchans
               PROVE  e.sub[x].refs = (IF e.sub[x].chan # NULL THEN 1 ELSE 0)
                                      + (IF x \in Listed(e) THEN 1 ELSE 0)
    BY DEF Counted
  <2>1. CASE x = s
    BY <1>2, <2>1
  <2>2. CASE x # s
    <3>1. /\ e.sub[x].chan = d.sub[x].chan /\ e.sub[x].refs = d.sub[x].refs
          /\ (x \in Listed(e) <=> x \in Listed(d))
      BY <1>2, <2>2
    <3> QED
      BY <3>1 DEF Counted
  <2> QED
    BY <2>1, <2>2
<1>6. Held(d) => Held(e)
  BY <1>2 DEF Held
<1>7. InList(d) => InList(e)
  BY <1>1, <1>2 DEF InList
<1>8. e.state # "DESTROYED"
  BY <1>2 DEF Calm
<1>9. \A x \in e.dialtimers : Fresh(e, x)
  BY <1>1, <1>2, <1>3 DEF Good
<1>10. a # NULL => Fresh(e, a) /\ a \notin e.dialtimers
  BY <1>1, <1>2, <1>3 DEF Good, Fresh
<1> QED
  BY <1>2, <1>4, <1>5, <1>6, <1>7, <1>8, <1>9, <1>10 DEF Calm, Good

-----------------------------------------------------------------------------
(* No subchannel gains or loses its channel, and none that has one goes    *)
(* back to the state of a call about to be dialled.                        *)
Kept(d, e) ==
  \A s \in Subchans :
    /\ e.sub[s].chan = d.sub[s].chan
    /\ e.sub[s].state = "OFFHOOK" /\ e.sub[s].chan # NULL => d.sub[s].state = "OFFHOOK"

(* An operation that at most leaves the device without active subchannel.  *)
Parked(d, e) ==
  /\ Calm(d, e)
  /\ e.subchans = d.subchans /\ e.sub = d.sub /\ e.dialtimers = d.dialtimers
  /\ e.active \in {d.active, NULL}

(* Operations one after the other.                                         *)
LEMMA CalmTrans ==
  ASSUME NEW d, NEW e, NEW f, Calm(d, e), Calm(e, f) PROVE Calm(d, f)
BY DEF Calm

(* The same.                                                               *)
LEMMA KeptTrans ==
  ASSUME NEW d, NEW e, NEW f, Kept(d, e), Kept(e, f) PROVE Kept(d, f)
BY DEF Kept

(* What changes no call changes no channel.                                *)
LEMMA SameKept ==
  ASSUME NEW d, NEW e, Same(d, e) PROVE Kept(d, e)
BY DEF Same, Kept

(* A call on hold is as much in order as before.                           *)
LEMMA ParkedGood ==
  ASSUME NEW d, NEW e, NEW a, Parked(d, e), Good(d, a)
  PROVE  Good(e, a) /\ Kept(d, e)
BY DEF Parked, Calm, Good, Counted, Held, InList, Fresh, Paired, Listed, Kept

(* do_hold, whether it succeeds or finds no memory.                        *)
LEMMA HoldFacts ==
  ASSUME NEW d \in DeviceType
  PROVE  /\ Parked(d, do_hold(d).d) /\ do_hold(d).ok \in BOOLEAN
         /\ do_hold(d).ok => do_hold(d).d.active = NULL
<1> DEFINE added == IF d.sub[d.active].chan # NULL THEN CanAddTask(d) ELSE Result(TRUE, d)
           c == transmit_close_receive_channel(d)
           e == [c EXCEPT !.active = NULL]
<1>1. Same(d, added.d) /\ added.ok \in BOOLEAN
  <2>1. CASE d.sub[d.active].chan # NULL
    BY <2>1, CanAddSame
  <2>2. CASE d.sub[d.active].chan = NULL
    BY <2>2 DEF Result, Same, Calm
  <2> QED
    BY <2>1, <2>2
<1>2. Same(d, c)
  BY CloseSame
<1>3. c \in DeviceType
  BY <1>2 DEF Same, Calm
<1>4. do_hold(d) = IF added.ok THEN Result(TRUE, e) ELSE added
  BY DEF do_hold
<1> HIDE DEF added, c
<1>5. Calm(c, e) /\ e.active = NULL
      /\ e.subchans = c.subchans /\ e.sub = c.sub /\ e.dialtimers = c.dialtimers
  BY <1>3, ActiveFacts
<1> HIDE DEF e
<1>7. CASE added.ok
  <2>1. do_hold(d).d = e /\ do_hold(d).ok = TRUE
    BY <1>4, <1>7 DEF Result
  <2> QED
    BY <1>2, <1>5, <2>1 DEF Same, Calm, Parked
<1>8. CASE ~added.ok
  <2>1. do_hold(d).d = added.d /\ do_hold(d).ok = FALSE
    BY <1>1, <1>4, <1>8
  <2> QED
    BY <1>1, <2>1 DEF Same, Calm, Parked
<1> QED
  BY <1>7, <1>8

(* The same, when there may be no active subchannel.                       *)
LEMMA HoldActiveFacts ==
  ASSUME NEW d \in DeviceType
  PROVE  /\ Parked(d, HoldActive(d).d) /\ HoldActive(d).ok \in BOOLEAN
         /\ HoldActive(d).ok => HoldActive(d).d.active = NULL
<1>1. CASE d.active # NULL
  BY <1>1, HoldFacts DEF HoldActive
<1>2. CASE d.active = NULL
  BY <1>2 DEF HoldActive, Result, Parked, Calm
<1> QED
  BY <1>1, <1>2

(* do_resume: a subchannel of the list becomes active again.               *)
LEMMA ResumeFacts ==
  ASSUME NEW d \in DeviceType, NEW s \in Subchans
  PROVE  /\ Calm(d, do_resume(d, s)) /\ Kept(d, do_resume(d, s))
         /\ \A a : Good(d, a) /\ s \in Listed(d) => Good(do_resume(d, s), a)
<1> DEFINE e == [d EXCEPT !.active = s]
           u == [e.sub[s] EXCEPT !.resuming = TRUE]
           f == [e EXCEPT !.sub[s] = u]
           g == transmit_subchan_open_receive_channel(f)
<1>1. Calm(d, e) /\ e.sub = d.sub
  BY ActiveFacts
<1>2. \A a : Good(d, a) /\ s \in Listed(d) => Good(e, a)
  BY ActiveGood
<1>3. Kept(d, e)
  BY <1>1 DEF Kept
<1>4. do_resume(d, s) = IF d.sub[s].rtp THEN g ELSE e
  BY DEF do_resume
<1>5. e \in DeviceType
  BY <1>1 DEF Calm
<1> HIDE DEF e
<1>a. e.sub[s] \in SubchannelType
  BY <1>5, SubFields
<1>6. /\ u \in SubchannelType /\ u.dir = e.sub[s].dir /\ u.chan = e.sub[s].chan
      /\ u.refs = e.sub[s].refs /\ u.related = e.sub[s].related /\ u.rtp = e.sub[s].rtp
      /\ u.state = e.sub[s].state
  BY <1>a DEF SubchannelType
<1> HIDE DEF u
<1>7. Calm(e, f) /\ f.sub[s] = u /\ \A x \in Subchans \ {s} : f.sub[x] = e.sub[x]
  BY <1>5, <1>6, SubFacts
<1>8. Kept(e, f)
  BY <1>6, <1>7 DEF Kept
<1>9. \A a : Good(e, a) => Good(f, a)
  BY <1>6, SubGood
<1>10. f \in DeviceType
  BY <1>7 DEF Calm
<1> HIDE DEF f
<1>11. Same(f, g)
  BY <1>10, OpenSame
<1> HIDE DEF g
<1>12. Calm(d, g) /\ Kept(d, g) /\ \A a : Good(d, a) /\ s \in Listed(d) => Good(g, a)
  <2>1. Calm(f, g) /\ Kept(f, g)
    BY <1>11, SameKept DEF Same
  <2>2. Calm(d, g)
    BY <1>1, <1>7, <2>1, CalmTrans
  <2>3. Kept(d, g)
    BY <1>3, <1>8, <2>1, KeptTrans
  <2>4. \A a : Good(f, a) => Good(g, a)
    BY <1>11, SameGood
  <2> QED
    BY <1>2, <1>9, <2>2, <2>3, <2>4
<1> QED
  BY <1>1, <1>2, <1>3, <1>4, <1>12

(* do_newcall: each of its outcomes keeps the calls in order, and what it  *)
(* returns is in the list, in the state of a call about to be dialled.     *)
LEMMA NewcallFacts ==
  ASSUME NEW d \in DeviceType, NEW new \in do_newcall(d)
  PROVE  /\ Calm(d, new.d)
         /\ new.subchan # NULL => new.subchan \in Subchans
         /\ d.state # "DESTROYED" => \A a : Good(d, a) =>
              /\ Good(new.d, a) /\ Kept(d, new.d)
              /\ new.subchan # NULL =>
                   /\ new.subchan \in Listed(new.d)
                   /\ new.d.sub[new.subchan].state = "OFFHOOK"
<1> DEFINE held == HoldActive(d)
           h == held.d
<1>1. /\ Parked(d, h) /\ Calm(d, h) /\ h \in DeviceType
      /\ \A a : Good(d, a) => Good(h, a) /\ Kept(d, h)
      /\ (h.state = "DESTROYED" <=> d.state = "DESTROYED")
  BY HoldActiveFacts, ParkedGood DEF Parked, Calm
<1>2. CASE new = [subchan |-> NULL, d |-> d]
  <2>1. Kept(d, d) /\ Calm(d, d)
    BY DEF Kept, Calm
  <2> QED
    BY <1>2, <2>1
<1>3. CASE new = [subchan |-> NULL, d |-> h]
  BY <1>1, <1>3
<1>4. CASE /\ FirstInState(d, "OFFHOOK") # NULL
           /\ new = [subchan |-> FirstInState(d, "OFFHOOK"), d |-> d]
  <2>1. Kept(d, d) /\ Calm(d, d)
    BY DEF Kept, Calm
  <2>2. FirstInState(d, "OFFHOOK") \in Listed(d) /\ FirstInState(d, "OFFHOOK") \in Subchans
        /\ d.sub[FirstInState(d, "OFFHOOK")].state = "OFFHOOK"
    BY <1>4, FirstFacts
  <2> QED
    BY <1>4, <2>1, <2>2
<1>5. ASSUME NEW s \in NewSubchannels(d),
             new = [subchan |-> s,
                    d |-> [sccp_line_new_subchannel(h, s, "outgoing") EXCEPT !.active = s]]
      PROVE  /\ Calm(d, new.d)
             /\ new.subchan # NULL => new.subchan \in Subchans
             /\ d.state # "DESTROYED" => \A a : Good(d, a) =>
                  /\ Good(new.d, a) /\ Kept(d, new.d)
                  /\ new.subchan # NULL =>
                       /\ new.subchan \in Listed(new.d)
                       /\ new.d.sub[new.subchan].state = "OFFHOOK"
  <2> HIDE DEF h
  <2> DEFINE n == sccp_line_new_subchannel(h, s, "outgoing")
             e == [n EXCEPT !.active = s]
  <2>1. s \in NewSubchannels(h)
    BY <1>1 DEF Parked, Calm, NewSubchannels, Unused
  <2>2. /\ Calm(h, n) /\ s \in Subchans
        /\ Listed(n) = Listed(h) \cup {s} /\ n.sub[s].state = "OFFHOOK" /\ n.sub[s].chan = NULL
        /\ \A x \in Subchans \ {s} : n.sub[x] = h.sub[x]
    BY <1>1, <2>1, NewFacts
  <2>3. h.state # "DESTROYED" => \A a : Good(h, a) => Good(n, a) /\ h.sub[s].chan = NULL
    BY <2>1, NewGood
  <2> HIDE DEF n
  <2>4. n \in DeviceType
    BY <2>2 DEF Calm
  <2>5. Calm(n, e) /\ e.sub = n.sub /\ e.subchans = n.subchans
    BY <2>2, <2>4, ActiveFacts
  <2>6. \A a : Good(n, a) => Good(e, a)
    BY <2>2, ActiveGood
  <2> HIDE DEF e
  <2>7. Calm(d, e)
    BY <1>1, <2>2, <2>5, CalmTrans
  <2>8. new.subchan = s /\ new.d = e
    BY <1>5 DEF n, e
  <2>9. s \in Listed(e) /\ e.sub[s].state = "OFFHOOK"
    BY <2>2, <2>5 DEF Listed
  <2>10. h.state # "DESTROYED" => \A a : Good(h, a) => Kept(h, e)
    BY <2>2, <2>3, <2>5 DEF Kept
  <2>11. h.state # "DESTROYED" => \A a : Good(d, a) => Good(e, a) /\ Kept(d, e)
    BY <1>1, <2>3, <2>6, <2>10, KeptTrans
  <2> QED
    BY <1>1, <2>2, <2>7, <2>8, <2>9, <2>11
<1>6. \/ new = [subchan |-> NULL, d |-> d]
      \/ new = [subchan |-> NULL, d |-> h]
      \/ /\ FirstInState(d, "OFFHOOK") # NULL
         /\ new = [subchan |-> FirstInState(d, "OFFHOOK"), d |-> d]
      \/ \E s \in NewSubchannels(d) :
           new = [subchan |-> s,
                  d |-> [sccp_line_new_subchannel(h, s, "outgoing") EXCEPT !.active = s]]
  BY DEF do_newcall
<1> QED
  BY <1>2, <1>3, <1>4, <1>5, <1>6

-----------------------------------------------------------------------------
(* remove_dialtimeout_task takes one timer away.                           *)
LEMMA RemoveTimerFacts ==
  ASSUME NEW d \in DeviceType, NEW s
  PROVE  LET e == remove_dialtimeout_task(d, s)
         IN  /\ Calm(d, e) /\ Kept(d, e) /\ e.dialtimers = d.dialtimers \ {s}
             /\ e.subchans = d.subchans /\ e.sub = d.sub /\ e.active = d.active
             /\ \A a \in Subchans \cup {NULL} : Good(d, a) => Good(e, a)
<1> DEFINE D == d.dialtimers \ {s}
           e == [UseRunner(d) EXCEPT !.dialtimers = D]
<1>1. D \in SUBSET Subchans /\ NULL \notin Subchans
  BY Fields
<1>2. remove_dialtimeout_task(d, s) = e
  <2>1. UseRunner(d).dialtimers = d.dialtimers
    BY DEF UseRunner, DeviceType
  <2> QED
    BY <2>1 DEF remove_dialtimeout_task
<1>3. ASSUME NEW a \in Subchans \cup {NULL}, Good(d, a) PROVE Good(e, a)
  <2>1. d.state # "DESTROYED" => \A x \in D : Fresh(d, x) /\ x # a
    BY <1>1, <1>3 DEF Good
  <2> HIDE DEF D
  <2> QED
    BY <1>1, <1>3, <2>1, TimerGood
<1>4. /\ Calm(d, e) /\ e.dialtimers = D
      /\ e.subchans = d.subchans /\ e.sub = d.sub /\ e.active = d.active
  BY <1>1, TimerFacts
<1> HIDE DEF e
<1>5. Kept(d, e)
  BY <1>4 DEF Kept
<1> QED
  BY <1>2, <1>3, <1>4, <1>5

(* do_hangup: the call ends later if it has a channel, and at once if it   *)
(* has none; then its timer is gone before it is cleared, and the list had *)
(* its last reference.                                                     *)
LEMMA HangupFacts ==
  ASSUME NEW d \in DeviceType, NEW s \in Subchans
  PROVE  LET e == do_hangup(d, s)
         IN  /\ Calm(d, e)
             /\ \A a \in Subchans \cup {NULL} :
                  Good(d, a) /\ s \in Listed(d) /\ s # a /\ d.state # "DESTROYED" =>
                    /\ Good(e, a) /\ Kept(d, e) /\ Listed(d) \ {s} \subseteq Listed(e)
                    /\ \A x \in Subchans : e.sub[x].state = d.sub[x].state
<1> DEFINE c == [d EXCEPT !.exten = FALSE]
           r == remove_dialtimeout_task(c, s)
           k == HangupTask(d.sub[s].chan)
           t == add_nolock_task(r, k).d
           f == do_clear_subchannel(r, s)
<1>1. Same(d, c) /\ c \in DeviceType
  BY ExtenSame DEF Same, Calm
<1> HIDE DEF c
<1>2. /\ Calm(c, r) /\ Kept(c, r) /\ r.dialtimers = c.dialtimers \ {s}
      /\ r.subchans = c.subchans /\ r.sub = c.sub /\ r.active = c.active
      /\ \A a \in Subchans \cup {NULL} : Good(c, a) => Good(r, a)
  BY <1>1, RemoveTimerFacts
<1>3. do_hangup(d, s) = IF d.sub[s].chan # NULL THEN t ELSE f
  BY DEF do_hangup, c
<1> HIDE DEF r
<1>4. Calm(d, r) /\ Kept(d, r) /\ r \in DeviceType /\ Listed(r) = Listed(d)
      /\ (\A x \in Subchans : r.sub[x] = d.sub[x])
      /\ (d.state = "DESTROYED" <=> r.state = "DESTROYED")
  BY <1>1, <1>2, CalmTrans DEF Same, Calm, Kept, Listed
<1>5. \A a \in Subchans \cup {NULL} : Good(d, a) => Good(r, a)
  BY <1>1, <1>2, SameGood
<1>6. CASE d.sub[s].chan # NULL
  <2>1. k \in NolockTask /\ k.exec # "start_channel"
    BY <1>6, SubFields DEF HangupTask, NolockTask
  <2> HIDE DEF k
  <2>2. Same(r, t)
    BY <1>4, <2>1, AddTaskSame
  <2> HIDE DEF t
  <2>3. Calm(d, t)
    BY <1>4, <2>2, CalmTrans DEF Same
  <2>4. \A a \in Subchans \cup {NULL} : Good(d, a) => Good(t, a)
    BY <1>5, <2>2, SameGood
  <2>5. Kept(d, t) /\ Listed(t) = Listed(d) /\ \A x \in Subchans : t.sub[x] = d.sub[x]
    BY <1>4, <2>2 DEF Same, Kept, Listed
  <2> QED
    BY <1>3, <1>6, <2>3, <2>4, <2>5
<1>7. CASE d.sub[s].chan = NULL
  <2>1. ClearedFrom(r, f, s, r.sub[s].refs - 1)
    BY <1>4, ClearFacts
  <2> HIDE DEF f
  <2>2. Calm(d, f)
    BY <1>4, <2>1, CalmTrans DEF ClearedFrom
  <2>3. ASSUME NEW a \in Subchans \cup {NULL},
               Good(d, a), s \in Listed(d), s # a, d.state # "DESTROYED"
        PROVE  /\ Good(f, a) /\ Kept(d, f) /\ Listed(d) \ {s} \subseteq Listed(f)
               /\ \A x \in Subchans : f.sub[x].state = d.sub[x].state
    <3>1. r.sub[s].refs - 1 = 0
      BY <1>4, <1>7, <2>3 DEF Good, Counted
    <3>2. ClearedFrom(r, f, s, 0)
      BY <2>1, <3>1
    <3>3. Good(r, a) /\ r.state # "DESTROYED" /\ s \in Listed(r) /\ s \notin r.dialtimers
      BY <1>2, <1>4, <1>5, <2>3
    <3>4. Good(f, a)
      BY <2>3, <3>2, <3>3, ClearGood
    <3>5. Kept(d, f)
      BY <1>4, <1>7, <3>2 DEF ClearedFrom, Kept
    <3>6. Listed(f) = Listed(d) \ {s}
      BY <1>4, <3>2, <3>3 DEF ClearedFrom, Good
    <3>7. \A x \in Subchans : f.sub[x].state = d.sub[x].state
      BY <1>4, <3>2 DEF ClearedFrom
    <3> QED
      BY <3>4, <3>5, <3>6, <3>7
  <2> QED
    BY <1>3, <1>7, <2>2, <2>3
<1> QED
  BY <1>6, <1>7

(* do_answer: the active call is hung up or put on hold, and the answered  *)
(* one stays in the list meanwhile.                                        *)
LEMMA AnswerFacts ==
  ASSUME NEW d \in DeviceType, NEW s \in Subchans
  PROVE  LET e == do_answer(d, s)
         IN  /\ Calm(d, e)
             /\ \A a \in Subchans \cup {NULL} : Good(d, a) /\ d.state # "DESTROYED" =>
                  Good(e, a) /\ Kept(d, e)
<1> DEFINE other == IF d.active # NULL /\ d.sub[d.active].state = "RINGOUT"
                    THEN Result(TRUE, do_hangup(d, d.active))
                    ELSE HoldActive(d)
           o == other.d
           n == [o EXCEPT !.active = s]
           u == [n.sub[s] EXCEPT !.state = "CONNECTED"]
           f == [n EXCEPT !.sub[s] = u]
           g == transmit_subchan_open_receive_channel(f)
<1>1. CASE d.sub[s].chan = NULL \/ d.sub[s].state # "RINGIN"
  <2>1. do_answer(d, s) = d
    BY <1>1 DEF do_answer
  <2> QED
    BY <2>1 DEF Calm, Kept
<1>2. CASE d.sub[s].chan # NULL /\ d.sub[s].state = "RINGIN"
  <2>1. Calm(d, o) /\ \A a \in Subchans \cup {NULL} : Good(d, a) /\ d.state # "DESTROYED" =>
               /\ Good(o, a) /\ Kept(d, o)
               /\ s \in Listed(o) /\ o.sub[s].chan # NULL
    <3>1. CASE d.active # NULL /\ d.sub[d.active].state = "RINGOUT"
      <4> DEFINE h == do_hangup(d, d.active)
      <4>0. d.active \in Subchans /\ o = h
        BY <3>1, Fields DEF Result
      <4>1. Calm(d, h) /\ \A a \in Subchans \cup {NULL} :
               Good(d, a) /\ d.active \in Listed(d) /\ d.active # a /\ d.state # "DESTROYED" =>
                    Good(h, a) /\ Kept(d, h) /\ Listed(d) \ {d.active} \subseteq Listed(h)
        BY <4>0, HangupFacts
      <4> HIDE DEF h
      <4>2. ASSUME NEW a \in Subchans \cup {NULL}, Good(d, a), d.state # "DESTROYED"
            PROVE  d.active \in Listed(d) /\ d.active # a /\ s \in Listed(d) /\ s # d.active
        BY <1>2, <3>1, <4>2 DEF Good, InList, Fresh
      <4>3. ASSUME NEW a \in Subchans \cup {NULL}, Good(d, a), d.state # "DESTROYED"
            PROVE  Good(h, a) /\ Kept(d, h) /\ s \in Listed(h) /\ h.sub[s].chan # NULL
        <5>1. Good(h, a) /\ Kept(d, h) /\ s \in Listed(h)
          BY <4>1, <4>2, <4>3
        <5> QED
          BY <1>2, <5>1 DEF Kept
      <4> QED
        BY <4>0, <4>1, <4>3
    <3>2. CASE ~(d.active # NULL /\ d.sub[d.active].state = "RINGOUT")
      <4>1. Parked(d, o)
        BY <3>2, HoldActiveFacts
      <4> HIDE DEF o
      <4>2. \A a : Good(d, a) => Good(o, a) /\ Kept(d, o)
        BY <4>1, ParkedGood
      <4>3. ASSUME NEW a \in Subchans \cup {NULL}, Good(d, a), d.state # "DESTROYED"
            PROVE  s \in Listed(o) /\ o.sub[s].chan # NULL
        BY <1>2, <4>1, <4>3 DEF Parked, Good, InList, Listed
      <4> QED
        BY <4>1, <4>2, <4>3 DEF Parked
    <3> QED
      BY <3>1, <3>2
  <2>2. do_answer(d, s) = IF other.ok THEN g ELSE o
    <3> DEFINE m == [o EXCEPT !.active = s, !.sub[s].state = "CONNECTED"]
    <3>1. do_answer(d, s) = IF ~other.ok THEN o ELSE transmit_subchan_open_receive_channel(m)
      <4> HIDE DEF f
      <4> QED
        BY <1>2 DEF do_answer
    <3>2. m = f
      <4>1. o \in DeviceType
        BY <2>1 DEF Calm
      <4> HIDE DEF o
      <4> QED
        BY <4>1 DEF DeviceType
    <3> HIDE DEF m, f, other
    <3> QED
      BY <3>1, <3>2
  <2> DEFINE ok == other.ok
  <2>3. do_answer(d, s) = IF ok THEN g ELSE o
    BY <2>2
  <2> HIDE DEF other, o, ok
  <2>4. o \in DeviceType
    BY <2>1 DEF Calm
  <2>5. Calm(o, n) /\ n.sub = o.sub /\ n \in DeviceType
    BY <2>4, ActiveFacts DEF Calm
  <2>6. \A a : Good(o, a) /\ s \in Listed(o) => Good(n, a)
    BY ActiveGood
  <2> HIDE DEF n
  <2>7. /\ u \in SubchannelType /\ u.dir = n.sub[s].dir /\ u.chan = n.sub[s].chan
        /\ u.refs = n.sub[s].refs /\ u.related = n.sub[s].related /\ u.rtp = n.sub[s].rtp
        /\ u.state = "CONNECTED"
    BY <2>5, SubFields DEF SubchannelType
  <2> HIDE DEF u
  <2>8. Calm(n, f) /\ f.sub[s] = u /\ \A x \in Subchans \ {s} : f.sub[x] = n.sub[x]
    BY <2>5, <2>7, SubFacts
  <2>9. \A a : Good(n, a) /\ n.sub[s].chan # NULL => Good(f, a)
    BY <2>7, SubGood
  <2>10. f \in DeviceType
    BY <2>8 DEF Calm
  <2> HIDE DEF f
  <2>11. Same(f, g)
    BY <2>10, OpenSame
  <2> HIDE DEF g
  <2>12. Kept(o, g)
    BY <2>5, <2>7, <2>8, <2>11 DEF Same, Kept
  <2>13. Calm(f, g)
    BY <2>11 DEF Same
  <2>14. Calm(d, g)
    BY <2>1, <2>5, <2>8, <2>13, CalmTrans
  <2>15. \A a : Good(f, a) => Good(g, a)
    BY <2>11, SameGood
  <2>16. \A a \in Subchans \cup {NULL} : Good(d, a) /\ d.state # "DESTROYED" =>
            Good(g, a) /\ Kept(d, g)
    BY <2>1, <2>5, <2>6, <2>9, <2>12, <2>15, KeptTrans
  <2> QED
    BY <2>1, <2>3, <2>14, <2>16
<1> QED
  BY <1>1, <1>2

(* What sccp_channel_tech_call does to an incoming subchannel: from then   *)
(* on it is not mistaken for a call about to be dialled.                   *)
LEMMA RingsFacts ==
  ASSUME NEW d \in DeviceType, NEW s \in Subchans
  PROVE  LET e == Rings(d, s)
         IN  /\ Calm(d, e)
             /\ \A a \in Subchans \cup {NULL} :
                  Good(d, a) /\ d.state # "DESTROYED" /\ d.sub[s].chan # NULL =>
                    Good(e, a) /\ Kept(d, e) /\ e.sub[s].state # "OFFHOOK"
<1> DEFINE u == [d.sub[s] EXCEPT !.state = "RINGIN"]
           f == [d EXCEPT !.sub[s] = u]
           g == do_answer(f, s)
<1>1. /\ u \in SubchannelType /\ u.dir = d.sub[s].dir /\ u.chan = d.sub[s].chan
      /\ u.refs = d.sub[s].refs /\ u.related = d.sub[s].related /\ u.rtp = d.sub[s].rtp
      /\ u.state = "RINGIN"
  BY SubFields DEF SubchannelType
<1>2. Rings(d, s) = IF d.sub[s].autoanswer THEN g ELSE f
  BY DEF Rings
<1> HIDE DEF u
<1>3. Calm(d, f) /\ f.sub[s] = u /\ \A x \in Subchans \ {s} : f.sub[x] = d.sub[x]
  BY <1>1, SubFacts
<1>4. \A a : Good(d, a) /\ d.sub[s].chan # NULL => Good(f, a)
  BY <1>1, SubGood
<1>5. f \in DeviceType /\ (d.state = "DESTROYED" <=> f.state = "DESTROYED")
  BY <1>3 DEF Calm
<1> HIDE DEF f
<1>6. Kept(d, f)
  BY <1>1, <1>3 DEF Kept
<1>7. /\ Calm(f, g)
      /\ \A a \in Subchans \cup {NULL} : Good(f, a) /\ f.state # "DESTROYED" =>
                  Good(g, a) /\ Kept(f, g)
  BY <1>5, AnswerFacts
<1> HIDE DEF g
<1>8. Calm(d, g)
  BY <1>3, <1>7, CalmTrans
<1>9. ASSUME NEW a \in Subchans \cup {NULL},
             Good(d, a), d.state # "DESTROYED", d.sub[s].chan # NULL
      PROVE  /\ Good(f, a) /\ Kept(d, f) /\ f.sub[s].state # "OFFHOOK"
             /\ Good(g, a) /\ Kept(d, g) /\ g.sub[s].state # "OFFHOOK"
  <2>1. Good(f, a) /\ f.sub[s].state = "RINGIN" /\ f.sub[s].chan # NULL
    BY <1>1, <1>3, <1>4, <1>9
  <2>2. Good(g, a) /\ Kept(f, g)
    BY <1>5, <1>7, <1>9, <2>1
  <2>3. g.sub[s].state # "OFFHOOK"
    BY <2>1, <2>2 DEF Kept
  <2>4. Kept(d, g)
    BY <1>6, <2>2, KeptTrans
  <2> QED
    BY <1>6, <2>1, <2>2, <2>3, <2>4
<1> QED
  BY <1>2, <1>3, <1>8, <1>9

-----------------------------------------------------------------------------
(* handle_msg_open_receive_channel_ack, for the active subchannel.         *)
LEMMA AckFacts ==
  ASSUME NEW d \in DeviceType, NEW rtp \in BOOLEAN, d.active # NULL
  PROVE  LET e == AckForActive(d, rtp)
         IN  /\ Calm(d, e) /\ Kept(d, e)
             /\ \A a : Good(d, a) /\ d.state # "DESTROYED" => Good(e, a)
<1> DEFINE s == d.active
           u == IF d.sub[s].resuming THEN [d.sub[s] EXCEPT !.resuming = FALSE]
                                     ELSE [d.sub[s] EXCEPT !.rtp = rtp]
           f == [d EXCEPT !.sub[s] = u]
           g == CanAddTask(f).d
<1>0. s \in Subchans
  BY Fields
<1>1. AckForActive(d, rtp) = IF d.sub[s].chan # NULL THEN g ELSE f
  BY DEF AckForActive
<1>2. /\ u \in SubchannelType /\ u.dir = d.sub[s].dir /\ u.chan = d.sub[s].chan
      /\ u.refs = d.sub[s].refs /\ u.related = d.sub[s].related /\ u.state = d.sub[s].state
  <2>1. d.sub[s] \in SubchannelType
    BY <1>0, SubFields
  <2>2. CASE d.sub[s].resuming
    <3>1. u = [d.sub[s] EXCEPT !.resuming = FALSE]
      BY <2>2
    <3> HIDE DEF u, s
    <3> QED
      BY <2>1, <3>1 DEF SubchannelType
  <2>3. CASE ~d.sub[s].resuming
    <3>1. u = [d.sub[s] EXCEPT !.rtp = rtp]
      BY <2>3
    <3> HIDE DEF u, s
    <3> QED
      BY <2>1, <3>1 DEF SubchannelType
  <2> QED
    BY <2>2, <2>3
<1> HIDE DEF u
<1>3. Calm(d, f) /\ f.sub[s] = u /\ \A x \in Subchans \ {s} : f.sub[x] = d.sub[x]
  BY <1>0, <1>2, SubFacts
<1>4. ASSUME NEW a, Good(d, a), d.state # "DESTROYED" PROVE Good(f, a)
  <2>1. s \in Listed(d)
    BY <1>4 DEF Good, InList
  <2> HIDE DEF f, s
  <2>2. Good([d EXCEPT !.sub[s] = u], a)
    BY <1>0, <1>2, <1>4, <2>1, SubGood
  <2> QED
    BY <2>2 DEF f
<1>5. f \in DeviceType
  BY <1>3 DEF Calm
<1> HIDE DEF f
<1>6. Kept(d, f)
  BY <1>2, <1>3 DEF Kept
<1>7. Same(f, g)
  BY <1>5, CanAddSame
<1> HIDE DEF g
<1>8. Calm(d, g) /\ Kept(d, g)
  BY <1>3, <1>6, <1>7, CalmTrans, KeptTrans, SameKept DEF Same
<1>9. \A a : Good(f, a) => Good(g, a)
  BY <1>7, SameGood
<1> QED
  BY <1>1, <1>3, <1>4, <1>6, <1>8, <1>9

(* e is d once s was given the channel c, with a reference for it.         *)
Takes(d, e, s, c) ==
  /\ Calm(d, e)
  /\ e.subchans = d.subchans /\ e.active = d.active /\ e.dialtimers = d.dialtimers
  /\ e.sub[s].chan = c /\ e.sub[s].refs = d.sub[s].refs + 1
  /\ e.sub[s].related = d.sub[s].related
  /\ \A x \in Subchans \ {s} : e.sub[x] = d.sub[x]

(* A subchannel of the list without channel may be given one, if it is not *)
(* the one being dialled and no dial timer is armed with it.               *)
LEMMA TakeGood ==
  ASSUME NEW d, NEW a, Good(d, a), NEW s \in Listed(d), s # a, s \notin d.dialtimers,
         d.sub[s].chan = NULL, NEW c \in Chans, NEW e, Takes(d, e, s, c)
  PROVE  Good(e, a)
<1>1. d \in DeviceType /\ Listed(d) \subseteq Subchans /\ d.dialtimers \in SUBSET Subchans
      /\ NULL \notin Subchans /\ NULL \notin Chans /\ s \in Subchans
  BY Fields DEF Good
<1>2. Listed(e) = Listed(d)
  BY DEF Takes, Listed
<1>3. \A x \in Subchans : Fresh(d, x) /\ x # s => Fresh(e, x)
  BY <1>2 DEF Takes, Fresh
<1>4. Paired(d) => Paired(e)
  <2>1. \A x \in Subchans : d.sub[x].related \in Subchans \cup {NULL}
    BY <1>1, SubFields
  <2>2. \A x \in Subchans : e.sub[x].related = d.sub[x].related
    BY DEF Takes
  <2> QED
    BY <1>2, <2>1, <2>2 DEF Paired
<1>5. Counted(d) => Counted(e)
  <2> SUFFICES ASSUME Counted(d), NEW x \in Subchans
               PROVE  e.sub[x].refs = (IF e.sub[x].chan # NULL THEN 1 ELSE 0)
                                      + (IF x \in Listed(e) THEN 1 ELSE 0)
    BY DEF Counted
  <2>1. CASE x = s
    <3>1. d.sub[s].refs = 1
      BY <1>1 DEF Counted
    <3> QED
      BY <1>1, <1>2, <2>1, <3>1 DEF Takes
  <2>2. CASE x # s
    <3>1. e.sub[x] = d.sub[x]
      BY <2>2 DEF Takes
    <3> QED
      BY <1>2, <3>1 DEF Counted
  <2> QED
    BY <2>1, <2>2
<1>6. Held(d) => Held(e)
  BY <1>2 DEF Held, Takes
<1>7. InList(d) => InList(e)
  BY <1>2 DEF InList, Takes
<1>8. \A x \in e.dialtimers : Fresh(d, x) => Fresh(e, x)
  BY <1>1, <1>3 DEF Takes
<1>9. a # NULL => Fresh(e, a) /\ a \notin e.dialtimers
  BY <1>1, <1>3 DEF Good, Takes, Fresh
<1>10. /\ e \in DeviceType /\ (e.state = "DESTROYED" <=> d.state = "DESTROYED")
       /\ Sound(d) => Sound(e)
       /\ e.subchans = d.subchans /\ e.dialtimers = d.dialtimers
  BY DEF Takes, Calm
<1> QED
  BY <1>4, <1>5, <1>6, <1>7, <1>8, <1>9, <1>10 DEF Good

(* Calls that are in order while one is being placed are so without it.    *)
LEMMA FreeGood ==
  ASSUME NEW d, NEW a, Good(d, a) PROVE Good(d, NULL)
BY DEF Good

(* sccp_subchannel_set_channel: the channel, and a reference for its       *)
(* tech_pvt.                                                               *)
LEMMA SetChannelFacts ==
  ASSUME NEW d \in DeviceType, NEW s \in Subchans, NEW c \in Chans
  PROVE  LET e == sccp_subchannel_set_channel(d, s, c)
         IN  Takes(d, e, s, c) /\ e.sub[s].state = d.sub[s].state /\ e.tasks = d.tasks
<1> DEFINE u == [d.sub[s] EXCEPT !.chan = c]
           f == [d EXCEPT !.sub[s] = u]
           n == f.sub[s].refs + 1
           v == [f.sub[s] EXCEPT !.refs = n]
           g == [f EXCEPT !.sub[s] = v]
<1>1. sccp_subchannel_set_channel(d, s, c) = g
  <2>1. d.sub \in [Subchans -> SubchannelType] /\ d.sub[s] \in SubchannelType
    BY Fields, SubFields
  <2> QED
    BY <2>1 DEF sccp_subchannel_set_channel, DeviceType, SubchannelType
<1>2. /\ u \in SubchannelType /\ u.dir = d.sub[s].dir /\ u.chan = c /\ u.refs = d.sub[s].refs
      /\ u.related = d.sub[s].related /\ u.state = d.sub[s].state
  BY SubFields DEF SubchannelType
<1> HIDE DEF u
<1>3. /\ Calm(d, f) /\ f.sub[s] = u /\ \A x \in Subchans \ {s} : f.sub[x] = d.sub[x]
      /\ f.subchans = d.subchans /\ f.active = d.active /\ f.dialtimers = d.dialtimers
  BY <1>2, SubFacts
<1>4. f.tasks = d.tasks /\ f \in DeviceType
  BY <1>3 DEF DeviceType, Calm
<1> HIDE DEF f
<1>5. n = d.sub[s].refs + 1 /\ n \in Int
  BY <1>2, <1>3, SubFields
<1> HIDE DEF n
<1>6. /\ v \in SubchannelType /\ v.dir = f.sub[s].dir /\ v.chan = f.sub[s].chan /\ v.refs = n
      /\ v.related = f.sub[s].related /\ v.state = f.sub[s].state
  BY <1>2, <1>3, <1>5 DEF SubchannelType
<1> HIDE DEF v
<1>7. /\ Calm(f, g) /\ g.sub[s] = v /\ \A x \in Subchans \ {s} : g.sub[x] = f.sub[x]
      /\ g.subchans = f.subchans /\ g.active = f.active /\ g.dialtimers = f.dialtimers
  BY <1>4, <1>6, SubFacts
<1>8. g.tasks = f.tasks
  BY <1>4 DEF DeviceType
<1> HIDE DEF g
<1>9. Calm(d, g)
  BY <1>3, <1>7, CalmTrans
<1> QED
  BY <1>1, <1>2, <1>3, <1>4, <1>5, <1>6, <1>7, <1>8, <1>9 DEF Takes

(* The same for an incoming call, which may have to be answered at once.   *)
LEMMA TakeFacts ==
  ASSUME NEW d \in DeviceType, NEW s \in Subchans, NEW c \in Chans, NEW b \in BOOLEAN
  PROVE  Takes(d, [sccp_subchannel_set_channel(d, s, c) EXCEPT !.sub[s].autoanswer = b], s, c)
<1> DEFINE f == sccp_subchannel_set_channel(d, s, c)
           u == [f.sub[s] EXCEPT !.autoanswer = b]
           g == [f EXCEPT !.sub[s] = u]
<1>1. Takes(d, f, s, c)
  BY SetChannelFacts
<1> HIDE DEF f
<1>2. f \in DeviceType
  BY <1>1 DEF Takes, Calm
<1>3. /\ u \in SubchannelType /\ u.dir = f.sub[s].dir /\ u.chan = f.sub[s].chan
      /\ u.refs = f.sub[s].refs /\ u.related = f.sub[s].related /\ u.state = f.sub[s].state
  BY <1>2, SubFields DEF SubchannelType
<1> HIDE DEF u
<1>4. /\ Calm(f, g) /\ g.sub[s] = u /\ \A x \in Subchans \ {s} : g.sub[x] = f.sub[x]
      /\ g.subchans = f.subchans /\ g.active = f.active /\ g.dialtimers = f.dialtimers
  BY <1>2, <1>3, SubFacts
<1> HIDE DEF g
<1>5. Calm(d, g)
  BY <1>1, <1>4, CalmTrans DEF Takes
<1>6. Takes(d, g, s, c)
  BY <1>1, <1>3, <1>4, <1>5 DEF Takes
<1> QED
  BY <1>6 DEF g, u, f

(* What start_the_call makes of the subchannel that is given its channel.  *)
Placed(d, s, c) == [sccp_subchannel_set_channel(d, s, c) EXCEPT
                      !.sub[s].state = "RINGOUT", !.exten = FALSE]

(* The same for a call that is placed.                                     *)
LEMMA PlaceFacts ==
  ASSUME NEW d \in DeviceType, NEW s \in Subchans, NEW c \in Chans
  PROVE  /\ Takes(d, Placed(d, s, c), s, c)
         /\ Placed(d, s, c).sub[s].state = "RINGOUT" /\ Placed(d, s, c).tasks = d.tasks
<1> DEFINE f == sccp_subchannel_set_channel(d, s, c)
           u == [f.sub[s] EXCEPT !.state = "RINGOUT"]
           g == [f EXCEPT !.sub[s] = u]
           h == [g EXCEPT !.exten = FALSE]
<1>1. Takes(d, f, s, c) /\ f.tasks = d.tasks
  BY SetChannelFacts
<1>2. Placed(d, s, c) = h
  BY DEF Placed
<1> HIDE DEF f
<1>3. f \in DeviceType
  BY <1>1 DEF Takes, Calm
<1>4. /\ u \in SubchannelType /\ u.dir = f.sub[s].dir /\ u.chan = f.sub[s].chan
      /\ u.refs = f.sub[s].refs /\ u.related = f.sub[s].related /\ u.state = "RINGOUT"
  BY <1>3, SubFields DEF SubchannelType
<1> HIDE DEF u
<1>5. /\ Calm(f, g) /\ g.sub[s] = u /\ \A x \in Subchans \ {s} : g.sub[x] = f.sub[x]
      /\ g.subchans = f.subchans /\ g.active = f.active /\ g.dialtimers = f.dialtimers
  BY <1>3, <1>4, SubFacts
<1>6. g.tasks = f.tasks /\ g \in DeviceType
  BY <1>3, <1>5 DEF DeviceType, Calm
<1> HIDE DEF g
<1>7. Same(g, h)
  BY <1>6, ExtenSame
<1>8. h.tasks = g.tasks
  BY <1>6 DEF DeviceType
<1> HIDE DEF h
<1>9. Calm(d, h)
  BY <1>1, <1>5, <1>7, CalmTrans DEF Same, Takes
<1>10. Takes(d, h, s, c) /\ h.sub[s].state = "RINGOUT" /\ h.tasks = d.tasks
  BY <1>1, <1>4, <1>5, <1>6, <1>7, <1>8, <1>9 DEF Takes, Same
<1> QED
  BY <1>2, <1>10

-----------------------------------------------------------------------------
(* e is d once s and p were related and s became active.                   *)
Joined(d, e, s, p) ==
  /\ Calm(d, e) /\ e.subchans = d.subchans /\ e.active = s
  /\ e.dialtimers = d.dialtimers
  /\ \A x \in Subchans :
       /\ e.sub[x].chan = d.sub[x].chan /\ e.sub[x].rtp = d.sub[x].rtp
       /\ e.sub[x].refs = d.sub[x].refs /\ e.sub[x].state = d.sub[x].state
  /\ e.sub[s].related = p /\ e.sub[p].related = s
  /\ \A x \in Subchans \ {s, p} : e.sub[x].related = d.sub[x].related

(* The two halves of a transfer, as the softkey relates them.              *)
LEMMA RelateFacts ==
  ASSUME NEW d \in DeviceType, NEW s \in Subchans, NEW p \in Subchans
  PROVE  LET e == [d EXCEPT !.sub[s].related = p, !.sub[p].related = s, !.active = s]
         IN  Calm(d, e) /\ (s # p => Joined(d, e, s, p))
<1> DEFINE u == [d.sub[s] EXCEPT !.related = p]
           f == [d EXCEPT !.sub[s] = u]
           v == [f.sub[p] EXCEPT !.related = s]
           g == [f EXCEPT !.sub[p] = v]
           h == [g EXCEPT !.active = s]
           e == [d EXCEPT !.sub[s].related = p, !.sub[p].related = s, !.active = s]
<1>1. e = h
  OBVIOUS
<1> HIDE DEF e
<1>2. /\ u \in SubchannelType /\ u.dir = d.sub[s].dir /\ u.chan = d.sub[s].chan
      /\ u.refs = d.sub[s].refs /\ u.related = p /\ u.state = d.sub[s].state
      /\ u.rtp = d.sub[s].rtp
  BY SubFields DEF SubchannelType
<1> HIDE DEF u
<1>3. /\ Calm(d, f) /\ f.sub[s] = u /\ \A x \in Subchans \ {s} : f.sub[x] = d.sub[x]
      /\ f.subchans = d.subchans /\ f.active = d.active /\ f.dialtimers = d.dialtimers
  BY <1>2, SubFacts
<1>4. f \in DeviceType
  BY <1>3 DEF Calm
<1> HIDE DEF f
<1>5. /\ v \in SubchannelType /\ v.dir = f.sub[p].dir /\ v.chan = f.sub[p].chan
      /\ v.refs = f.sub[p].refs /\ v.related = s /\ v.state = f.sub[p].state
      /\ v.rtp = f.sub[p].rtp
  BY <1>4, SubFields DEF SubchannelType
<1> HIDE DEF v
<1>6. /\ Calm(f, g) /\ g.sub[p] = v /\ \A x \in Subchans \ {p} : g.sub[x] = f.sub[x]
      /\ g.subchans = f.subchans /\ g.active = f.active /\ g.dialtimers = f.dialtimers
  BY <1>4, <1>5, SubFacts
<1>7. g \in DeviceType
  BY <1>6 DEF Calm
<1> HIDE DEF g
<1>8. /\ Calm(g, h) /\ h.active = s
      /\ h.subchans = g.subchans /\ h.sub = g.sub /\ h.dialtimers = g.dialtimers
  BY <1>7, ActiveFacts
<1> HIDE DEF h
<1>9. Calm(d, h)
  BY <1>3, <1>6, <1>8, CalmTrans
<1>10. s # p =>
       /\ h.subchans = d.subchans /\ h.active = s /\ h.dialtimers = d.dialtimers
       /\ \A x \in Subchans :
            /\ h.sub[x].chan = d.sub[x].chan /\ h.sub[x].rtp = d.sub[x].rtp
            /\ h.sub[x].refs = d.sub[x].refs /\ h.sub[x].state = d.sub[x].state
       /\ h.sub[s].related = p /\ h.sub[p].related = s
       /\ \A x \in Subchans \ {s, p} : h.sub[x].related = d.sub[x].related
  BY <1>2, <1>3, <1>5, <1>6, <1>8
<1> QED
  BY <1>1, <1>9, <1>10 DEF e, Joined

(* Two subchannels of the list that are related to nobody may be related.  *)
LEMMA RelateGood ==
  ASSUME NEW d, NEW a, Good(d, a), NEW s \in Listed(d), NEW p \in Listed(d), s # p,
         d.sub[s].related = NULL, d.sub[p].related = NULL
  PROVE  Good([d EXCEPT !.sub[s].related = p, !.sub[p].related = s, !.active = s], a)
<1> DEFINE e == [d EXCEPT !.sub[s].related = p, !.sub[p].related = s, !.active = s]
<1>1. d \in DeviceType /\ Listed(d) \subseteq Subchans /\ d.dialtimers \in SUBSET Subchans
      /\ NULL \notin Subchans /\ s \in Subchans /\ p \in Subchans
  BY Fields DEF Good
<1>a. Joined(d, e, s, p)
  BY <1>1, RelateFacts
<1> HIDE DEF e
<1>2. /\ Calm(d, e) /\ e.subchans = d.subchans /\ e.active = s
      /\ e.dialtimers = d.dialtimers
      /\ \A x \in Subchans :
           /\ e.sub[x].chan = d.sub[x].chan /\ e.sub[x].rtp = d.sub[x].rtp
           /\ e.sub[x].refs = d.sub[x].refs /\ e.sub[x].state = d.sub[x].state
      /\ e.sub[s].related = p /\ e.sub[p].related = s
      /\ \A x \in Subchans \ {s, p} : e.sub[x].related = d.sub[x].related
  BY <1>a DEF Joined
<1>3. Listed(e) = Listed(d)
  BY <1>2 DEF Listed
<1>4. \A x \in Subchans : Fresh(d, x) => Fresh(e, x)
  BY <1>2, <1>3 DEF Fresh
<1>5. Paired(d) => Paired(e)
  <2>1. \A x \in Subchans : d.sub[x].related \in Subchans \cup {NULL}
    BY <1>1, SubFields
  <2> SUFFICES ASSUME Paired(d), NEW x \in Subchans, e.sub[x].related # NULL
               PROVE  /\ e.sub[e.sub[x].related].related = x
                      /\ x \in Listed(e) /\ e.sub[x].related # x
    BY DEF Paired
  <2>2. CASE x \in {s, p}
    BY <1>2, <1>3, <2>2
  <2>3. CASE x \notin {s, p}
    <3> DEFINE r == d.sub[x].related
    <3>1. e.sub[x].related = r /\ r # NULL /\ r \in Subchans
      BY <1>2, <2>1, <2>3
    <3>2. d.sub[r].related = x /\ x \in Listed(d) /\ r # x
      BY <3>1 DEF Paired
    <3>3. r \notin {s, p}
      BY <1>1, <3>2
    <3>4. e.sub[r].related = x
      BY <1>2, <3>1, <3>2, <3>3
    <3> QED
      BY <1>3, <3>1, <3>2, <3>4
  <2> QED
    BY <2>2, <2>3
<1>6. (Counted(d) => Counted(e)) /\ (Held(d) => Held(e))
  BY <1>2, <1>3 DEF Counted, Held
<1>7. InList(d) => InList(e)
  BY <1>1, <1>2, <1>3 DEF InList
<1>8. Good(e, a)
  BY <1>1, <1>2, <1>3, <1>4, <1>5, <1>6, <1>7 DEF Calm, Good, Fresh
<1> QED
  BY <1>8 DEF e

(* What sccp_channel_tech_hangup makes of the subchannel of its channel.   *)
HungUp(d, s) == [Cleared(d, s) EXCEPT !.sub[s].refs = @ - 1]

(* It gives both references back, those of the list and of the channel, or *)
(* only the latter when the list of a destroyed device has given its own   *)
(* back already.                                                           *)
LEMMA HangsUpFacts ==
  ASSUME NEW d \in DeviceType, NEW s \in Subchans
  PROVE  LET e == HungUp(d, s)
         IN  /\ Calm(d, e)
             /\ \A a \in Subchans \cup {NULL} : Good(d, a) /\ d.sub[s].chan # NULL =>
                  /\ Good(e, a) /\ e.sub[s].chan = NULL
                  /\ \A x \in Subchans \ {s} : /\ e.sub[x].chan = d.sub[x].chan
                                               /\ e.sub[x].state = d.sub[x].state
<1> DEFINE f == Cleared(d, s)
           n == f.sub[s].refs - 1
           u == [f.sub[s] EXCEPT !.refs = n]
           e == [f EXCEPT !.sub[s] = u]
<1>0. HungUp(d, s) = e
  BY DEF HungUp
<1>a. ASSUME f \in DeviceType
      PROVE  /\ Calm(f, e) /\ \A x \in Subchans \ {s} : e.sub[x] = f.sub[x]
             /\ e.subchans = f.subchans /\ e.active = f.active /\ e.dialtimers = f.dialtimers
             /\ e.sub[s].dir = f.sub[s].dir /\ e.sub[s].chan = f.sub[s].chan
             /\ e.sub[s].refs = f.sub[s].refs - 1 /\ e.sub[s].related = f.sub[s].related
             /\ e.sub[s].state = f.sub[s].state /\ e.sub[s].rtp = f.sub[s].rtp
  <2> HIDE DEF f
  <2>1. n \in Int /\ f.sub[s] \in SubchannelType
    BY <1>a, SubFields
  <2>2. /\ u \in SubchannelType /\ u.dir = f.sub[s].dir /\ u.chan = f.sub[s].chan
        /\ u.refs = n /\ u.related = f.sub[s].related /\ u.state = f.sub[s].state
        /\ u.rtp = f.sub[s].rtp
    <3> HIDE DEF n
    <3> QED
      BY <2>1 DEF SubchannelType
  <2> HIDE DEF u
  <2>3. /\ Calm(f, e) /\ e.sub[s] = u /\ \A x \in Subchans \ {s} : e.sub[x] = f.sub[x]
        /\ e.subchans = f.subchans /\ e.active = f.active /\ e.dialtimers = f.dialtimers
    BY <1>a, <2>2, SubFacts
  <2> HIDE DEF e
  <2> QED
    BY <2>2, <2>3
<1>1. CASE d.state # "DESTROYED"
  <2>1. f = do_clear_subchannel(d, s)
    BY <1>1 DEF Cleared
  <2> HIDE DEF f
  <2>2. ClearedFrom(d, f, s, d.sub[s].refs - 1) /\ f \in DeviceType
    <3>1. ClearedFrom(d, f, s, d.sub[s].refs - 1)
      BY <2>1, ClearFacts
    <3> QED
      BY <3>1 DEF ClearedFrom, Calm
  <2>3. /\ Calm(f, e) /\ \A x \in Subchans \ {s} : e.sub[x] = f.sub[x]
        /\ e.subchans = f.subchans /\ e.active = f.active /\ e.dialtimers = f.dialtimers
        /\ e.sub[s].dir = f.sub[s].dir /\ e.sub[s].chan = f.sub[s].chan
        /\ e.sub[s].refs = f.sub[s].refs - 1 /\ e.sub[s].related = f.sub[s].related
        /\ e.sub[s].state = f.sub[s].state /\ e.sub[s].rtp = f.sub[s].rtp
    BY <1>a, <2>2
  <2> HIDE DEF e
  <2>4. Calm(d, e)
    BY <2>2, <2>3, CalmTrans DEF ClearedFrom
  <2>5. ASSUME NEW a \in Subchans \cup {NULL}, Good(d, a), d.sub[s].chan # NULL
        PROVE  /\ Good(e, a) /\ e.sub[s].chan = NULL
               /\ \A x \in Subchans \ {s} : /\ e.sub[x].chan = d.sub[x].chan
                                            /\ e.sub[x].state = d.sub[x].state
    <3>1. s \in Listed(d) /\ s # a /\ s \notin d.dialtimers /\ d.sub[s].refs = 2
      <4>1. s \in Listed(d) /\ Counted(d) /\ s \notin d.dialtimers
        BY <1>1, <2>5 DEF Good, InList, Fresh
      <4>2. s # a
        BY <2>5, Fields DEF Good, Fresh
      <4>3. d.sub[s].refs = 2
        BY <2>5, <4>1 DEF Counted
      <4> QED
        BY <4>1, <4>2, <4>3
    <3>2. ClearedFrom(d, e, s, 0)
      <4>1. e.sub[s].refs = 0
        BY <2>2, <2>3, <3>1 DEF ClearedFrom
      <4>2. Listed(e) = Listed(f)
        BY <2>3 DEF Listed
      <4>3. /\ Sound(d) => Listed(f) = Listed(d) \ {s}
            /\ d.subchans = << >> => f.subchans = << >>
            /\ f.active = (IF d.active = s THEN NULL ELSE d.active) /\ f.dialtimers = d.dialtimers
            /\ \A x \in Subchans : f.sub[x].dir = d.sub[x].dir /\ f.sub[x].state = d.sub[x].state
            /\ f.sub[s].chan = NULL /\ f.sub[s].rtp = FALSE /\ f.sub[s].related = NULL
            /\ \A x \in Subchans \ {s} :
                 /\ f.sub[x].chan = d.sub[x].chan /\ f.sub[x].rtp = d.sub[x].rtp
                 /\ f.sub[x].refs = d.sub[x].refs
                 /\ f.sub[x].related = IF d.sub[s].related = x THEN NULL ELSE d.sub[x].related
        BY <2>2 DEF ClearedFrom
      <4>4. \A x \in Subchans : e.sub[x].dir = d.sub[x].dir /\ e.sub[x].state = d.sub[x].state
        <5> SUFFICES ASSUME NEW x \in Subchans
                     PROVE  e.sub[x].dir = d.sub[x].dir /\ e.sub[x].state = d.sub[x].state
          OBVIOUS
        <5>1. CASE x = s
          BY <2>3, <4>3, <5>1
        <5>2. CASE x # s
          BY <2>3, <4>3, <5>2
        <5> QED
          BY <5>1, <5>2
      <4>5. \A x \in Subchans \ {s} :
              /\ e.sub[x].chan = d.sub[x].chan /\ e.sub[x].rtp = d.sub[x].rtp
              /\ e.sub[x].refs = d.sub[x].refs
              /\ e.sub[x].related = IF d.sub[s].related = x THEN NULL ELSE d.sub[x].related
        BY <2>3, <4>3
      <4> QED
        BY <2>3, <2>4, <4>1, <4>2, <4>3, <4>4, <4>5 DEF ClearedFrom
    <3>3. Good(e, a)
      BY <1>1, <2>5, <3>1, <3>2, ClearGood
    <3> QED
      BY <3>2, <3>3 DEF ClearedFrom
  <2> QED
    BY <1>0, <2>4, <2>5
<1>2. CASE d.state = "DESTROYED"
  <2> DEFINE w == [d.sub[s] EXCEPT !.rtp = FALSE, !.chan = NULL]
  <2>1. f = [d EXCEPT !.sub[s] = w]
    BY <1>2 DEF Cleared
  <2> HIDE DEF f
  <2>2. /\ w \in SubchannelType /\ w.dir = d.sub[s].dir /\ w.chan = NULL
        /\ w.refs = d.sub[s].refs /\ w.related = d.sub[s].related /\ w.state = d.sub[s].state
        /\ w.rtp = FALSE
    BY SubFields DEF SubchannelType
  <2> HIDE DEF w
  <2>3. /\ Calm(d, f) /\ f.sub[s] = w /\ \A x \in Subchans \ {s} : f.sub[x] = d.sub[x]
        /\ f.subchans = d.subchans /\ f.active = d.active /\ f.dialtimers = d.dialtimers
    BY <2>1, <2>2, SubFacts
  <2>4. /\ Calm(f, e) /\ \A x \in Subchans \ {s} : e.sub[x] = f.sub[x]
        /\ e.subchans = f.subchans /\ e.active = f.active /\ e.dialtimers = f.dialtimers
        /\ e.sub[s].dir = f.sub[s].dir /\ e.sub[s].chan = f.sub[s].chan
        /\ e.sub[s].refs = f.sub[s].refs - 1 /\ e.sub[s].related = f.sub[s].related
        /\ e.sub[s].state = f.sub[s].state /\ e.sub[s].rtp = f.sub[s].rtp
    BY <1>a, <2>3 DEF Calm
  <2> HIDE DEF e
  <2>5. Calm(d, e)
    BY <2>3, <2>4, CalmTrans
  <2>6. ASSUME NEW a \in Subchans \cup {NULL}, Good(d, a), d.sub[s].chan # NULL
        PROVE  /\ Good(e, a) /\ e.sub[s].chan = NULL
               /\ \A x \in Subchans \ {s} : /\ e.sub[x].chan = d.sub[x].chan
                                            /\ e.sub[x].state = d.sub[x].state
    <3>1. d.subchans = << >> /\ e.subchans = << >> /\ a = NULL
      BY <1>2, <2>3, <2>4, <2>6 DEF Good
    <3>2. Listed(d) = {} /\ Listed(e) = {}
      BY <3>1 DEF Listed, Range
    <3>3. Counted(e)
      <4> SUFFICES ASSUME NEW x \in Subchans
                   PROVE  e.sub[x].refs = (IF e.sub[x].chan # NULL THEN 1 ELSE 0)
                                          + (IF x \in Listed(e) THEN 1 ELSE 0)
        BY DEF Counted
      <4>1. CASE x = s
        <5>1. d.sub[s].refs = 1
          BY <2>6, <3>2 DEF Good, Counted
        <5> QED
          BY <2>2, <2>3, <2>4, <3>2, <4>1, <5>1
      <4>2. CASE x # s
        <5>1. e.sub[x] = d.sub[x]
          BY <2>3, <2>4, <4>2
        <5> QED
          BY <2>6, <3>2, <5>1 DEF Good, Counted
      <4> QED
        BY <4>1, <4>2
    <3>4. Held(e)
      BY <2>2, <2>3, <2>4, <2>6, <3>2 DEF Good, Held
    <3>5. Good(e, a)
      BY <1>2, <2>5, <2>6, <3>1, <3>3, <3>4 DEF Good, Calm
    <3> QED
      BY <2>2, <2>3, <2>4, <3>5
  <2> QED
    BY <1>0, <2>5, <2>6
<1> QED
  BY <1>1, <1>2

-----------------------------------------------------------------------------
(* Induction, for a set of numbers.                                        *)
LEMMA SetInduction ==
  ASSUME NEW P, P \subseteq Nat, 0 \in P, \A n \in P : n + 1 \in P
  PROVE  \A n \in Nat : n \in P
<1> DEFINE D == Nat \ P
<1> SUFFICES ASSUME D # {} PROVE FALSE
  OBVIOUS
<1>1. PICK d \in D : \A e \in D : ~ (<<e, d>> \in OpToRel(<, Nat))
  <2> HIDE DEF D
  <2>1. D \subseteq Nat
    BY DEF D
  <2> QED
    BY <2>1, NatLessThanWellFounded, WFMin, Zenon
<1>2. d \in Nat /\ d # 0 /\ d - 1 \in Nat
  OBVIOUS
<1>3. d - 1 \in P
  <2>1. <<d - 1, d>> \in Nat \X Nat /\ <<d - 1, d>>[1] = d - 1 /\ <<d - 1, d>>[2] = d
    BY <1>2
  <2>2. <<d - 1, d>> \in OpToRel(<, Nat)
    BY <1>2, <2>1 DEF OpToRel
  <2> QED
    BY <1>1, <1>2, <2>2
<1>4. (d - 1) + 1 = d
  BY <1>2
<1> QED
  BY <1>3, <1>4

(* The tasks that Plain lists consist of.                                  *)
Lasting == {k \in NolockTask : k.exec # "start_channel"}

(* Plain, as a type of sequences.                                          *)
LEMMA PlainIsLasting ==
  ASSUME NEW q \in Seq(NolockTask) PROVE Plain(q) <=> q \in Seq(Lasting)
<1>1. DOMAIN q = 1 .. Len(q) /\ Len(q) \in Nat /\ \A i \in 1 .. Len(q) : q[i] \in NolockTask
  OBVIOUS
<1>2. ASSUME Plain(q) PROVE q \in Seq(Lasting)
  <2>1. q = [i \in 1 .. Len(q) |-> q[i]]
    BY <1>1
  <2>2. \A i \in 1 .. Len(q) : q[i] \in Lasting
    BY <1>1, <1>2 DEF Plain, Lasting
  <2> QED
    BY <1>1, <2>1, <2>2
<1>3. ASSUME q \in Seq(Lasting) PROVE Plain(q)
  <2>1. \A i \in 1 .. Len(q) : q[i] \in Lasting
    BY <1>3
  <2> QED
    BY <1>1, <2>1 DEF Plain, Lasting
<1> QED
  BY <1>2, <1>3

(* Destroying a line asks channels to hang up, and nothing else.           *)
LEMMA HangupTasksFacts ==
  ASSUME NEW d \in DeviceType
  PROVE  HangupTasks(d) \in Seq(Lasting)
<1> DEFINE s == d.subchans
           n == Len(s)
           Hung(x) == HangupTask(d.sub[x].chan)
           Skip(i) == d.oom = "task" \/ d.sub[s[i]].chan = NULL
           Next1(f, i) == IF i = 0 THEN << >>
                          ELSE IF Skip(i) THEN f[i - 1] ELSE Append(f[i - 1], Hung(s[i]))
<1>0. s \in Seq(Subchans) /\ n \in Nat /\ \A i \in 1 .. n : s[i] \in Subchans
  <2>1. s \in Seq(Subchans)
    BY Fields
  <2> HIDE DEF s
  <2> QED
    BY <2>1
<1>h. \A i \in 1 .. n : ~Skip(i) => Hung(s[i]) \in Lasting
  <2> SUFFICES ASSUME NEW i \in 1 .. n, ~Skip(i) PROVE Hung(s[i]) \in Lasting
    OBVIOUS
  <2>1. d.sub[s[i]].chan \in Chans
    BY <1>0, SubFields
  <2> HIDE DEF s
  <2> QED
    BY <2>1 DEF HangupTask, Lasting, NolockTask
<1>1. \E f : f \in [0 .. n -> Seq(Lasting)] /\ f = [i \in 0 .. n |-> Next1(f, i)]
  <2> DEFINE IsUp(f, k) == /\ f \in [0 .. k -> Seq(Lasting)]
                           /\ \A i \in 0 .. k : f[i] = Next1(f, i)
             P == {k \in Nat : k <= n => \E f : IsUp(f, k)}
  <2> HIDE DEF s, n, Hung, Skip
  <2>1. 0 \in P
    <3> DEFINE f == [i \in 0 .. 0 |-> << >>]
    <3>1. IsUp(f, 0)
      OBVIOUS
    <3> QED
      BY <3>1
  <2>2. ASSUME NEW k \in P PROVE k + 1 \in P
    <3> SUFFICES ASSUME k + 1 <= n PROVE \E f : IsUp(f, k + 1)
      <4> HIDE DEF IsUp
      <4> QED
        OBVIOUS
    <3>1. PICK f : IsUp(f, k)
      <4> HIDE DEF IsUp
      <4> QED
        BY <1>0
    <3> DEFINE h == [i \in 0 .. k + 1 |-> IF i = k + 1 THEN Next1(f, k + 1) ELSE f[i]]
    <3>2. k \in Nat /\ k + 1 \in 1 .. n /\ (k + 1) - 1 = k
      BY <1>0
    <3>3. Next1(f, k + 1) \in Seq(Lasting)
      BY <1>h, <3>1, <3>2
    <3>4. h \in [0 .. k + 1 -> Seq(Lasting)]
      <4> HIDE DEF Next1
      <4> QED
        BY <3>1, <3>2, <3>3
    <3>5. \A i \in 0 .. k : h[i] = f[i]
      <4> HIDE DEF Next1
      <4> QED
        BY <3>2
    <3>6. h[k + 1] = Next1(f, k + 1)
      <4> HIDE DEF Next1
      <4> QED
        BY <3>2
    <3>7. \A i \in 0 .. k + 1 : h[i] = Next1(h, i)
      <4> SUFFICES ASSUME NEW i \in 0 .. k + 1 PROVE h[i] = Next1(h, i)
        OBVIOUS
      <4>1. i = 0 \/ h[i - 1] = f[i - 1]
        BY <3>2, <3>5
      <4>2. h[i] = Next1(f, i)
        <5> HIDE DEF Next1, h
        <5>1. CASE i = k + 1
          BY <3>6, <5>1
        <5>2. CASE i # k + 1
          <6>1. i \in 0 .. k
            BY <3>2, <5>2
          <6> QED
            BY <3>1, <3>5, <6>1
        <5> QED
          BY <5>1, <5>2
      <4> HIDE DEF h
      <4> QED
        BY <4>1, <4>2
    <3> QED
      BY <3>4, <3>7
  <2>3. n \in P
    <3>1. P \subseteq Nat
      OBVIOUS
    <3> HIDE DEF P
    <3> QED
      BY <1>0, <2>1, <2>2, <3>1, SetInduction
  <2>4. PICK f : IsUp(f, n)
    <3> HIDE DEF IsUp
    <3> QED
      BY <1>0, <2>3
  <2>5. f = [i \in 0 .. n |-> Next1(f, i)]
    <3> HIDE DEF Next1
    <3> QED
      BY <2>4
  <2> QED
    BY <2>4, <2>5
<1> DEFINE K == CHOOSE f : f = [i \in 0 .. n |-> Next1(f, i)]
<1>2. K = [i \in 0 .. n |-> Next1(K, i)]
  BY <1>1
<1>3. HangupTasks(d) = K[n]
  BY DEF HangupTasks
<1> HIDE DEF K
<1>4. \A i \in 0 .. n : K[i] = Next1(K, i)
  <2> HIDE DEF Next1
  <2> QED
    BY <1>2
<1> HIDE DEF s, n, Hung, Skip
<1> DEFINE Q == {i \in Nat : i <= n => K[i] \in Seq(Lasting)}
<1>5. 0 \in Q
  <2>1. 0 \in 0 .. n /\ << >> \in Seq(Lasting)
    BY <1>0
  <2>2. K[0] = << >>
    BY <1>4, <2>1
  <2> QED
    BY <2>1, <2>2
<1>6. ASSUME NEW i \in Q PROVE i + 1 \in Q
  <2> SUFFICES ASSUME i + 1 <= n PROVE K[i + 1] \in Seq(Lasting)
    OBVIOUS
  <2>1. i \in Nat /\ i + 1 \in 1 .. n /\ i + 1 \in 0 .. n /\ (i + 1) - 1 = i /\ i + 1 # 0
        /\ K[i] \in Seq(Lasting)
    BY <1>0
  <2>2. K[i + 1] = IF Skip(i + 1) THEN K[i] ELSE Append(K[i], Hung(s[i + 1]))
    BY <1>4, <2>1
  <2> QED
    BY <1>h, <2>1, <2>2
<1>7. n \in Q
  <2>1. Q \subseteq Nat
    OBVIOUS
  <2> HIDE DEF Q
  <2> QED
    BY <1>0, <1>5, <1>6, <2>1, SetInduction
<1> QED
  BY <1>0, <1>3, <1>7

(* The end of the session (sccp_line_destroy): the list gives its          *)
(* references back, and those whose channel is up keep the other one.      *)
(* Nobody is left in the list.                                             *)
LEMMA DestroyFacts ==
  ASSUME NEW d \in DeviceType
  PROVE  LET e == [sccp_line_destroy(d) EXCEPT !.state = "DESTROYED"]
         IN  /\ e \in DeviceType /\ Sound(e) /\ (FwdOK(d) => FwdOK(e))
             /\ Plain(d.tasks) => Plain(e.tasks)
             /\ e.state = "DESTROYED" /\ Kept(d, e) /\ e.oom = d.oom
             /\ Good(d, NULL) => Good(e, NULL)
<1> DEFINE h == HangupTasks(d)
           t == d.tasks \o h
           f == [s \in Subchans |->
                       IF s \notin Listed(d) THEN d.sub[s]
                       ELSE [d.sub[s] EXCEPT !.refs = @ - 1,
                                             !.rtp = @ /\ d.sub[s].chan # NULL]]
           e == [d EXCEPT !.subchans = << >>, !.tasks = t, !.sub = f, !.state = "DESTROYED"]
<1>1. [sccp_line_destroy(d) EXCEPT !.state = "DESTROYED"] = e
  <2>1. sccp_line_destroy(d) = [d EXCEPT !.subchans = << >>, !.tasks = t, !.sub = f]
    BY Zenon DEF sccp_line_destroy
  <2> HIDE DEF t, f
  <2> QED
    BY <2>1
<1>2. h \in Seq(Lasting) /\ h \in Seq(NolockTask)
  <2>1. h \in Seq(Lasting)
    BY HangupTasksFacts
  <2> HIDE DEF h
  <2> QED
    BY <2>1 DEF Lasting
<1> HIDE DEF h
<1>3. t \in Seq(NolockTask)
  BY <1>2, Fields, ConcatFacts
<1>4. Plain(d.tasks) => Plain(t)
  <2> SUFFICES ASSUME Plain(d.tasks) PROVE Plain(t)
    OBVIOUS
  <2>1. d.tasks \in Seq(Lasting)
    BY PlainIsLasting, Fields
  <2>2. t \in Seq(Lasting)
    BY <1>2, <2>1, ConcatFacts
  <2> HIDE DEF t
  <2> QED
    BY <1>3, <2>2, PlainIsLasting
<1> HIDE DEF t
<1>5. ASSUME NEW x \in Subchans
      PROVE  /\ f[x] \in SubchannelType /\ f[x].chan = d.sub[x].chan
             /\ f[x].state = d.sub[x].state
             /\ x \notin Listed(d) => f[x].refs = d.sub[x].refs /\ f[x].rtp = d.sub[x].rtp
             /\ x \in Listed(d) => /\ f[x].refs = d.sub[x].refs - 1
                                   /\ f[x].rtp => d.sub[x].chan # NULL
  <2>1. d.sub[x] \in SubchannelType
    BY SubFields
  <2>2. CASE x \notin Listed(d)
    BY <2>1, <2>2 DEF SubchannelType
  <2>3. CASE x \in Listed(d)
    <3> DEFINE n == d.sub[x].refs - 1
               b == d.sub[x].rtp /\ d.sub[x].chan # NULL
               v == [d.sub[x] EXCEPT !.refs = n, !.rtp = b]
    <3>1. f[x] = v
      BY <2>3
    <3>2. n \in Int /\ b \in BOOLEAN /\ (b => d.sub[x].chan # NULL)
      BY SubFields
    <3> HIDE DEF n, b
    <3>3. /\ v \in SubchannelType /\ v.chan = d.sub[x].chan /\ v.state = d.sub[x].state
          /\ v.refs = n /\ v.rtp = b
      BY <2>1, <3>2 DEF SubchannelType
    <3> HIDE DEF v, f
    <3> QED
      BY <2>3, <3>1, <3>2, <3>3 DEF n
  <2> QED
    BY <2>2, <2>3
<1>6. f \in [Subchans -> SubchannelType]
  BY <1>5
<1> HIDE DEF f
<1>7. << >> \in Seq(Subchans)
  OBVIOUS
<1>8. e \in DeviceType
  BY <1>3, <1>6, <1>7 DEF DeviceType
<1>9. /\ e.subchans = << >> /\ e.sub = f /\ e.tasks = t /\ e.state = "DESTROYED"
      /\ e.oom = d.oom /\ e.fwdtimer = d.fwdtimer /\ e.callfwd = d.callfwd
  BY DEF DeviceType
<1> HIDE DEF e
<1>10. Listed(e) = {} /\ OneEach(e.subchans)
  BY <1>9 DEF Listed, Range, OneEach
<1>11. Sound(e)
  BY <1>10 DEF Sound
<1>12. Kept(d, e)
  BY <1>5, <1>9 DEF Kept
<1>13. ASSUME Good(d, NULL) PROVE Good(e, NULL)
  <2>1. Counted(e)
    <3> SUFFICES ASSUME NEW x \in Subchans
                 PROVE  e.sub[x].refs = (IF e.sub[x].chan # NULL THEN 1 ELSE 0)
                                        + (IF x \in Listed(e) THEN 1 ELSE 0)
      BY DEF Counted
    <3>1. d.sub[x].refs = (IF d.sub[x].chan # NULL THEN 1 ELSE 0)
                          + (IF x \in Listed(d) THEN 1 ELSE 0)
      BY <1>13 DEF Good, Counted
    <3>2. e.sub[x].chan = d.sub[x].chan
          /\ e.sub[x].refs = d.sub[x].refs - (IF x \in Listed(d) THEN 1 ELSE 0)
      BY <1>5, <1>9, SubFields
    <3> QED
      BY <1>10, <3>1, <3>2
  <2>2. Held(e)
    BY <1>5, <1>9, <1>13 DEF Good, Held
  <2> QED
    BY <1>8, <1>9, <1>11, <2>1, <2>2 DEF Good
<1> QED
  BY <1>1, <1>4, <1>8, <1>9, <1>11, <1>12, <1>13 DEF FwdOK

-----------------------------------------------------------------------------
(* Nobody has the mutex between two steps: nothing is left to be unlocked. *)
Quiet == device.holder = NULL /\ device.oom = "none" /\ device.tasks = << >>

(* A channel has a tech_pvt from its request, or its start, to its hangup. *)
Staged == \A c \in Chans :
  chan[c].pvt # NULL <=> chan[c].stage \in {"requested", "called", "placed", "started"}

(* Only the session thread starts a call, as the only task it took, of a   *)
(* channel that is ready to be started: no other task of its, and no other *)
(* thread, comes in between.                                               *)
Starting == \A t \in Threads : \A i \in DOMAIN todo[t] :
  todo[t][i].exec = "start_channel" =>
    t = SessionThread /\ Len(todo[t]) = 1 /\ chan[todo[t][i].chan].stage = "placed"

(* start_the_call works for a subchannel exactly while the device is       *)
(* unlocked for it.                                                        *)
Allocating == sthread.pc = "alloc" <=> sthread.subchan # NULL

(* A device is destroyed at the end of its session thread.                 *)
Ended == device.state = "DESTROYED" => sthread.pc = "done"

(* A subchannel that has a channel and the state of one about to be        *)
(* dialled is an incoming one that does not ring yet (NotRinging).         *)
Ringing == \A s \in Subchans :
  device.sub[s].state = "OFFHOOK" /\ device.sub[s].chan # NULL =>
    chan[device.sub[s].chan].stage \in {"requested", "called"}

(* The calls of the device are in order.                                   *)
Sane ==
  /\ Good(device, sthread.subchan)
  /\ Ringing /\ LinksAgree

(* The inductive invariant. Without RingIsPrompt only the first part       *)
(* holds: an incoming subchannel may then be taken for one about to be     *)
(* dialled, and whatever the code believes of its channel and its          *)
(* references is lost.                                                     *)
DeviceInv ==
  /\ TypeOK /\ Quiet /\ Sound(device) /\ FwdTimerInInput
  /\ Staged /\ Starting /\ Allocating /\ Ended
  /\ RingIsPrompt => Sane

(* l is the device as the thread that locks it finds it, with memory or    *)
(* without.                                                                *)
LockedAs(l) ==
  /\ l \in DeviceType /\ FwdOK(l) /\ Sound(l) /\ l.tasks = << >>
  /\ l.subchans = device.subchans /\ l.sub = device.sub /\ l.active = device.active
  /\ l.dialtimers = device.dialtimers /\ l.state = device.state /\ l.callfwd = device.callfwd
  /\ l.oom # "none" => ooms < MaxOoms
  /\ RingIsPrompt => Good(l, sthread.subchan)

(* Locking the device changes nothing of it.                               *)
LEMMA LockFacts ==
  ASSUME DeviceInv, NEW t \in Threads, NEW l \in Locked(t)
  PROVE  LockedAs(l)
<1>1. PICK f \in {"none", "task", "subchan"} :
        l = [device EXCEPT !.holder = t, !.oom = f] /\ (f # "none" => ooms < MaxOoms)
  BY DEF Locked
<1>2. device \in DeviceType /\ t \in Threads \cup {NULL} /\ device.tasks = << >>
  BY DEF DeviceInv, TypeOK, Quiet
<1>3. /\ l \in DeviceType /\ l.tasks = << >> /\ l.fwdtimer = device.fwdtimer
      /\ l.subchans = device.subchans /\ l.sub = device.sub /\ l.active = device.active
      /\ l.dialtimers = device.dialtimers /\ l.state = device.state
      /\ l.callfwd = device.callfwd /\ l.oom = f
  BY <1>1, <1>2 DEF DeviceType
<1>4. FwdOK(l) /\ Sound(l)
  BY <1>3 DEF DeviceInv, FwdOK, FwdTimerInInput, Sound, Listed
<1>5. ASSUME RingIsPrompt PROVE Good(l, sthread.subchan)
  <2>1. Good(device, sthread.subchan)
    BY <1>5 DEF DeviceInv, Sane
  <2> QED
    BY <1>3, <1>4, <2>1 DEF Good, Counted, Held, InList, Fresh, Paired, Listed
<1> QED
  BY <1>1, <1>3, <1>4, <1>5 DEF LockedAs

(* d is a device that may be left when l was found.                        *)
Fit(l, d) == d \in DeviceType /\ FwdOK(d) /\ Sound(d) /\ d.oom = l.oom

(* A device left after operations that keep what Calm says.                *)
LEMMA CalmFit ==
  ASSUME NEW l, NEW d, LockedAs(l), Calm(l, d)
  PROVE  Fit(l, d) /\ Plain(d.tasks)
<1>1. Plain(l.tasks)
  BY DEF Plain, LockedAs
<1> QED
  BY <1>1 DEF LockedAs, Calm, Fit

(* Unlocking leaves the device as it is, but for the tasks, which the      *)
(* thread takes after those it has.                                        *)
LEMMA UnlockFacts ==
  ASSUME DeviceInv, NEW t \in Threads, NEW l, LockedAs(l), NEW d, Fit(l, d), Unlock(t, d)
  PROVE  /\ device' \in DeviceType /\ Quiet' /\ Sound(device') /\ FwdTimerInInput'
         /\ device'.sub = d.sub /\ device'.state = d.state
         /\ \A a : Good(d, a) => Good(device', a)
         /\ todo' \in [Threads -> Seq(NolockTask)] /\ ooms' \in 0 .. MaxOoms
         /\ \A x \in Threads \ {t} : todo'[x] = todo[x]
         /\ Plain(todo[t]) /\ Plain(d.tasks) => Plain(todo'[t])
         /\ todo[t] = << >> => todo'[t] = d.tasks
<1>1. device' = [d EXCEPT !.holder = NULL, !.oom = "none", !.tasks = << >>]
  BY DEF Unlock
<1>2. d \in DeviceType /\ FwdOK(d) /\ Sound(d) /\ d.tasks \in Seq(NolockTask)
  BY Fields DEF Fit
<1>3. /\ device' \in DeviceType /\ device'.holder = NULL /\ device'.oom = "none"
      /\ device'.tasks = << >> /\ device'.fwdtimer = d.fwdtimer
      /\ device'.subchans = d.subchans /\ device'.sub = d.sub /\ device'.active = d.active
      /\ device'.dialtimers = d.dialtimers /\ device'.state = d.state
      /\ device'.callfwd = d.callfwd
  <2>1. << >> \in Seq(NolockTask)
    OBVIOUS
  <2> QED
    BY <1>1, <1>2, <2>1 DEF DeviceType
<1>4. Sound(device') /\ FwdTimerInInput'
  BY <1>2, <1>3 DEF FwdOK, FwdTimerInInput, Sound, Listed
<1>5. ASSUME NEW a, Good(d, a) PROVE Good(device', a)
  BY <1>3, <1>4, <1>5 DEF Good, Counted, Held, InList, Fresh, Paired, Listed
<1>6. ooms' \in 0 .. MaxOoms
  <2>1. d.oom # "none" => ooms < MaxOoms
    BY DEF LockedAs, Fit
  <2>2. /\ ooms \in 0 .. MaxOoms /\ MaxOoms \in Nat
        /\ ooms' = IF d.oom = "none" THEN ooms ELSE ooms + 1
    BY DeviceAssumption DEF DeviceInv, TypeOK, Unlock
  <2> QED
    BY <2>1, <2>2
<1> DEFINE q == todo[t] \o d.tasks
<1>7. todo \in [Threads -> Seq(NolockTask)] /\ todo' = [todo EXCEPT ![t] = q]
  BY DEF DeviceInv, TypeOK, Unlock
<1>8. q \in Seq(NolockTask)
  BY <1>2, <1>7, ConcatFacts
<1>9. ASSUME Plain(todo[t]), Plain(d.tasks) PROVE Plain(q)
  <2>1. todo[t] \in Seq(Lasting) /\ d.tasks \in Seq(Lasting)
    BY <1>2, <1>7, <1>9, PlainIsLasting
  <2>2. q \in Seq(Lasting)
    BY <2>1, ConcatFacts
  <2> HIDE DEF q
  <2> QED
    BY <1>8, <2>2, PlainIsLasting
<1>10. todo[t] = << >> => q = d.tasks
  BY <1>2
<1> HIDE DEF q
<1>11. /\ todo' \in [Threads -> Seq(NolockTask)] /\ todo'[t] = q
       /\ \A x \in Threads \ {t} : todo'[x] = todo[x]
  BY <1>7, <1>8
<1> QED
  BY <1>3, <1>4, <1>5, <1>6, <1>9, <1>10, <1>11 DEF Quiet

(* Starting, for a step of a thread that takes no task that starts a call. *)
LEMMA StartingKept ==
  ASSUME Starting, NEW t \in Threads, todo \in [Threads -> Seq(NolockTask)],
         todo' \in [Threads -> Seq(NolockTask)],
         \A x \in Threads \ {t} : todo'[x] = todo[x],
         Plain(todo'[t]),
         \A c \in Chans : chan[c].stage = "placed" => chan'[c].stage = "placed"
  PROVE  Starting'
<1> SUFFICES ASSUME NEW x \in Threads, NEW i \in DOMAIN todo'[x],
                    todo'[x][i].exec = "start_channel"
             PROVE  /\ x = SessionThread /\ Len(todo'[x]) = 1
                    /\ chan'[todo'[x][i].chan].stage = "placed"
  BY DEF Starting
<1>1. x # t
  BY DEF Plain
<1>2. todo'[x] = todo[x] /\ todo[x] \in Seq(NolockTask)
  BY <1>1
<1>3. todo[x][i] \in NolockTask
  BY <1>2
<1>4. todo[x][i].chan \in Chans
  BY <1>3 DEF NolockTask
<1> QED
  BY <1>2, <1>4 DEF Starting

-----------------------------------------------------------------------------
(* A handler of the session thread that unlocks the device for good keeps  *)
(* the invariant if its operations keep the calls in order and change no   *)
(* channel.                                                                *)
LEMMA DoneStep ==
  ASSUME DeviceInv, SessionIsFree, NEW l, LockedAs(l), NEW d, Calm(l, d), Done(d),
         RingIsPrompt => Good(d, NULL) /\ Kept(l, d)
  PROVE  DeviceInv'
<1>1. Fit(l, d) /\ Plain(d.tasks)
  BY CalmFit
<1>2. SessionThread \in Threads
  BY DEF Threads
<1>3. Unlock(SessionThread, d) /\ chan' = chan /\ sthread' = sthread
  BY DEF Done
<1>4. /\ device' \in DeviceType /\ Quiet' /\ Sound(device') /\ FwdTimerInInput'
      /\ device'.sub = d.sub /\ device'.state = d.state
      /\ \A a : Good(d, a) => Good(device', a)
      /\ todo' \in [Threads -> Seq(NolockTask)] /\ ooms' \in 0 .. MaxOoms
      /\ \A x \in Threads \ {SessionThread} : todo'[x] = todo[x]
      /\ todo[SessionThread] = << >> => todo'[SessionThread] = d.tasks
  BY <1>1, <1>2, <1>3, UnlockFacts
<1>5. todo[SessionThread] = << >> /\ sthread.pc = "idle" /\ sthread.subchan = NULL
  BY DEF SessionIsFree, DeviceInv, Allocating
<1>6. TypeOK'
  BY <1>3, <1>4 DEF DeviceInv, TypeOK
<1>7. Starting'
  <2>1. Plain(todo'[SessionThread])
    BY <1>1, <1>4, <1>5
  <2>2. Starting /\ todo \in [Threads -> Seq(NolockTask)]
    BY DEF DeviceInv, TypeOK
  <2>3. \A c \in Chans : chan[c].stage = "placed" => chan'[c].stage = "placed"
    BY <1>3
  <2> QED
    BY <1>2, <1>4, <2>1, <2>2, <2>3, StartingKept
<1>8. Staged' /\ Allocating' /\ Ended'
  BY <1>3, <1>4 DEF DeviceInv, Staged, Allocating, Ended, LockedAs, Calm
<1>9. ASSUME RingIsPrompt PROVE Sane'
  <2>1. Sane /\ Good(d, NULL) /\ Kept(l, d)
    BY <1>9 DEF DeviceInv
  <2>2. Good(device', sthread'.subchan)
    BY <1>3, <1>4, <1>5, <2>1
  <2>3. Kept(device, device')
    BY <1>4, <2>1 DEF LockedAs, Kept
  <2>4. Ringing'
    BY <1>3, <2>1, <2>3 DEF Sane, Ringing, Kept
  <2>5. LinksAgree'
    BY <1>3, <2>1, <2>3 DEF Sane, LinksAgree, Kept
  <2> QED
    BY <1>3, <2>1, <2>2, <2>3, <2>4, <2>5 DEF Sane
<1> QED
  BY <1>4, <1>6, <1>7, <1>8, <1>9 DEF DeviceInv

(* A handler that unlocks it to place a call does so if the call is one    *)
(* about to be dialled: the timer that would dial it is removed.           *)
LEMMA CallStep ==
  ASSUME DeviceInv, SessionIsFree, NEW l, LockedAs(l), NEW d, Calm(l, d),
         NEW s \in Subchans, start_the_call(d, s),
         RingIsPrompt => Good(d, NULL) /\ Kept(l, d) /\ Fresh(d, s)
  PROVE  DeviceInv'
<1> DEFINE r == remove_dialtimeout_task(d, s)
<1>0. d \in DeviceType /\ NULL \notin Subchans
  BY DeviceOpsAssumption DEF Calm
<1>1. /\ Calm(d, r) /\ Kept(d, r) /\ r.dialtimers = d.dialtimers \ {s}
      /\ r.subchans = d.subchans /\ r.sub = d.sub /\ r.active = d.active
      /\ \A a \in Subchans \cup {NULL} : Good(d, a) => Good(r, a)
  BY <1>0, RemoveTimerFacts
<1>2. Unlock(SessionThread, r) /\ chan' = chan /\ sthread' = [pc |-> "alloc", subchan |-> s]
  BY DEF start_the_call
<1> HIDE DEF r
<1>3. Calm(l, r)
  BY <1>1, CalmTrans
<1>4. Fit(l, r) /\ Plain(r.tasks)
  BY <1>3, CalmFit
<1>5. SessionThread \in Threads
  BY DEF Threads
<1>6. /\ device' \in DeviceType /\ Quiet' /\ Sound(device') /\ FwdTimerInInput'
      /\ device'.sub = r.sub /\ device'.state = r.state
      /\ \A a : Good(r, a) => Good(device', a)
      /\ todo' \in [Threads -> Seq(NolockTask)] /\ ooms' \in 0 .. MaxOoms
      /\ \A x \in Threads \ {SessionThread} : todo'[x] = todo[x]
      /\ todo[SessionThread] = << >> => todo'[SessionThread] = r.tasks
  BY <1>2, <1>4, <1>5, UnlockFacts
<1>7. todo[SessionThread] = << >> /\ sthread.pc = "idle"
  BY DEF SessionIsFree
<1>8. TypeOK'
  <2>1. sthread' \in [pc : {"idle", "alloc", "done"}, subchan : Subchans \cup {NULL}]
    BY <1>2
  <2> QED
    BY <1>2, <1>6, <2>1 DEF DeviceInv, TypeOK
<1>9. Starting'
  <2>1. Plain(todo'[SessionThread])
    BY <1>4, <1>6, <1>7
  <2>2. Starting /\ todo \in [Threads -> Seq(NolockTask)]
    BY DEF DeviceInv, TypeOK
  <2>3. \A c \in Chans : chan[c].stage = "placed" => chan'[c].stage = "placed"
    BY <1>2
  <2> QED
    BY <1>5, <1>6, <2>1, <2>2, <2>3, StartingKept
<1>a. d.state # "DESTROYED" /\ device'.state # "DESTROYED"
  BY <1>1, <1>6, <1>7 DEF LockedAs, Calm, DeviceInv, Ended
<1>10. Staged' /\ Allocating' /\ Ended'
  BY <1>0, <1>2, <1>a DEF DeviceInv, Staged, Allocating, Ended
<1>11. ASSUME RingIsPrompt PROVE Sane'
  <2>1. Sane /\ Good(d, NULL) /\ Kept(l, d) /\ Fresh(d, s)
    BY <1>11 DEF DeviceInv
  <2>2. Good(r, s)
    <3>1. Good(r, NULL)
      BY <1>1, <2>1
    <3>2. Fresh(r, s) /\ s \notin r.dialtimers /\ r.state # "DESTROYED"
      BY <1>1, <1>a, <2>1 DEF Fresh, Listed, Calm
    <3> QED
      BY <3>1, <3>2 DEF Good
  <2>3. Good(device', sthread'.subchan)
    BY <1>2, <1>6, <2>2
  <2>4. Kept(device, device')
    BY <1>1, <1>6, <2>1 DEF LockedAs, Kept
  <2>5. Ringing'
    BY <1>2, <2>1, <2>4 DEF Sane, Ringing, Kept
  <2>6. LinksAgree'
    BY <1>2, <2>1, <2>4 DEF Sane, LinksAgree, Kept
  <2> QED
    BY <2>3, <2>4, <2>5, <2>6 DEF Sane
<1> QED
  BY <1>6, <1>8, <1>9, <1>10, <1>11 DEF DeviceInv

(* What a handler of the session thread may rely on: the device is not     *)
(* destroyed, no call is being placed, and a subchannel of the list in the *)
(* state of one about to be dialled is one.                                *)
LEMMA FreeFacts ==
  ASSUME DeviceInv, SessionIsFree, NEW l, LockedAs(l)
  PROVE  /\ l \in DeviceType /\ Calm(l, l) /\ Kept(l, l) /\ l.state # "DESTROYED"
         /\ RingIsPrompt => /\ Good(l, NULL)
                            /\ \A s \in Listed(l) : l.sub[s].state = "OFFHOOK" => Fresh(l, s)
<1>1. l \in DeviceType /\ Calm(l, l) /\ Kept(l, l) /\ l.state # "DESTROYED"
  BY DEF LockedAs, Calm, Kept, SessionIsFree, DeviceInv, Ended
<1>2. ASSUME RingIsPrompt
      PROVE  /\ Good(l, NULL)
             /\ \A s \in Listed(l) : l.sub[s].state = "OFFHOOK" => Fresh(l, s)
  <2>1. sthread.pc = "idle" /\ sthread.subchan = NULL /\ Sane /\ TypeOK
        /\ \A c \in Chans : ~NotRinging(c)
    BY <1>2 DEF SessionIsFree, DeviceInv, Allocating
  <2>2. Good(l, NULL)
    BY <1>2, <2>1 DEF LockedAs
  <2>3. ASSUME NEW s \in Listed(l), l.sub[s].state = "OFFHOOK" PROVE Fresh(l, s)
    <3>1. s \in Subchans /\ l.sub = device.sub
      BY <1>1, Fields DEF LockedAs
    <3>2. SUFFICES ASSUME l.sub[s].chan # NULL PROVE FALSE
      BY <2>3 DEF Fresh
    <3> DEFINE c == device.sub[s].chan
    <3>3. c \in Chans /\ c # NULL
      BY <1>1, <3>1, <3>2, SubFields
    <3>4. chan[c].stage \in {"requested", "called"} /\ chan[c].pvt = s
      BY <2>1, <2>3, <3>1, <3>3 DEF Sane, Ringing, LinksAgree
    <3> QED
      BY <2>1, <2>3, <3>1, <3>3, <3>4 DEF NotRinging
  <2> QED
    BY <2>1, <2>2, <2>3
<1> QED
  BY <1>1, <1>2

-----------------------------------------------------------------------------
(* The timer of a digit, for a call about to be dialled.                   *)
LEMMA AddTimerFacts ==
  ASSUME NEW d \in DeviceType, NEW s \in Subchans
  PROVE  LET e == add_dialtimeout_task([d EXCEPT !.exten = TRUE], s)
         IN  /\ Calm(d, e) /\ Kept(d, e)
             /\ Good(d, NULL) /\ Fresh(d, s) => Good(e, NULL)
<1> DEFINE c == [d EXCEPT !.exten = TRUE]
           D == d.dialtimers \cup {s}
           e == [UseRunner(c) EXCEPT !.dialtimers = D]
<1>1. Same(d, c) /\ c \in DeviceType
  BY ExtenSame DEF Same, Calm
<1>2. add_dialtimeout_task([d EXCEPT !.exten = TRUE], s) = e
  <2>1. UseRunner(c).dialtimers = d.dialtimers
    BY <1>1 DEF UseRunner, DeviceType
  <2> QED
    BY <2>1 DEF add_dialtimeout_task
<1> HIDE DEF c
<1>3. D \in SUBSET Subchans /\ NULL \notin Subchans
  BY Fields
<1>4. ASSUME Good(d, NULL), Fresh(d, s) PROVE Good(e, NULL)
  <2>1. Good(c, NULL)
    BY <1>1, <1>4, SameGood
  <2>2. \A x \in Subchans : Fresh(d, x) => Fresh(c, x)
    BY <1>1 DEF Same, Fresh, Listed
  <2>3. c.state # "DESTROYED" => \A x \in D : Fresh(c, x) /\ x # NULL
    BY <1>1, <1>3, <1>4, <2>2 DEF Good, Same, Calm
  <2> HIDE DEF D
  <2> QED
    BY <1>3, <2>1, <2>3, TimerGood
<1>5. Calm(c, e) /\ e.sub = c.sub
  BY <1>1, <1>3, TimerFacts
<1> HIDE DEF e
<1>6. Calm(d, e) /\ Kept(d, e)
  <2>1. Calm(d, c)
    BY <1>1 DEF Same
  <2>2. Calm(d, e)
    BY <1>5, <2>1, CalmTrans
  <2> QED
    BY <1>1, <1>5, <2>2 DEF Same, Kept
<1> QED
  BY <1>2, <1>4, <1>6

(* The end of the input of a number to forward to removes its timer.       *)
LEMMA SetForwardSame ==
  ASSUME NEW d \in DeviceType
  PROVE  /\ Same(d, set_callforward(d)) /\ Same(d, set_callforward_from_device_exten(d))
         /\ Same(d, cancel_callforward_input(d))
         /\ Same(d, set_callforward_from_device_exten([d EXCEPT !.fwdtimer = FALSE]))
<1>1. ASSUME NEW e \in DeviceType
      PROVE  Same(e, set_callforward(e)) /\ Same(e, set_callforward_from_device_exten(e))
  <2> DEFINE f == set_callforward(e)
  <2>1. Same(e, f)
    <3> DEFINE b == e.offthread \/ e.holder # SessionThread
               g == [e EXCEPT !.callfwd = "ACTIVE", !.offthread = b, !.fwdtimer = FALSE]
    <3>1. b \in BOOLEAN
      BY DEF DeviceType
    <3>2. f = g
      BY DEF set_callforward, remove_fwdtimeout_task, UseRunner, DeviceType
    <3> HIDE DEF b, f
    <3>3. g \in DeviceType
      BY <3>1 DEF DeviceType
    <3>4. Same(e, g)
      <4>1. /\ g.subchans = e.subchans /\ g.sub = e.sub /\ g.active = e.active
            /\ g.dialtimers = e.dialtimers /\ g.state = e.state /\ g.oom = e.oom
            /\ g.fwdtimer = FALSE /\ g.tasks = e.tasks
        BY DEF DeviceType
      <4> HIDE DEF g
      <4> QED
        BY <3>3, <4>1, FieldsSame DEF FwdOK
    <3> QED
      BY <3>2, <3>4
  <2>2. set_callforward_from_device_exten(e) = [f EXCEPT !.exten = FALSE]
    BY DEF set_callforward_from_device_exten
  <2> HIDE DEF f
  <2>3. Same(f, [f EXCEPT !.exten = FALSE])
    BY <2>1, ExtenSame DEF Same, Calm
  <2>4. Same(e, [f EXCEPT !.exten = FALSE])
    BY <2>1, <2>3 DEF Same, Calm
  <2> QED
    BY <2>1, <2>2, <2>4 DEF f
<1>2. Same(d, cancel_callforward_input(d))
  <2> DEFINE b == d.offthread \/ d.holder # SessionThread
             g == [d EXCEPT !.callfwd = "INACTIVE", !.exten = FALSE, !.offthread = b,
                            !.fwdtimer = FALSE]
  <2>1. cancel_callforward_input(d) = g /\ b \in BOOLEAN
    BY DEF cancel_callforward_input, remove_fwdtimeout_task, UseRunner, DeviceType
  <2> HIDE DEF b
  <2>2. g \in DeviceType
    BY <2>1 DEF DeviceType
  <2>3. /\ g.subchans = d.subchans /\ g.sub = d.sub /\ g.active = d.active
        /\ g.dialtimers = d.dialtimers /\ g.state = d.state /\ g.oom = d.oom
        /\ g.fwdtimer = FALSE /\ g.tasks = d.tasks
    BY DEF DeviceType
  <2> HIDE DEF g
  <2> QED
    BY <2>1, <2>2, <2>3, FieldsSame DEF FwdOK
<1> DEFINE e == [d EXCEPT !.fwdtimer = FALSE]
<1>3. Same(d, e) /\ e \in DeviceType
  <2>1. e \in DeviceType
    BY DEF DeviceType
  <2>2. /\ e.subchans = d.subchans /\ e.sub = d.sub /\ e.active = d.active
        /\ e.dialtimers = d.dialtimers /\ e.state = d.state /\ e.oom = d.oom
        /\ e.fwdtimer = FALSE /\ e.tasks = d.tasks
    BY DEF DeviceType
  <2> HIDE DEF e
  <2> QED
    BY <2>1, <2>2, FieldsSame DEF FwdOK
<1> HIDE DEF e
<1>4. Same(e, set_callforward_from_device_exten(e))
  BY <1>1, <1>3
<1>5. Same(d, set_callforward_from_device_exten(e))
  BY <1>3, <1>4 DEF Same, Calm
<1> QED
  BY <1>1, <1>2, <1>5 DEF e

(* The timer of the input is armed only during the input.                  *)
LEMMA InputSame ==
  ASSUME NEW d \in DeviceType
  PROVE  /\ d.callfwd = "ACTIVE" => Same(d, clear_callforward(d))
         /\ d.callfwd = "INACTIVE" => Same(d, [d EXCEPT !.callfwd = "INPUTEXTEN"])
         /\ d.callfwd = "INPUTEXTEN" => Same(d, add_fwdtimeout_task([d EXCEPT !.exten = TRUE]))
<1>1. ASSUME d.callfwd = "ACTIVE" PROVE Same(d, clear_callforward(d))
  BY <1>1 DEF Same, Calm, Sound, FwdOK, Listed, clear_callforward, DeviceType
<1>2. Same(d, [d EXCEPT !.callfwd = "INPUTEXTEN"])
  BY DEF Same, Calm, Sound, FwdOK, Listed, DeviceType
<1>3. ASSUME d.callfwd = "INPUTEXTEN"
      PROVE  Same(d, add_fwdtimeout_task([d EXCEPT !.exten = TRUE]))
  BY <1>3 DEF Same, Calm, Sound, FwdOK, Listed, add_fwdtimeout_task, UseRunner, DeviceType
<1> QED
  BY <1>1, <1>2, <1>3

(* A handler that changes no call.                                         *)
LEMMA SameStep ==
  ASSUME DeviceInv, SessionIsFree, NEW l, LockedAs(l), NEW d, Same(l, d), Done(d)
  PROVE  DeviceInv'
<1>1. Calm(l, d) /\ Kept(l, d)
  BY SameKept DEF Same
<1>2. RingIsPrompt => Good(d, NULL)
  BY FreeFacts, SameGood
<1> QED
  BY <1>1, <1>2, DoneStep

(* The invariant is kept: softkey newcall, and offhook.                    *)
LEMMA NewCallStep == ASSUME DeviceInv, NewCall PROVE DeviceInv'
<1>0. SessionThread \in Threads /\ SessionIsFree
  BY DEF Threads, NewCall, Handling
<1> PICK l \in Locked(SessionThread) : \E new \in do_newcall(l) : Done(new.d)
  BY DEF NewCall
<1> PICK new \in do_newcall(l) : Done(new.d)
  OBVIOUS
<1>1. LockedAs(l)
  BY <1>0, LockFacts
<1>2. l \in DeviceType /\ l.state # "DESTROYED" /\ (RingIsPrompt => Good(l, NULL))
  BY <1>0, <1>1, FreeFacts
<1>3. Calm(l, new.d) /\ (RingIsPrompt => Good(new.d, NULL) /\ Kept(l, new.d))
  BY <1>2, NewcallFacts
<1> QED
  BY <1>0, <1>1, <1>3, DoneStep

(* The invariant is kept: softkey answer.                                  *)
LEMMA AnswerCallStep == ASSUME DeviceInv, AnswerCall PROVE DeviceInv'
<1>0. SessionThread \in Threads /\ SessionIsFree
  BY DEF Threads, AnswerCall, Handling
<1> PICK l \in Locked(SessionThread) : \E s \in Listed(l) : Done(do_answer(l, s))
  BY DEF AnswerCall
<1> PICK s \in Listed(l) : Done(do_answer(l, s))
  OBVIOUS
<1>1. LockedAs(l)
  BY <1>0, LockFacts
<1>2. l \in DeviceType /\ l.state # "DESTROYED" /\ (RingIsPrompt => Good(l, NULL))
  BY <1>0, <1>1, FreeFacts
<1>3. s \in Subchans
  BY <1>2, Fields
<1> DEFINE d == do_answer(l, s)
<1>4. Calm(l, d) /\ \A a \in Subchans \cup {NULL} : Good(l, a) /\ l.state # "DESTROYED" =>
                         Good(d, a) /\ Kept(l, d)
  BY <1>2, <1>3, AnswerFacts
<1>5. Done(d)
  OBVIOUS
<1> HIDE DEF d
<1>6. Calm(l, d) /\ (RingIsPrompt => Good(d, NULL) /\ Kept(l, d))
  BY <1>2, <1>4
<1> QED
  BY <1>0, <1>1, <1>5, <1>6, DoneStep

(* The invariant is kept: softkey endcall, and onhook.                     *)
LEMMA EndCallStep == ASSUME DeviceInv, EndCall PROVE DeviceInv'
<1>0. SessionThread \in Threads /\ SessionIsFree
  BY DEF Threads, EndCall, Handling
<1> PICK l \in Locked(SessionThread) : \E s \in Listed(l) : Done(do_hangup(l, s))
  BY DEF EndCall
<1> PICK s \in Listed(l) : Done(do_hangup(l, s))
  OBVIOUS
<1>1. LockedAs(l)
  BY <1>0, LockFacts
<1>2. l \in DeviceType /\ l.state # "DESTROYED" /\ (RingIsPrompt => Good(l, NULL))
  BY <1>0, <1>1, FreeFacts
<1>3. s \in Subchans /\ s # NULL
  BY <1>2, Fields
<1> DEFINE d == do_hangup(l, s)
<1>4. Calm(l, d) /\ \A a \in Subchans \cup {NULL} :
                      Good(l, a) /\ s \in Listed(l) /\ s # a /\ l.state # "DESTROYED" =>
                         Good(d, a) /\ Kept(l, d)
  BY <1>2, <1>3, HangupFacts
<1>5. Done(d)
  OBVIOUS
<1> HIDE DEF d
<1>6. Calm(l, d) /\ (RingIsPrompt => Good(d, NULL) /\ Kept(l, d))
  BY <1>2, <1>3, <1>4
<1> QED
  BY <1>0, <1>1, <1>5, <1>6, DoneStep

(* The invariant is kept: softkey hold.                                    *)
LEMMA HoldStep == ASSUME DeviceInv, Hold PROVE DeviceInv'
<1>0. SessionThread \in Threads /\ SessionIsFree
  BY DEF Threads, Hold, Handling
<1> PICK l \in Locked(SessionThread) : Done(do_hold(l).d)
  BY DEF Hold
<1>1. LockedAs(l)
  BY <1>0, LockFacts
<1>2. l \in DeviceType /\ (RingIsPrompt => Good(l, NULL))
  BY <1>0, <1>1, FreeFacts
<1> DEFINE d == do_hold(l).d
<1>3. Parked(l, d)
  BY <1>2, HoldFacts
<1>4. Done(d)
  OBVIOUS
<1> HIDE DEF d
<1>5. Calm(l, d) /\ (RingIsPrompt => Good(d, NULL) /\ Kept(l, d))
  BY <1>2, <1>3, ParkedGood DEF Parked
<1> QED
  BY <1>0, <1>1, <1>4, <1>5, DoneStep

(* The invariant is kept: softkey resume.                                  *)
LEMMA ResumeStep == ASSUME DeviceInv, Resume PROVE DeviceInv'
<1>0. SessionThread \in Threads /\ SessionIsFree
  BY DEF Threads, Resume, Handling
<1> PICK l \in Locked(SessionThread) : \E s \in Listed(l) \ {l.active} :
       LET held == HoldActive(l)
       IN  Done(IF held.ok THEN do_resume(held.d, s) ELSE held.d)
  BY DEF Resume
<1> DEFINE h == HoldActive(l).d
           ok == HoldActive(l).ok
<1> PICK s \in Listed(l) \ {l.active} : Done(IF ok THEN do_resume(h, s) ELSE h)
  OBVIOUS
<1>1. LockedAs(l)
  BY <1>0, LockFacts
<1>2. l \in DeviceType /\ (RingIsPrompt => Good(l, NULL))
  BY <1>0, <1>1, FreeFacts
<1>3. s \in Subchans
  BY <1>2, Fields
<1>4. Parked(l, h)
  BY <1>2, HoldActiveFacts
<1>5. Done(do_resume(h, s)) \/ Done(h)
  <2> HIDE DEF h, ok
  <2> QED
    OBVIOUS
<1> HIDE DEF h, ok
<1>6. /\ Calm(l, h) /\ h \in DeviceType /\ s \in Listed(h)
      /\ (RingIsPrompt => Good(h, NULL) /\ Kept(l, h))
  BY <1>2, <1>4, ParkedGood DEF Parked, Calm, Listed
<1>7. CASE Done(h)
  BY <1>0, <1>1, <1>6, <1>7, DoneStep
<1>8. CASE Done(do_resume(h, s))
  <2> DEFINE d == do_resume(h, s)
  <2>1. Calm(h, d) /\ Kept(h, d) /\ \A a : Good(h, a) /\ s \in Listed(h) => Good(d, a)
    BY <1>3, <1>6, ResumeFacts
  <2>2. Done(d)
    BY <1>8
  <2> HIDE DEF d
  <2>3. Calm(l, d) /\ (RingIsPrompt => Good(d, NULL) /\ Kept(l, d))
    BY <1>6, <2>1, CalmTrans, KeptTrans
  <2> QED
    BY <1>0, <1>1, <2>2, <2>3, DoneStep
<1> QED
  BY <1>5, <1>7, <1>8

(* The invariant is kept: softkey transfer, both times it is pressed.      *)
LEMMA TransferStep == ASSUME DeviceInv, Transfer PROVE DeviceInv'
<1>0. SessionThread \in Threads /\ SessionIsFree
  BY DEF Threads, Transfer, Handling
<1> PICK l \in Locked(SessionThread) :
      /\ l.active # NULL /\ l.sub[l.active].chan # NULL
      /\ IF l.sub[l.active].related = NULL THEN TransferStart(l) ELSE TransferEnd(l)
  BY DEF Transfer
<1>1. LockedAs(l)
  BY <1>0, LockFacts
<1>2. l \in DeviceType /\ l.state # "DESTROYED" /\ (RingIsPrompt => Good(l, NULL))
  BY <1>0, <1>1, FreeFacts
<1> DEFINE p == l.active
<1>3. p \in Subchans
  BY <1>2, Fields
<1>4. CASE l.sub[l.active].related = NULL /\ TransferStart(l)
  <2> DEFINE h == do_hold(l).d
             n(s) == sccp_line_new_subchannel(h, s, "outgoing")
             e(s) == [n(s) EXCEPT !.sub[s].related = p, !.sub[p].related = s, !.active = s]
  <2>1. Done(h) \/ \E s \in NewSubchannels(l) : Done(e(s))
    BY <1>4 DEF TransferStart
  <2>2. Parked(l, h)
    BY <1>2, HoldFacts
  <2> HIDE DEF h
  <2>3. /\ Calm(l, h) /\ h \in DeviceType /\ h.state # "DESTROYED" /\ h.sub = l.sub
        /\ Listed(h) = Listed(l)
        /\ (RingIsPrompt => Good(h, NULL) /\ Kept(l, h))
        /\ NewSubchannels(l) = NewSubchannels(h)
    BY <1>2, <2>2, ParkedGood DEF Parked, Calm, Listed, NewSubchannels, Unused
  <2>4. CASE Done(h)
    BY <1>0, <1>1, <2>3, <2>4, DoneStep
  <2>5. ASSUME NEW s \in NewSubchannels(l), Done(e(s)) PROVE DeviceInv'
    <3> DEFINE m == n(s)
    <3>0. s \in NewSubchannels(h)
      BY <2>3
    <3>1. /\ Calm(h, m) /\ s \in Subchans /\ h.sub[s].dir = "none"
          /\ Listed(m) = Listed(h) \cup {s}
          /\ m.sub[s].state = "OFFHOOK" /\ m.sub[s].chan = NULL
          /\ m.sub[s].related = NULL
          /\ \A x \in Subchans \ {s} : m.sub[x] = h.sub[x]
      BY <2>3, <3>0, NewFacts
    <3>2. RingIsPrompt => Good(m, NULL) /\ s \notin Listed(h) /\ h.sub[s].chan = NULL
      BY <2>3, <3>0, NewGood
    <3>3. m \in DeviceType
      BY <3>1 DEF Calm
    <3> DEFINE d == [m EXCEPT !.sub[s].related = p, !.sub[p].related = s, !.active = s]
    <3>4. Done(d)
      BY <2>5
    <3> HIDE DEF m
    <3>5. CASE s # p
      <4>1. Joined(m, d, s, p)
        BY <1>3, <3>1, <3>3, <3>5, RelateFacts
      <4>2. ASSUME RingIsPrompt PROVE Good(d, NULL)
        <5>1. Good(m, NULL) /\ s \in Listed(m) /\ p \in Listed(m)
              /\ m.sub[s].related = NULL /\ m.sub[p].related = NULL
          <6>1. p \in Listed(l)
            BY <1>2, <1>3, <4>2, Fields DEF Good, InList
          <6> QED
            BY <1>3, <1>4, <2>3, <3>1, <3>2, <3>5, <4>2, <6>1
        <5> QED
          BY <3>5, <5>1, RelateGood
      <4> HIDE DEF d
      <4>3. Calm(l, d)
        BY <2>3, <3>1, <4>1, CalmTrans DEF Joined
      <4>4. ASSUME RingIsPrompt PROVE Kept(l, d)
        <5>1. h.sub[s].chan = NULL /\ Kept(l, h)
          BY <2>3, <3>2, <4>4
        <5>2. Kept(h, d)
          BY <3>1, <4>1, <5>1 DEF Joined, Kept
        <5> QED
          BY <5>1, <5>2, KeptTrans
      <4> QED
        BY <1>0, <1>1, <3>4, <4>2, <4>3, <4>4, DoneStep
    <3>6. CASE s = p
      <4>1. ~RingIsPrompt
        BY <2>3, <3>2, <3>6
      <4>2. Calm(m, d)
        BY <1>3, <3>1, <3>3, RelateFacts
      <4> HIDE DEF d
      <4>3. Calm(l, d)
        BY <2>3, <3>1, <4>2, CalmTrans
      <4> QED
        BY <1>0, <1>1, <3>4, <4>1, <4>3, DoneStep
    <3> QED
      BY <3>5, <3>6
  <2> QED
    BY <2>1, <2>4, <2>5
<1>5. CASE TransferEnd(l) /\ l.sub[l.active].related # NULL
  <2> DEFINE r == l.sub[p].related
             k == TransferTask(l.sub[r].chan, l.sub[p].chan)
             d == add_nolock_task(l, k).d
  <2>1. l.sub[r].chan # NULL /\ Done(d)
    BY <1>5 DEF TransferEnd
  <2>2. r \in Subchans
    BY <1>2, <1>3, <1>5, SubFields
  <2>3. k \in NolockTask /\ k.exec # "start_channel"
    <3>1. l.sub[r].chan \in Chans /\ l.sub[p].chan \in Chans
      BY <1>2, <1>3, <2>1, <2>2, SubFields
    <3> HIDE DEF r, p
    <3> QED
      BY <3>1 DEF TransferTask, NolockTask
  <2> HIDE DEF k
  <2>4. Same(l, d)
    BY <1>2, <2>3, AddTaskSame
  <2> HIDE DEF d
  <2> QED
    BY <1>0, <1>1, <2>1, <2>4, SameStep
<1> QED
  BY <1>4, <1>5

(* What was dialled so far does not matter to the calls.                   *)
LEMMA ExtenOK ==
  ASSUME NEW d \in DeviceType, NEW b \in BOOLEAN, NEW a
  PROVE  LET e == [d EXCEPT !.exten = b]
         IN  /\ Calm(d, e) /\ Kept(d, e) /\ e \in DeviceType
             /\ Good(d, a) => Good(e, a)
             /\ \A s : Fresh(d, s) => Fresh(e, s)
<1> DEFINE e == [d EXCEPT !.exten = b]
<1>1. Same(d, e)
  BY ExtenSame
<1> HIDE DEF e
<1>2. Good(d, a) => Good(e, a)
  BY <1>1, SameGood
<1> QED
  BY <1>1, <1>2 DEF Same, Calm, Kept, Fresh, Listed, e

(* The invariant is kept: a digit.                                         *)
LEMMA DigitStep == ASSUME DeviceInv, Digit PROVE DeviceInv'
<1>0. SessionThread \in Threads /\ SessionIsFree
  BY DEF Threads, Digit, Handling
<1> PICK l \in Locked(SessionThread) :
       \/ /\ l.active # NULL /\ l.sub[l.active].state = "OFFHOOK"
          /\ Done(add_dialtimeout_task([l EXCEPT !.exten = TRUE], l.active))
       \/ /\ l.callfwd = "INPUTEXTEN"
          /\ Done(add_fwdtimeout_task([l EXCEPT !.exten = TRUE]))
  BY DEF Digit
<1>1. LockedAs(l)
  BY <1>0, LockFacts
<1>2. /\ l \in DeviceType /\ l.state # "DESTROYED"
      /\ RingIsPrompt => /\ Good(l, NULL)
                         /\ \A s \in Listed(l) : l.sub[s].state = "OFFHOOK" => Fresh(l, s)
  BY <1>0, <1>1, FreeFacts
<1>3. CASE /\ l.active # NULL /\ l.sub[l.active].state = "OFFHOOK"
           /\ Done(add_dialtimeout_task([l EXCEPT !.exten = TRUE], l.active))
  <2> DEFINE s == l.active
             d == add_dialtimeout_task([l EXCEPT !.exten = TRUE], s)
  <2>1. s \in Subchans /\ Done(d)
    BY <1>2, <1>3, Fields
  <2>2. RingIsPrompt => Good(l, NULL) /\ Fresh(l, s)
    BY <1>2, <1>3 DEF Good, InList
  <2> HIDE DEF s
  <2>3. Calm(l, d) /\ Kept(l, d) /\ (Good(l, NULL) /\ Fresh(l, s) => Good(d, NULL))
    BY <1>2, <2>1, AddTimerFacts
  <2> HIDE DEF d
  <2> QED
    BY <1>0, <1>1, <2>1, <2>2, <2>3, DoneStep
<1>4. CASE l.callfwd = "INPUTEXTEN" /\ Done(add_fwdtimeout_task([l EXCEPT !.exten = TRUE]))
  <2> DEFINE d == add_fwdtimeout_task([l EXCEPT !.exten = TRUE])
  <2>1. Same(l, d) /\ Done(d)
    BY <1>2, <1>4, InputSame
  <2> HIDE DEF d
  <2> QED
    BY <1>0, <1>1, <2>1, SameStep
<1> QED
  BY <1>3, <1>4

(* The invariant is kept: the '#' that ends a number.                      *)
LEMMA PoundStep == ASSUME DeviceInv, Pound PROVE DeviceInv'
<1>0. SessionThread \in Threads /\ SessionIsFree
  BY DEF Threads, Pound, Handling
<1> PICK l \in Locked(SessionThread) :
       \/ /\ l.active # NULL /\ l.sub[l.active].state = "OFFHOOK"
          /\ start_the_call(l, l.active)
       \/ Done(set_callforward_from_device_exten(l))
  BY DEF Pound
<1>1. LockedAs(l)
  BY <1>0, LockFacts
<1>2. /\ l \in DeviceType /\ Calm(l, l) /\ Kept(l, l)
      /\ RingIsPrompt => /\ Good(l, NULL)
                         /\ \A s \in Listed(l) : l.sub[s].state = "OFFHOOK" => Fresh(l, s)
  BY <1>0, <1>1, FreeFacts
<1>a. l.state # "DESTROYED"
  BY <1>0, <1>1, FreeFacts
<1>3. CASE /\ l.active # NULL /\ l.sub[l.active].state = "OFFHOOK"
           /\ start_the_call(l, l.active)
  <2> DEFINE s == l.active
  <2>1. s \in Subchans /\ start_the_call(l, s)
    BY <1>2, <1>3, Fields
  <2>2. RingIsPrompt => Good(l, NULL) /\ Kept(l, l) /\ Fresh(l, s)
    BY <1>2, <1>3, <1>a DEF Good, InList
  <2> HIDE DEF s
  <2> QED
    BY <1>0, <1>1, <1>2, <2>1, <2>2, CallStep
<1>4. CASE Done(set_callforward_from_device_exten(l))
  <2> DEFINE d == set_callforward_from_device_exten(l)
  <2>1. Same(l, d) /\ Done(d)
    BY <1>2, <1>4, SetForwardSame
  <2> HIDE DEF d
  <2> QED
    BY <1>0, <1>1, <2>1, SameStep
<1> QED
  BY <1>3, <1>4

(* The invariant is kept: a number dialled at once.                        *)
LEMMA EnblocCallStep == ASSUME DeviceInv, EnblocCall PROVE DeviceInv'
<1>0. SessionThread \in Threads /\ SessionIsFree
  BY DEF Threads, EnblocCall, Handling
<1> PICK l \in Locked(SessionThread) :
       /\ FirstInState(l, "OFFHOOK") # NULL
       /\ start_the_call([l EXCEPT !.exten = TRUE], FirstInState(l, "OFFHOOK"))
  BY DEF EnblocCall
<1>1. LockedAs(l)
  BY <1>0, LockFacts
<1>2. /\ l \in DeviceType
      /\ RingIsPrompt => /\ Good(l, NULL)
                         /\ \A s \in Listed(l) : l.sub[s].state = "OFFHOOK" => Fresh(l, s)
  BY <1>0, <1>1, FreeFacts
<1> DEFINE s == FirstInState(l, "OFFHOOK")
           d == [l EXCEPT !.exten = TRUE]
<1>3. s \in Listed(l) /\ s \in Subchans /\ l.sub[s].state = "OFFHOOK"
  BY <1>2, FirstFacts
<1>4. start_the_call(d, s)
  OBVIOUS
<1>5. Calm(l, d) /\ Kept(l, d) /\ (Good(l, NULL) => Good(d, NULL))
      /\ (Fresh(l, s) => Fresh(d, s))
  BY <1>2, ExtenOK
<1> HIDE DEF s, d
<1>6. RingIsPrompt => Good(d, NULL) /\ Kept(l, d) /\ Fresh(d, s)
  BY <1>2, <1>3, <1>5
<1> QED
  BY <1>0, <1>1, <1>3, <1>4, <1>5, <1>6, CallStep

(* The invariant is kept: a speeddial, redial or voicemail button.         *)
LEMMA SpeedDialStep == ASSUME DeviceInv, SpeedDial PROVE DeviceInv'
<1>0. SessionThread \in Threads /\ SessionIsFree
  BY DEF Threads, SpeedDial, Handling
<1> PICK l \in Locked(SessionThread) :
       \/ Done(set_callforward(l))
       \/ \E new \in do_newcall(l) :
            IF new.subchan = NULL
            THEN Done(new.d)
            ELSE start_the_call([new.d EXCEPT !.exten = TRUE], new.subchan)
  BY DEF SpeedDial
<1>1. LockedAs(l)
  BY <1>0, LockFacts
<1>2. /\ l \in DeviceType /\ l.state # "DESTROYED"
      /\ RingIsPrompt => /\ Good(l, NULL) /\ Sane
                         /\ \A s \in Listed(l) : l.sub[s].state = "OFFHOOK" => Fresh(l, s)
  BY <1>0, <1>1, FreeFacts DEF DeviceInv
<1>3. CASE Done(set_callforward(l))
  <2> DEFINE d == set_callforward(l)
  <2>1. Same(l, d) /\ Done(d)
    BY <1>2, <1>3, SetForwardSame
  <2> HIDE DEF d
  <2> QED
    BY <1>0, <1>1, <2>1, SameStep
<1>4. ASSUME NEW new \in do_newcall(l),
             IF new.subchan = NULL THEN Done(new.d)
             ELSE start_the_call([new.d EXCEPT !.exten = TRUE], new.subchan)
      PROVE  DeviceInv'
  <2> DEFINE n == new.d
             s == new.subchan
             d == [n EXCEPT !.exten = TRUE]
  <2>1. /\ Calm(l, n)
        /\ s # NULL => s \in Subchans
        /\ \A a : Good(l, a) =>
             /\ Good(n, a) /\ Kept(l, n)
             /\ s # NULL => s \in Listed(n) /\ n.sub[s].state = "OFFHOOK"
    BY <1>2, NewcallFacts
  <2>2. n \in DeviceType
    BY <2>1 DEF Calm
  <2>3. CASE s = NULL
    <3>1. Done(n)
      BY <1>4, <2>3
    <3> HIDE DEF n, s
    <3> QED
      BY <1>0, <1>1, <1>2, <2>1, <3>1, DoneStep
  <2>4. CASE s # NULL
    <3>1. start_the_call(d, s) /\ s \in Subchans
      BY <1>4, <2>1, <2>4
    <3> HIDE DEF n, s
    <3>2. Calm(n, d) /\ Kept(n, d) /\ (Good(n, NULL) => Good(d, NULL))
          /\ (Fresh(n, s) => Fresh(d, s))
      BY <2>2, ExtenOK
    <3> HIDE DEF d
    <3>3. ASSUME RingIsPrompt PROVE Good(d, NULL) /\ Kept(l, d) /\ Fresh(d, s)
      <4>1. Good(l, NULL) /\ Good(n, NULL) /\ Kept(l, n) /\ s \in Listed(n)
            /\ n.sub[s].state = "OFFHOOK"
        BY <1>2, <2>1, <2>4, <3>3
      <4>2. Fresh(n, s)
        <5>1. n.sub[s].chan = l.sub[s].chan /\ s \in Subchans
          BY <3>1, <4>1 DEF Kept
        <5>2. l.sub[s].chan # NULL => l.sub[s].state = "OFFHOOK" /\ s \in Listed(l)
          BY <1>2, <4>1, <5>1 DEF Kept, Good, InList
        <5>3. l.sub[s].chan = NULL
          BY <1>2, <3>3, <5>2 DEF Fresh
        <5> QED
          BY <4>1, <5>1, <5>3 DEF Fresh
      <4> QED
        BY <3>2, <4>1, <4>2, KeptTrans
    <3>4. Calm(l, d)
      BY <2>1, <3>2, CalmTrans
    <3> QED
      BY <1>0, <1>1, <3>1, <3>3, <3>4, CallStep
  <2> QED
    BY <2>3, <2>4
<1> QED
  BY <1>3, <1>4

(* The invariant is kept: the acknowledgement of the receive channel.      *)
LEMMA OpenReceiveChannelAckStep == ASSUME DeviceInv, OpenReceiveChannelAck PROVE DeviceInv'
<1>0. SessionThread \in Threads /\ SessionIsFree
  BY DEF Threads, OpenReceiveChannelAck, Handling
<1> DEFINE Answered(l) == [l EXCEPT !.acks = @ - 1,
                                    !.recv = IF @ = "OPENING" THEN "OPENED" ELSE @]
<1> PICK l \in Locked(SessionThread), rtp \in BOOLEAN :
      Done(IF Answered(l).active = NULL THEN Answered(l) ELSE AckForActive(Answered(l), rtp))
  BY DEF OpenReceiveChannelAck
<1>1. LockedAs(l)
  BY <1>0, LockFacts
<1>2. l \in DeviceType /\ l.state # "DESTROYED" /\ (RingIsPrompt => Good(l, NULL))
  BY <1>0, <1>1, FreeFacts
<1>a. l.acks > 0
  <2>1. l.acks = device.acks /\ device.acks > 0
    <3>1. device \in DeviceType
      BY DEF DeviceInv, TypeOK
    <3> QED
      BY <3>1 DEF Locked, OpenReceiveChannelAck, DeviceType
  <2> QED
    BY <2>1
<1> DEFINE k == l.acks - 1
           v == IF l.recv = "OPENING" THEN "OPENED" ELSE l.recv
           d == [l EXCEPT !.acks = k, !.recv = v]
<1>3. k \in Nat /\ v \in {"CLOSED", "OPENING", "OPENED"}
  BY <1>2, <1>a DEF DeviceType
<1>4. Answered(l) = d
  BY <1>2 DEF DeviceType
<1>5. Done(IF d.active = NULL THEN d ELSE AckForActive(d, rtp))
  <2> HIDE DEF d
  <2> QED
    BY <1>4
<1> HIDE DEF k, v
<1>6. Same(l, d) /\ d \in DeviceType
  <2>1. d \in DeviceType
    BY <1>2, <1>3 DEF DeviceType
  <2>2. Same(l, d)
    BY <1>2, <2>1 DEF Same, Calm, Sound, FwdOK, Listed, DeviceType
  <2> QED
    BY <2>1, <2>2
<1> HIDE DEF d
<1>7. CASE d.active = NULL
  <2>1. Done(d)
    BY <1>5, <1>7
  <2> QED
    BY <1>0, <1>1, <1>6, <2>1, SameStep
<1>8. CASE d.active # NULL
  <2> DEFINE e == AckForActive(d, rtp)
  <2>1. Done(e)
    BY <1>5, <1>8
  <2>2. /\ Calm(d, e) /\ Kept(d, e)
        /\ \A a : Good(d, a) /\ d.state # "DESTROYED" => Good(e, a)
    BY <1>6, <1>8, AckFacts
  <2> HIDE DEF e
  <2>3. Calm(l, d) /\ Kept(l, d) /\ d.state # "DESTROYED" /\ (RingIsPrompt => Good(d, NULL))
    BY <1>2, <1>6, SameKept, SameGood DEF Same, Calm
  <2>4. Calm(l, e) /\ Kept(l, e)
    BY <2>2, <2>3, CalmTrans, KeptTrans
  <2> QED
    BY <1>0, <1>1, <2>1, <2>2, <2>3, <2>4, DoneStep
<1> QED
  BY <1>7, <1>8

(* The invariant is kept: softkey cfwdall.                                 *)
LEMMA CfwdAllStep == ASSUME DeviceInv, CfwdAll PROVE DeviceInv'
<1>0. SessionThread \in Threads /\ SessionIsFree
  BY DEF Threads, CfwdAll, Handling
<1> DEFINE After(l) ==
      CASE l.callfwd = "INACTIVE"   -> [l EXCEPT !.callfwd = "INPUTEXTEN"]
        [] l.callfwd = "INPUTEXTEN" -> IF l.exten THEN set_callforward_from_device_exten(l)
                                                  ELSE cancel_callforward_input(l)
        [] l.callfwd = "ACTIVE"     -> clear_callforward(l)
<1> PICK l \in Locked(SessionThread) : Done(After(l))
  BY DEF CfwdAll
<1>1. LockedAs(l)
  BY <1>0, LockFacts
<1>2. l \in DeviceType /\ l.callfwd \in {"INACTIVE", "INPUTEXTEN", "ACTIVE"}
  BY <1>1 DEF LockedAs, DeviceType
<1> DEFINE d == After(l)
<1>3. Same(l, d)
  <2>1. CASE l.callfwd = "INACTIVE"
    <3>1. d = [l EXCEPT !.callfwd = "INPUTEXTEN"]
      BY <2>1
    <3> QED
      BY <1>2, <2>1, <3>1, InputSame
  <2>2. CASE l.callfwd = "INPUTEXTEN"
    <3>1. d = set_callforward_from_device_exten(l) \/ d = cancel_callforward_input(l)
      BY <2>2
    <3> HIDE DEF d
    <3> QED
      BY <1>2, <3>1, SetForwardSame
  <2>3. CASE l.callfwd = "ACTIVE"
    <3>1. d = clear_callforward(l)
      BY <2>3
    <3> HIDE DEF d
    <3> QED
      BY <1>2, <2>3, <3>1, InputSame
  <2> QED
    BY <1>2, <2>1, <2>2, <2>3
<1>4. Done(d)
  OBVIOUS
<1> HIDE DEF d
<1> QED
  BY <1>0, <1>1, <1>3, <1>4, SameStep

(* The invariant is kept: softkey backspace.                               *)
LEMMA BackspaceStep == ASSUME DeviceInv, Backspace PROVE DeviceInv'
<1>0. SessionThread \in Threads /\ SessionIsFree
  BY DEF Threads, Backspace, Handling
<1> PICK l \in Locked(SessionThread) : Done(cancel_callforward_input(l))
  BY DEF Backspace
<1>1. LockedAs(l)
  BY <1>0, LockFacts
<1> DEFINE d == cancel_callforward_input(l)
<1>2. Same(l, d)
  BY <1>1, SetForwardSame DEF LockedAs
<1>3. Done(d)
  OBVIOUS
<1> HIDE DEF d
<1> QED
  BY <1>0, <1>1, <1>2, <1>3, SameStep

(* The invariant is kept: the timer of the input.                          *)
LEMMA FwdTimeoutStep == ASSUME DeviceInv, FwdTimeout PROVE DeviceInv'
<1>0. SessionThread \in Threads /\ SessionIsFree
  BY DEF Threads, FwdTimeout
<1> PICK l \in Locked(SessionThread) :
      Done(set_callforward_from_device_exten([l EXCEPT !.fwdtimer = FALSE]))
  BY DEF FwdTimeout
<1>1. LockedAs(l)
  BY <1>0, LockFacts
<1> DEFINE d == set_callforward_from_device_exten([l EXCEPT !.fwdtimer = FALSE])
<1>2. Same(l, d)
  BY <1>1, SetForwardSame DEF LockedAs
<1>3. Done(d)
  OBVIOUS
<1> HIDE DEF d
<1> QED
  BY <1>0, <1>1, <1>2, <1>3, SameStep

(* The invariant is kept: the connection is lost.                          *)
LEMMA ConnectionLostStep == ASSUME DeviceInv, ConnectionLost PROVE DeviceInv'
<1>0. SessionThread \in Threads /\ SessionIsFree
  BY DEF Threads, ConnectionLost
<1> PICK l \in Locked(SessionThread) : Done([l EXCEPT !.state = "CONNLOST"])
  BY DEF ConnectionLost
<1>1. LockedAs(l)
  BY <1>0, LockFacts
<1>2. l \in DeviceType /\ l.state # "DESTROYED"
  BY <1>0, <1>1, FreeFacts
<1> DEFINE d == [l EXCEPT !.state = "CONNLOST"]
<1>3. Same(l, d)
  BY <1>2 DEF Same, Calm, Sound, FwdOK, Listed, DeviceType
<1>4. Done(d)
  OBVIOUS
<1> HIDE DEF d
<1> QED
  BY <1>0, <1>1, <1>3, <1>4, SameStep

(* The invariant is kept: a dial timer: its subchannel is about to be      *)
(* dialled still.                                                          *)
LEMMA DialTimeoutStep == ASSUME DeviceInv, NEW s \in Subchans, DialTimeout(s) PROVE DeviceInv'
<1>0. SessionThread \in Threads /\ SessionIsFree
  BY DEF Threads, DialTimeout
<1> PICK l \in Locked(SessionThread) : start_the_call([l EXCEPT !.dialtimers = @ \ {s}], s)
  BY DEF DialTimeout
<1>1. LockedAs(l)
  BY <1>0, LockFacts
<1>2. l \in DeviceType /\ l.state # "DESTROYED" /\ (RingIsPrompt => Good(l, NULL))
  BY <1>0, <1>1, FreeFacts
<1>3. s \in l.dialtimers
  BY <1>1 DEF LockedAs, DialTimeout
<1> DEFINE D == l.dialtimers \ {s}
           d == [l EXCEPT !.dialtimers = D]
<1>4. start_the_call(d, s)
  OBVIOUS
<1>5. D \in SUBSET Subchans
  BY <1>2, Fields
<1> HIDE DEF D
<1>6. /\ Calm(l, d) /\ d.dialtimers = D
      /\ d.subchans = l.subchans /\ d.sub = l.sub /\ d.active = l.active
  BY <1>2, <1>5 DEF Calm, Sound, FwdOK, Listed, DeviceType
<1> HIDE DEF d
<1>7. ASSUME RingIsPrompt PROVE Good(d, NULL) /\ Kept(l, d) /\ Fresh(d, s)
  <2>1. Good(l, NULL) /\ D \subseteq l.dialtimers
    BY <1>2, <1>7 DEF D
  <2>2. \A x : Fresh(l, x) => Fresh(d, x)
    BY <1>6 DEF Fresh, Listed
  <2>3. Good(d, NULL)
    BY <1>2, <1>6, <2>1, <2>2 DEF Calm, Good, Counted, Held, InList, Paired, Listed
  <2>4. Fresh(d, s)
    BY <1>2, <1>3, <2>1, <2>2 DEF Good
  <2> QED
    BY <1>6, <2>3, <2>4 DEF Kept
<1> QED
  BY <1>0, <1>1, <1>4, <1>6, <1>7, CallStep

(* The invariant is kept: no channel could be allocated.                   *)
LEMMA CallFailsStep == ASSUME DeviceInv, CallFails PROVE DeviceInv'
<1>1. /\ device' = device /\ chan' = chan /\ todo' = todo /\ ooms' = ooms
      /\ sthread' = [pc |-> "idle", subchan |-> NULL] /\ sthread.pc = "alloc"
  BY DEF CallFails, Idle
<1>2. TypeOK'
  BY <1>1 DEF DeviceInv, TypeOK
<1>3. /\ Quiet' /\ Sound(device') /\ FwdTimerInInput'
      /\ Staged' /\ Starting' /\ Allocating' /\ Ended'
  BY <1>1 DEF DeviceInv, Quiet, Sound, FwdTimerInInput, Staged, Starting, Allocating, Ended
<1>4. ASSUME RingIsPrompt PROVE Sane'
  <2>1. Sane
    BY <1>4 DEF DeviceInv
  <2>2. Good(device, NULL)
    BY <2>1, FreeGood DEF Sane
  <2> QED
    BY <1>1, <2>1, <2>2 DEF Sane, Ringing, LinksAgree
<1> QED
  BY <1>2, <1>3, <1>4 DEF DeviceInv

(* The invariant is kept: the subchannel cannot have the channel, and is   *)
(* cleared: it is in the list still.                                       *)
LEMMA CallIsRefusedStep == ASSUME DeviceInv, CallIsRefused PROVE DeviceInv'
<1>0. SessionThread \in Threads
  BY DEF Threads
<1> PICK s : s = sthread.subchan
  OBVIOUS
<1> PICK l \in Locked(SessionThread) : Unlock(SessionThread, do_clear_subchannel(l, s))
  BY DEF CallIsRefused
<1>1. /\ chan' = chan /\ sthread' = [pc |-> "idle", subchan |-> NULL]
      /\ sthread.pc = "alloc" /\ todo[SessionThread] = << >>
  BY DEF CallIsRefused, Idle
<1>2. LockedAs(l)
  BY <1>0, LockFacts
<1>3. l \in DeviceType /\ s \in Subchans /\ s # NULL /\ NULL \notin Subchans
  BY <1>1, <1>2, DeviceOpsAssumption DEF LockedAs, DeviceInv, TypeOK, Allocating
<1> DEFINE d == do_clear_subchannel(l, s)
<1>4. ClearedFrom(l, d, s, l.sub[s].refs - 1)
  BY <1>3, ClearFacts
<1>5. Unlock(SessionThread, d)
  OBVIOUS
<1> HIDE DEF d
<1>6. Calm(l, d)
  BY <1>4 DEF ClearedFrom
<1>7. Fit(l, d) /\ Plain(d.tasks)
  BY <1>2, <1>6, CalmFit
<1>8. /\ device' \in DeviceType /\ Quiet' /\ Sound(device') /\ FwdTimerInInput'
      /\ device'.sub = d.sub /\ device'.state = d.state
      /\ \A a : Good(d, a) => Good(device', a)
      /\ todo' \in [Threads -> Seq(NolockTask)] /\ ooms' \in 0 .. MaxOoms
      /\ \A x \in Threads \ {SessionThread} : todo'[x] = todo[x]
      /\ todo'[SessionThread] = d.tasks
  BY <1>0, <1>1, <1>2, <1>5, <1>7, UnlockFacts
<1>9. TypeOK'
  <2>1. sthread' \in [pc : {"idle", "alloc", "done"}, subchan : Subchans \cup {NULL}]
    BY <1>1
  <2> QED
    BY <1>1, <1>8, <2>1 DEF DeviceInv, TypeOK
<1>10. Starting'
  <2>1. Plain(todo'[SessionThread])
    BY <1>7, <1>8
  <2>2. Starting /\ todo \in [Threads -> Seq(NolockTask)]
    BY DEF DeviceInv, TypeOK
  <2>3. \A c \in Chans : chan[c].stage = "placed" => chan'[c].stage = "placed"
    BY <1>1
  <2> QED
    BY <1>0, <1>8, <2>1, <2>2, <2>3, StartingKept
<1>11. Staged' /\ Allocating' /\ Ended'
  BY <1>1, <1>2, <1>6, <1>8 DEF DeviceInv, Staged, Allocating, Ended, LockedAs, Calm
<1>12. ASSUME RingIsPrompt PROVE Sane'
  <2>1. Sane /\ Good(l, s)
    BY <1>2, <1>12 DEF DeviceInv, LockedAs
  <2>2. s \in Listed(l) /\ l.sub[s].chan = NULL /\ s \notin l.dialtimers /\ l.state # "DESTROYED"
    BY <1>3, <2>1 DEF Good, Fresh
  <2>3. Good(l, NULL)
    BY <2>1, FreeGood
  <2>4. l.sub[s].refs - 1 = 0
    BY <1>3, <2>1, <2>2 DEF Good, Counted
  <2>5. ClearedFrom(l, d, s, 0)
    BY <1>4, <2>4
  <2>6. Good(d, NULL)
    BY <1>3, <2>2, <2>3, <2>5, ClearGood
  <2>7. Kept(device, device')
    BY <1>2, <1>8, <2>2, <2>5 DEF ClearedFrom, Kept, LockedAs
  <2>8. Good(device', sthread'.subchan)
    BY <1>1, <1>8, <2>6
  <2>9. Ringing' /\ LinksAgree'
    BY <1>1, <2>1, <2>7 DEF Sane, Ringing, LinksAgree, Kept
  <2> QED
    BY <2>8, <2>9 DEF Sane
<1> QED
  BY <1>8, <1>9, <1>10, <1>11, <1>12 DEF DeviceInv

(* The invariant is kept: the session ends.                                *)
LEMMA DestroyStep == ASSUME DeviceInv, sccp_device_destroy PROVE DeviceInv'
<1>0. SessionThread \in Threads
  BY DEF Threads
<1> PICK l \in Locked(SessionThread) :
      Unlock(SessionThread, [sccp_line_destroy(l) EXCEPT !.state = "DESTROYED"])
  BY DEF sccp_device_destroy
<1>1. /\ chan' = chan /\ sthread' = [pc |-> "done", subchan |-> NULL]
      /\ sthread.pc = "idle" /\ todo[SessionThread] = << >>
  BY DEF sccp_device_destroy
<1>2. LockedAs(l)
  BY <1>0, LockFacts
<1>3. l \in DeviceType /\ FwdOK(l) /\ Plain(l.tasks)
  BY <1>2 DEF LockedAs, Plain
<1> DEFINE d == [sccp_line_destroy(l) EXCEPT !.state = "DESTROYED"]
<1>4. /\ d \in DeviceType /\ Sound(d) /\ FwdOK(d) /\ Plain(d.tasks)
      /\ d.state = "DESTROYED" /\ Kept(l, d) /\ d.oom = l.oom
      /\ Good(l, NULL) => Good(d, NULL)
  BY <1>3, DestroyFacts
<1>5. Unlock(SessionThread, d)
  OBVIOUS
<1> HIDE DEF d
<1>7. Fit(l, d)
  BY <1>4 DEF Fit
<1>8. /\ device' \in DeviceType /\ Quiet' /\ Sound(device') /\ FwdTimerInInput'
      /\ device'.sub = d.sub /\ device'.state = d.state
      /\ \A a : Good(d, a) => Good(device', a)
      /\ todo' \in [Threads -> Seq(NolockTask)] /\ ooms' \in 0 .. MaxOoms
      /\ \A x \in Threads \ {SessionThread} : todo'[x] = todo[x]
      /\ todo'[SessionThread] = d.tasks
  BY <1>0, <1>1, <1>2, <1>5, <1>7, UnlockFacts
<1>9. TypeOK'
  <2>1. sthread' \in [pc : {"idle", "alloc", "done"}, subchan : Subchans \cup {NULL}]
    BY <1>1
  <2> QED
    BY <1>1, <1>8, <2>1 DEF DeviceInv, TypeOK
<1>10. Starting'
  <2>1. Plain(todo'[SessionThread])
    BY <1>4, <1>8
  <2>2. Starting /\ todo \in [Threads -> Seq(NolockTask)]
    BY DEF DeviceInv, TypeOK
  <2>3. \A c \in Chans : chan[c].stage = "placed" => chan'[c].stage = "placed"
    BY <1>1
  <2> QED
    BY <1>0, <1>8, <2>1, <2>2, <2>3, StartingKept
<1>11. Staged' /\ Allocating' /\ Ended'
  BY <1>1 DEF DeviceInv, Staged, Allocating, Ended
<1>12. ASSUME RingIsPrompt PROVE Sane'
  <2>1. Sane /\ Good(l, NULL)
    BY <1>1, <1>2, <1>12 DEF DeviceInv, LockedAs, Allocating
  <2>2. Good(device', sthread'.subchan)
    BY <1>1, <1>4, <1>8, <2>1
  <2>3. Kept(device, device')
    BY <1>2, <1>4, <1>8 DEF Kept, LockedAs
  <2>4. Ringing' /\ LinksAgree'
    BY <1>1, <2>1, <2>3 DEF Sane, Ringing, LinksAgree, Kept
  <2> QED
    BY <2>2, <2>4 DEF Sane
<1> QED
  BY <1>8, <1>9, <1>10, <1>11, <1>12 DEF DeviceInv

(* The invariant is kept: the subchannel is given its channel, which is to *)
(* be started next.                                                        *)
LEMMA CallStartsStep == ASSUME DeviceInv, NEW c \in Chans, CallStarts(c) PROVE DeviceInv'
<1>0. SessionThread \in Threads
  BY DEF Threads
<1> PICK s : s = sthread.subchan
  OBVIOUS
<1> PICK l \in Locked(SessionThread) :
      Unlock(SessionThread, add_nolock_task(Placed(l, s, c), StartTask(c)).d)
  BY DEF CallStarts, Placed
<1>1. /\ chan' = [chan EXCEPT ![c].stage = "placed", ![c].pvt = s]
      /\ sthread' = [pc |-> "idle", subchan |-> NULL]
      /\ sthread.pc = "alloc" /\ todo[SessionThread] = << >>
      /\ chan[c].stage = "free" /\ device.sub[s].chan = NULL
  BY DEF CallStarts, Idle
<1>2. LockedAs(l)
  BY <1>0, LockFacts
<1>3. l \in DeviceType /\ s \in Subchans /\ s # NULL /\ NULL \notin Subchans /\ NULL \notin Chans
      /\ FwdOK(l) /\ Sound(l)
  BY <1>1, <1>2, DeviceOpsAssumption DEF LockedAs, DeviceInv, TypeOK, Allocating
<1> DEFINE e == Placed(l, s, c)
<1>4. Takes(l, e, s, c) /\ e.sub[s].state = "RINGOUT" /\ e.tasks = l.tasks
  BY <1>3, PlaceFacts
<1>5. Unlock(SessionThread, add_nolock_task(e, StartTask(c)).d)
  OBVIOUS
<1> HIDE DEF e
<1>6. e \in DeviceType /\ e.tasks = << >> /\ FwdOK(e) /\ Sound(e) /\ e.oom = l.oom
      /\ (e.state = "DESTROYED" <=> l.state = "DESTROYED")
  BY <1>2, <1>3, <1>4 DEF Takes, Calm, LockedAs
<1> DEFINE k == StartTask(c)
           d == add_nolock_task(e, k).d
<1>7. k \in NolockTask /\ k.chan = c /\ k.exec = "start_channel"
  BY DEF StartTask, NolockTask
<1>8. /\ Fit(l, d) /\ d.sub = e.sub /\ (d.state = "DESTROYED" <=> e.state = "DESTROYED")
      /\ d.tasks = << >> \/ d.tasks = <<k>>
      /\ \A a : Good(e, a) => Good(d, a)
  <2>1. CASE e.oom = "task"
    <3>1. d = sccp_device_panic(e)
      BY <2>1 DEF add_nolock_task, Result
    <3>2. Same(e, d)
      BY <1>6, <3>1, PanicSame
    <3>3. d.tasks = << >>
      BY <1>6, <3>1 DEF sccp_device_panic, DeviceType
    <3> HIDE DEF d
    <3>4. \A a : Good(e, a) => Good(d, a)
      BY <3>2, SameGood
    <3> QED
      BY <1>6, <3>2, <3>3, <3>4 DEF Same, Calm, Fit
  <2>2. CASE e.oom # "task"
    <3> HIDE DEF k
    <3> DEFINE q == <<k>>
    <3>1. d = [e EXCEPT !.tasks = q]
      <4>1. Append(e.tasks, k) = q
        BY <1>6
      <4> HIDE DEF q
      <4> QED
        BY <2>2, <4>1 DEF add_nolock_task, Result
    <3>2. q \in Seq(NolockTask)
      BY <1>7
    <3> HIDE DEF q, d
    <3>3. /\ d \in DeviceType /\ d.tasks = q /\ d.subchans = e.subchans /\ d.sub = e.sub
          /\ d.active = e.active /\ d.dialtimers = e.dialtimers /\ d.state = e.state
          /\ d.oom = e.oom /\ d.callfwd = e.callfwd /\ d.fwdtimer = e.fwdtimer
      BY <1>6, <3>1, <3>2 DEF DeviceType
    <3>4. Sound(d) /\ FwdOK(d)
      BY <1>6, <3>3 DEF Sound, Listed, FwdOK
    <3>5. \A a : Good(e, a) => Good(d, a)
      BY <3>3, <3>4 DEF Good, Counted, Held, InList, Fresh, Paired, Listed
    <3> QED
      BY <1>6, <3>3, <3>4, <3>5 DEF Fit, q
  <2> QED
    BY <2>1, <2>2
<1>9. Unlock(SessionThread, d)
  BY <1>5
<1> HIDE DEF d, k
<1>10. /\ device' \in DeviceType /\ Quiet' /\ Sound(device') /\ FwdTimerInInput'
       /\ device'.sub = d.sub /\ device'.state = d.state
       /\ \A a : Good(d, a) => Good(device', a)
       /\ todo' \in [Threads -> Seq(NolockTask)] /\ ooms' \in 0 .. MaxOoms
       /\ \A x \in Threads \ {SessionThread} : todo'[x] = todo[x]
       /\ todo'[SessionThread] = d.tasks
  BY <1>0, <1>1, <1>2, <1>8, <1>9, UnlockFacts
<1>11. /\ chan' \in [Chans -> [stage : Stage, pvt : Subchans \cup {NULL}, hangup : BOOLEAN]]
       /\ chan'[c].stage = "placed" /\ chan'[c].pvt = s
       /\ \A x \in Chans \ {c} : chan'[x] = chan[x]
       /\ chan \in [Chans -> [stage : Stage, pvt : Subchans \cup {NULL}, hangup : BOOLEAN]]
  <2>1. chan \in [Chans -> [stage : Stage, pvt : Subchans \cup {NULL}, hangup : BOOLEAN]]
    BY DEF DeviceInv, TypeOK
  <2>2. "placed" \in Stage
    BY DEF Stage
  <2> QED
    BY <1>1, <1>3, <2>1, <2>2
<1>12. TypeOK'
  <2>1. sthread' \in [pc : {"idle", "alloc", "done"}, subchan : Subchans \cup {NULL}]
    BY <1>1
  <2> QED
    BY <1>10, <1>11, <2>1 DEF DeviceInv, TypeOK
<1>13. Starting'
  <2> SUFFICES ASSUME NEW x \in Threads, NEW i \in DOMAIN todo'[x],
                      todo'[x][i].exec = "start_channel"
               PROVE  /\ x = SessionThread /\ Len(todo'[x]) = 1
                      /\ chan'[todo'[x][i].chan].stage = "placed"
    BY DEF Starting
  <2>1. CASE x = SessionThread
    <3>1. todo'[x] = << >> \/ todo'[x] = <<k>>
      BY <1>8, <1>10, <2>1
    <3>2. todo'[x] = <<k>>
      BY <3>1
    <3>3. i = 1 /\ todo'[x][i] = k /\ Len(todo'[x]) = 1
      BY <3>2
    <3> QED
      BY <1>7, <1>11, <2>1, <3>3
  <2>2. CASE x # SessionThread
    <3>1. todo'[x] = todo[x]
      BY <1>10, <2>2
    <3> QED
      BY <2>2, <3>1 DEF DeviceInv, Starting
  <2> QED
    BY <2>1, <2>2
<1>14. Staged' /\ Allocating' /\ Ended'
  <2>1. Staged'
    BY <1>3, <1>11 DEF DeviceInv, Staged
  <2>2. Allocating'
    BY <1>1 DEF Allocating
  <2>3. Ended'
    BY <1>1, <1>2, <1>6, <1>8, <1>10 DEF DeviceInv, Ended, LockedAs
  <2> QED
    BY <2>1, <2>2, <2>3
<1>15. ASSUME RingIsPrompt PROVE Sane'
  <2>1. Sane /\ Good(l, s)
    BY <1>2, <1>15 DEF DeviceInv, LockedAs
  <2>2. s \in Listed(l) /\ l.sub[s].chan = NULL /\ s \notin l.dialtimers
    BY <1>3, <2>1 DEF Good, Fresh
  <2>3. Good(l, NULL)
    BY <2>1, FreeGood
  <2>4. Good(e, NULL)
    BY <1>3, <1>4, <2>2, <2>3, TakeGood
  <2>5. Good(device', sthread'.subchan)
    BY <1>1, <1>8, <1>10, <2>4
  <2>6. /\ device'.sub[s].chan = c /\ device'.sub[s].state = "RINGOUT"
        /\ \A x \in Subchans \ {s} : device'.sub[x] = device.sub[x]
    BY <1>2, <1>4, <1>8, <1>10 DEF Takes, LockedAs
  <2>7. chan[c].pvt = NULL
    BY <1>1 DEF DeviceInv, Staged
  <2>8. \A x \in Subchans : device.sub[x].chan \in Chans \cup {NULL} /\ device.sub[x].chan # c
    <3>1. \A x \in Subchans : device.sub[x].chan \in Chans \cup {NULL}
      BY SubFields DEF DeviceInv, TypeOK
    <3> QED
      BY <1>3, <2>1, <2>7, <3>1 DEF Sane, LinksAgree
  <2>9. Ringing'
    BY <1>11, <2>1, <2>6, <2>8 DEF Sane, Ringing
  <2>10. LinksAgree'
    <3> SUFFICES ASSUME NEW x \in Subchans, NEW y \in Chans
                 PROVE  chan'[y].pvt = x <=> device'.sub[x].chan = y
      BY DEF LinksAgree
    <3>1. CASE y = c
      BY <1>11, <2>6, <2>8, <3>1
    <3>2. CASE y # c
      <4>1. chan'[y].pvt = x <=> device.sub[x].chan = y
        BY <1>11, <2>1, <3>2 DEF Sane, LinksAgree
      <4>2. device.sub[x].chan = y <=> device'.sub[x].chan = y
        BY <1>1, <1>3, <2>6, <3>2
      <4> QED
        BY <4>1, <4>2
    <3> QED
      BY <3>1, <3>2
  <2> QED
    BY <2>5, <2>9, <2>10 DEF Sane
<1> QED
  BY <1>10, <1>12, <1>13, <1>14, <1>15 DEF DeviceInv

-----------------------------------------------------------------------------
(* Ringing and LinksAgree, of the subchannels sub and the channels ch.     *)
Linked(sub, ch) ==
  \A s \in Subchans :
    /\ sub[s].state = "OFFHOOK" /\ sub[s].chan # NULL =>
         ch[sub[s].chan].stage \in {"requested", "called"}
    /\ \A c \in Chans : ch[c].pvt = s <=> sub[s].chan = c

(* What a thread that locks the device may rely on, while a call is being  *)
(* placed or not.                                                          *)
LEMMA LinkedFacts ==
  ASSUME DeviceInv, RingIsPrompt, NEW l, LockedAs(l)
  PROVE  /\ Linked(l.sub, chan) /\ Good(l, sthread.subchan)
         /\ \A s \in Subchans : l.sub[s].chan \in Chans \cup {NULL}
<1>1. Sane /\ Good(l, sthread.subchan) /\ l.sub = device.sub /\ l \in DeviceType
  BY DEF DeviceInv, LockedAs
<1> QED
  BY <1>1, SubFields DEF Sane, Ringing, LinksAgree, Linked

(* A step of the thread of a channel keeps the invariant if what it does   *)
(* to the device keeps the calls in order, and those links with what it    *)
(* does to its channel.                                                    *)
LEMMA ChannelStep ==
  ASSUME DeviceInv, NEW c \in Chans, NEW l, LockedAs(l), NEW d, Calm(l, d), Unlock(c, d),
         UNCHANGED sthread,
         chan' \in [Chans -> [stage : Stage, pvt : Subchans \cup {NULL}, hangup : BOOLEAN]],
         Staged',
         \A x \in Chans : chan[x].stage = "placed" => chan'[x].stage = "placed",
         RingIsPrompt => Good(d, sthread.subchan) /\ Linked(d.sub, chan')
  PROVE  DeviceInv'
<1>1. Fit(l, d) /\ Plain(d.tasks)
  BY CalmFit
<1>2. c \in Threads /\ c # SessionThread
  BY DeviceOpsAssumption DEF Threads
<1>3. /\ device' \in DeviceType /\ Quiet' /\ Sound(device') /\ FwdTimerInInput'
      /\ device'.sub = d.sub /\ device'.state = d.state
      /\ \A a : Good(d, a) => Good(device', a)
      /\ todo' \in [Threads -> Seq(NolockTask)] /\ ooms' \in 0 .. MaxOoms
      /\ \A x \in Threads \ {c} : todo'[x] = todo[x]
      /\ Plain(todo[c]) /\ Plain(d.tasks) => Plain(todo'[c])
  BY <1>1, <1>2, UnlockFacts
<1>4. TypeOK'
  BY <1>3 DEF DeviceInv, TypeOK
<1>5. Starting'
  <2>1. Plain(todo[c])
    BY <1>2 DEF DeviceInv, Starting, Plain
  <2>2. Plain(todo'[c])
    BY <1>1, <1>3, <2>1
  <2>3. Starting /\ todo \in [Threads -> Seq(NolockTask)]
    BY DEF DeviceInv, TypeOK
  <2> QED
    BY <1>2, <1>3, <2>2, <2>3, StartingKept
<1>6. Allocating' /\ Ended'
  BY <1>3 DEF DeviceInv, Allocating, Ended, LockedAs, Calm
<1>7. ASSUME RingIsPrompt PROVE Sane'
  <2>1. Good(device', sthread'.subchan)
    BY <1>3, <1>7
  <2>2. Ringing' /\ LinksAgree'
    BY <1>3, <1>7 DEF Linked, Ringing, LinksAgree
  <2> QED
    BY <2>1, <2>2 DEF Sane
<1> QED
  BY <1>3, <1>4, <1>5, <1>6, <1>7 DEF DeviceInv

(* The invariant is kept: a channel for an incoming call, taken by a new   *)
(* subchannel or refused by it.                                            *)
LEMMA RequestStep == ASSUME DeviceInv, NEW c \in Chans, Request(c) PROVE DeviceInv'
<1>0. c \in Threads
  BY DEF Threads
<1> PICK l \in Locked(c) : \E s \in NewSubchannels(l) :
      LET new == sccp_line_new_subchannel(l, s, "incoming")
      IN  \/ /\ Unlock(c, do_clear_subchannel(new, s))
             /\ UNCHANGED chan
          \/ \E auto \in BOOLEAN :
               /\ Unlock(c, [sccp_subchannel_set_channel(new, s, c) EXCEPT
                               !.sub[s].autoanswer = auto])
               /\ chan' = [chan EXCEPT ![c].stage = "requested", ![c].pvt = s]
  BY DEF Request
<1> PICK s \in NewSubchannels(l) :
      LET new == sccp_line_new_subchannel(l, s, "incoming")
      IN  \/ /\ Unlock(c, do_clear_subchannel(new, s))
             /\ UNCHANGED chan
          \/ \E auto \in BOOLEAN :
               /\ Unlock(c, [sccp_subchannel_set_channel(new, s, c) EXCEPT
                               !.sub[s].autoanswer = auto])
               /\ chan' = [chan EXCEPT ![c].stage = "requested", ![c].pvt = s]
  OBVIOUS
<1>1. chan[c].stage = "free" /\ device.state # "DESTROYED" /\ sthread' = sthread
  BY DEF Request
<1>2. LockedAs(l)
  BY <1>0, LockFacts
<1>3. l \in DeviceType /\ l.state # "DESTROYED" /\ l.sub = device.sub
  BY <1>1, <1>2 DEF LockedAs
<1> DEFINE new == sccp_line_new_subchannel(l, s, "incoming")
<1>4. /\ Calm(l, new) /\ s \in Subchans
      /\ Listed(new) = Listed(l) \cup {s} /\ new.dialtimers = l.dialtimers
      /\ new.sub[s].refs = 1 /\ new.sub[s].chan = NULL
      /\ \A x \in Subchans \ {s} : new.sub[x] = l.sub[x]
  BY <1>3, NewFacts
<1>5. ASSUME RingIsPrompt
      PROVE  /\ Good(new, sthread.subchan) /\ s # sthread.subchan
             /\ s \in Listed(new) /\ s \notin new.dialtimers /\ new.state # "DESTROYED"
             /\ l.sub[s].chan = NULL
  <2>1. Good(l, sthread.subchan)
    BY <1>2, <1>5 DEF LockedAs
  <2>2. Good(new, sthread.subchan) /\ s \notin Listed(l) /\ l.sub[s].chan = NULL
        /\ s # sthread.subchan
    BY <1>3, <2>1, NewGood
  <2>3. s \notin l.dialtimers
    BY <1>3, <2>1, <2>2 DEF Good, Fresh
  <2> QED
    BY <1>3, <1>4, <2>2, <2>3 DEF Calm
<1>6. new \in DeviceType
  BY <1>4 DEF Calm
<1>7. chan \in [Chans -> [stage : Stage, pvt : Subchans \cup {NULL}, hangup : BOOLEAN]]
      /\ Staged
  BY DEF DeviceInv, TypeOK
<1>8. \/ Unlock(c, do_clear_subchannel(new, s)) /\ UNCHANGED chan
      \/ \E auto \in BOOLEAN :
           /\ Unlock(c, [sccp_subchannel_set_channel(new, s, c) EXCEPT
                           !.sub[s].autoanswer = auto])
           /\ chan' = [chan EXCEPT ![c].stage = "requested", ![c].pvt = s]
  OBVIOUS
<1> HIDE DEF new
<1>9. CASE Unlock(c, do_clear_subchannel(new, s)) /\ UNCHANGED chan
  <2> DEFINE d == do_clear_subchannel(new, s)
  <2>0. Unlock(c, d) /\ chan' = chan
    BY <1>9
  <2>1. ClearedFrom(new, d, s, new.sub[s].refs - 1)
    BY <1>4, <1>6, ClearFacts
  <2> HIDE DEF d
  <2>2. ClearedFrom(new, d, s, 0)
    BY <1>4, <2>1
  <2>3. Calm(l, d)
    BY <1>4, <2>2, CalmTrans DEF ClearedFrom
  <2>4. ASSUME RingIsPrompt PROVE Good(d, sthread.subchan) /\ Linked(d.sub, chan')
    <3>1. Good(d, sthread.subchan)
      BY <1>5, <2>2, <2>4, ClearGood
    <3>2. Linked(l.sub, chan) /\ l.sub[s].chan = NULL
      BY <1>2, <1>5, <2>4, LinkedFacts
    <3>3. \A x \in Subchans : /\ d.sub[x].chan = l.sub[x].chan
                              /\ x # s => d.sub[x].state = l.sub[x].state
      BY <1>4, <2>2, <3>2 DEF ClearedFrom
    <3>4. d.sub[s].chan = NULL
      BY <2>2 DEF ClearedFrom
    <3> QED
      BY <2>0, <3>1, <3>2, <3>3, <3>4 DEF Linked
  <2>5. Staged'
    BY <1>7, <2>0 DEF Staged
  <2> QED
    BY <1>1, <1>2, <1>7, <2>0, <2>3, <2>4, <2>5, ChannelStep
<1>10. ASSUME NEW auto \in BOOLEAN,
              Unlock(c, [sccp_subchannel_set_channel(new, s, c) EXCEPT
                           !.sub[s].autoanswer = auto]),
              chan' = [chan EXCEPT ![c].stage = "requested", ![c].pvt = s]
       PROVE  DeviceInv'
  <2> DEFINE d == [sccp_subchannel_set_channel(new, s, c) EXCEPT !.sub[s].autoanswer = auto]
  <2>0. Unlock(c, d)
    BY <1>10
  <2>1. Takes(new, d, s, c)
    BY <1>4, <1>6, TakeFacts
  <2> HIDE DEF d
  <2>2. Calm(l, d)
    BY <1>4, <2>1, CalmTrans DEF Takes
  <2>3. /\ chan' \in [Chans -> [stage : Stage, pvt : Subchans \cup {NULL}, hangup : BOOLEAN]]
        /\ chan'[c].stage = "requested" /\ chan'[c].pvt = s
        /\ \A x \in Chans \ {c} : chan'[x] = chan[x]
    <3>1. "requested" \in Stage /\ s \in Subchans
      BY <1>4 DEF Stage
    <3> QED
      BY <1>7, <1>10, <3>1
  <2>4. NULL \notin Subchans /\ NULL \notin Chans
    BY DeviceOpsAssumption
  <2>5. Staged'
    BY <1>4, <1>7, <2>3, <2>4 DEF Staged
  <2>6. \A x \in Chans : chan[x].stage = "placed" => chan'[x].stage = "placed"
    BY <1>1, <2>3
  <2>7. ASSUME RingIsPrompt PROVE Good(d, sthread.subchan) /\ Linked(d.sub, chan')
    <3>1. Good(d, sthread.subchan)
      BY <1>4, <1>5, <2>1, <2>7, TakeGood
    <3>2. /\ Linked(l.sub, chan) /\ l.sub[s].chan = NULL
          /\ \A x \in Subchans : l.sub[x].chan \in Chans \cup {NULL}
      BY <1>2, <1>5, <2>7, LinkedFacts
    <3>3. chan[c].pvt = NULL
      BY <1>1, <1>7 DEF Staged
    <3>4. \A x \in Subchans : l.sub[x].chan # c
      BY <2>4, <3>2, <3>3 DEF Linked
    <3>5. d.sub[s].chan = c /\ \A x \in Subchans \ {s} : d.sub[x] = l.sub[x]
      BY <1>4, <2>1 DEF Takes
    <3>6. ASSUME NEW x \in Subchans, NEW y \in Chans PROVE chan'[y].pvt = x <=> d.sub[x].chan = y
      <4>1. CASE y = c
        BY <2>3, <3>4, <3>5, <4>1
      <4>2. CASE y # c
        <5>1. chan'[y].pvt = x <=> l.sub[x].chan = y
          BY <2>3, <3>2, <4>2 DEF Linked
        <5>2. l.sub[x].chan = y <=> d.sub[x].chan = y
          BY <2>4, <3>2, <3>5, <4>2
        <5> QED
          BY <5>1, <5>2
      <4> QED
        BY <4>1, <4>2
    <3>7. ASSUME NEW x \in Subchans, d.sub[x].state = "OFFHOOK", d.sub[x].chan # NULL
          PROVE  chan'[d.sub[x].chan].stage \in {"requested", "called"}
      <4>1. CASE x = s
        BY <2>3, <3>5, <4>1
      <4>2. CASE x # s
        <5>1. d.sub[x] = l.sub[x] /\ l.sub[x].chan \in Chans \ {c}
          BY <3>2, <3>4, <3>5, <3>7, <4>2
        <5> QED
          BY <2>3, <3>2, <3>7, <5>1 DEF Linked
      <4> QED
        BY <4>1, <4>2
    <3> QED
      BY <3>1, <3>6, <3>7 DEF Linked
  <2> QED
    BY <1>1, <1>2, <2>0, <2>2, <2>3, <2>5, <2>6, <2>7, ChannelStep
<1> QED
  BY <1>8, <1>9, <1>10
(* The tech_pvt of a channel is a subchannel whose channel it is.          *)
LEMMA ChanFacts ==
  ASSUME DeviceInv, NEW c \in Chans, chan[c].pvt # NULL
  PROVE  /\ chan \in [Chans -> [stage : Stage, pvt : Subchans \cup {NULL}, hangup : BOOLEAN]]
         /\ chan[c].pvt \in Subchans
         /\ RingIsPrompt => \A l : LockedAs(l) => l.sub[chan[c].pvt].chan = c
<1>1. chan \in [Chans -> [stage : Stage, pvt : Subchans \cup {NULL}, hangup : BOOLEAN]]
  BY DEF DeviceInv, TypeOK
<1>2. chan[c].pvt \in Subchans
  BY <1>1
<1> QED
  BY <1>1, <1>2, LinkedFacts DEF Linked

(* The invariant is kept: the incoming call rings, unless the device       *)
(* forwards its calls or is destroyed.                                     *)
LEMMA CallChannelStep ==
  ASSUME DeviceInv, NEW c \in Chans, sccp_channel_tech_call(c)
  PROVE  DeviceInv'
<1>0. c \in Threads
  BY DEF Threads
<1> PICK s : s = chan[c].pvt
  OBVIOUS
<1> PICK l \in Locked(c) :
      Unlock(c, IF l.state = "DESTROYED" \/ l.callfwd = "ACTIVE" THEN l ELSE Rings(l, s))
  BY DEF sccp_channel_tech_call
<1>1. /\ chan[c].stage = "requested" /\ sthread' = sthread
      /\ chan' = [chan EXCEPT ![c].stage = "called"]
  BY DEF sccp_channel_tech_call
<1>2. LockedAs(l) /\ Staged
  BY <1>0, LockFacts DEF DeviceInv
<1>3. s # NULL
  BY <1>1, <1>2 DEF Staged
<1>4. /\ chan \in [Chans -> [stage : Stage, pvt : Subchans \cup {NULL}, hangup : BOOLEAN]]
      /\ s \in Subchans /\ (RingIsPrompt => l.sub[s].chan = c)
  BY <1>2, <1>3, ChanFacts
<1>5. l \in DeviceType /\ NULL \notin Chans /\ sthread.subchan \in Subchans \cup {NULL}
  BY <1>2, DeviceOpsAssumption DEF LockedAs, DeviceInv, TypeOK
<1> DEFINE e == Rings(l, s)
<1>6. /\ Calm(l, e)
      /\ \A a \in Subchans \cup {NULL} :
           Good(l, a) /\ l.state # "DESTROYED" /\ l.sub[s].chan # NULL =>
             Good(e, a) /\ Kept(l, e)
  BY <1>4, <1>5, RingsFacts
<1> HIDE DEF e
<1> DEFINE d == IF l.state = "DESTROYED" \/ l.callfwd = "ACTIVE" THEN l ELSE e
<1>7. Unlock(c, d)
  BY DEF e
<1>8. Calm(l, d)
  BY <1>5, <1>6 DEF Calm
<1>9. ASSUME RingIsPrompt PROVE Good(d, sthread.subchan) /\ Kept(l, d)
  <2>1. Good(l, sthread.subchan) /\ Kept(l, l)
    BY <1>2, <1>9, LinkedFacts DEF Kept
  <2> QED
    BY <1>4, <1>5, <1>6, <1>9, <2>1
<1> HIDE DEF d
<1>10. /\ chan' \in [Chans -> [stage : Stage, pvt : Subchans \cup {NULL}, hangup : BOOLEAN]]
       /\ chan'[c].stage = "called"
       /\ \A x \in Chans : /\ chan'[x].pvt = chan[x].pvt
                           /\ x # c => chan'[x].stage = chan[x].stage
  <2>1. "called" \in Stage
    BY DEF Stage
  <2> QED
    BY <1>1, <1>4, <2>1
<1>11. Staged'
  BY <1>1, <1>2, <1>10 DEF Staged
<1>12. \A x \in Chans : chan[x].stage = "placed" => chan'[x].stage = "placed"
  BY <1>1, <1>10
<1>13. ASSUME RingIsPrompt PROVE Linked(d.sub, chan')
  <2>1. /\ Linked(l.sub, chan) /\ Kept(l, d)
        /\ \A x \in Subchans : l.sub[x].chan \in Chans \cup {NULL}
    BY <1>2, <1>9, <1>13, LinkedFacts
  <2> QED
    BY <1>10, <2>1 DEF Linked, Kept
<1> QED
  BY <1>1, <1>2, <1>7, <1>8, <1>9, <1>10, <1>11, <1>12, <1>13, ChannelStep

(* The invariant is kept: a channel is hung up, before or after the end of *)
(* the session.                                                            *)
LEMMA HangUpChannelStep ==
  ASSUME DeviceInv, NEW c \in Chans, sccp_channel_tech_hangup(c)
  PROVE  DeviceInv'
<1>0. c \in Threads
  BY DEF Threads
<1> PICK s : s = chan[c].pvt
  OBVIOUS
<1> PICK l \in Locked(c) : Unlock(c, HungUp(l, s))
  BY DEF sccp_channel_tech_hangup, HungUp
<1>1. /\ chan[c].stage \in {"requested", "called", "started"} /\ sthread' = sthread
      /\ chan' = [chan EXCEPT ![c] = [stage |-> "released", pvt |-> NULL, hangup |-> FALSE]]
  BY DEF sccp_channel_tech_hangup
<1>2. LockedAs(l) /\ Staged
  BY <1>0, LockFacts DEF DeviceInv
<1>3. s # NULL
  BY <1>1, <1>2 DEF Staged
<1>4. /\ chan \in [Chans -> [stage : Stage, pvt : Subchans \cup {NULL}, hangup : BOOLEAN]]
      /\ s \in Subchans /\ (RingIsPrompt => l.sub[s].chan = c)
  BY <1>2, <1>3, ChanFacts
<1>5. l \in DeviceType /\ NULL \notin Chans /\ NULL \notin Subchans
      /\ sthread.subchan \in Subchans \cup {NULL}
  BY <1>2, DeviceOpsAssumption DEF LockedAs, DeviceInv, TypeOK
<1> DEFINE d == HungUp(l, s)
<1>6. /\ Calm(l, d)
      /\ \A a \in Subchans \cup {NULL} : Good(l, a) /\ l.sub[s].chan # NULL =>
           /\ Good(d, a) /\ d.sub[s].chan = NULL
           /\ \A x \in Subchans \ {s} : /\ d.sub[x].chan = l.sub[x].chan
                                        /\ d.sub[x].state = l.sub[x].state
  BY <1>4, <1>5, HangsUpFacts
<1>7. Unlock(c, d)
  OBVIOUS
<1> HIDE DEF d
<1>8. /\ chan' \in [Chans -> [stage : Stage, pvt : Subchans \cup {NULL}, hangup : BOOLEAN]]
      /\ chan'[c].stage = "released" /\ chan'[c].pvt = NULL
      /\ \A x \in Chans \ {c} : chan'[x] = chan[x]
  <2>1. "released" \in Stage
    BY DEF Stage
  <2> QED
    BY <1>1, <1>4, <2>1
<1>9. Staged'
  BY <1>2, <1>8 DEF Staged
<1>10. \A x \in Chans : chan[x].stage = "placed" => chan'[x].stage = "placed"
  BY <1>1, <1>8
<1>11. ASSUME RingIsPrompt PROVE Good(d, sthread.subchan) /\ Linked(d.sub, chan')
  <2>1. /\ Good(l, sthread.subchan) /\ Linked(l.sub, chan) /\ l.sub[s].chan = c
        /\ \A x \in Subchans : l.sub[x].chan \in Chans \cup {NULL}
    BY <1>2, <1>4, <1>11, LinkedFacts
  <2>2. /\ Good(d, sthread.subchan) /\ d.sub[s].chan = NULL
        /\ \A x \in Subchans \ {s} : /\ d.sub[x].chan = l.sub[x].chan
                                     /\ d.sub[x].state = l.sub[x].state
    BY <1>5, <1>6, <2>1
  <2>3. \A x \in Subchans \ {s} : l.sub[x].chan # c
    BY <1>4, <2>1 DEF Linked
  <2>4. ASSUME NEW x \in Subchans, NEW y \in Chans PROVE chan'[y].pvt = x <=> d.sub[x].chan = y
    <3>1. CASE y = c
      BY <1>5, <1>8, <2>2, <2>3, <3>1
    <3>2. CASE y # c
      <4>1. chan'[y].pvt = x <=> l.sub[x].chan = y
        BY <1>8, <2>1, <3>2 DEF Linked
      <4>2. l.sub[x].chan = y <=> d.sub[x].chan = y
        BY <1>5, <2>1, <2>2, <3>2
      <4> QED
        BY <4>1, <4>2
    <3> QED
      BY <3>1, <3>2
  <2>5. ASSUME NEW x \in Subchans, d.sub[x].state = "OFFHOOK", d.sub[x].chan # NULL
        PROVE  chan'[d.sub[x].chan].stage \in {"requested", "called"}
    <3>1. x # s
      BY <2>2, <2>5
    <3>2. d.sub[x].chan = l.sub[x].chan /\ l.sub[x].state = "OFFHOOK"
          /\ l.sub[x].chan \in Chans \ {c}
      BY <2>1, <2>2, <2>3, <2>5, <3>1
    <3> DEFINE y == l.sub[x].chan
    <3>3. chan[y].stage \in {"requested", "called"}
      BY <1>5, <2>1, <3>2 DEF Linked
    <3>4. chan'[y] = chan[y]
      BY <1>8, <3>2
    <3> QED
      BY <3>2, <3>3, <3>4
  <2> QED
    BY <2>2, <2>4, <2>5 DEF Linked
<1> QED
  BY <1>1, <1>2, <1>6, <1>7, <1>8, <1>9, <1>10, <1>11, ChannelStep

(* The invariant is kept: the called party has answered.                   *)
LEMMA AnswerChannelStep ==
  ASSUME DeviceInv, NEW c \in Chans, sccp_channel_tech_answer(c)
  PROVE  DeviceInv'
<1>0. c \in Threads
  BY DEF Threads
<1> PICK s : s = chan[c].pvt
  OBVIOUS
<1> PICK l \in Locked(c) :
      LET d == [l EXCEPT !.sub[s].state = "CONNECTED"]
      IN  Unlock(c, IF d.sub[s].rtp THEN d ELSE transmit_subchan_open_receive_channel(d))
  BY DEF sccp_channel_tech_answer
<1>1. chan[c].stage = "started" /\ sthread' = sthread /\ chan' = chan
  BY DEF sccp_channel_tech_answer
<1>2. LockedAs(l) /\ Staged
  BY <1>0, LockFacts DEF DeviceInv
<1>3. s # NULL
  BY <1>1, <1>2 DEF Staged
<1>4. /\ chan \in [Chans -> [stage : Stage, pvt : Subchans \cup {NULL}, hangup : BOOLEAN]]
      /\ s \in Subchans /\ (RingIsPrompt => l.sub[s].chan = c)
  BY <1>2, <1>3, ChanFacts
<1>5. l \in DeviceType /\ NULL \notin Chans
  BY <1>2, DeviceOpsAssumption DEF LockedAs
<1> DEFINE u == [l.sub[s] EXCEPT !.state = "CONNECTED"]
           f == [l EXCEPT !.sub[s] = u]
           g == transmit_subchan_open_receive_channel(f)
           d == IF f.sub[s].rtp THEN f ELSE g
<1>6. Unlock(c, d)
  OBVIOUS
<1>7. /\ u \in SubchannelType /\ u.dir = l.sub[s].dir /\ u.chan = l.sub[s].chan
      /\ u.refs = l.sub[s].refs /\ u.related = l.sub[s].related /\ u.rtp = l.sub[s].rtp
      /\ u.state = "CONNECTED"
  BY <1>4, <1>5, SubFields DEF SubchannelType
<1> HIDE DEF u
<1>8. Calm(l, f) /\ f.sub[s] = u /\ \A x \in Subchans \ {s} : f.sub[x] = l.sub[x]
  BY <1>4, <1>5, <1>7, SubFacts
<1>9. \A a : Good(l, a) /\ l.sub[s].chan # NULL => Good(f, a)
  BY <1>4, <1>7, SubGood
<1>10. f \in DeviceType
  BY <1>8 DEF Calm
<1> HIDE DEF f
<1>11. Same(f, g)
  BY <1>10, OpenSame
<1> HIDE DEF g
<1>12. Same(f, d)
  BY <1>10, <1>11 DEF Same, Calm
<1> HIDE DEF d
<1>13. Calm(l, d)
  BY <1>8, <1>12, CalmTrans DEF Same
<1>14. ASSUME RingIsPrompt PROVE Good(d, sthread.subchan) /\ Linked(d.sub, chan')
  <2>1. /\ Good(l, sthread.subchan) /\ Linked(l.sub, chan) /\ l.sub[s].chan # NULL
    BY <1>2, <1>4, <1>5, <1>14, LinkedFacts
  <2>2. Good(d, sthread.subchan)
    BY <1>9, <1>12, <2>1, SameGood
  <2>3. \A x \in Subchans : /\ d.sub[x].chan = l.sub[x].chan
                            /\ d.sub[x].state = "OFFHOOK" => l.sub[x].state = "OFFHOOK"
    BY <1>7, <1>8, <1>12 DEF Same
  <2> QED
    BY <1>1, <2>1, <2>2, <2>3 DEF Linked
<1>15. Staged' /\ \A x \in Chans : chan[x].stage = "placed" => chan'[x].stage = "placed"
  BY <1>1, <1>2 DEF Staged
<1> QED
  BY <1>1, <1>2, <1>4, <1>6, <1>13, <1>14, <1>15, ChannelStep

(* The invariant is kept: early media.                                     *)
LEMMA WriteChannelStep ==
  ASSUME DeviceInv, NEW c \in Chans, sccp_channel_tech_write(c)
  PROVE  DeviceInv'
<1>0. c \in Threads
  BY DEF Threads
<1> PICK l \in Locked(c) : Unlock(c, transmit_subchan_open_receive_channel(l))
  BY DEF sccp_channel_tech_write
<1>1. sthread' = sthread /\ chan' = chan
  BY DEF sccp_channel_tech_write
<1>2. LockedAs(l) /\ Staged
  BY <1>0, LockFacts DEF DeviceInv
<1> DEFINE d == transmit_subchan_open_receive_channel(l)
<1>3. Same(l, d)
  BY <1>2, OpenSame DEF LockedAs
<1>4. Unlock(c, d)
  OBVIOUS
<1> HIDE DEF d
<1>5. Calm(l, d)
  BY <1>3 DEF Same
<1>6. ASSUME RingIsPrompt PROVE Good(d, sthread.subchan) /\ Linked(d.sub, chan')
  <2>1. Good(l, sthread.subchan) /\ Linked(l.sub, chan)
    BY <1>2, <1>6, LinkedFacts
  <2>2. Good(d, sthread.subchan)
    BY <1>3, <2>1, SameGood
  <2> QED
    BY <1>1, <1>3, <2>1, <2>2 DEF Same
<1>7. chan' \in [Chans -> [stage : Stage, pvt : Subchans \cup {NULL}, hangup : BOOLEAN]]
      /\ Staged' /\ \A x \in Chans : chan[x].stage = "placed" => chan'[x].stage = "placed"
  BY <1>1, <1>2 DEF Staged, DeviceInv, TypeOK
<1> QED
  BY <1>1, <1>2, <1>4, <1>5, <1>6, <1>7, ChannelStep
-----------------------------------------------------------------------------
(* Once the first of its tasks is done, a thread has no call to start.     *)
LEMMA TailPlain ==
  ASSUME NEW q \in Seq(NolockTask), q # << >>,
         \A i \in DOMAIN q : q[i].exec = "start_channel" => Len(q) = 1
  PROVE  Plain(Tail(q)) /\ Tail(q) \in Seq(NolockTask) /\ Head(q) \in NolockTask /\ Head(q) = q[1]
         /\ 1 \in DOMAIN q
<1> DEFINE r == Tail(q)
<1>1. Len(q) \in Nat /\ Len(q) > 0 /\ DOMAIN q = 1 .. Len(q) /\ Head(q) = q[1]
  BY EmptySeq, LenProperties
<1>2. /\ r \in Seq(NolockTask) /\ Len(r) = Len(q) - 1 /\ DOMAIN r = 1 .. Len(r)
      /\ \A i \in 1 .. Len(r) : r[i] = q[i + 1]
  BY <1>1, HeadTailProperties
<1> HIDE DEF r
<1>3. Plain(r)
  <2> SUFFICES ASSUME NEW i \in DOMAIN r, r[i].exec = "start_channel" PROVE FALSE
    BY DEF Plain
  <2>1. i \in 1 .. Len(q) - 1 /\ i + 1 \in DOMAIN q /\ q[i + 1].exec = "start_channel"
    BY <1>1, <1>2
  <2> QED
    BY <1>1, <2>1
<1>4. q[1] \in NolockTask /\ 1 \in DOMAIN q
  BY <1>1
<1> QED
  BY <1>1, <1>2, <1>3, <1>4 DEF r

(* A request to hang up leaves the channel where it was.                   *)
LEMMA HangUpFacts ==
  ASSUME chan \in [Chans -> [stage : Stage, pvt : Subchans \cup {NULL}, hangup : BOOLEAN]],
         NEW cs, HangUp(cs)
  PROVE  /\ chan' \in [Chans -> [stage : Stage, pvt : Subchans \cup {NULL}, hangup : BOOLEAN]]
         /\ \A c \in Chans : chan'[c].stage = chan[c].stage /\ chan'[c].pvt = chan[c].pvt
<1> DEFINE T == [stage : Stage, pvt : Subchans \cup {NULL}, hangup : BOOLEAN]
<1>1. ASSUME NEW c \in Chans
      PROVE  /\ chan'[c] \in T
             /\ chan'[c].stage = chan[c].stage /\ chan'[c].pvt = chan[c].pvt
  <2>1. chan[c] \in T
    OBVIOUS
  <2>2. CASE c \in cs /\ chan[c].pvt # NULL
    <3>1. chan'[c] = [chan[c] EXCEPT !.hangup = TRUE]
      BY <2>2 DEF HangUp
    <3> QED
      BY <2>1, <3>1
  <2>3. CASE ~(c \in cs /\ chan[c].pvt # NULL)
    <3>1. chan'[c] = chan[c]
      BY <2>3 DEF HangUp
    <3> QED
      BY <2>1, <3>1
  <2> QED
    BY <2>2, <2>3
<1>2. chan' = [c \in Chans |-> chan'[c]]
  BY DEF HangUp
<1> HIDE DEF T
<1>3. chan' \in [Chans -> T]
  BY <1>1, <1>2
<1> QED
  BY <1>1, <1>3 DEF T

(* The invariant is kept: a task that a thread has taken with it; a call   *)
(* is started when it was placed just before.                              *)
LEMMA ExecTaskStep ==
  ASSUME DeviceInv, NEW t \in Threads, ExecTask(t)
  PROVE  DeviceInv'
<1> DEFINE q == todo[t]
           task == Head(q)
           T == [stage : Stage, pvt : Subchans \cup {NULL}, hangup : BOOLEAN]
<1>1. /\ todo \in [Threads -> Seq(NolockTask)] /\ chan \in [Chans -> T] /\ Starting /\ Staged
      /\ q \in Seq(NolockTask) /\ q # << >>
      /\ UNCHANGED <<device, sthread, ooms>>
      /\ todo' = [todo EXCEPT ![t] = Tail(q)]
  BY DEF ExecTask, DeviceInv, TypeOK
<1>2. \A i \in DOMAIN q : q[i].exec = "start_channel" =>
         t = SessionThread /\ Len(q) = 1 /\ chan[q[i].chan].stage = "placed"
  BY <1>1 DEF Starting
<1>3. /\ Plain(Tail(q)) /\ Tail(q) \in Seq(NolockTask) /\ task \in NolockTask /\ task = q[1]
      /\ 1 \in DOMAIN q
  BY <1>1, <1>2, TailPlain
<1>4. /\ todo' \in [Threads -> Seq(NolockTask)] /\ Plain(todo'[t])
      /\ \A x \in Threads \ {t} : todo'[x] = todo[x]
  BY <1>1, <1>3
<1>5. \/ HangUp({task.chan})
      \/ HangUp({task.chan, task.other})
      \/ UNCHANGED chan
      \/ task.exec = "start_channel" /\ chan' = [chan EXCEPT ![task.chan].stage = "started"]
  BY DEF ExecTask
<1> HIDE DEF q, task
<1>6. ASSUME chan' \in [Chans -> T], Starting', Staged', RingIsPrompt => Ringing' /\ LinksAgree'
      PROVE  DeviceInv'
  <2>1. TypeOK'
    BY <1>1, <1>4, <1>6 DEF DeviceInv, TypeOK
  <2>2. Quiet' /\ Sound(device') /\ FwdTimerInInput' /\ Allocating' /\ Ended'
    BY <1>1 DEF DeviceInv, Quiet, FwdTimerInInput, Allocating, Ended
  <2>3. RingIsPrompt => Sane'
    BY <1>1, <1>6 DEF DeviceInv, Sane
  <2> QED
    BY <1>6, <2>1, <2>2, <2>3 DEF DeviceInv
<1>7. CASE \/ HangUp({task.chan}) \/ HangUp({task.chan, task.other}) \/ UNCHANGED chan
  <2>1. /\ chan' \in [Chans -> T]
        /\ \A c \in Chans : chan'[c].stage = chan[c].stage /\ chan'[c].pvt = chan[c].pvt
    BY <1>1, <1>7, HangUpFacts
  <2>2. Starting'
    BY <1>1, <1>4, <2>1, StartingKept
  <2>3. Staged'
    BY <1>1, <2>1 DEF Staged
  <2>4. ASSUME RingIsPrompt PROVE Ringing' /\ LinksAgree'
    <3>1. Ringing /\ LinksAgree /\ \A s \in Subchans : device.sub[s].chan \in Chans \cup {NULL}
      BY <2>4, SubFields DEF DeviceInv, Sane, TypeOK
    <3> QED
      BY <1>1, <2>1, <3>1 DEF Ringing, LinksAgree
  <2> QED
    BY <1>6, <2>1, <2>2, <2>3, <2>4
<1>8. CASE task.exec = "start_channel" /\ chan' = [chan EXCEPT ![task.chan].stage = "started"]
  <2> DEFINE c == task.chan
  <2>1. t = SessionThread /\ chan[c].stage = "placed"
    BY <1>2, <1>3, <1>8
  <2>2. c \in Chans
    BY <1>3 DEF NolockTask
  <2> HIDE DEF c
  <2>3. chan' = [chan EXCEPT ![c].stage = "started"]
    BY <1>8 DEF c
  <2>4. /\ chan' \in [Chans -> T] /\ chan'[c].stage = "started"
        /\ \A x \in Chans : /\ chan'[x].pvt = chan[x].pvt
                            /\ x # c => chan'[x].stage = chan[x].stage
    <3>1. "started" \in Stage
      BY DEF Stage
    <3> QED
      BY <1>1, <2>2, <2>3, <3>1
  <2>5. Starting'
    <3> SUFFICES ASSUME NEW x \in Threads, NEW i \in DOMAIN todo'[x],
                        todo'[x][i].exec = "start_channel"
                 PROVE  FALSE
      BY DEF Starting
    <3>1. x # t
      BY <1>4 DEF Plain
    <3>2. todo'[x] = todo[x]
      BY <1>4, <3>1
    <3> QED
      BY <1>1, <2>1, <3>1, <3>2 DEF Starting
  <2>6. Staged'
    BY <1>1, <2>1, <2>2, <2>4 DEF Staged
  <2>7. ASSUME RingIsPrompt PROVE Ringing' /\ LinksAgree'
    <3>1. Ringing /\ LinksAgree /\ \A s \in Subchans : device.sub[s].chan \in Chans \cup {NULL}
      BY <2>7, SubFields DEF DeviceInv, Sane, TypeOK
    <3>2. LinksAgree'
      BY <1>1, <2>4, <3>1 DEF LinksAgree
    <3>3. Ringing'
      <4> SUFFICES ASSUME NEW s \in Subchans, device.sub[s].state = "OFFHOOK",
                          device.sub[s].chan # NULL
                   PROVE  chan'[device.sub[s].chan].stage \in {"requested", "called"}
        BY <1>1 DEF Ringing
      <4>1. PICK y \in Chans : y = device.sub[s].chan
        BY <3>1
      <4>2. chan[y].stage \in {"requested", "called"}
        BY <3>1, <4>1 DEF Ringing
      <4>3. chan'[y].stage = chan[y].stage
        BY <2>1, <2>4, <4>2
      <4> QED
        BY <4>1, <4>2, <4>3
    <3> QED
      BY <3>2, <3>3
  <2> QED
    BY <1>6, <2>4, <2>5, <2>6, <2>7
<1> QED
  BY <1>5, <1>7, <1>8
-----------------------------------------------------------------------------
(* A device that is registered has no calls.                               *)
LEMMA InitInv == Init => DeviceInv
<1> SUFFICES ASSUME Init PROVE DeviceInv
  OBVIOUS
<1> DEFINE T == [stage : Stage, pvt : Subchans \cup {NULL}, hangup : BOOLEAN]
<1>1. /\ chan \in [Chans -> T]
      /\ \A c \in Chans : chan[c].stage = "free" /\ chan[c].pvt = NULL
  <2>1. "free" \in Stage
    BY DEF Stage
  <2> QED
    BY <2>1 DEF Init
<1>2. todo \in [Threads -> Seq(NolockTask)] /\ \A t \in Threads : todo[t] = << >>
  BY DEF Init
<1>3. device \in DeviceType /\ \A s \in Subchans : device.sub[s] = NewSubchannel
  <2> DEFINE f == [s \in Subchans |-> NewSubchannel]
  <2>1. NewSubchannel \in SubchannelType
    BY DEF NewSubchannel, SubchannelType
  <2>2. f \in [Subchans -> SubchannelType] /\ \A s \in Subchans : f[s] = NewSubchannel
    BY <2>1
  <2>3. device = [state |-> "WORKING", subchans |-> << >>, sub |-> f,
                  active |-> NULL, recv |-> "CLOSED", acks |-> 0, callfwd |-> "INACTIVE",
                  exten |-> FALSE, dialtimers |-> {}, fwdtimer |-> FALSE, fault |-> FALSE,
                  tasks |-> << >>, offthread |-> FALSE, holder |-> NULL, oom |-> "none"]
    BY DEF Init, RegisteredDevice
  <2> HIDE DEF f
  <2>4. << >> \in Seq(Subchans) /\ << >> \in Seq(NolockTask)
    OBVIOUS
  <2> QED
    BY <2>2, <2>3, <2>4 DEF DeviceType
<1>4. /\ device.state = "WORKING" /\ device.subchans = << >> /\ device.active = NULL
      /\ device.dialtimers = {} /\ device.fwdtimer = FALSE
      /\ device.tasks = << >> /\ device.holder = NULL /\ device.oom = "none"
  BY DEF Init, RegisteredDevice
<1>5. Listed(device) = {}
  BY <1>4 DEF Listed, Range
<1>6. Sound(device)
  BY <1>4, <1>5 DEF Sound, OneEach
<1>7. TypeOK
  <2>1. sthread \in [pc : {"idle", "alloc", "done"}, subchan : Subchans \cup {NULL}]
    BY DEF Init, Idle
  <2>2. ooms \in 0 .. MaxOoms
    BY DeviceAssumption DEF Init
  <2> QED
    BY <1>1, <1>2, <1>3, <2>1, <2>2 DEF TypeOK
<1>8. Quiet /\ FwdTimerInInput /\ Allocating /\ Ended
  BY <1>4 DEF Quiet, FwdTimerInInput, Allocating, Ended, Init, Idle
<1>9. Staged /\ Starting
  BY <1>1, <1>2 DEF Staged, Starting
<1>10. Sane
  <2>1. /\ sthread.subchan = NULL /\ NULL \notin Chans /\ NULL \notin Subchans
        /\ \A s \in Subchans : /\ device.sub[s].chan = NULL /\ device.sub[s].related = NULL
                               /\ device.sub[s].refs = 0 /\ device.sub[s].rtp = FALSE
    BY <1>3, DeviceOpsAssumption DEF Init, Idle, NewSubchannel
  <2>2. Counted(device) /\ Held(device) /\ InList(device) /\ Paired(device)
    BY <1>4, <1>5, <2>1 DEF Counted, Held, InList, Paired
  <2>3. Good(device, sthread.subchan)
    BY <1>3, <1>4, <1>6, <2>1, <2>2 DEF Good
  <2>4. Ringing /\ LinksAgree
    BY <1>1, <2>1 DEF Ringing, LinksAgree
  <2> QED
    BY <2>3, <2>4 DEF Sane
<1> QED
  BY <1>6, <1>7, <1>8, <1>9, <1>10 DEF DeviceInv

(* The session thread keeps the invariant.                                 *)
LEMMA SessionStep == ASSUME DeviceInv, SessionNext PROVE DeviceInv'
BY NewCallStep, AnswerCallStep, EndCallStep, HoldStep, ResumeStep, TransferStep, DigitStep,
   PoundStep, EnblocCallStep, SpeedDialStep, OpenReceiveChannelAckStep, CfwdAllStep,
   BackspaceStep, FwdTimeoutStep, CallFailsStep, CallIsRefusedStep, ConnectionLostStep,
   DestroyStep, DialTimeoutStep, CallStartsStep
   DEF SessionNext

(* Whatever the phone, the dialplan and the channels do, and whenever the  *)
(* memory runs out: the types, the list, the timer of the input, the       *)
(* places of the threads; and, if incoming calls ring before the session   *)
(* thread goes on, the order of the calls.                                 *)
THEOREM DeviceInvariant == Spec => []DeviceInv
<1>1. Init => DeviceInv
  BY InitInv
<1>2. DeviceInv /\ [Next]_vars => DeviceInv'
  <2> SUFFICES ASSUME DeviceInv, [Next]_vars PROVE DeviceInv'
    OBVIOUS
  <2>1. CASE SessionNext
    BY <2>1, SessionStep
  <2>2. ASSUME NEW c \in Chans, ChannelNext(c) PROVE DeviceInv'
    BY <2>2, RequestStep, CallChannelStep, HangUpChannelStep, AnswerChannelStep,
       WriteChannelStep DEF ChannelNext
  <2>3. ASSUME NEW t \in Threads, ExecTask(t) PROVE DeviceInv'
    BY <2>3, ExecTaskStep
  <2>4. CASE UNCHANGED vars
    <3>1. /\ device' = device /\ chan' = chan /\ sthread' = sthread /\ todo' = todo
          /\ ooms' = ooms
      BY <2>4 DEF vars
    <3>2. Sane => Sane'
      BY <3>1 DEF Sane, Ringing, LinksAgree
    <3>3. TypeOK' /\ Quiet' /\ Sound(device') /\ FwdTimerInInput'
      BY <3>1 DEF DeviceInv, TypeOK, Quiet, FwdTimerInInput
    <3>4. Staged' /\ Starting' /\ Allocating' /\ Ended'
      BY <3>1 DEF DeviceInv, Staged, Starting, Allocating, Ended
    <3> QED
      BY <3>2, <3>3, <3>4 DEF DeviceInv
  <2> QED
    BY <2>1, <2>2, <2>3, <2>4 DEF Next
<1> QED
  BY <1>1, <1>2, PTL DEF Spec

(* The timer that ends the input of a number to forward to is armed only   *)
(* during the input (set_callforward, cancel_callforward_input), with or   *)
(* without RingIsPrompt.                                                   *)
THEOREM DeviceFwdTimer == Spec => []FwdTimerInInput
<1>1. DeviceInv => FwdTimerInInput
  BY DEF DeviceInv
<1> QED
  BY <1>1, DeviceInvariant, PTL

(* Subchannels and channels point at each other, and the active subchannel *)
(* is in the list, for any number of them, until the device is destroyed.  *)
THEOREM DeviceList == ASSUME RingIsPrompt PROVE Spec => []ListIsSound
<1>1. DeviceInv => ListIsSound
  BY DEF DeviceInv, Sane, Good, InList, ListIsSound, ActiveIsListed
<1> QED
  BY <1>1, DeviceInvariant, PTL

(* At most one channel has a subchannel as its tech_pvt.                   *)
LEMMA HoldersAre ==
  ASSUME DeviceInv, RingIsPrompt, NEW s \in Subchans
  PROVE  Cardinality(Pvts(s)) = IF device.sub[s].chan # NULL THEN 1 ELSE 0
<1>1. LinksAgree /\ device.sub[s].chan \in Chans \cup {NULL} /\ NULL \notin Chans
  BY SubFields, DeviceOpsAssumption DEF DeviceInv, Sane, TypeOK
<1> DEFINE c == device.sub[s].chan
<1>2. CASE c = NULL
  <2>1. Pvts(s) = {}
    BY <1>1, <1>2 DEF Pvts, LinksAgree
  <2> QED
    BY <1>2, <2>1, FS_EmptySet
<1>3. CASE c # NULL
  <2>1. Pvts(s) = {c}
    BY <1>1, <1>3 DEF Pvts, LinksAgree
  <2> QED
    BY <1>3, <2>1, FS_Singleton
<1> QED
  BY <1>2, <1>3

(* No subchannel is freed under a holder, and none is leaked, in whatever  *)
(* order the session thread, the threads of the channels and the end of    *)
(* the session clear it.                                                   *)
THEOREM DeviceReferences == ASSUME RingIsPrompt PROVE Spec => []RefsMatchHolders
<1>1. DeviceInv => RefsMatchHolders
  <2> SUFFICES ASSUME DeviceInv, NEW s \in Subchans
               PROVE  device.sub[s].refs =
                        Cardinality(Pvts(s)) + (IF s \in Listed(device) THEN 1 ELSE 0)
    BY DEF RefsMatchHolders
  <2>1. Counted(device)
    BY DEF DeviceInv, Sane, Good
  <2> QED
    BY <2>1, HoldersAre DEF Counted
<1> QED
  BY <1>1, DeviceInvariant, PTL

(* When a dial timer fires, its subchannel is in the list and has no call  *)
(* yet (on_dial_timeout).                                                  *)
THEOREM DeviceTimers == ASSUME RingIsPrompt PROVE Spec => []TimersAreSafe
<1>1. DeviceInv => TimersAreSafe
  BY DEF DeviceInv, Sane, Good, Fresh, TimersAreSafe
<1> QED
  BY <1>1, DeviceInvariant, PTL

(* The two calls of a transfer are related to each other, and both exist:  *)
(* clearing one makes the other forget it.                                 *)
THEOREM DeviceTransfers == ASSUME RingIsPrompt PROVE Spec => []TransferPairs
<1>1. DeviceInv => TransferPairs
  <2> SUFFICES ASSUME DeviceInv, device.state # "DESTROYED",
                      NEW s \in Subchans, device.sub[s].related # NULL
               PROVE  LET r == device.sub[s].related
                      IN  device.sub[r].related = s /\ {r, s} \subseteq Listed(device) /\ r # s
    BY DEF TransferPairs
  <2> DEFINE r == device.sub[s].related
  <2>1. Paired(device) /\ r \in Subchans /\ s # NULL
    BY SubFields, DeviceOpsAssumption DEF DeviceInv, Sane, Good, TypeOK
  <2>2. device.sub[r].related = s /\ s \in Listed(device) /\ r # s
    BY <2>1 DEF Paired
  <2>3. r \in Listed(device)
    BY <2>1, <2>2 DEF Paired
  <2> QED
    BY <2>2, <2>3
<1> QED
  BY <1>1, DeviceInvariant, PTL

(* sccp_subchannel_destructor finds neither a channel nor an RTP instance  *)
(* ("This should not happen").                                             *)
THEOREM DeviceDestructor == ASSUME RingIsPrompt PROVE Spec => []NothingLeftInDestructor
<1>1. DeviceInv => NothingLeftInDestructor
  <2> SUFFICES ASSUME DeviceInv, NEW s \in Subchans, device.sub[s].refs = 0
               PROVE  device.sub[s].chan = NULL /\ ~device.sub[s].rtp
    BY DEF NothingLeftInDestructor
  <2>1. Counted(device) /\ Held(device)
    BY DEF DeviceInv, Sane, Good
  <2>2. device.sub[s].chan = NULL /\ s \notin Listed(device)
    BY <2>1 DEF Counted
  <2> QED
    BY <2>1, <2>2 DEF Held
<1> QED
  BY <1>1, DeviceInvariant, PTL

(* While start_the_call has the device unlocked, no thread of a channel    *)
(* takes the subchannel that it works for off the list.                    *)
THEOREM DeviceCallBeingPlaced == ASSUME RingIsPrompt PROVE Spec => []CallBeingPlacedIsListed
<1>1. DeviceInv => CallBeingPlacedIsListed
  BY DEF DeviceInv, Sane, Good, Fresh, Allocating, CallBeingPlacedIsListed
<1> QED
  BY <1>1, DeviceInvariant, PTL
=============================================================================
