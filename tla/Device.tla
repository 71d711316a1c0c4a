------------------------------- MODULE Device -------------------------------
(***************************************************************************)
(* The calls of one device (sccp_device.c): the session thread, which      *)
(* handles the messages of the phone and the timers, against the threads   *)
(* of Asterisk's channels, which call the sccp_channel_tech_* functions.   *)
(* Both lock the device; the functions that must not be called with the    *)
(* device locked (nolock tasks) are called by the thread that unlocks it,  *)
(* after it did, one by one: they are steps of their own.                  *)
(*                                                                         *)
(* Registration is over, and the session may end at any time.              *)
(***************************************************************************)
EXTENDS DeviceOps, FiniteSets

CONSTANTS
  Features,      \* bound: what the user and the dialplan make use of
  RingIsPrompt,  \* bound: TRUE if the session thread handles nothing while an
                 \* incoming call does not ring (see NotRinging)
  MaxAcks,       \* bound: unanswered OpenReceiveChannel messages
  MaxOoms        \* bound: times the device is locked with no memory left

AllFeatures == {"incoming", "autoanswer", "hold", "transfer", "dialing", "speeddial",
                "enbloc", "cfwd", "earlymedia"}

ASSUME DeviceAssumption ==
  /\ IsFiniteSet(Subchans) /\ IsFiniteSet(Chans)
  /\ Features \subseteq AllFeatures
  /\ RingIsPrompt \in BOOLEAN
  /\ MaxAcks \in Nat /\ MaxOoms \in Nat

VARIABLES
  device,   \* the struct sccp_device
  chan,     \* what Asterisk does with each channel, and its tech_pvt
  sthread,  \* where the session thread is: "alloc" in start_the_call, unlocked
  todo,     \* the nolock tasks each thread has yet to execute
  ooms      \* times the device was locked with no memory left

vars == <<device, chan, sthread, todo, ooms>>

Stage == {"free", "requested", "called", "placed", "started", "released"}

Idle == [pc |-> "idle", subchan |-> NULL]

Init ==
  /\ device = RegisteredDevice
  /\ chan = [c \in Chans |-> [stage |-> "free", pvt |-> NULL, hangup |-> FALSE]]
  /\ sthread = Idle
  /\ todo = [t \in Threads |-> << >>]
  /\ ooms = 0

-----------------------------------------------------------------------------
(* sccp_device_lock: the device that the thread t finds.                   *)
Locked(t) ==
  {[device EXCEPT !.holder = t, !.oom = f] :
     f \in IF ooms < MaxOoms THEN {"none", "task", "subchan"} ELSE {"none"}}

(* sccp_device_unlock, by a thread that leaves the device d: it takes the  *)
(* tasks with it.                                                          *)
Unlock(t, d) ==
  /\ d.acks <= MaxAcks
  /\ device' = [d EXCEPT !.holder = NULL, !.oom = "none", !.tasks = << >>]
  /\ todo' = [todo EXCEPT ![t] = @ \o d.tasks]
  /\ ooms' = IF d.oom = "none" THEN ooms ELSE ooms + 1

HangUp(cs) ==
  chan' = [c \in Chans |->
             IF c \in cs /\ chan[c].pvt # NULL THEN [chan[c] EXCEPT !.hangup = TRUE]
                                               ELSE chan[c]]

(* exec_nolock_tasks: an attended transfer that succeeds hangs both        *)
(* channels up.                                                            *)
ExecTask(t) ==
  /\ todo[t] # << >>
  /\ LET task == Head(todo[t])
     IN  \/ task.exec = "queue_hangup" /\ HangUp({task.chan})
         \/ task.exec = "transfer" /\ HangUp({task.chan, task.other})
         \/ task.exec = "transfer" /\ UNCHANGED chan
         \/ task.exec = "start_channel" /\ chan' = [chan EXCEPT ![task.chan].stage = "started"]
  /\ todo' = [todo EXCEPT ![t] = Tail(@)]
  /\ UNCHANGED <<device, sthread, ooms>>

-----------------------------------------------------------------------------
(* The session thread.                                                     *)

(* From sccp_channel_tech_requester to sccp_channel_tech_call, and until it *)
(* is hung up if the device forwards its calls, an incoming subchannel is  *)
(* in the state it was allocated in, that of a call about to be dialled.   *)
NotRinging(c) ==
  /\ chan[c].stage \in {"requested", "called"}
  /\ device.sub[chan[c].pvt].state = "OFFHOOK"

SessionIsFree ==
  /\ sthread.pc = "idle" /\ todo[SessionThread] = << >>
  /\ RingIsPrompt => \A c \in Chans : ~NotRinging(c)

(* sccp_device_handle_msg ignores the phone once the device is not         *)
(* working; the two ways a handler ends: it unlocks the device for good,   *)
(* or it unlocks it to allocate a channel (start_the_call).                *)
Handling == SessionIsFree /\ device.state = "WORKING"

Done(d) == Unlock(SessionThread, d) /\ UNCHANGED <<chan, sthread>>

start_the_call(d, s) ==
  /\ Unlock(SessionThread, remove_dialtimeout_task(d, s))
  /\ sthread' = [pc |-> "alloc", subchan |-> s]
  /\ UNCHANGED chan

(* softkey newcall, and offhook without a call to answer. *)
NewCall ==
  /\ Handling
  /\ \E d \in Locked(SessionThread) : \E new \in do_newcall(d) : Done(new.d)

(* softkey answer, and offhook: the phone names a subchannel, or takes the *)
(* first one that rings.                                                   *)
AnswerCall ==
  /\ Handling
  /\ \E d \in Locked(SessionThread) : \E s \in Listed(d) : Done(do_answer(d, s))

(* softkey endcall, and onhook. *)
EndCall ==
  /\ Handling
  /\ \E d \in Locked(SessionThread) : \E s \in Listed(d) : Done(do_hangup(d, s))

Hold ==
  /\ Handling /\ "hold" \in Features
  /\ device.active # NULL
  /\ \E d \in Locked(SessionThread) : Done(do_hold(d).d)

Resume ==
  /\ Handling /\ "hold" \in Features
  /\ \E d \in Locked(SessionThread) : \E s \in Listed(d) \ {d.active} :
       LET held == HoldActive(d)
       IN  Done(IF held.ok THEN do_resume(held.d, s) ELSE held.d)

(* softkey transfer: a new subchannel related to the active one, which is  *)
(* put on hold; or the transfer itself.                                    *)
TransferStart(d) ==
  LET held == do_hold(d)
  IN  \/ ~held.ok /\ Done(held.d)
      \/ held.ok /\ NewSubchannels(d) = {} /\ Done(held.d)
      \/ /\ held.ok
         /\ \E s \in NewSubchannels(d) :
              Done([sccp_line_new_subchannel(held.d, s, "outgoing") EXCEPT
                      !.sub[s].related = d.active, !.sub[d.active].related = s,
                      !.active = s])

TransferEnd(d) ==
  LET related == d.sub[d.active].related
  IN  /\ d.sub[related].chan # NULL
      /\ Done(add_nolock_task(d, TransferTask(d.sub[related].chan,
                                              d.sub[d.active].chan)).d)

Transfer ==
  /\ Handling /\ "transfer" \in Features
  /\ \E d \in Locked(SessionThread) :
       /\ d.active # NULL /\ d.sub[d.active].chan # NULL
       /\ IF d.sub[d.active].related = NULL THEN TransferStart(d) ELSE TransferEnd(d)

(* handle_msg_keypad_button, for a digit and for '#'. *)
Digit ==
  /\ Handling
  /\ \E d \in Locked(SessionThread) :
       \/ /\ "dialing" \in Features
          /\ d.active # NULL /\ d.sub[d.active].state = "OFFHOOK"
          /\ Done(add_dialtimeout_task([d EXCEPT !.exten = TRUE], d.active))
       \/ /\ d.active = NULL /\ d.callfwd = "INPUTEXTEN"
          /\ Done(add_fwdtimeout_task([d EXCEPT !.exten = TRUE]))

Pound ==
  /\ Handling
  /\ \E d \in Locked(SessionThread) :
       \/ /\ "dialing" \in Features
          /\ d.active # NULL /\ d.sub[d.active].state = "OFFHOOK"
          /\ start_the_call(d, d.active)
       \/ /\ d.active = NULL /\ d.callfwd = "INPUTEXTEN"
          /\ Done(set_callforward_from_device_exten(d))

EnblocCall ==
  /\ Handling /\ "enbloc" \in Features
  /\ \E d \in Locked(SessionThread) :
       /\ FirstInState(d, "OFFHOOK") # NULL
       /\ start_the_call([d EXCEPT !.exten = TRUE], FirstInState(d, "OFFHOOK"))

(* A speeddial or the redial or the voicemail button: a new call and its   *)
(* number at once; a speeddial may be the number to forward to instead.    *)
SpeedDial ==
  /\ Handling /\ "speeddial" \in Features
  /\ \E d \in Locked(SessionThread) :
       \/ d.callfwd = "INPUTEXTEN" /\ Done(set_callforward(d))
       \/ \E new \in do_newcall(d) :
            IF new.subchan = NULL
            THEN Done(new.d)
            ELSE start_the_call([new.d EXCEPT !.exten = TRUE], new.subchan)

(* handle_msg_open_receive_channel_ack.  Whatever message it answers, it   *)
(* is taken for the active subchannel; the RTP instance may fail.          *)
AckForActive(d, rtp) ==
  LET sub == d.sub[d.active]
      new == IF sub.resuming THEN [sub EXCEPT !.resuming = FALSE] ELSE [sub EXCEPT !.rtp = rtp]
      e   == [d EXCEPT !.sub[d.active] = new]
  IN  IF sub.chan # NULL THEN CanAddTask(e).d ELSE e

OpenReceiveChannelAck ==
  /\ Handling
  /\ device.acks > 0
  /\ \E l \in Locked(SessionThread), rtp \in BOOLEAN :
       LET d == [l EXCEPT !.acks = @ - 1, !.recv = IF @ = "OPENING" THEN "OPENED" ELSE @]
       IN  Done(IF d.active = NULL THEN d ELSE AckForActive(d, rtp))

(* softkey cfwdall, and backspace. *)
CfwdAll ==
  /\ Handling /\ "cfwd" \in Features
  /\ \E d \in Locked(SessionThread) :
       Done(CASE d.callfwd = "INACTIVE"   -> [d EXCEPT !.callfwd = "INPUTEXTEN"]
              [] d.callfwd = "INPUTEXTEN" -> IF d.exten THEN set_callforward_from_device_exten(d)
                                                        ELSE cancel_callforward_input(d)
              [] d.callfwd = "ACTIVE"     -> clear_callforward(d))

Backspace ==
  /\ Handling
  /\ device.callfwd = "INPUTEXTEN"
  /\ \E d \in Locked(SessionThread) : Done(cancel_callforward_input(d))

(* on_dial_timeout and on_fwd_timeout: the task runner has removed the     *)
(* task before it calls it.  They do not look at the state of the device.  *)
DialTimeout(s) ==
  /\ SessionIsFree
  /\ s \in device.dialtimers
  /\ \E d \in Locked(SessionThread) :
       start_the_call([d EXCEPT !.dialtimers = @ \ {s}], s)

FwdTimeout ==
  /\ SessionIsFree
  /\ device.fwdtimer
  /\ \E d \in Locked(SessionThread) :
       Done(set_callforward_from_device_exten([d EXCEPT !.fwdtimer = FALSE]))

(* start_the_call, once it has locked the device again: the channel could  *)
(* not be allocated; or the subchannel cannot have it (it has one already, *)
(* or no codec will do) and is cleared; or the call starts.                *)
CallFails ==
  /\ sthread.pc = "alloc" /\ todo[SessionThread] = << >>
  /\ sthread' = Idle
  /\ UNCHANGED <<device, chan, todo, ooms>>

CallIsRefused ==
  /\ sthread.pc = "alloc" /\ todo[SessionThread] = << >>
  /\ \E d \in Locked(SessionThread) :
       Unlock(SessionThread, do_clear_subchannel(d, sthread.subchan))
  /\ sthread' = Idle
  /\ UNCHANGED chan

CallStarts(c) ==
  LET s == sthread.subchan
  IN  /\ sthread.pc = "alloc" /\ todo[SessionThread] = << >>
      /\ chan[c].stage = "free"
      /\ device.sub[s].chan = NULL
      /\ \E l \in Locked(SessionThread) :
           LET d == [sccp_subchannel_set_channel(l, s, c) EXCEPT
                       !.sub[s].state = "RINGOUT", !.exten = FALSE]
           IN  Unlock(SessionThread, add_nolock_task(d, StartTask(c)).d)
      /\ chan' = [chan EXCEPT ![c].stage = "placed", ![c].pvt = s]
      /\ sthread' = Idle

(* sccp_device_on_connection_lost; then, or for any other reason, the      *)
(* session ends and sccp_device_destroy is called, with the task runner    *)
(* never to be run again.                                                  *)
ConnectionLost ==
  /\ SessionIsFree
  /\ \E d \in Locked(SessionThread) : Done([d EXCEPT !.state = "CONNLOST"])

sccp_device_destroy ==
  /\ sthread.pc = "idle" /\ todo[SessionThread] = << >>
  /\ \E d \in Locked(SessionThread) :
       Unlock(SessionThread, [sccp_line_destroy(d) EXCEPT !.state = "DESTROYED"])
  /\ sthread' = [pc |-> "done", subchan |-> NULL]
  /\ UNCHANGED chan

SessionNext ==
  \/ NewCall \/ AnswerCall \/ EndCall \/ Hold \/ Resume \/ Transfer
  \/ Digit \/ Pound \/ EnblocCall \/ SpeedDial \/ OpenReceiveChannelAck
  \/ CfwdAll \/ Backspace \/ FwdTimeout \/ CallFails \/ CallIsRefused
  \/ ConnectionLost \/ sccp_device_destroy
  \/ \E s \in Subchans : DialTimeout(s)
  \/ \E c \in Chans : CallStarts(c)

-----------------------------------------------------------------------------
(* The threads of the channels.                                            *)

(* sccp_channel_tech_requester, past the allocation of the channel: the    *)
(* subchannel takes it, or is cleared because no codec will do.            *)
Request(c) ==
  /\ "incoming" \in Features
  /\ chan[c].stage = "free"
  /\ device.state # "DESTROYED"
  /\ \E d \in Locked(c) : \E s \in NewSubchannels(d) :
       LET new == sccp_line_new_subchannel(d, s, "incoming")
       IN  \/ /\ Unlock(c, do_clear_subchannel(new, s))
              /\ UNCHANGED chan
           \/ \E auto \in IF "autoanswer" \in Features THEN BOOLEAN ELSE {FALSE} :
                /\ Unlock(c, [sccp_subchannel_set_channel(new, s, c) EXCEPT
                                !.sub[s].autoanswer = auto])
                /\ chan' = [chan EXCEPT ![c].stage = "requested", ![c].pvt = s]
  /\ UNCHANGED sthread

(* sccp_channel_tech_call: a device that forwards its calls, or that is    *)
(* destroyed, does not ring.                                               *)
Rings(d, s) ==
  LET ringing == [d EXCEPT !.sub[s].state = "RINGIN"]
  IN  IF d.sub[s].autoanswer THEN do_answer(ringing, s) ELSE ringing

sccp_channel_tech_call(c) ==
  /\ chan[c].stage = "requested"
  /\ \E d \in Locked(c) :
       Unlock(c, IF d.state = "DESTROYED" \/ d.callfwd = "ACTIVE" THEN d
                                                                ELSE Rings(d, chan[c].pvt))
  /\ chan' = [chan EXCEPT ![c].stage = "called"]
  /\ UNCHANGED sthread

\* Variant for the mutation runs: a destroyed device is not told apart.
Cleared_Always(d, s) == do_clear_subchannel(d, s)

(* What sccp_channel_tech_hangup does with the device locked: the list of  *)
(* a destroyed device has given its reference back already.                *)
Cleared(d, s) ==
  IF d.state = "DESTROYED"
  THEN [d EXCEPT !.sub[s] = [@ EXCEPT !.rtp = FALSE, !.chan = NULL]]
  ELSE do_clear_subchannel(d, s)

(* A channel may be hung up at any time once its thread runs it; tech_pvt  *)
(* gives its reference back.                                               *)
sccp_channel_tech_hangup(c) ==
  /\ chan[c].stage \in {"requested", "called", "started"}
  /\ todo[c] = << >>
  /\ \E d \in Locked(c) :
       Unlock(c, [Cleared(d, chan[c].pvt) EXCEPT !.sub[chan[c].pvt].refs = @ - 1])
  /\ chan' = [chan EXCEPT ![c] = [stage |-> "released", pvt |-> NULL, hangup |-> FALSE]]
  /\ UNCHANGED sthread

(* sccp_channel_tech_answer: the called party has answered. *)
sccp_channel_tech_answer(c) ==
  LET s == chan[c].pvt
  IN  /\ chan[c].stage = "started" /\ ~chan[c].hangup
      /\ todo[c] = << >>
      /\ device.state # "DESTROYED"
      /\ device.sub[s].state = "RINGOUT"
      /\ \E l \in Locked(c) :
           LET d == [l EXCEPT !.sub[s].state = "CONNECTED"]
           IN  Unlock(c, IF d.sub[s].rtp THEN d ELSE transmit_subchan_open_receive_channel(d))
      /\ UNCHANGED <<chan, sthread>>

(* sccp_channel_tech_write, where it changes something: early media. *)
sccp_channel_tech_write(c) ==
  LET s == chan[c].pvt
  IN  /\ "earlymedia" \in Features
      /\ chan[c].stage \in {"called", "started"}
      /\ todo[c] = << >>
      /\ device.state # "DESTROYED"
      /\ s = device.active /\ ~device.sub[s].rtp /\ device.recv = "CLOSED"
      /\ \E d \in Locked(c) : Unlock(c, transmit_subchan_open_receive_channel(d))
      /\ UNCHANGED <<chan, sthread>>

ChannelNext(c) ==
  \/ Request(c) \/ sccp_channel_tech_call(c) \/ sccp_channel_tech_hangup(c)
  \/ sccp_channel_tech_answer(c) \/ sccp_channel_tech_write(c)

-----------------------------------------------------------------------------
Next ==
  \/ SessionNext
  \/ \E c \in Chans : ChannelNext(c)
  \/ \E t \in Threads : ExecTask(t)

Spec == Init /\ [][Next]_vars

(* Every thread executes the tasks it has taken, the session thread goes   *)
(* through start_the_call, and Asterisk hangs up a channel it was asked to *)
(* hang up.  Nothing obliges the user, the phone or the other party.       *)
Fairness ==
  /\ \A t \in Threads : WF_vars(ExecTask(t))
  /\ WF_vars(CallFails \/ CallIsRefused \/ \E c \in Chans : CallStarts(c))
  /\ \A c \in Chans : WF_vars(chan[c].hangup /\ sccp_channel_tech_hangup(c))

FairSpec == Spec /\ Fairness

-----------------------------------------------------------------------------
TypeOK ==
  /\ device \in DeviceType
  /\ chan \in [Chans -> [stage : Stage, pvt : Subchans \cup {NULL}, hangup : BOOLEAN]]
  /\ sthread \in [pc : {"idle", "alloc", "done"}, subchan : Subchans \cup {NULL}]
  /\ todo \in [Threads -> Seq(NolockTask)]
  /\ ooms \in 0 .. MaxOoms

Pvts(s) == {c \in Chans : chan[c].pvt = s}

(* The reference count of a subchannel is the number of its holders, the   *)
(* line's list and the tech_pvt of a channel, whatever order the session   *)
(* thread, the channel's thread and the end of the session clear it in: it *)
(* is neither freed under a holder nor leaked.                             *)
RefsMatchHolders ==
  \A s \in Subchans :
    device.sub[s].refs = Cardinality(Pvts(s)) + (IF s \in Listed(device) THEN 1 ELSE 0)

(* A subchannel and its channel point to each other until the channel is   *)
(* hung up, even when the device is destroyed first.                       *)
LinksAgree ==
  \A s \in Subchans, c \in Chans : chan[c].pvt = s <=> device.sub[s].chan = c

(* active_subchan is a bare pointer into the list.                         *)
ActiveIsListed ==
  device.state # "DESTROYED" => device.active \in Listed(device) \cup {NULL}

(* What the device, its list and its channels point to is what points      *)
(* back, whichever thread took a subchannel away.                          *)
ListIsSound == TypeOK /\ LinksAgree /\ ActiveIsListed

(* What a dial timer is armed with is in the list too: when it fires, the  *)
(* subchannel is still there and has no call yet.                          *)
TimersAreSafe ==
  device.state # "DESTROYED" =>
    \A s \in device.dialtimers :
      s \in Listed(device) /\ device.sub[s].state = "OFFHOOK" /\ device.sub[s].chan = NULL

(* The timer that ends the input of a number to forward to is armed only   *)
(* during the input: later it would replace the number by an empty one.    *)
FwdTimerInInput == device.fwdtimer => device.callfwd = "INPUTEXTEN"

(* While start_the_call has the device unlocked ("you must check that your *)
(* invariant still make sense"), the subchannel it works for stays in the  *)
(* list.                                                                   *)
CallBeingPlacedIsListed ==
  sthread.pc = "alloc" => sthread.subchan \in Listed(device)

(* The two calls of a transfer are related to each other, and both exist.  *)
TransferPairs ==
  device.state # "DESTROYED" =>
    \A s \in Subchans : device.sub[s].related # NULL =>
      LET r == device.sub[s].related
      IN  device.sub[r].related = s /\ {r, s} \subseteq Listed(device) /\ r # s

(* "This should not happen" (sccp_subchannel_destructor): nothing that the *)
(* subchannel points to is left when its last reference goes.              *)
NothingLeftInDestructor ==
  \A s \in Subchans :
    (device.sub[s].dir # "none" /\ device.sub[s].refs = 0) =>
      device.sub[s].chan = NULL /\ ~device.sub[s].rtp

(* Once the device is destroyed, its subchannels are all freed, though     *)
(* nobody but the channels knows them any more; unless the memory ran out, *)
(* for a hangup or a start that cannot be queued is lost.                  *)
DestroyedIsFreed ==
  (device.state = "DESTROYED" /\ ooms = 0) ~> (\A s \in Subchans : device.sub[s].refs = 0)

(* "subchan already has a channel" is logged as an error by                *)
(* sccp_subchannel_set_channel: no call is started on a subchannel that    *)
(* has a channel.                                                          *)
NoSecondChannel == sthread.pc = "alloc" => device.sub[sthread.subchan].chan = NULL

(* "no subchan but recv chan status not closed" is a fault                 *)
(* (do_clear_subchannel): an idle device has closed its receive channel.   *)
IdleIsClosed == ~device.fault

(* "Not thread safe" (sccp_task.h), "Must be called only from the session  *)
(* thread" (sccp_session.h): only the session thread uses the task runner. *)
RunnerInSessionThread == ~device.offthread
=============================================================================
