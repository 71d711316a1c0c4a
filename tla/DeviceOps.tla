------------------------------ MODULE DeviceOps ------------------------------
(***************************************************************************)
(* The part of struct sccp_device that its mutex protects, as a value, and *)
(* the do_* functions of sccp_device.c as operators on it.  They all run   *)
(* with the device locked, so whoever calls them takes one step.           *)
(*                                                                         *)
(* A device has one line, whose list of subchannels is d.subchans; the     *)
(* struct sccp_subchannel objects themselves are d.sub.  A field that only *)
(* reaches the phone's display, or the audio, is left out.                 *)
(***************************************************************************)
EXTENDS Integers, Sequences, SequencesExt

CONSTANTS
  Subchans,   \* the subchannels that may be created, each of them once
  Chans,      \* the Asterisk channels that may be allocated, each of them once
  NULL        \* no subchannel, no channel, no thread

SessionThread == "session"
Threads == {SessionThread} \cup Chans   \* each channel is run by a thread of its own

ASSUME DeviceOpsAssumption ==
  /\ NULL \notin Subchans \cup Chans
  /\ SessionThread \notin Chans

(* struct sccp_subchannel; dir is "none" as long as it is not created.     *)
SubchannelType ==
  [dir : {"none", "incoming", "outgoing"},
   state : {"OFFHOOK", "RINGIN", "RINGOUT", "CONNECTED"},
   chan : Chans \cup {NULL},
   rtp : BOOLEAN, resuming : BOOLEAN, autoanswer : BOOLEAN,
   related : Subchans \cup {NULL},
   refs : Int]

(* A nolock task that changes what a channel does next.                    *)
HangupTask(c)          == [exec |-> "queue_hangup", chan |-> c, other |-> NULL]
StartTask(c)           == [exec |-> "start_channel", chan |-> c, other |-> NULL]
TransferTask(to, from) == [exec |-> "transfer", chan |-> to, other |-> from]

NolockTask ==
  [exec : {"queue_hangup", "start_channel", "transfer"},
   chan : Chans, other : Chans \cup {NULL}]

(* struct sccp_device.  holder owns the mutex and oom is what cannot be    *)
(* allocated meanwhile; dialtimers and fwdtimer are the device's tasks in  *)
(* the session's task runner, and offthread tells whether the task runner  *)
(* was ever called by another thread; acks is the number of                *)
(* OpenReceiveChannel messages that the phone has yet to acknowledge.      *)
DeviceType ==
  [state : {"WORKING", "CONNLOST", "DESTROYED"},
   subchans : Seq(Subchans),
   sub : [Subchans -> SubchannelType],
   active : Subchans \cup {NULL},
   recv : {"CLOSED", "OPENING", "OPENED"},
   acks : Nat,
   callfwd : {"INACTIVE", "INPUTEXTEN", "ACTIVE"},
   exten : BOOLEAN,
   dialtimers : SUBSET Subchans,
   fwdtimer : BOOLEAN,
   fault : BOOLEAN,
   tasks : Seq(NolockTask),
   offthread : BOOLEAN,
   holder : Threads \cup {NULL},
   oom : {"none", "task", "subchan"}]

NewSubchannel ==
  [dir |-> "none", state |-> "OFFHOOK", chan |-> NULL, rtp |-> FALSE,
   resuming |-> FALSE, autoanswer |-> FALSE, related |-> NULL, refs |-> 0]

(* The device as sccp_device_on_registration_success leaves it. *)
RegisteredDevice ==
  [state |-> "WORKING", subchans |-> << >>, sub |-> [s \in Subchans |-> NewSubchannel],
   active |-> NULL, recv |-> "CLOSED", acks |-> 0, callfwd |-> "INACTIVE",
   exten |-> FALSE, dialtimers |-> {}, fwdtimer |-> FALSE, fault |-> FALSE,
   tasks |-> << >>, offthread |-> FALSE, holder |-> NULL, oom |-> "none"]

-----------------------------------------------------------------------------
Listed(d) == Range(d.subchans)
Unused(d) == {s \in Subchans : d.sub[s].dir = "none"}

(* sccp_lines_get_next_subchan: the first of the list in that state, or    *)
(* NULL.                                                                   *)
FirstInState(d, state) ==
  LET i == SelectInSeq(d.subchans, LAMBDA s : d.sub[s].state = state)
  IN  IF i = 0 THEN NULL ELSE d.subchans[i]

Result(ok, d) == [ok |-> ok, d |-> d]

sccp_device_panic(d) ==
  IF d.state = "WORKING" THEN [d EXCEPT !.state = "CONNLOST"] ELSE d

(* add_nolock_task. A task without a lasting effect on its channel (hold,  *)
(* unhold, answer, DTMF) can fail as any other but is not kept.            *)
CanAddTask(d) == IF d.oom = "task" THEN Result(FALSE, sccp_device_panic(d))
                                   ELSE Result(TRUE, d)

add_nolock_task(d, task) ==
  IF d.oom = "task" THEN Result(FALSE, sccp_device_panic(d))
                    ELSE Result(TRUE, [d EXCEPT !.tasks = Append(@, task)])

(* The task runner of the session is called with the device locked. *)
UseRunner(d) == [d EXCEPT !.offthread = @ \/ d.holder # SessionThread]

add_dialtimeout_task(d, s)    == [UseRunner(d) EXCEPT !.dialtimers = @ \cup {s}]
remove_dialtimeout_task(d, s) == [UseRunner(d) EXCEPT !.dialtimers = @ \ {s}]
add_fwdtimeout_task(d)        == [UseRunner(d) EXCEPT !.fwdtimer = TRUE]
remove_fwdtimeout_task(d)     == [UseRunner(d) EXCEPT !.fwdtimer = FALSE]

transmit_close_receive_channel(d) == [d EXCEPT !.recv = "CLOSED"]

transmit_subchan_open_receive_channel(d) ==
  IF d.recv = "CLOSED" THEN [d EXCEPT !.recv = "OPENING", !.acks = @ + 1] ELSE d

(* sccp_line_new_subchannel: the list holds the reference. *)
NewSubchannels(d) == IF d.oom = "subchan" THEN {} ELSE Unused(d)

sccp_line_new_subchannel(d, s, dir) ==
  [d EXCEPT !.subchans = Append(@, s),
            !.sub[s] = [NewSubchannel EXCEPT !.dir = dir, !.refs = 1]]

\* Variant for the mutation runs: the related subchannel keeps pointing to this one.
Unlinked_KeepsRelated(d, s) ==
  [d.sub EXCEPT ![s] = [@ EXCEPT !.rtp = FALSE, !.chan = NULL, !.related = NULL,
                                 !.refs = @ - 1]]

\* Variant for the mutation runs: the RTP instance is left alone.
Unlinked_KeepsRtp(d, s) ==
  [x \in Subchans |->
     CASE x = s -> [d.sub[s] EXCEPT !.chan = NULL, !.related = NULL, !.refs = @ - 1]
       [] x # s /\ d.sub[s].related = x -> [d.sub[x] EXCEPT !.related = NULL]
       [] OTHER -> d.sub[x]]

(* The subchannels once s holds nothing: neither an RTP instance, nor a    *)
(* channel, nor a related subchannel, nor the reference of the list.       *)
Unlinked(d, s) ==
  [x \in Subchans |->
     CASE x = s -> [d.sub[s] EXCEPT !.rtp = FALSE, !.chan = NULL, !.related = NULL,
                                    !.refs = @ - 1]
       [] x # s /\ d.sub[s].related = x -> [d.sub[x] EXCEPT !.related = NULL]
       [] OTHER -> d.sub[x]]

(* do_clear_subchannel.  A receive channel that is open for the active     *)
(* subchannel is closed; the reference of the list is given back whether   *)
(* or not the subchannel was still in the list; a device that becomes idle *)
(* with its receive channel open is at fault.                              *)
do_clear_subchannel(d, s) ==
  LET recv == IF s = d.active THEN "CLOSED" ELSE d.recv
      list == RemoveFirst(d.subchans, s)
  IN  [d EXCEPT !.sub = Unlinked(d, s),
                !.subchans = list,
                !.active = IF @ = s THEN NULL ELSE @,
                !.recv = recv,
                !.fault = @ \/ (list = << >> /\ recv # "CLOSED")]

(* do_hold, on a device with an active subchannel. *)
do_hold(d) ==
  LET added == IF d.sub[d.active].chan # NULL THEN CanAddTask(d) ELSE Result(TRUE, d)
  IN  IF added.ok
      THEN Result(TRUE, [transmit_close_receive_channel(d) EXCEPT !.active = NULL])
      ELSE added

HoldActive(d) == IF d.active # NULL THEN do_hold(d) ELSE Result(TRUE, d)

(* do_resume, on a device without an active subchannel. *)
do_resume(d, s) ==
  LET resumed == [d EXCEPT !.active = s]
  IN  IF d.sub[s].rtp
      THEN transmit_subchan_open_receive_channel([resumed EXCEPT !.sub[s].resuming = TRUE])
      ELSE resumed

(* do_newcall_options: the subchannels it may return (NULL when none) and  *)
(* the device it leaves.                                                   *)
do_newcall(d) ==
  LET held == HoldActive(d)
  IN  CASE FirstInState(d, "RINGOUT") # NULL -> {[subchan |-> NULL, d |-> d]}
        [] FirstInState(d, "RINGOUT") = NULL /\ FirstInState(d, "OFFHOOK") # NULL ->
             {[subchan |-> FirstInState(d, "OFFHOOK"), d |-> d]}
        [] OTHER ->
             IF held.ok /\ NewSubchannels(d) # {}
             THEN {[subchan |-> s,
                    d |-> [sccp_line_new_subchannel(held.d, s, "outgoing")
                             EXCEPT !.active = s]] : s \in NewSubchannels(d)}
             ELSE {[subchan |-> NULL, d |-> held.d]}

\* Variant for the mutation runs: the timer stays armed.
do_hangup_KeepsTimer(d, s) ==
  LET cleared == [d EXCEPT !.exten = FALSE]
  IN  IF d.sub[s].chan # NULL THEN add_nolock_task(cleared, HangupTask(d.sub[s].chan)).d
                              ELSE do_clear_subchannel(cleared, s)

\* Variant for the mutation runs: the subchannel is cleared although its channel is up.
do_hangup_ClearsNow(d, s) ==
  do_clear_subchannel(remove_dialtimeout_task([d EXCEPT !.exten = FALSE], s), s)

(* do_hangup: a subchannel without a channel is cleared at once; the       *)
(* channel of any other is asked to hang up, and clears it when it does.   *)
do_hangup(d, s) ==
  LET cleared == remove_dialtimeout_task([d EXCEPT !.exten = FALSE], s)
  IN  IF d.sub[s].chan # NULL THEN add_nolock_task(cleared, HangupTask(d.sub[s].chan)).d
                              ELSE do_clear_subchannel(cleared, s)

\* Variant for the mutation runs: an active call that is being dialled is hung up too.
do_answer_HangsUpOffhook(d, s) ==
  LET other == IF d.active # NULL /\ d.sub[d.active].state \in {"OFFHOOK", "RINGOUT"}
               THEN Result(TRUE, do_hangup(d, d.active))
               ELSE HoldActive(d)
  IN  CASE d.sub[s].chan = NULL \/ d.sub[s].state # "RINGIN" -> d
        [] d.sub[s].chan # NULL /\ d.sub[s].state = "RINGIN" /\ ~other.ok -> other.d
        [] OTHER -> transmit_subchan_open_receive_channel(
                      [other.d EXCEPT !.active = s, !.sub[s].state = "CONNECTED"])

(* do_answer_options: the active call is hung up if it is ringing out,     *)
(* whatever comes of that, and put on hold otherwise.                      *)
do_answer(d, s) ==
  LET other == IF d.active # NULL /\ d.sub[d.active].state = "RINGOUT"
               THEN Result(TRUE, do_hangup(d, d.active))
               ELSE HoldActive(d)
  IN  CASE d.sub[s].chan = NULL \/ d.sub[s].state # "RINGIN" -> d
        [] d.sub[s].chan # NULL /\ d.sub[s].state = "RINGIN" /\ ~other.ok -> other.d
        [] OTHER -> transmit_subchan_open_receive_channel(
                      [other.d EXCEPT !.active = s, !.sub[s].state = "CONNECTED"])

(* sccp_subchannel_set_channel, once it has found a codec: the channel's   *)
(* tech_pvt is a reference to the subchannel.                              *)
sccp_subchannel_set_channel(d, s, c) ==
  [d EXCEPT !.sub[s].chan = c, !.sub[s].refs = @ + 1]

\* Variant for the mutation runs: the timer of the input stays armed.
set_callforward_KeepsTimer(d) == [d EXCEPT !.callfwd = "ACTIVE"]

(* set_callforward, clear_callforward, cancel_callforward_input. *)
set_callforward(d) == remove_fwdtimeout_task([d EXCEPT !.callfwd = "ACTIVE"])
set_callforward_from_device_exten(d) == [set_callforward(d) EXCEPT !.exten = FALSE]
clear_callforward(d) == [d EXCEPT !.callfwd = "INACTIVE"]
cancel_callforward_input(d) ==
  remove_fwdtimeout_task([d EXCEPT !.callfwd = "INACTIVE", !.exten = FALSE])

\* Variant for the mutation runs: only the first of the list is hung up.
HangupTasks_First(d) ==
  LET i == SelectInSeq(d.subchans, LAMBDA s : d.sub[s].chan # NULL)
  IN  IF d.oom = "task" \/ i = 0 THEN << >> ELSE << HangupTask(d.sub[d.subchans[i]].chan) >>

(* sccp_line_destroy on the device's line: the subchannels leave the list; *)
(* those that have a channel are cleared when it hangs up.                 *)
HangupTasks(d) ==
  LET upTo[i \in 0 .. Len(d.subchans)] ==
        IF i = 0 THEN << >>
        ELSE IF d.oom = "task" \/ d.sub[d.subchans[i]].chan = NULL THEN upTo[i - 1]
        ELSE Append(upTo[i - 1], HangupTask(d.sub[d.subchans[i]].chan))
  IN  upTo[Len(d.subchans)]

sccp_line_destroy(d) ==
  [d EXCEPT !.subchans = << >>,
            !.tasks = @ \o HangupTasks(d),
            !.sub = [s \in Subchans |->
                       IF s \notin Listed(d) THEN d.sub[s]
                       ELSE [d.sub[s] EXCEPT !.refs = @ - 1,
                                             !.rtp = @ /\ d.sub[s].chan # NULL]]]
=============================================================================
