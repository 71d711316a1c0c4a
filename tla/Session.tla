------------------------------- MODULE Session -------------------------------
(***************************************************************************)
(* One session thread (sccp_session.c): the loop that polls the socket and *)
(* the session's queue, with the deserializer that cuts the stream into    *)
(* messages and the task runner that keeps the session's timers.  Around   *)
(* it are the phone and its connection, the clock, and the other threads   *)
(* that stop the session or send it a message.                             *)
(*                                                                         *)
(* Three tasks stand for all: the authentication timer, the keep-alive     *)
(* timer, and a timer of the device (those of dialling and of forwarding   *)
(* are followed in Device).  What a message says is open: whatever the     *)
(* session or the device may do with one may happen.                       *)
(***************************************************************************)
EXTENDS DeserializerOps, TaskRunnerOps

CONSTANTS
  AuthTimeout,   \* general_cfg->authtimeout, in ticks
  KeepAlive,     \* twice the device's keepalive, in ticks
  CallTimeout,   \* the delay of the device's other task, in ticks
  SockSize,      \* bound: bytes on their way from the phone
  MaxQueue,      \* bound: messages in the session's queue
  MaxOoms        \* bound: tasks that cannot be allocated

ASSUME SessionAssumption ==
  /\ Tasks = {"auth", "keepalive", "call"}
  /\ {AuthTimeout, KeepAlive, CallTimeout} \subseteq 1 .. MaxDelay
  /\ SockSize \in Nat /\ MaxQueue \in Nat /\ MaxOoms \in Nat

VARIABLES
  pc,        \* where the session thread is
  sockReady, \* what poll said of the socket, for as long as it matters
  stop,      \* session->stop
  queue,     \* session->sync_q
  tasks,     \* session->task_runner
  dzer,      \* session->deserializer
  unread,    \* the bytes in the socket
  eof,       \* the phone has closed the connection
  device,    \* session->device, and whether the connection is lost
  ooms,      \* tasks that could not be allocated
  ran,       \* history: the task whose callback ran last, until another event is handled
  quiet      \* history: ticks since the phone sent anything

net == <<unread, eof>>
vars == <<pc, sockReady, stop, queue, tasks, dzer, unread, eof, device, ooms, ran, quiet>>

Delay == [auth |-> AuthTimeout, keepalive |-> KeepAlive, call |-> CallTimeout]

Init ==
  /\ pc = "start" /\ sockReady = FALSE /\ stop = FALSE /\ queue = << >>
  /\ tasks = sccp_task_runner_create
  /\ dzer = sccp_deserializer_init
  /\ unread = << >> /\ eof = FALSE
  /\ device = "none"
  /\ ooms = 0 /\ ran = {} /\ quiet = 0

-----------------------------------------------------------------------------
(* The phone, the clock and the other threads.                             *)

(* What arrives once poll has found nothing is too late for the timers.    *)
PhoneSends ==
  /\ ~eof
  /\ \E claim \in Claims :
       /\ Len(unread) + SentLen(claim) <= SockSize
       /\ unread' = unread \o BytesOf(claim)
  /\ quiet' = IF pc = "tasks" THEN quiet ELSE 0
  /\ UNCHANGED <<pc, sockReady, stop, queue, tasks, dzer, eof, device, ooms, ran>>

(* The connection ends, perhaps in the middle of a message. *)
PhoneCloses ==
  /\ ~eof
  /\ eof' = TRUE
  /\ \E n \in 0 .. Len(unread) : unread' = SubSeq(unread, 1, n)
  /\ UNCHANGED <<pc, sockReady, stop, queue, tasks, dzer, device, ooms, ran, quiet>>

Tick ==
  /\ tasks' = Ticked(tasks)
  /\ quiet' = IF quiet < MaxDelay THEN quiet + 1 ELSE quiet
  /\ UNCHANGED <<pc, sockReady, stop, queue, dzer, net, device, ooms, ran>>

(* sccp_session_stop, by the server, or by a channel's thread whose device *)
(* panics.                                                                 *)
Stop ==
  /\ pc # "done"
  /\ Len(queue) < MaxQueue
  /\ stop' = TRUE
  /\ queue' = Append(queue, "noop")
  /\ UNCHANGED <<pc, sockReady, tasks, dzer, net, device, ooms, ran, quiet>>

(* A channel's thread cannot write all of a message: sccp_session_transmit *)
(* sets the flag and wakes nobody.                                         *)
TransmitFails ==
  /\ device # "none"
  /\ stop' = TRUE
  /\ UNCHANGED <<pc, sockReady, queue, tasks, dzer, net, device, ooms, ran, quiet>>

(* sccp_session_reload_config. *)
Reload ==
  /\ pc # "done"
  /\ Len(queue) < MaxQueue
  /\ queue' = Append(queue, "reload")
  /\ UNCHANGED <<pc, sockReady, stop, tasks, dzer, net, device, ooms, ran, quiet>>

-----------------------------------------------------------------------------
(* The session thread: sccp_session_run.                                   *)

(* A task is armed, if it can be. *)
Arm(r, t) == AddOutcomes(r, t, Delay[t], ooms < MaxOoms)
Count(r, t) == ooms' = IF t \in Known(r) THEN ooms ELSE ooms + 1

SetTasks(outcomes, t) ==
  \E r \in outcomes : tasks' = r /\ Count(r, t)

add_auth_timeout_task ==
  /\ pc = "start"
  /\ SetTasks(Arm(tasks, "auth"), "auth")
  /\ pc' = "poll"
  /\ UNCHANGED <<sockReady, stop, queue, dzer, net, device, ran, quiet>>

Readable == unread # << >> \/ eof

PollFails ==
  /\ pc = "poll"
  /\ pc' = "end"
  /\ UNCHANGED <<sockReady, stop, queue, tasks, dzer, net, device, ooms, ran, quiet>>

(* poll reports the queue or the socket, or both; the stop flag goes first. *)
PollEvents ==
  /\ pc = "poll"
  /\ Readable \/ queue # << >>
  /\ pc' = CASE stop -> "end"
             [] ~stop /\ queue # << >> -> "queue"
             [] OTHER -> "sock"
  /\ sockReady' = Readable
  /\ UNCHANGED <<stop, queue, tasks, dzer, net, device, ooms, ran, quiet>>

(* Nothing happened until the first task was due: only then are tasks run. *)
PollTimesOut ==
  /\ pc = "poll"
  /\ ~Readable /\ queue = << >>
  /\ Due(tasks) # {}
  /\ pc' = IF stop THEN "end" ELSE "tasks"
  /\ UNCHANGED <<sockReady, stop, queue, tasks, dzer, net, device, ooms, ran, quiet>>

(* on_auth_timeout; on_keepalive_timeout, which calls sccp_session_stop;   *)
(* and any other timer of the device.                                      *)
Callback(t) ==
  CASE t = "auth"      -> stop' = TRUE /\ UNCHANGED queue
    [] t = "keepalive" -> stop' = TRUE /\ queue' = Append(queue, "noop")
    [] OTHER           -> UNCHANGED <<stop, queue>>

sccp_task_runner_run ==
  /\ pc = "tasks"
  /\ IF Due(tasks) # {}
     THEN \E t \in Due(tasks) :
            /\ tasks' = sccp_task_runner_remove(tasks, t)
            /\ Callback(t)
            /\ ran' = {t}
            /\ pc' = pc
     ELSE /\ pc' = IF stop THEN "end" ELSE "poll"
          /\ ran' = {}
          /\ UNCHANGED <<tasks, stop, queue>>
  /\ UNCHANGED <<sockReady, dzer, net, device, ooms, quiet>>

(* sccp_session_on_queue_events: all messages, also those that follow one  *)
(* that stops the session (the device is not configured any more).         *)
on_queue_events ==
  /\ pc = "queue"
  /\ queue' = << >>
  /\ ran' = {}
  /\ \/ UNCHANGED stop
     \/ /\ device # "none" /\ \E i \in DOMAIN queue : queue[i] = "reload"
        /\ stop' = TRUE
  /\ pc' = CASE stop' -> "end"
             [] ~stop' /\ sockReady -> "sock"
             [] OTHER -> "poll"
  /\ UNCHANGED <<sockReady, tasks, dzer, net, device, ooms, quiet>>

StopNow == pc' = "end" /\ stop' = TRUE

(* sccp_session_read_sock: data re-arms the keep-alive timer; the end of   *)
(* the file is a lost connection; no room, or a failing read, ends the     *)
(* session too.                                                            *)
ReadData ==
  /\ pc = "sock" /\ BytesLeft(dzer) > 0 /\ unread # << >>
  /\ \E n \in 1 .. Len(unread) :
       /\ n <= BytesLeft(dzer)
       /\ dzer' = Filled(dzer, SubSeq(unread, 1, n))
       /\ unread' = SubSeq(unread, n + 1, Len(unread))
  /\ IF device # "none" THEN SetTasks(Arm(tasks, "keepalive"), "keepalive")
                        ELSE UNCHANGED <<tasks, ooms>>
  /\ pc' = "pop"
  /\ ran' = {}
  /\ UNCHANGED <<sockReady, stop, queue, eof, device, quiet>>

ReadEof ==
  /\ pc = "sock" /\ BytesLeft(dzer) > 0 /\ unread = << >> /\ eof
  /\ StopNow
  /\ device' = IF device = "working" THEN "connlost" ELSE device
  /\ UNCHANGED <<sockReady, queue, tasks, dzer, net, ooms, ran, quiet>>

ReadFails ==
  /\ pc = "sock"
  /\ StopNow
  /\ UNCHANGED <<sockReady, queue, tasks, dzer, net, device, ooms, ran, quiet>>

\* Variants for the mutation runs: the authentication timer goes with the attempt;
\* the device gets no timer.
handle_msg_register_RemovesFirst ==
  \/ /\ tasks' = sccp_task_runner_remove(tasks, "auth")
     /\ UNCHANGED <<device, stop, queue, ooms>>
  \/ /\ device' = "working"
     /\ SetTasks(Arm(sccp_task_runner_remove(tasks, "auth"), "keepalive"), "keepalive")
     /\ UNCHANGED <<stop, queue>>

handle_msg_register_NoTimer ==
  \/ UNCHANGED <<device, tasks, stop, queue, ooms>>
  \/ /\ device' = "working"
     /\ tasks' = sccp_task_runner_remove(tasks, "auth")
     /\ UNCHANGED <<stop, queue, ooms>>

(* sccp_session_handle_msg_register: refused, the session waits for        *)
(* another attempt; accepted, the timers change hands.                     *)
handle_msg_register ==
  \/ UNCHANGED <<device, tasks, stop, queue, ooms>>
  \/ /\ device' = "working"
     /\ SetTasks(Arm(sccp_task_runner_remove(tasks, "auth"), "keepalive"), "keepalive")
     /\ UNCHANGED <<stop, queue>>

(* sccp_device_handle_msg: the device may arm or remove a timer, or stop   *)
(* the session (it unregisters, or cannot be told what it asks for).       *)
device_handle_msg ==
  /\ UNCHANGED device
  /\ \/ SetTasks(Arm(tasks, "call"), "call") /\ UNCHANGED <<stop, queue>>
     \/ /\ tasks' = sccp_task_runner_remove(tasks, "call")
        /\ UNCHANGED <<stop, queue, ooms>>
     \/ stop' = TRUE /\ queue' = Append(queue, "noop") /\ UNCHANGED <<tasks, ooms>>
     \/ UNCHANGED <<tasks, stop, queue, ooms>>

(* The loop of sccp_session_on_sock_events: it goes on after a message     *)
(* that stops the session.                                                 *)
HandleMsg ==
  LET popped == sccp_deserializer_pop(dzer)
  IN  /\ pc = "pop" /\ popped.code = "MSG"
      /\ dzer' = popped.d
      /\ \/ device = "none" /\ handle_msg_register
         \/ device = "none" /\ UNCHANGED <<device, tasks, stop, queue, ooms>>
         \/ device = "working" /\ device_handle_msg
      /\ ran' = {}
      /\ UNCHANGED <<pc, sockReady, net, quiet>>

NoMsg ==
  /\ pc = "pop" /\ sccp_deserializer_pop(dzer).code = "NOMSG"
  /\ pc' = IF stop THEN "end" ELSE "poll"
  /\ UNCHANGED <<sockReady, stop, queue, tasks, dzer, net, device, ooms, ran, quiet>>

Malformed ==
  /\ pc = "pop" /\ sccp_deserializer_pop(dzer).code = "MALFORMED"
  /\ StopNow
  /\ UNCHANGED <<sockReady, queue, tasks, dzer, net, device, ooms, ran, quiet>>

(* The queue is closed and emptied, and the device destroyed; the tasks    *)
(* stay in a task runner that nobody runs any more.                        *)
EndSession ==
  /\ pc = "end"
  /\ pc' = "done"
  /\ queue' = << >>
  /\ device' = "none"
  /\ UNCHANGED <<sockReady, stop, tasks, dzer, net, ooms, ran, quiet>>

-----------------------------------------------------------------------------
SessionThread ==
  \/ add_auth_timeout_task \/ PollEvents \/ PollTimesOut
  \/ sccp_task_runner_run \/ on_queue_events
  \/ ReadData \/ ReadEof \/ ReadFails \/ HandleMsg \/ NoMsg \/ Malformed
  \/ EndSession

Next == PhoneSends \/ PhoneCloses \/ Tick \/ Stop \/ TransmitFails \/ Reload
        \/ PollFails \/ SessionThread

Spec == Init /\ [][Next]_vars

(* The thread runs when it can (poll need not fail), and time passes.      *)
(* Nothing obliges the phone to send, nor to be quiet.                     *)
Fairness == WF_vars(SessionThread) /\ WF_vars(Tick)

FairSpec == Spec /\ Fairness

-----------------------------------------------------------------------------
TypeOK ==
  /\ pc \in {"start", "poll", "tasks", "queue", "sock", "pop", "end", "done"}
  /\ {sockReady, stop, eof} \subseteq BOOLEAN
  /\ queue \in Seq({"noop", "reload"}) /\ unread \in Seq(Byte)
  /\ tasks \in RunnerType /\ dzer \in DeserializerType
  /\ device \in {"none", "working", "connlost"}
  /\ ooms \in 0 .. MaxOoms /\ ran \subseteq Tasks /\ quiet \in 0 .. MaxDelay
  /\ dzer.start + Len(dzer.bytes) <= BufSize

(* "Device authentication timed out" and "Device has timed out": as long   *)
(* as the session waits for events, it has the timer that its phone's      *)
(* state calls for, and not the other one, whatever registrations were     *)
(* refused before.  (Unless the timer could not be allocated: the return   *)
(* values are ignored.)                                                    *)
TimersFollowDevice ==
  (pc = "poll" /\ ooms = 0) =>
    /\ device = "none" => tasks.heap \cap {"auth", "keepalive"} = {"auth"}
    /\ device # "none" => tasks.heap \cap {"auth", "keepalive"} = {"keepalive"}

(* A timer never ends a session that it should not: the keep-alive timer   *)
(* only runs after nothing came for the whole time, however late the       *)
(* session thread is, and the authentication timer only without a device.  *)
DropIsJustified ==
  /\ "keepalive" \in ran => quiet >= KeepAlive
  /\ "auth" \in ran => device = "none"

(* The stream is cut into messages where the phone joined it, whatever     *)
(* pieces it arrives in: what is in the buffer and in the socket is whole  *)
(* messages from the first byte on (but for one that the end of the        *)
(* connection cuts).                                                       *)
CutWhereJoined ==
  LET stream == dzer.bytes \o unread
  IN  \A i \in DOMAIN stream :
        IF stream[i].pos = 1
        THEN i > 1 => stream[i - 1].pos = SentLen(stream[i - 1].claim)
        ELSE i > 1 /\ stream[i - 1] = [stream[i] EXCEPT !.pos = @ - 1]

(* A message that has arrived does not wait in the buffer for more to come *)
(* when the session goes back to poll, which only looks at the socket.     *)
NothingLeftInBuffer == pc = "poll" => sccp_deserializer_pop(dzer).code = "NOMSG"

(* The buffer never runs over, and leaves no message behind. *)
BufferIsSound == TypeOK /\ NothingLeftInBuffer

(* The list and the heap of the task runner hold the same tasks, once, and *)
(* what runs is due: the task runner is a set of alarms.                   *)
Alarm == INSTANCE Alarms WITH
  left <- [t \in Tasks |-> IF t \in tasks.heap THEN tasks.left[t] ELSE -1],
  rung <- ran

ImplementsAlarms == Alarm!Spec

(* "The flag will be set when going back in the session_run": a session    *)
(* that is told to stop ends, even if nobody wakes it, and though its      *)
(* phone goes on sending.                                                  *)
StopEndsSession == [](ooms = 0) => (stop ~> pc = "done")

(* A phone that stops sending is dropped, registered or not, though its    *)
(* timers only run when poll returns without an event.                     *)
SilentPhoneIsDropped ==
  ([](ooms = 0) /\ <>[][~PhoneSends /\ ~Reload]_vars) => <>(pc = "done")

(* "Deserializer buffer is full -- probably invalid or too big message"    *)
(* (sccp_session_read_sock): a message that would fit does not fill it.    *)
FullIsTooBig ==
  (pc = "sock" /\ BytesLeft(dzer) = 0) =>
    LET claim == Head(dzer.bytes).claim IN IsMalformed(claim) \/ IsTooBig(claim)
=============================================================================
