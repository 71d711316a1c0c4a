------------------------------- MODULE Server -------------------------------
(***************************************************************************)
(* The server of sccp_server.c and the threads of its sessions             *)
(* (sccp_session.c), as the module's entry points in sccp.c drive them.    *)
(*                                                                         *)
(*   - the main thread loads the module, reloads the configuration, and    *)
(*     unloads the module, which stops and joins every other thread;       *)
(*   - the server thread polls its listening socket and its queue;         *)
(*   - one thread per session polls its socket and its queue.              *)
(*                                                                         *)
(* The threads talk through synchronized queues (SyncQueueOps) only,       *)
(* except for session->stop, which the main thread writes while the        *)
(* session thread reads it.  Configurations are reference-counted objects, *)
(* numbered in the order in which they were loaded.  What a session does   *)
(* with the data its device sends is left to other modules: here a socket  *)
(* event or a timer either ends the session or does not.                   *)
(***************************************************************************)
EXTENDS SyncQueueOps, FiniteSets

CONSTANTS
  Sessions,       \* the sessions that may be created, each of them once
  MaxReloads,     \* bound: reloads of the configuration
  MaxDebugs,      \* bound: changes of the debug settings at the CLI
  MaxCalls,       \* bound: both of these together
  MaxFaults,      \* bound: puts that fail
  StopFaults,     \* the faults that the put of the server's stop message may meet,
  MainFaults,     \* ... the other puts of the main thread,
  ServerFaults,   \* ... the puts of the server thread to its sessions,
  SessionFaults   \* ... and the puts of the session threads

TheServer == "server"   \* a receiver of reload messages, as each session is

ASSUME ServerAssumption ==
  /\ IsFiniteSet(Sessions) /\ TheServer \notin Sessions
  /\ {MaxReloads, MaxDebugs, MaxCalls, MaxFaults} \subseteq Nat
  /\ StopFaults \subseteq PutFaults
  /\ MainFaults \subseteq PutFaults
  /\ ServerFaults \subseteq PutFaults
  /\ SessionFaults \subseteq PutFaults

VARIABLES
  main,       \* where the main thread is
  globalCfg,  \* the configuration sccp_config_get returns
  srv,        \* the struct sccp_server and where its thread is
  srvQ,       \* server->sync_q
  srvBatch,   \* the messages the server thread has taken but not handled
  sess,       \* each struct sccp_session and where its thread is
  sessQ,      \* session->sync_q
  refs,       \* the reference count of each configuration
  missed,     \* the receivers that a reload message could not be queued to
  faults,     \* puts that failed so far
  debugs      \* sccp_server_reload_debug calls so far

vars == <<main, globalCfg, srv, srvQ, srvBatch, sess, sessQ, refs, missed, faults, debugs>>

Cfg == 0 .. MaxReloads

ReloadMsg(c)     == [id |-> "RELOAD_CONFIG", cfg |-> c]
SessionEndMsg(s) == [id |-> "SESSION_END", session |-> s]
DebugMsg         == [id |-> "RELOAD_DEBUG"]
StopMsg          == [id |-> "STOP"]
NoopMsg          == [id |-> "NOOP"]

ServerMsg ==
  {ReloadMsg(c) : c \in Cfg} \cup {SessionEndMsg(s) : s \in Sessions} \cup {DebugMsg, StopMsg}
SessionMsg == {ReloadMsg(c) : c \in Cfg} \cup {DebugMsg, NoopMsg}

NoSession == [pc |-> "none", stop |-> FALSE, cfg |-> 0]

Init ==
  /\ main = "created"
  /\ globalCfg = 0
  /\ srv = [state |-> "CREATED", pc |-> "none", stop |-> FALSE, cfg |-> 0,
            sessions |-> {}, todo |-> {}, wake |-> {}]
  /\ srvQ = CreateQueue
  /\ srvBatch = << >>
  /\ sess = [s \in Sessions |-> NoSession]
  /\ sessQ = [s \in Sessions |-> CreateQueue]
  /\ refs = [c \in Cfg |-> IF c = 0 THEN 2 ELSE 0]
  /\ missed = {}
  /\ faults = 0
  /\ debugs = 0

-----------------------------------------------------------------------------
(* References.                                                             *)

AddRef(r, c)  == [r EXCEPT ![c] = @ + 1]
DropRef(r, c) == [r EXCEPT ![c] = @ - 1]

IsReload(m) == m.id = "RELOAD_CONFIG"

(* The places of the messages that carry a configuration, and of those     *)
(* that carry c.                                                           *)
Reloads(msgs) == {i \in DOMAIN msgs : IsReload(msgs[i])}

Holding(msgs, c)    == {i \in Reloads(msgs) : msgs[i].cfg = c}
HeldByMsgs(msgs, c) == Cardinality(Holding(msgs, c))

(* server_msg_destroy or session_msg_destroy on each message.              *)
DropMsgs(r, msgs) == [c \in Cfg |-> r[c] - HeldByMsgs(msgs, c)]

(* The message that was being built holds a reference, which *_msg_destroy *)
(* gives back when the put fails.                                          *)
RefsAfterPut(r, msg, ret) ==
  IF IsReload(msg) /\ ret = QUEUE_OK THEN AddRef(r, msg.cfg) ELSE r

(* The configuration a receiver ends up with once it has handled msgs.     *)
Latest(c, msgs) ==
  IF Reloads(msgs) = {}
  THEN c
  ELSE msgs[CHOOSE i \in Reloads(msgs) : \A j \in Reloads(msgs) : j <= i].cfg

-----------------------------------------------------------------------------
(* server_queue_msg and sccp_session_queue_msg.                            *)

Possible(set) == IF faults < MaxFaults THEN set ELSE {}

CountFault(ret) == faults' = IF ret = QUEUE_FAILED THEN faults + 1 ELSE faults

(* A receiver that was not sent the last configuration has missed it until *)
(* it is sent a newer one; a closed queue belongs to a thread that is over.*)
MissedAfterPut(receiver, msg, ret) ==
  IF ~IsReload(msg) THEN missed
  ELSE IF ret = QUEUE_FAILED THEN missed \cup {receiver}
  ELSE missed \ {receiver}

(* `r` is the reference count of each configuration before the put.        *)
server_queue_msg(msg, set, r) ==
  \E out \in PutOutcomes(srvQ, msg, Possible(set)) :
    /\ srvQ' = out.q
    /\ missed' = MissedAfterPut(TheServer, msg, out.ret)
    /\ refs' = RefsAfterPut(r, msg, out.ret)
    /\ CountFault(out.ret)

session_queue_msg(s, msg, set) ==
  \E out \in PutOutcomes(sessQ[s], msg, Possible(set)) :
    /\ sessQ' = [sessQ EXCEPT ![s] = out.q]
    /\ missed' = MissedAfterPut(s, msg, out.ret)
    /\ refs' = RefsAfterPut(refs, msg, out.ret)
    /\ CountFault(out.ret)

-----------------------------------------------------------------------------
(* The main thread.                                                        *)

(* sccp_server_start: the socket or the thread may fail, and then the      *)
(* module is not loaded (load_module destroys the server, fail7).          *)
Start ==
  /\ main = "created"
  /\ \/ /\ srv' = [srv EXCEPT !.state = "STARTED", !.pc = "listen"]
        /\ main' = "loaded"
     \/ /\ main' = "release"
        /\ UNCHANGED srv
  /\ UNCHANGED <<globalCfg, srvQ, srvBatch, sess, sessQ, refs, missed, faults, debugs>>

(* reload: sccp_config_reload replaces the configuration, whose container  *)
(* holds a reference, and sccp_server_reload_config queues it.             *)
Reload ==
  /\ main = "loaded"
  /\ globalCfg < MaxReloads /\ globalCfg + debugs < MaxCalls
  /\ globalCfg' = globalCfg + 1
  /\ server_queue_msg(ReloadMsg(globalCfg + 1), MainFaults,
                      AddRef(DropRef(refs, globalCfg), globalCfg + 1))
  /\ UNCHANGED <<main, srv, srvBatch, sess, sessQ, debugs>>

(* sccp_server_reload_debug, from the CLI. *)
ReloadDebug ==
  /\ main = "loaded"
  /\ debugs < MaxDebugs /\ globalCfg + debugs < MaxCalls
  /\ debugs' = debugs + 1
  /\ server_queue_msg(DebugMsg, MainFaults, refs)
  /\ UNCHANGED <<main, globalCfg, srv, srvBatch, sess, sessQ>>

(* sccp_server_destroy of a started server: the result of the put of the   *)
(* stop message only changes what is logged.                               *)
Destroy ==
  /\ main = "loaded"
  /\ main' = "join"
  /\ server_queue_msg(StopMsg, StopFaults, refs)
  /\ UNCHANGED <<globalCfg, srv, srvBatch, sess, sessQ, debugs>>

(* server_join returns, and server_stop_sessions starts its traversal.     *)
JoinServer ==
  /\ main = "join"
  /\ srv.pc = "ended"
  /\ main' = "stopSessions"
  /\ srv' = [srv EXCEPT !.todo = srv.sessions]
  /\ UNCHANGED <<globalCfg, srvQ, srvBatch, sess, sessQ, refs, missed, faults, debugs>>

\* Variant for the mutation runs: the session is woken but not told to stop.
SetStop_NoFlag(s) ==
  /\ main = "stopSessions"
  /\ s \in srv.todo /\ srv.wake = {}
  /\ srv' = [srv EXCEPT !.todo = @ \ {s}, !.wake = {s}]
  /\ UNCHANGED <<main, globalCfg, srvQ, srvBatch, sess, sessQ, refs, missed, faults, debugs>>

(* sccp_session_stop, on each session: the flag first, without a lock,     *)
(* then a message whose only use is to wake the session thread.  Whatever  *)
(* the put returns, the traversal goes on.                                 *)
SetStop(s) ==
  /\ main = "stopSessions"
  /\ s \in srv.todo /\ srv.wake = {}
  /\ sess' = [sess EXCEPT ![s].stop = TRUE]
  /\ srv' = [srv EXCEPT !.todo = @ \ {s}, !.wake = {s}]
  /\ UNCHANGED <<main, globalCfg, srvQ, srvBatch, sessQ, refs, missed, faults, debugs>>

WakeSession(s) ==
  /\ s \in srv.wake
  /\ session_queue_msg(s, NoopMsg, MainFaults)
  /\ srv' = [srv EXCEPT !.wake = {}]
  /\ UNCHANGED <<main, globalCfg, srvQ, srvBatch, sess, debugs>>

StopSessionsEnd ==
  /\ main = "stopSessions"
  /\ srv.todo = {} /\ srv.wake = {}
  /\ main' = "joinSessions"
  /\ UNCHANGED <<globalCfg, srv, srvQ, srvBatch, sess, sessQ, refs, missed, faults, debugs>>

(* server_session_destroy: the last reference to the session, whose        *)
(* destructor empties its queue again and gives its configuration back.    *)
RefsAfterSessionDestroy(s) ==
  DropRef(DropMsgs(refs, sessQ[s].items), sess[s].cfg)

\* Variant for the mutation runs: the session is freed but stays in the list.
DestroySession_StaysListed(s) ==
  /\ sess' = [sess EXCEPT ![s] = [NoSession EXCEPT !.pc = "freed"]]
  /\ sessQ' = [sessQ EXCEPT ![s] = AfterGetAll(@)]
  /\ refs' = RefsAfterSessionDestroy(s)
  /\ UNCHANGED srv

DestroySession(s) ==
  /\ srv' = [srv EXCEPT !.sessions = @ \ {s}]
  /\ sess' = [sess EXCEPT ![s] = [NoSession EXCEPT !.pc = "freed"]]
  /\ sessQ' = [sessQ EXCEPT ![s] = AfterGetAll(@)]
  /\ refs' = RefsAfterSessionDestroy(s)

(* One turn of server_join_sessions. *)
JoinSession(s) ==
  /\ main = "joinSessions"
  /\ s \in srv.sessions
  /\ sess[s].pc = "ended"
  /\ DestroySession(s)
  /\ UNCHANGED <<main, globalCfg, srvQ, srvBatch, missed, faults, debugs>>

JoinSessionsEnd ==
  /\ main = "joinSessions"
  /\ srv.sessions = {}
  /\ main' = "release"
  /\ UNCHANGED <<globalCfg, srv, srvQ, srvBatch, sess, sessQ, refs, missed, faults, debugs>>

(* The end of sccp_server_destroy, and sccp_config_destroy after it. *)
Release ==
  /\ main = "release"
  /\ main' = "unloaded"
  /\ refs' = DropRef(DropRef(refs, srv.cfg), globalCfg)
  /\ UNCHANGED <<globalCfg, srv, srvQ, srvBatch, sess, sessQ, missed, faults, debugs>>

MainEnds ==
  \/ JoinServer \/ StopSessionsEnd \/ JoinSessionsEnd \/ Release
  \/ \E s \in Sessions : SetStop(s) \/ WakeSession(s) \/ JoinSession(s)

-----------------------------------------------------------------------------
(* The server thread, server_run.                                          *)

ServerGoes(to) == srv' = [srv EXCEPT !.pc = to]

Listen ==
  /\ srv.pc = "listen"
  /\ \/ srv' = [srv EXCEPT !.pc = "poll", !.stop = FALSE]
     \/ ServerGoes("end")
  /\ UNCHANGED <<main, globalCfg, srvQ, srvBatch, sess, sessQ, refs, missed, faults, debugs>>

(* poll returns: with an error, or with what is ready.  The queue comes    *)
(* first; get_all takes every message at once.                             *)
ServerPollError ==
  /\ srv.pc = "poll"
  /\ ServerGoes("end")
  /\ UNCHANGED <<main, globalCfg, srvQ, srvBatch, sess, sessQ, refs, missed, faults, debugs>>

ServerPollQueue ==
  /\ srv.pc = "poll"
  /\ FdReady(srvQ)
  /\ ServerGoes("batch")
  /\ srvBatch' = srvQ.items
  /\ srvQ' = AfterGetAll(srvQ)
  /\ UNCHANGED <<main, globalCfg, sess, sessQ, refs, missed, faults, debugs>>

ServerPollSocket ==
  /\ srv.pc = "poll"
  /\ ~FdReady(srvQ)
  /\ ServerGoes("sock")
  /\ UNCHANGED <<main, globalCfg, srvQ, srvBatch, sess, sessQ, refs, missed, faults, debugs>>

NextMsg(id) ==
  /\ srv.pc = "batch"
  /\ srvBatch # << >>
  /\ Head(srvBatch).id = id

\* Variant for the mutation runs: the server keeps the configuration it had.
ServerReloadConfig_NoSwap ==
  /\ NextMsg("RELOAD_CONFIG")
  /\ srv' = [srv EXCEPT !.pc = "forward", !.todo = srv.sessions]
  /\ UNCHANGED <<main, globalCfg, srvQ, srvBatch, sess, sessQ, refs, missed, faults, debugs>>

(* server_reload_config swaps the server's own configuration, then the     *)
(* traversal that queues it to each session starts.                        *)
ServerReloadConfig ==
  /\ NextMsg("RELOAD_CONFIG")
  /\ LET c == Head(srvBatch).cfg
     IN  /\ refs' = AddRef(DropRef(refs, srv.cfg), c)
         /\ srv' = [srv EXCEPT !.pc = "forward", !.cfg = c, !.todo = srv.sessions]
  /\ UNCHANGED <<main, globalCfg, srvQ, srvBatch, sess, sessQ, missed, faults, debugs>>

ServerReloadDebug ==
  /\ NextMsg("RELOAD_DEBUG")
  /\ srv' = [srv EXCEPT !.pc = "forward", !.todo = srv.sessions]
  /\ UNCHANGED <<main, globalCfg, srvQ, srvBatch, sess, sessQ, refs, missed, faults, debugs>>

(* sccp_session_reload_config or sccp_session_reload_debug on one session. *)
Forward(s) ==
  /\ srv.pc = "forward"
  /\ s \in srv.todo
  /\ session_queue_msg(s, Head(srvBatch), ServerFaults)
  /\ srv' = [srv EXCEPT !.todo = @ \ {s}]
  /\ UNCHANGED <<main, globalCfg, srvQ, srvBatch, sess, debugs>>

\* Variant for the mutation runs: the reference of the message is not given back.
ForwardEnd_KeepsRef ==
  /\ srv.pc = "forward"
  /\ srv.todo = {}
  /\ srvBatch' = Tail(srvBatch)
  /\ ServerGoes("batch")
  /\ UNCHANGED <<main, globalCfg, srvQ, sess, sessQ, refs, missed, faults, debugs>>

(* The end of the traversal, and server_msg_destroy. *)
ForwardEnd ==
  /\ srv.pc = "forward"
  /\ srv.todo = {}
  /\ srvBatch' = Tail(srvBatch)
  /\ refs' = DropMsgs(refs, <<Head(srvBatch)>>)
  /\ ServerGoes("batch")
  /\ UNCHANGED <<main, globalCfg, srvQ, sess, sessQ, missed, faults, debugs>>

(* server_on_session_end: it waits for the session thread, which put this  *)
(* message just before it returned.                                        *)
ServerSessionEnd ==
  /\ NextMsg("SESSION_END")
  /\ LET s == Head(srvBatch).session
     IN  /\ sess[s].pc = "ended"
         /\ DestroySession(s)
  /\ srvBatch' = Tail(srvBatch)
  /\ UNCHANGED <<main, globalCfg, srvQ, missed, faults, debugs>>

(* The rest of the batch is still handled after a stop message. *)
ServerStop ==
  /\ NextMsg("STOP")
  /\ srvBatch' = Tail(srvBatch)
  /\ srv' = [srv EXCEPT !.stop = TRUE]
  /\ UNCHANGED <<main, globalCfg, srvQ, sess, sessQ, refs, missed, faults, debugs>>

(* What poll said of the socket is chosen here, where it is first looked at. *)
ServerBatchEnd ==
  /\ srv.pc = "batch"
  /\ srvBatch = << >>
  /\ \E to \in {"end", "sock", "poll"} : (to = "end" <=> srv.stop) /\ ServerGoes(to)
  /\ UNCHANGED <<main, globalCfg, srvQ, srvBatch, sess, sessQ, refs, missed, faults, debugs>>

(* server_on_sock_events: a session is created with the configuration of   *)
(* the server, added to the list, and its thread started.                  *)
Accept(s) ==
  /\ srv.pc = "sock"
  /\ sess[s].pc = "none"
  /\ sess' = [sess EXCEPT ![s] = [NoSession EXCEPT !.pc = "poll", !.cfg = srv.cfg]]
  /\ refs' = AddRef(refs, srv.cfg)
  /\ srv' = [srv EXCEPT !.pc = "poll", !.sessions = @ \cup {s}]
  /\ UNCHANGED <<main, globalCfg, srvQ, srvBatch, sessQ, missed, faults, debugs>>

(* The session or its thread cannot be created: whatever was made of it is *)
(* destroyed at once, and the server goes on.                              *)
AcceptDropped ==
  /\ srv.pc = "sock"
  /\ ServerGoes("poll")
  /\ UNCHANGED <<main, globalCfg, srvQ, srvBatch, sess, sessQ, refs, missed, faults, debugs>>

(* accept itself fails, or poll reported something else: the server stops. *)
AcceptFailed ==
  /\ srv.pc = "sock"
  /\ srv' = [srv EXCEPT !.pc = "end", !.stop = TRUE]
  /\ UNCHANGED <<main, globalCfg, srvQ, srvBatch, sess, sessQ, refs, missed, faults, debugs>>

ServerClose ==
  /\ srv.pc = "end"
  /\ srvQ' = CloseQueue(srvQ)
  /\ ServerGoes("empty")
  /\ UNCHANGED <<main, globalCfg, srvBatch, sess, sessQ, refs, missed, faults, debugs>>

(* server_empty_queue, then the thread returns. *)
ServerEmpty ==
  /\ srv.pc = "empty"
  /\ refs' = DropMsgs(refs, srvQ.items)
  /\ srvQ' = AfterGetAll(srvQ)
  /\ ServerGoes("ended")
  /\ UNCHANGED <<main, globalCfg, srvBatch, sess, sessQ, missed, faults, debugs>>

(* What the server thread does of itself once poll has returned, and a     *)
(* poll that returns because the queue's fd is ready.                      *)
ServerRuns ==
  \/ Listen \/ ServerPollQueue \/ ServerReloadConfig \/ ServerReloadDebug
  \/ ForwardEnd \/ ServerSessionEnd \/ ServerStop \/ ServerBatchEnd
  \/ AcceptDropped \/ AcceptFailed \/ ServerClose \/ ServerEmpty
  \/ \E s \in Sessions : Forward(s) \/ Accept(s)

ServerNext == ServerRuns \/ ServerPollError \/ ServerPollSocket

-----------------------------------------------------------------------------
(* The session threads, sccp_session_run.                                  *)

SessionGoes(s, to) == sess' = [sess EXCEPT ![s].pc = to]

(* After every handler the loop tests session->stop.                       *)
SessionLoop(s, stop, next) ==
  sess' = [sess EXCEPT ![s] = [pc   |-> IF stop THEN "end" ELSE next,
                               stop |-> stop,
                               cfg  |-> @.cfg]]

(* poll returns with an error, or because a timer is due: the timer may    *)
(* end the session (the device did not register in time, or keeps silent). *)
SessionPollError(s) ==
  /\ sess[s].pc = "poll"
  /\ SessionGoes(s, "end")
  /\ UNCHANGED <<main, globalCfg, srv, srvQ, srvBatch, sessQ, refs, missed, faults, debugs>>

SessionTimer(s) ==
  /\ sess[s].pc = "poll"
  /\ ~FdReady(sessQ[s])
  /\ \E stop \in {sess[s].stop, TRUE} : SessionLoop(s, stop, "poll")
  /\ UNCHANGED <<main, globalCfg, srv, srvQ, srvBatch, sessQ, refs, missed, faults, debugs>>

(* poll returns because of the queue, of the socket, or of both.           *)
SessionPollQueue(s) ==
  /\ sess[s].pc = "poll"
  /\ FdReady(sessQ[s])
  /\ SessionLoop(s, sess[s].stop, "queue")
  /\ UNCHANGED <<main, globalCfg, srv, srvQ, srvBatch, sessQ, refs, missed, faults, debugs>>

SessionPollSocket(s) ==
  /\ sess[s].pc = "poll"
  /\ ~FdReady(sessQ[s])
  /\ SessionLoop(s, sess[s].stop, "sock")
  /\ UNCHANGED <<main, globalCfg, srv, srvQ, srvBatch, sessQ, refs, missed, faults, debugs>>

(* sccp_session_on_queue_events: every message, in order.  A configuration *)
(* in which the session's device is no longer found stops the session.     *)
SessionQueueEvents(s) ==
  LET msgs == sessQ[s].items
      new  == Latest(sess[s].cfg, msgs)
  IN  /\ sess[s].pc = "queue"
      /\ sessQ' = [sessQ EXCEPT ![s] = AfterGetAll(@)]
      /\ refs' = AddRef(DropRef(DropMsgs(refs, msgs), sess[s].cfg), new)
      /\ \E stop \in {sess[s].stop, sess[s].stop \/ Reloads(msgs) # {}},
           next \in {"sock", "poll"} :
           sess' = [sess EXCEPT ![s] = [pc   |-> IF stop THEN "end" ELSE next,
                                        stop |-> stop,
                                        cfg  |-> new]]
      /\ UNCHANGED <<main, globalCfg, srv, srvQ, srvBatch, missed, faults, debugs>>

(* sccp_session_on_sock_events: the device's messages are handled, or the  *)
(* session has to stop (closed connection, malformed message, failed       *)
(* transmission, refused message).                                         *)
SessionSockEvents(s) ==
  /\ sess[s].pc = "sock"
  /\ \E stop \in {sess[s].stop, TRUE} : SessionLoop(s, stop, "poll")
  /\ UNCHANGED <<main, globalCfg, srv, srvQ, srvBatch, sessQ, refs, missed, faults, debugs>>

SessionClose(s) ==
  /\ sess[s].pc = "end"
  /\ sessQ' = [sessQ EXCEPT ![s] = CloseQueue(@)]
  /\ SessionGoes(s, "empty")
  /\ UNCHANGED <<main, globalCfg, srv, srvQ, srvBatch, refs, missed, faults, debugs>>

(* sccp_session_empty_queue, and the end of the device. *)
SessionEmpty(s) ==
  /\ sess[s].pc = "empty"
  /\ refs' = DropMsgs(refs, sessQ[s].items)
  /\ sessQ' = [sessQ EXCEPT ![s] = AfterGetAll(@)]
  /\ SessionGoes(s, "exit")
  /\ UNCHANGED <<main, globalCfg, srv, srvQ, srvBatch, missed, faults, debugs>>

\* Variant for the mutation runs: the thread returns without a word.
SessionExit_Silent(s) ==
  /\ sess[s].pc = "exit"
  /\ SessionGoes(s, "ended")
  /\ UNCHANGED <<main, globalCfg, srv, srvQ, srvBatch, sessQ, refs, missed, faults, debugs>>

(* session_run: the server is told, if its queue still takes messages; the *)
(* result is not looked at, and the thread returns.                        *)
SessionExit(s) ==
  /\ sess[s].pc = "exit"
  /\ server_queue_msg(SessionEndMsg(s), SessionFaults, refs)
  /\ SessionGoes(s, "ended")
  /\ UNCHANGED <<main, globalCfg, srv, srvBatch, sessQ, debugs>>

SessionRuns(s) ==
  \/ SessionPollQueue(s) \/ SessionQueueEvents(s) \/ SessionSockEvents(s)
  \/ SessionClose(s) \/ SessionEmpty(s) \/ SessionExit(s)

SessionNext(s) ==
  SessionRuns(s) \/ SessionPollError(s) \/ SessionTimer(s) \/ SessionPollSocket(s)

-----------------------------------------------------------------------------
Next ==
  \/ Start \/ Reload \/ ReloadDebug \/ Destroy \/ MainEnds
  \/ ServerNext
  \/ \E s \in Sessions : SessionNext(s)

Spec == Init /\ [][Next]_vars

(* Every thread is scheduled.  Nothing obliges the outside world: poll may *)
(* never report a socket, an error or a timer, but it does report a ready  *)
(* queue, and a handler that has started goes to its end.  The threads     *)
(* block for nothing but a join.                                           *)
Fairness ==
  /\ WF_vars(MainEnds)
  /\ WF_vars(ServerRuns)
  /\ \A s \in Sessions : WF_vars(SessionRuns(s))

FairSpec == Spec /\ Fairness

-----------------------------------------------------------------------------
TypeOK ==
  /\ main \in {"created", "loaded", "join", "stopSessions", "joinSessions",
               "release", "unloaded"}
  /\ globalCfg \in Cfg
  /\ srv \in [state : {"CREATED", "STARTED"},
              pc : {"none", "listen", "poll", "batch", "forward", "sock", "end",
                    "empty", "ended"},
              stop : BOOLEAN, cfg : Cfg,
              sessions : SUBSET Sessions, todo : SUBSET Sessions, wake : SUBSET Sessions]
  /\ srvQ \in SyncQueueType(ServerMsg)
  /\ srvBatch \in Seq(ServerMsg)
  /\ sess \in [Sessions ->
       [pc : {"none", "poll", "queue", "sock", "end", "empty", "exit", "ended", "freed"},
        stop : BOOLEAN, cfg : Cfg]]
  /\ sessQ \in [Sessions -> SyncQueueType(SessionMsg)]
  /\ refs \in [Cfg -> Nat]
  /\ missed \subseteq Sessions \cup {TheServer}
  /\ faults \in 0 .. MaxFaults
  /\ debugs \in 0 .. MaxDebugs

Alive(s) == sess[s].pc \notin {"none", "freed"}
Running(s) == sess[s].pc \notin {"none", "ended", "freed"}

(* The messages of the server's queue and of the batch it is handling.     *)
ServerPending == srvBatch \o srvQ.items

EndMsgs(s) == {i \in DOMAIN ServerPending : ServerPending[i] = SessionEndMsg(s)}

(* A session-end message is a bare pointer: while one is pending, the      *)
(* session it names is in the list and its thread has put nothing else and *)
(* will put nothing more, so that the session is joined and freed once.    *)
SessionEndIsValid ==
  \A s \in Sessions :
    /\ Cardinality(EndMsgs(s)) <= 1
    /\ EndMsgs(s) # {} => s \in srv.sessions /\ sess[s].pc = "ended"

(* The list of the server holds exactly the sessions that exist, so that   *)
(* server_stop_sessions and server_join_sessions reach each of them.       *)
ListIsComplete == srv.sessions = {s \in Sessions : Alive(s)}

(* The reference count of a configuration is the number of its holders:    *)
(* the module, the server, the sessions, and the messages that carry it.   *)
HeldInQueues(c) ==
  HeldByMsgs(ServerPending, c)
    + Cardinality(UNION {{s} \X Holding(sessQ[s].items, c) : s \in Sessions})
RefsMatchHolders ==
  \A c \in Cfg :
    refs[c] = HeldInQueues(c)
              + Cardinality({s \in Sessions : Alive(s) /\ sess[s].cfg = c})
              + (IF main # "unloaded" /\ globalCfg = c THEN 1 ELSE 0)
              + (IF main # "unloaded" /\ srv.cfg = c THEN 1 ELSE 0)

(* Once the module is unloaded no thread is left to touch what was freed.  *)
UnloadedIsQuiet ==
  main \in {"release", "unloaded"} =>
    /\ srv.pc \in {"none", "ended"}
    /\ \A s \in Sessions : ~Running(s) /\ ~Alive(s)

(* Who is in the list, who says that it ended, and who still runs, agree.  *)
SessionsAreKnown ==
  TypeOK /\ SessionEndIsValid /\ ListIsComplete /\ UnloadedIsQuiet

(* A reload reaches everybody in order: what the server, and each session  *)
(* in its list, will have once it has handled the messages pending for it  *)
(* is the newest configuration of the one above it, whenever a session was *)
(* accepted, unless a put failed or the receiver is past its loop.         *)
NewestIsPending ==
  /\ (main = "loaded" /\ ~srvQ.closed /\ TheServer \notin missed) =>
       Latest(srv.cfg, ServerPending) = globalCfg
  /\ \A s \in srv.sessions \ srv.todo :
       (~sessQ[s].closed /\ s \notin missed) =>
         Latest(sess[s].cfg, sessQ[s].items) = srv.cfg

(* No session ever goes back to an older configuration. *)
ConfigOnlyAdvances ==
  [][/\ \A s \in Sessions : Running(s) => sess'[s].cfg >= sess[s].cfg
     /\ srv'.cfg >= srv.cfg]_vars

(* "If the server is running, it will be stopped" (sccp_server_destroy in  *)
(* sccp_server.h): unloading ends, without the help of any timer or socket.*)
DestroyTerminates == (main = "join") ~> (main = "unloaded")

(* sccp_server_reload_config "also reload all the sessions"                *)
(* (sccp_server.h): every reload ends up in the server and in every        *)
(* session it has, unless the queue refused the message or the thread      *)
(* ended.                                                                  *)
ReloadIsApplied ==
  \A c \in Cfg :
    /\ (globalCfg = c) ~> (srv.cfg >= c \/ TheServer \in missed \/ srv.pc = "ended")
    /\ \A s \in Sessions :
         (srv.cfg = c /\ Running(s)) ~> (sess[s].cfg >= c \/ s \in missed \/ ~Running(s))

(* A session that has ended does not stay in the list while the server     *)
(* runs.                                                                   *)
EndedIsReaped ==
  \A s \in Sessions :
    (sess[s].pc = "ended") ~> (sess[s].pc = "freed" \/ srv.pc = "ended")
=============================================================================
