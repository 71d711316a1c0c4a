----------------------------- MODULE ServerProofs -----------------------------
(***************************************************************************)
(* What the server promises for any number of sessions and of reloads, and *)
(* whatever puts fail.                                                     *)
(***************************************************************************)
EXTENDS Server, SequenceTheorems, FiniteSetTheorems, WellFoundedInduction, TLAPS

(* The states of the server, and of a session: two opaque sets in the proofs. *)
SrvType == [state : {"CREATED", "STARTED"},
            pc : {"none", "listen", "poll", "batch", "forward", "sock", "end",
                  "empty", "ended"},
            stop : BOOLEAN, cfg : Cfg,
            sessions : SUBSET Sessions, todo : SUBSET Sessions, wake : SUBSET Sessions]
SessType == [pc : {"none", "poll", "queue", "sock", "end", "empty", "exit", "ended", "freed"},
             stop : BOOLEAN, cfg : Cfg]

(* The types; that a reference count is never negative is a consequence of *)
(* RefsMatchHolders.                                                       *)
Base ==
  /\ main \in {"created", "loaded", "join", "stopSessions", "joinSessions",
               "release", "unloaded"}
  /\ globalCfg \in Cfg
  /\ srv \in SrvType
  /\ srvQ \in SyncQueueType(ServerMsg)
  /\ srvBatch \in Seq(ServerMsg)
  /\ sess \in [Sessions -> SessType]
  /\ sessQ \in [Sessions -> SyncQueueType(SessionMsg)]
  /\ refs \in [Cfg -> Int]
  /\ missed \subseteq Sessions \cup {TheServer}
  /\ faults \in 0 .. MaxFaults
  /\ debugs \in 0 .. MaxDebugs

(* Where the threads may be at the same time, and what they have then.     *)
Threads ==
  /\ srv.pc \notin {"batch", "forward"} => srvBatch = << >>
  /\ srv.pc = "forward" =>
       /\ srvBatch # << >> /\ Head(srvBatch).id \in {"RELOAD_CONFIG", "RELOAD_DEBUG"}
       /\ srv.todo \subseteq srv.sessions
  /\ srvQ.closed <=> srv.pc \in {"empty", "ended"}
  /\ srv.pc = "ended" => srvQ.items = << >>
  /\ srv.pc = "none" => srv.sessions = {}
  /\ main = "created" => srv.pc = "none"
  /\ main \in {"loaded", "join"} => srv.pc # "none"
  /\ main \in {"stopSessions", "joinSessions"} => srv.pc = "ended"
  /\ main = "stopSessions" => srv.todo \subseteq srv.sessions /\ srv.wake \subseteq srv.sessions
  /\ main \in {"release", "unloaded"} => srv.pc \in {"none", "ended"} /\ srv.sessions = {}
  /\ srv.wake # {} => main = "stopSessions"

(* Only a session that exists has messages, and a thread past its loop     *)
(* closes its queue.                                                       *)
SessionQueues ==
  \A s \in Sessions :
    /\ sess[s].pc = "none" => sessQ[s] = CreateQueue
    /\ sess[s].pc \in {"exit", "ended", "freed"} => sessQ[s].items = << >> /\ sessQ[s].closed
    /\ sess[s].pc = "empty" => sessQ[s].closed

(* Who runs, and what the queues hold because of it.                       *)
Control == Threads /\ SessionQueues

(* A session says once that it ended.                                      *)
EndsOnce ==
  \A s \in Sessions :
    /\ \A i \in EndMsgs(s) : sess[s].pc = "ended"
    /\ \A i, j \in EndMsgs(s) : i = j

(* Configurations reach the server in the order in which they were loaded. *)
InOrder ==
  /\ srv.cfg <= globalCfg
  /\ \A i \in Reloads(ServerPending) :
       srv.cfg <= ServerPending[i].cfg /\ ServerPending[i].cfg <= globalCfg
  /\ \A i, j \in Reloads(ServerPending) :
       i <= j => ServerPending[i].cfg <= ServerPending[j].cfg

(* What the server tells its sessions is the configuration it has.         *)
Forwarding == srv.pc = "forward" /\ IsReload(Head(srvBatch)) => Head(srvBatch).cfg = srv.cfg

(* A session never is, nor will be, ahead of the server.                   *)
Behind ==
  \A s \in srv.sessions :
    /\ sess[s].cfg <= srv.cfg
    /\ \A i \in Reloads(sessQ[s].items) :
         sess[s].cfg <= sessQ[s].items[i].cfg /\ sessQ[s].items[i].cfg <= srv.cfg

(* The order of the configurations, from the module to the sessions.       *)
Ordered == InOrder /\ Forwarding /\ Behind

(* The last configuration is on its way to the server, unless a put failed. *)
ServerNewest ==
  (main \in {"created", "loaded"} /\ ~srvQ.closed /\ TheServer \notin missed) =>
    Latest(srv.cfg, ServerPending) = globalCfg

(* The sessions that the server has still to tell of its configuration.    *)
Untold == IF srv.pc = "forward" /\ IsReload(Head(srvBatch)) THEN srv.todo ELSE {}

(* The server's is on its way to each of the others.                       *)
SessionsNewest ==
  \A s \in srv.sessions \ Untold :
    (~sessQ[s].closed /\ s \notin missed) => Latest(sess[s].cfg, sessQ[s].items) = srv.cfg

(* Nobody who can be told is left behind.                                  *)
Newest == ServerNewest /\ SessionsNewest

(* The inductive invariant. *)
ServerInv ==
  Base /\ Control /\ EndsOnce /\ ListIsComplete /\ Ordered /\ Newest /\ RefsMatchHolders

-----------------------------------------------------------------------------
(* Messages, and what a put does to the queue it is given.                 *)

(* The messages that are built. *)
LEMMA NewMsgs ==
  /\ {DebugMsg, StopMsg} \subseteq ServerMsg /\ {DebugMsg, NoopMsg} \subseteq SessionMsg
  /\ ~IsReload(DebugMsg) /\ ~IsReload(StopMsg) /\ ~IsReload(NoopMsg)
  /\ \A c \in Cfg : ReloadMsg(c) \in ServerMsg /\ ReloadMsg(c).cfg = c /\ IsReload(ReloadMsg(c))
  /\ \A s \in Sessions : /\ SessionEndMsg(s) \in ServerMsg /\ SessionEndMsg(s).session = s
                         /\ ~IsReload(SessionEndMsg(s))
<1>1. {DebugMsg, StopMsg} \subseteq ServerMsg /\ {DebugMsg, NoopMsg} \subseteq SessionMsg
  BY DEF ServerMsg, SessionMsg
<1>2. ~IsReload(DebugMsg) /\ ~IsReload(StopMsg) /\ ~IsReload(NoopMsg)
  BY DEF DebugMsg, StopMsg, NoopMsg, IsReload
<1>3. \A c \in Cfg : ReloadMsg(c) \in ServerMsg /\ ReloadMsg(c).cfg = c /\ IsReload(ReloadMsg(c))
  BY DEF ServerMsg, ReloadMsg, IsReload
<1>4. \A s \in Sessions : /\ SessionEndMsg(s) \in ServerMsg /\ SessionEndMsg(s).session = s
                         /\ ~IsReload(SessionEndMsg(s))
  BY DEF ServerMsg, SessionEndMsg, IsReload
<1> QED
  BY <1>1, <1>2, <1>3, <1>4

(* What can be told of a message of the server by its kind. *)
LEMMA ServerMsgFacts ==
  ASSUME NEW m \in ServerMsg
  PROVE  /\ m.id \in {"RELOAD_CONFIG", "SESSION_END", "RELOAD_DEBUG", "STOP"}
         /\ IsReload(m) <=> m.id = "RELOAD_CONFIG"
         /\ IsReload(m) => m.cfg \in Cfg /\ m \in SessionMsg
         /\ m.id = "SESSION_END" => m.session \in Sessions /\ m = SessionEndMsg(m.session)
         /\ m.id = "RELOAD_DEBUG" => m \in SessionMsg
         /\ m.id # "SESSION_END" => \A s \in Sessions : m # SessionEndMsg(s)
<1> USE DEF IsReload
<1>1. CASE \E c \in Cfg : m = ReloadMsg(c)
  BY <1>1 DEF ReloadMsg, SessionEndMsg, SessionMsg
<1>2. CASE \E s \in Sessions : m = SessionEndMsg(s)
  BY <1>2 DEF SessionEndMsg
<1>3. CASE m = DebugMsg
  BY <1>3 DEF DebugMsg, SessionEndMsg, SessionMsg
<1>4. CASE m = StopMsg
  BY <1>4 DEF StopMsg, SessionEndMsg
<1> QED
  BY <1>1, <1>2, <1>3, <1>4 DEF ServerMsg

(* The same for a session. *)
LEMMA SessionMsgFacts ==
  ASSUME NEW m \in SessionMsg, IsReload(m)
  PROVE  m.cfg \in Cfg
BY NewMsgs DEF SessionMsg

(* What a put does to a queue. *)
LEMMA PutFacts ==
  ASSUME NEW Item, NEW q \in SyncQueueType(Item), NEW item \in Item, NEW set,
         NEW out \in PutOutcomes(q, item, set)
  PROVE  /\ out.q \in SyncQueueType(Item) /\ out.q.closed = q.closed
         /\ out.ret \in {QUEUE_OK, QUEUE_FAILED, QUEUE_CLOSED}
         /\ out.ret = QUEUE_OK => ~q.closed /\ out.q.items = Append(q.items, item)
         /\ out.ret # QUEUE_OK => out.q.items = q.items
         /\ out.ret = QUEUE_FAILED => ~q.closed /\ set # {}
         /\ out.ret = QUEUE_CLOSED => q.closed
<1>0. QUEUE_OK # QUEUE_FAILED /\ QUEUE_OK # QUEUE_CLOSED /\ QUEUE_FAILED # QUEUE_CLOSED
  BY DEF QUEUE_OK, QUEUE_FAILED, QUEUE_CLOSED
<1>1. /\ q.items \in Seq(Item) /\ q.fd \in Nat /\ q.closed \in BOOLEAN
      /\ q = [items |-> q.items, fd |-> q.fd, closed |-> q.closed]
  BY DEF SyncQueueType
<1>2. /\ Signalled(q) \in SyncQueueType(Item) /\ Signalled(q).closed = q.closed
      /\ Signalled(q).items = q.items
  BY <1>1 DEF Signalled, SignalFd, SyncQueueType
<1>3. /\ Stored(q, item) \in SyncQueueType(Item) /\ Stored(q, item).closed = q.closed
      /\ Stored(q, item).items = Append(q.items, item)
  <2>1. Append(q.items, item) \in Seq(Item)
    BY <1>1
  <2> QED
    BY <1>1, <1>2, <2>1 DEF Stored, SyncQueueType
<1>4. CASE q.closed
  <2>1. out = [ret |-> QUEUE_CLOSED, q |-> q]
    BY <1>4 DEF PutOutcomes
  <2>2. out.ret = QUEUE_CLOSED /\ out.q = q
    BY <2>1
  <2> QED
    BY <1>0, <1>1, <1>4, <2>2
<1>5. CASE ~q.closed
  <2>1. \/ out = [ret |-> QUEUE_OK, q |-> Stored(q, item)]
        \/ set # {} /\ out = [ret |-> QUEUE_FAILED, q |-> Signalled(q)]
        \/ set # {} /\ out = [ret |-> QUEUE_FAILED, q |-> q]
    BY <1>5 DEF PutOutcomes, PutWhileOpen
  <2> QED
    BY <1>0, <1>1, <1>2, <1>3, <1>5, <2>1
<1> QED
  BY <1>4, <1>5

-----------------------------------------------------------------------------
(* The reload messages of a sequence, and the last of them.                *)

(* Where the reload messages of a longer, and of a shorter, queue are. *)
LEMMA ReloadsAppend ==
  ASSUME NEW M, NEW q \in Seq(M), NEW m \in M
  PROVE  /\ Reloads(q) \subseteq 1 .. Len(q)
         /\ Reloads(Append(q, m)) = Reloads(q) \cup (IF IsReload(m) THEN {Len(q) + 1} ELSE {})
         /\ \A i \in Reloads(q) : Append(q, m)[i] = q[i]
<1>1. Len(Append(q, m)) = Len(q) + 1 /\ Append(q, m)[Len(q) + 1] = m /\ Len(q) \in Nat
  OBVIOUS
<1>2. \A i \in 1 .. Len(q) : Append(q, m)[i] = q[i]
  OBVIOUS
<1>3. DOMAIN Append(q, m) = 1 .. Len(q) + 1 /\ DOMAIN q = 1 .. Len(q)
  OBVIOUS
<1> QED
  BY <1>1, <1>2, <1>3 DEF Reloads

(* The same when the first message is taken.                               *)
LEMMA ReloadsTail ==
  ASSUME NEW M, NEW q \in Seq(M), q # << >>
  PROVE  /\ Tail(q) \in Seq(M) /\ Head(q) = q[1] /\ Head(q) \in M
         /\ \A i \in Nat : i \in Reloads(Tail(q)) <=> i >= 1 /\ i + 1 \in Reloads(q)
         /\ \A i \in Reloads(Tail(q)) : i \in Nat /\ Tail(q)[i] = q[i + 1]
         /\ 1 \in Reloads(q) <=> IsReload(Head(q))
<1>1. /\ Tail(q) \in Seq(M) /\ Head(q) = q[1] /\ Head(q) \in M
      /\ Len(Tail(q)) = Len(q) - 1 /\ Len(q) \in Nat /\ Len(q) >= 1
  OBVIOUS
<1>2. \A i \in 1 .. Len(q) - 1 : Tail(q)[i] = q[i + 1]
  OBVIOUS
<1>3. DOMAIN Tail(q) = 1 .. Len(q) - 1 /\ DOMAIN q = 1 .. Len(q)
  BY <1>1
<1> QED
  BY <1>1, <1>2, <1>3 DEF Reloads

(* A set of indices has a last one. *)
LEMMA LastExists ==
  ASSUME NEW n \in Nat, NEW T, T \subseteq 1 .. n, T # {}
  PROVE  \E i \in T : \A j \in T : j <= i
<1> DEFINE D == {n - i : i \in T}
<1>0. \A i \in T : i \in 1 .. n /\ n - i \in Nat
  OBVIOUS
<1>1. D \subseteq Nat /\ D # {}
  BY <1>0
<1>2. PICK d \in D : \A e \in D : ~ (<<e, d>> \in OpToRel(<, Nat))
  <2> HIDE DEF D
  <2> QED
    BY <1>1, NatLessThanWellFounded, WFMin, Zenon
<1>3. PICK i \in T : d = n - i
  OBVIOUS
<1>4. \A j \in T : j <= i
  <2> SUFFICES ASSUME NEW j \in T PROVE j <= i
    OBVIOUS
  <2> DEFINE e == n - j
  <2>1. e \in D /\ e \in Nat /\ d \in Nat
    BY <1>1
  <2>2. <<e, d>> \in Nat \X Nat /\ <<e, d>>[1] = e /\ <<e, d>>[2] = d
    BY <2>1
  <2>3. ~ (e < d)
    BY <1>2, <2>1, <2>2 DEF OpToRel
  <2> QED
    BY <1>3, <2>1, <2>3
<1> QED
  BY <1>4

(* The last reload message decides. *)
LEMMA LatestFacts ==
  ASSUME NEW M, NEW q \in Seq(M), NEW c
  PROVE  /\ Reloads(q) = {} => Latest(c, q) = c
         /\ \A i \in Reloads(q) : (\A j \in Reloads(q) : j <= i) => Latest(c, q) = q[i].cfg
         /\ Reloads(q) # {} => \E i \in Reloads(q) : \A j \in Reloads(q) : j <= i
<1>1. Reloads(q) \subseteq 1 .. Len(q) /\ Len(q) \in Nat
  BY DEF Reloads
<1>2. Reloads(q) # {} => \E i \in Reloads(q) : \A j \in Reloads(q) : j <= i
  BY <1>1, LastExists
<1>3. ASSUME NEW i \in Reloads(q), \A j \in Reloads(q) : j <= i
      PROVE  Latest(c, q) = q[i].cfg
  <2> DEFINE k == CHOOSE x \in Reloads(q) : \A j \in Reloads(q) : j <= x
  <2>1. k \in Reloads(q) /\ \A j \in Reloads(q) : j <= k
    BY <1>3
  <2>2. k <= i /\ i <= k /\ k \in Int /\ i \in Int
    BY <1>1, <1>3, <2>1
  <2>3. Latest(c, q) = q[k].cfg
    BY <1>3 DEF Latest
  <2> HIDE DEF k
  <2> QED
    BY <2>2, <2>3
<1> QED
  BY <1>2, <1>3 DEF Latest

(* A message put at the end decides, if it is a reload.                    *)
LEMMA LatestAppend ==
  ASSUME NEW M, NEW q \in Seq(M), NEW m \in M, NEW c
  PROVE  Latest(c, Append(q, m)) = IF IsReload(m) THEN m.cfg ELSE Latest(c, q)
<1> DEFINE r == Append(q, m)
<1>1. /\ r \in Seq(M) /\ Len(q) + 1 \in Nat /\ r[Len(q) + 1] = m
      /\ Reloads(q) \subseteq 1 .. Len(q)
      /\ Reloads(r) = Reloads(q) \cup (IF IsReload(m) THEN {Len(q) + 1} ELSE {})
      /\ \A i \in Reloads(q) : r[i] = q[i]
  BY ReloadsAppend
<1> HIDE DEF r
<1>2. CASE IsReload(m)
  <2> DEFINE n == Len(q) + 1
  <2>1. n \in Reloads(r) /\ \A j \in Reloads(r) : j <= n
    BY <1>1, <1>2
  <2> HIDE DEF n
  <2>2. Latest(c, r) = r[n].cfg
    BY <1>1, <2>1, LatestFacts
  <2> QED
    BY <1>1, <1>2, <2>2 DEF n, r
<1>3. CASE ~IsReload(m) /\ Reloads(q) = {}
  BY <1>1, <1>3, LatestFacts DEF r
<1>4. CASE ~IsReload(m) /\ Reloads(q) # {}
  <2>1. PICK i \in Reloads(q) : \A j \in Reloads(q) : j <= i
    BY <1>4, LatestFacts
  <2>2. Latest(c, q) = q[i].cfg
    BY <2>1, LatestFacts
  <2>3. Latest(c, r) = r[i].cfg
    BY <1>1, <1>4, <2>1, LatestFacts
  <2> QED
    BY <1>1, <1>4, <2>2, <2>3 DEF r
<1> QED
  BY <1>2, <1>3, <1>4

(* Handling the first message does not change what the last one decides.   *)
LEMMA LatestTail ==
  ASSUME NEW M, NEW q \in Seq(M), q # << >>, NEW c
  PROVE  /\ Latest(c, q) = Latest(IF IsReload(Head(q)) THEN Head(q).cfg ELSE c, Tail(q))
         /\ IsReload(Head(q)) => \A d : Latest(d, q) = Latest(c, q)
<1>1. /\ Tail(q) \in Seq(M) /\ Head(q) = q[1]
      /\ \A i \in Nat : i \in Reloads(Tail(q)) <=> i >= 1 /\ i + 1 \in Reloads(q)
      /\ \A i \in Reloads(Tail(q)) : i \in Nat /\ Tail(q)[i] = q[i + 1]
      /\ 1 \in Reloads(q) <=> IsReload(Head(q))
  BY ReloadsTail
<1>2. Reloads(q) \subseteq 1 .. Len(q)
  BY DEF Reloads
<1>3. IsReload(Head(q)) => \A d : Latest(d, q) = Latest(c, q)
  BY <1>1 DEF Latest
<1>4. CASE Reloads(Tail(q)) = {}
  <2>1. \A i \in Reloads(q) : i = 1
    <3> SUFFICES ASSUME NEW i \in Reloads(q), i # 1 PROVE FALSE
      OBVIOUS
    <3>1. PICK k \in Nat : k >= 1 /\ i = k + 1
      BY <1>2
    <3> QED
      BY <1>1, <1>4, <3>1
  <2>2. CASE IsReload(Head(q))
    <3>1. Latest(c, q) = q[1].cfg
      BY <1>1, <2>1, <2>2, LatestFacts
    <3> QED
      BY <1>1, <1>3, <1>4, <2>2, <3>1, LatestFacts
  <2>3. CASE ~IsReload(Head(q))
    <3>1. Reloads(q) = {}
      BY <1>1, <2>1, <2>3
    <3> QED
      BY <1>1, <1>4, <2>3, <3>1, LatestFacts
  <2> QED
    BY <2>2, <2>3
<1>5. CASE Reloads(Tail(q)) # {}
  <2>1. PICK i \in Reloads(Tail(q)) : \A j \in Reloads(Tail(q)) : j <= i
    BY <1>1, <1>5, LatestFacts
  <2>2. PICK k \in Nat : k = i + 1
    BY <1>1
  <2>3. k \in Reloads(q) /\ Tail(q)[i] = q[k] /\ i \in Nat /\ i >= 1
    BY <1>1, <2>1, <2>2
  <2>4. \A j \in Reloads(q) : j <= k
    <3> SUFFICES ASSUME NEW j \in Reloads(q), ~(j <= k) PROVE FALSE
      OBVIOUS
    <3>1. PICK l \in Nat : l >= 1 /\ j = l + 1
      BY <1>2, <2>2, <2>3
    <3>2. l \in Reloads(Tail(q))
      BY <1>1, <3>1
    <3> QED
      BY <2>1, <2>2, <2>3, <3>1, <3>2
  <2>5. Latest(c, q) = q[k].cfg
    BY <2>3, <2>4, LatestFacts
  <2>6. \A d : Latest(d, Tail(q)) = Tail(q)[i].cfg
    <3> DEFINE u == Tail(q)
    <3>1. u \in Seq(M) /\ i \in Reloads(u) /\ \A j \in Reloads(u) : j <= i
      BY <1>1, <2>1
    <3> HIDE DEF u
    <3>2. \A d : Latest(d, u) = u[i].cfg
      BY <3>1, LatestFacts
    <3> QED
      BY <3>2 DEF u
  <2> QED
    BY <1>3, <2>3, <2>5, <2>6
<1> QED
  BY <1>4, <1>5

-----------------------------------------------------------------------------
(* How many messages carry a configuration.                                *)

(* A queue holds a finite number of messages.                              *)
LEMMA HoldingFinite ==
  ASSUME NEW M, NEW q \in Seq(M), NEW c
  PROVE  IsFiniteSet(Holding(q, c)) /\ HeldByMsgs(q, c) \in Nat /\ Holding(q, c) \subseteq 1 .. Len(q)
<1>1. Holding(q, c) \subseteq 1 .. Len(q) /\ Len(q) \in Nat
  BY DEF Holding, Reloads
<1>2. IsFiniteSet(1 .. Len(q))
  BY <1>1, FS_Interval
<1> QED
  BY <1>1, <1>2, FS_Subset, FS_CardinalityType DEF HeldByMsgs

(* 1 if the message carries the configuration. *)
Carries(m, c) == IF IsReload(m) /\ m.cfg = c THEN 1 ELSE 0

(* An empty queue holds no configuration.                                  *)
LEMMA HeldEmpty ==
  ASSUME NEW c
  PROVE  Holding(<< >>, c) = {} /\ HeldByMsgs(<< >>, c) = 0
BY FS_EmptySet DEF Holding, Reloads, HeldByMsgs

(* A message put at the end is counted.                                    *)
LEMMA HeldAppend ==
  ASSUME NEW M, NEW q \in Seq(M), NEW m \in M, NEW c
  PROVE  HeldByMsgs(Append(q, m), c) = HeldByMsgs(q, c) + Carries(m, c)
<1> DEFINE r == Append(q, m)
<1> DEFINE n == Len(q) + 1
<1>1. /\ n \in Nat /\ r[n] = m /\ Reloads(q) \subseteq 1 .. Len(q)
      /\ Reloads(r) = Reloads(q) \cup (IF IsReload(m) THEN {n} ELSE {})
      /\ \A i \in Reloads(q) : r[i] = q[i]
  BY ReloadsAppend
<1>2. n \notin Holding(q, c)
  BY <1>1 DEF Holding
<1> HIDE DEF r, n
<1>3. Holding(r, c) = Holding(q, c) \cup (IF IsReload(m) /\ m.cfg = c THEN {n} ELSE {})
  BY <1>1 DEF Holding
<1>4. IsFiniteSet(Holding(q, c)) /\ Cardinality(Holding(q, c)) \in Nat
  BY HoldingFinite DEF HeldByMsgs
<1>5. CASE IsReload(m) /\ m.cfg = c
  <2>1. Cardinality(Holding(q, c) \cup {n}) = Cardinality(Holding(q, c)) + 1
    BY <1>2, <1>4, FS_AddElement
  <2>2. Holding(r, c) = Holding(q, c) \cup {n}
    BY <1>3, <1>5
  <2>3. Carries(m, c) = 1
    BY <1>5 DEF Carries
  <2>4. HeldByMsgs(r, c) = HeldByMsgs(q, c) + 1
    BY <2>1, <2>2 DEF HeldByMsgs
  <2> QED
    BY <2>3, <2>4 DEF r
<1>6. CASE ~ (IsReload(m) /\ m.cfg = c)
  <2>1. Holding(r, c) = Holding(q, c)
    BY <1>3, <1>6
  <2>2. Carries(m, c) = 0
    BY <1>6 DEF Carries
  <2>3. HeldByMsgs(r, c) = HeldByMsgs(q, c) /\ HeldByMsgs(q, c) \in Nat
    BY <1>4, <2>1 DEF HeldByMsgs
  <2> QED
    BY <2>2, <2>3 DEF r
<1> QED
  BY <1>5, <1>6

(* A queue of one message.                                                 *)
LEMMA HeldSingle ==
  ASSUME NEW M, NEW m \in M, NEW c
  PROVE  HeldByMsgs(<<m>>, c) = Carries(m, c)
<1>1. << >> \in Seq(M) /\ Append(<< >>, m) = <<m>>
  OBVIOUS
<1>2. HeldByMsgs(Append(<< >>, m), c) = HeldByMsgs(<< >>, c) + Carries(m, c)
  BY <1>1, HeldAppend
<1> QED
  BY <1>1, <1>2, HeldEmpty DEF Carries

(* A message taken is no longer counted: the others move up by one.        *)
LEMMA HeldTail ==
  ASSUME NEW M, NEW q \in Seq(M), q # << >>, NEW c
  PROVE  HeldByMsgs(q, c) = HeldByMsgs(Tail(q), c) + Carries(Head(q), c)
<1> DEFINE A == Holding(Tail(q), c)
           B == Holding(q, c) \ {1}
           f == [i \in A |-> i + 1]
<1>1. /\ Tail(q) \in Seq(M) /\ Head(q) = q[1]
      /\ \A i \in Nat : i \in Reloads(Tail(q)) <=> i >= 1 /\ i + 1 \in Reloads(q)
      /\ \A i \in Reloads(Tail(q)) : i \in Nat /\ Tail(q)[i] = q[i + 1]
      /\ 1 \in Reloads(q) <=> IsReload(Head(q))
  BY ReloadsTail
<1>2. /\ IsFiniteSet(A) /\ Cardinality(A) \in Nat /\ A \subseteq Nat
      /\ IsFiniteSet(Holding(q, c)) /\ Cardinality(Holding(q, c)) \in Nat
      /\ Holding(q, c) \subseteq 1 .. Len(q)
  <2>1. /\ IsFiniteSet(A) /\ HeldByMsgs(Tail(q), c) \in Nat
        /\ A \subseteq 1 .. Len(Tail(q))
    BY <1>1, HoldingFinite
  <2>2. /\ IsFiniteSet(Holding(q, c)) /\ HeldByMsgs(q, c) \in Nat
        /\ Holding(q, c) \subseteq 1 .. Len(q)
    BY HoldingFinite
  <2> QED
    BY <2>1, <2>2 DEF HeldByMsgs
<1>3. \A i \in Nat : i \in A <=> i + 1 \in B
  <2> SUFFICES ASSUME NEW i \in Nat PROVE i \in A <=> i + 1 \in B
    OBVIOUS
  <2>1. i + 1 # 1 <=> i >= 1
    OBVIOUS
  <2>2. i \in Reloads(Tail(q)) => Tail(q)[i] = q[i + 1]
    BY <1>1
  <2>3. i \in Reloads(Tail(q)) <=> i >= 1 /\ i + 1 \in Reloads(q)
    BY <1>1
  <2> QED
    BY <2>1, <2>2, <2>3 DEF Holding
<1>4. \A j \in B : \E i \in A : j = i + 1
  <2> SUFFICES ASSUME NEW j \in B PROVE \E i \in A : j = i + 1
    OBVIOUS
  <2>1. PICK i \in Nat : j = i + 1
    BY <1>2
  <2> QED
    BY <1>3, <2>1
<1>5. f \in Bijection(A, B)
  <2> HIDE DEF A, B
  <2>1. f \in [A -> B] /\ \A i \in A : f[i] = i + 1
    BY <1>2, <1>3
  <2>2. \A i, j \in A : f[i] = f[j] => i = j
    BY <1>2
  <2>3. \A j \in B : \E i \in A : f[i] = j
    BY <1>4, <2>1
  <2> HIDE DEF f
  <2> QED
    BY <2>1, <2>2, <2>3 DEF Bijection, Injection, Surjection, IsInjective
<1>6. ExistsBijection(A, B)
  <2> HIDE DEF A, B, f
  <2> QED
    BY <1>5 DEF ExistsBijection
<1>7. Cardinality(B) = Cardinality(A)
  <2> HIDE DEF A, B
  <2> QED
    BY <1>2, <1>6, FS_Bijection
<1>8. Cardinality(B) = IF 1 \in Holding(q, c) THEN Cardinality(Holding(q, c)) - 1
                                            ELSE Cardinality(Holding(q, c))
  BY <1>2, FS_RemoveElement
<1>9. 1 \in Holding(q, c) <=> IsReload(Head(q)) /\ Head(q).cfg = c
  BY <1>1 DEF Holding
<1> HIDE DEF A, B
<1>10. Cardinality(Holding(q, c)) = Cardinality(A) + Carries(Head(q), c)
  BY <1>2, <1>7, <1>8, <1>9 DEF Carries
<1> QED
  BY <1>10 DEF HeldByMsgs, A

(* All the elements of a family of sets, one set for each session, and the *)
(* same without one of them.                                               *)
Family(f) == UNION {{s} \X f[s] : s \in Sessions}
Others(f, s) == UNION {{t} \X f[t] : t \in Sessions \ {s}}

(* A finite number of finite sets.                                         *)
LEMMA FamilyFinite ==
  ASSUME NEW f, \A s \in Sessions : IsFiniteSet(f[s])
  PROVE  IsFiniteSet(Family(f)) /\ Cardinality(Family(f)) \in Nat
<1> DEFINE g == [s \in Sessions |-> {s} \X f[s]]
           T == {{s} \X f[s] : s \in Sessions}
<1>1. IsFiniteSet(Sessions)
  BY ServerAssumption DEF ServerAssumption
<1>2. g \in Surjection(Sessions, T)
  <2>1. g \in [Sessions -> T] /\ \A t \in T : \E s \in Sessions : g[s] = t
    OBVIOUS
  <2> QED
    BY <2>1 DEF Surjection
<1>3. IsFiniteSet(T)
  <2> HIDE DEF g, T
  <2> QED
    BY <1>1, <1>2, FS_Surjection
<1>4. \A t \in T : IsFiniteSet(t)
  <2> SUFFICES ASSUME NEW s \in Sessions PROVE IsFiniteSet({s} \X f[s])
    OBVIOUS
  <2> QED
    BY FS_Singleton, FS_Product
<1>5. IsFiniteSet(UNION T)
  <2> HIDE DEF T
  <2> QED
    BY <1>3, <1>4, FS_UNION
<1> QED
  BY <1>5, FS_CardinalityType DEF Family

(* The elements of one session are those of no other. *)
LEMMA FamilySplit ==
  ASSUME NEW f, \A s \in Sessions : IsFiniteSet(f[s]), NEW s \in Sessions
  PROVE  /\ Cardinality(Others(f, s)) \in Nat /\ Cardinality(f[s]) \in Nat
         /\ Cardinality(Family(f)) = Cardinality(Others(f, s)) + Cardinality(f[s])
<1>1. Family(f) = Others(f, s) \cup ({s} \X f[s])
  BY DEF Family, Others
<1>2. Others(f, s) \cap ({s} \X f[s]) = {}
  BY DEF Others
<1>3. IsFiniteSet({s}) /\ Cardinality({s}) = 1
  BY FS_Singleton
<1>4. Cardinality(f[s]) \in Nat
  BY FS_CardinalityType
<1>5. IsFiniteSet({s} \X f[s]) /\ Cardinality({s} \X f[s]) = 1 * Cardinality(f[s])
  BY <1>3, FS_Product
<1>6. IsFiniteSet(Others(f, s))
  <2>1. Others(f, s) \subseteq Family(f)
    BY <1>1
  <2> QED
    BY <2>1, FamilyFinite, FS_Subset
<1>7. Cardinality(Others(f, s)) \in Nat
  BY <1>6, FS_CardinalityType
<1>8. Cardinality(Family(f)) =
        Cardinality(Others(f, s)) + Cardinality({s} \X f[s]) - Cardinality({})
  BY <1>1, <1>2, <1>5, <1>6, FS_Union
<1> QED
  BY <1>4, <1>5, <1>7, <1>8, FS_EmptySet

(* A family of which one set changes. *)
LEMMA FamilyChange ==
  ASSUME NEW f, \A s \in Sessions : IsFiniteSet(f[s]),
         NEW g, \A s \in Sessions : IsFiniteSet(g[s]),
         NEW s \in Sessions, \A t \in Sessions \ {s} : g[t] = f[t]
  PROVE  /\ Cardinality(f[s]) \in Nat /\ Cardinality(g[s]) \in Nat
         /\ Cardinality(Family(f)) \in Nat /\ Cardinality(Family(g)) \in Nat
         /\ Cardinality(Family(g)) - Cardinality(g[s]) = Cardinality(Family(f)) - Cardinality(f[s])
<1>1. Others(g, s) = Others(f, s)
  BY DEF Others
<1>2. /\ Cardinality(Others(f, s)) \in Nat /\ Cardinality(f[s]) \in Nat
      /\ Cardinality(Family(f)) = Cardinality(Others(f, s)) + Cardinality(f[s])
  BY FamilySplit
<1>3. /\ Cardinality(g[s]) \in Nat
      /\ Cardinality(Family(g)) = Cardinality(Others(g, s)) + Cardinality(g[s])
  BY FamilySplit
<1> QED
  BY <1>1, <1>2, <1>3

-----------------------------------------------------------------------------
(* What the steps do to the queues and to what is pending for the server.  *)

(* The closed flag, the fd and the items of the queues that are left. *)
LEMMA QueueFacts ==
  ASSUME NEW Item, NEW q \in SyncQueueType(Item)
  PROVE  /\ q.items \in Seq(Item) /\ q.closed \in BOOLEAN
         /\ AfterGetAll(q) \in SyncQueueType(Item) /\ AfterGetAll(q).items = << >>
         /\ AfterGetAll(q).closed = q.closed
         /\ CloseQueue(q) \in SyncQueueType(Item) /\ CloseQueue(q).items = q.items
         /\ CloseQueue(q).closed
<1>1. /\ q.items \in Seq(Item) /\ q.fd \in Nat /\ q.closed \in BOOLEAN
      /\ q = [items |-> q.items, fd |-> q.fd, closed |-> q.closed]
  BY DEF SyncQueueType
<1>2. << >> \in Seq(Item)
  OBVIOUS
<1> QED
  BY <1>1, <1>2 DEF AfterGetAll, CloseQueue, SyncQueueType

(* A put to the server's queue. *)
LEMMA ServerPut ==
  ASSUME Base, NEW m \in ServerMsg, NEW set, NEW r, server_queue_msg(m, set, r)
  PROVE  /\ srvQ' \in SyncQueueType(ServerMsg) /\ srvQ'.closed = srvQ.closed
         /\ faults' \in 0 .. MaxFaults /\ missed' \subseteq Sessions \cup {TheServer}
         /\ \/ /\ ~srvQ.closed /\ srvQ'.items = Append(srvQ.items, m)
               /\ refs' = IF IsReload(m) THEN AddRef(r, m.cfg) ELSE r
               /\ missed' = IF IsReload(m) THEN missed \ {TheServer} ELSE missed
            \/ /\ srvQ'.items = srvQ.items /\ refs' = r
               /\ missed' = IF IsReload(m) THEN missed \cup {TheServer} ELSE missed
            \/ /\ srvQ.closed /\ srvQ'.items = srvQ.items /\ refs' = r
               /\ missed' = IF IsReload(m) THEN missed \ {TheServer} ELSE missed
<1> DEFINE P == Possible(set)
<1>1. PICK out \in PutOutcomes(srvQ, m, P) :
        /\ srvQ' = out.q
        /\ missed' = MissedAfterPut(TheServer, m, out.ret)
        /\ refs' = RefsAfterPut(r, m, out.ret)
        /\ CountFault(out.ret)
  BY DEF server_queue_msg
<1>2. /\ out.q \in SyncQueueType(ServerMsg) /\ out.q.closed = srvQ.closed
      /\ out.ret \in {QUEUE_OK, QUEUE_FAILED, QUEUE_CLOSED}
      /\ out.ret = QUEUE_OK => ~srvQ.closed /\ out.q.items = Append(srvQ.items, m)
      /\ out.ret # QUEUE_OK => out.q.items = srvQ.items
      /\ out.ret = QUEUE_FAILED => ~srvQ.closed /\ P # {}
      /\ out.ret = QUEUE_CLOSED => srvQ.closed
  <2>1. srvQ \in SyncQueueType(ServerMsg)
    BY DEF Base
  <2> HIDE DEF P
  <2> QED
    BY <2>1, PutFacts
<1>3. QUEUE_OK # QUEUE_FAILED /\ QUEUE_OK # QUEUE_CLOSED /\ QUEUE_FAILED # QUEUE_CLOSED
  BY DEF QUEUE_OK, QUEUE_FAILED, QUEUE_CLOSED
<1>4. faults' \in 0 .. MaxFaults
  <2>1. faults \in 0 .. MaxFaults /\ MaxFaults \in Nat
    BY ServerAssumption DEF Base, ServerAssumption
  <2> QED
    BY <1>1, <1>2, <2>1 DEF CountFault, Possible
<1>5. missed \subseteq Sessions \cup {TheServer}
  BY DEF Base
<1>6. /\ out.ret = QUEUE_OK => refs' = IF IsReload(m) THEN AddRef(r, m.cfg) ELSE r
      /\ out.ret # QUEUE_OK => refs' = r
  BY <1>1 DEF RefsAfterPut
<1>7. missed' = IF IsReload(m) THEN IF out.ret = QUEUE_FAILED THEN missed \cup {TheServer}
                                                             ELSE missed \ {TheServer}
                              ELSE missed
  BY <1>1 DEF MissedAfterPut
<1> HIDE DEF P
<1> QED
  BY <1>1, <1>2, <1>3, <1>4, <1>5, <1>6, <1>7

(* A put to a session's queue. *)
LEMMA SessionPut ==
  ASSUME Base, NEW s \in Sessions, NEW m \in SessionMsg, NEW set, session_queue_msg(s, m, set)
  PROVE  /\ sessQ' \in [Sessions -> SyncQueueType(SessionMsg)]
         /\ sessQ'[s].closed = sessQ[s].closed
         /\ \A t \in Sessions \ {s} : sessQ'[t] = sessQ[t]
         /\ faults' \in 0 .. MaxFaults /\ missed' \subseteq Sessions \cup {TheServer}
         /\ \/ /\ ~sessQ[s].closed /\ sessQ'[s].items = Append(sessQ[s].items, m)
               /\ refs' = IF IsReload(m) THEN AddRef(refs, m.cfg) ELSE refs
               /\ missed' = IF IsReload(m) THEN missed \ {s} ELSE missed
            \/ /\ sessQ'[s].items = sessQ[s].items /\ refs' = refs
               /\ missed' = IF IsReload(m) THEN missed \cup {s} ELSE missed
            \/ /\ sessQ[s].closed /\ sessQ'[s].items = sessQ[s].items /\ refs' = refs
               /\ missed' = IF IsReload(m) THEN missed \ {s} ELSE missed
<1> DEFINE P == Possible(set)
<1>1. PICK out \in PutOutcomes(sessQ[s], m, P) :
        /\ sessQ' = [sessQ EXCEPT ![s] = out.q]
        /\ missed' = MissedAfterPut(s, m, out.ret)
        /\ refs' = RefsAfterPut(refs, m, out.ret)
        /\ CountFault(out.ret)
  BY DEF session_queue_msg
<1>0. sessQ \in [Sessions -> SyncQueueType(SessionMsg)] /\ sessQ[s] \in SyncQueueType(SessionMsg)
  BY DEF Base
<1>2. /\ out.q \in SyncQueueType(SessionMsg) /\ out.q.closed = sessQ[s].closed
      /\ out.ret \in {QUEUE_OK, QUEUE_FAILED, QUEUE_CLOSED}
      /\ out.ret = QUEUE_OK => ~sessQ[s].closed /\ out.q.items = Append(sessQ[s].items, m)
      /\ out.ret # QUEUE_OK => out.q.items = sessQ[s].items
      /\ out.ret = QUEUE_FAILED => ~sessQ[s].closed /\ P # {}
      /\ out.ret = QUEUE_CLOSED => sessQ[s].closed
  <2> HIDE DEF P
  <2> QED
    BY <1>0, PutFacts
<1>3. QUEUE_OK # QUEUE_FAILED /\ QUEUE_OK # QUEUE_CLOSED /\ QUEUE_FAILED # QUEUE_CLOSED
  BY DEF QUEUE_OK, QUEUE_FAILED, QUEUE_CLOSED
<1>4. faults' \in 0 .. MaxFaults
  <2>1. faults \in 0 .. MaxFaults /\ MaxFaults \in Nat
    BY ServerAssumption DEF Base, ServerAssumption
  <2> QED
    BY <1>1, <1>2, <2>1 DEF CountFault, Possible
<1>5. missed \subseteq Sessions \cup {TheServer}
  BY DEF Base
<1>6. /\ out.ret = QUEUE_OK => refs' = IF IsReload(m) THEN AddRef(refs, m.cfg) ELSE refs
      /\ out.ret # QUEUE_OK => refs' = refs
  BY <1>1 DEF RefsAfterPut
<1>7. missed' = IF IsReload(m) THEN IF out.ret = QUEUE_FAILED THEN missed \cup {s}
                                                             ELSE missed \ {s}
                              ELSE missed
  BY <1>1 DEF MissedAfterPut
<1>8. /\ sessQ' \in [Sessions -> SyncQueueType(SessionMsg)] /\ sessQ'[s] = out.q
      /\ \A t \in Sessions \ {s} : sessQ'[t] = sessQ[t]
  BY <1>0, <1>1, <1>2
<1> HIDE DEF P
<1> QED
  BY <1>2, <1>3, <1>4, <1>5, <1>6, <1>7, <1>8

(* What is pending for the server, when a message is put, when the batch   *)
(* is handled, and when the queue becomes the batch.                       *)
LEMMA PendingFacts ==
  ASSUME Base
  PROVE  /\ ServerPending \in Seq(ServerMsg)
         /\ srvBatch = << >> => ServerPending = srvQ.items
         /\ srvBatch # << >> =>
              /\ ServerPending # << >> /\ Head(ServerPending) = Head(srvBatch)
              /\ Tail(srvBatch) \in Seq(ServerMsg) /\ Head(srvBatch) \in ServerMsg
              /\ Tail(ServerPending) = Tail(srvBatch) \o srvQ.items
         /\ \A m \in ServerMsg : srvBatch \o Append(srvQ.items, m) = Append(ServerPending, m)
         /\ srvQ.items \o << >> = srvQ.items
<1>1. srvBatch \in Seq(ServerMsg) /\ srvQ.items \in Seq(ServerMsg)
  BY QueueFacts DEF Base
<1>2. srvBatch \o srvQ.items \in Seq(ServerMsg)
  BY <1>1
<1>3. srvBatch = << >> => srvBatch \o srvQ.items = srvQ.items
  BY <1>1
<1>4. srvQ.items \o << >> = srvQ.items
  BY <1>1
<1>5. ASSUME NEW m \in ServerMsg PROVE srvBatch \o Append(srvQ.items, m) = Append(srvBatch \o srvQ.items, m)
  BY <1>1
<1>6. ASSUME srvBatch # << >>
      PROVE  /\ srvBatch \o srvQ.items # << >> /\ Head(srvBatch \o srvQ.items) = Head(srvBatch)
             /\ Tail(srvBatch) \in Seq(ServerMsg) /\ Head(srvBatch) \in ServerMsg
             /\ Tail(srvBatch \o srvQ.items) = Tail(srvBatch) \o srvQ.items
  <2>1. /\ Tail(srvBatch) \in Seq(ServerMsg) /\ Head(srvBatch) \in ServerMsg
        /\ Len(srvBatch) \in Nat /\ Len(srvBatch) > 0
    BY <1>1, <1>6
  <2>2. /\ srvBatch \o srvQ.items # << >> /\ Head(srvBatch \o srvQ.items) = Head(srvBatch)
    BY <1>1, <2>1
  <2>3. Tail(srvBatch \o srvQ.items) = Tail(srvBatch) \o srvQ.items
    BY <1>1, <2>1, <2>2
  <2> QED
    BY <2>1, <2>2, <2>3
<1> QED
  BY <1>2, <1>3, <1>4, <1>5, <1>6 DEF ServerPending

-----------------------------------------------------------------------------
(* How a session's thread moves. *)
LEMMA SessionMoves ==
  ASSUME Base, NEW s \in Sessions
  PROVE  /\ sess[s].pc \in {"none", "poll", "queue", "sock", "end", "empty", "exit", "ended", "freed"}
         /\ sess[s].stop \in BOOLEAN /\ sess[s].cfg \in Cfg
         /\ \A to \in {"end", "empty", "exit", "ended"} : SessionGoes(s, to) =>
              /\ sess' \in [Sessions -> SessType]
              /\ sess'[s].pc = to /\ sess'[s].cfg = sess[s].cfg
              /\ \A t \in Sessions \ {s} : sess'[t] = sess[t]
         /\ \A stop \in {sess[s].stop, TRUE}, next \in {"poll", "queue", "sock"} :
              SessionLoop(s, stop, next) =>
                /\ sess' \in [Sessions -> SessType]
                /\ sess'[s].pc \in {"end", next} /\ sess'[s].cfg = sess[s].cfg
                /\ \A t \in Sessions \ {s} : sess'[t] = sess[t]
<1>1. /\ sess[s].pc \in {"none", "poll", "queue", "sock", "end", "empty", "exit", "ended", "freed"}
      /\ sess[s].stop \in BOOLEAN /\ sess[s].cfg \in Cfg
      /\ sess[s] = [pc |-> sess[s].pc, stop |-> sess[s].stop, cfg |-> sess[s].cfg]
  BY DEF Base, SessType
<1>2. sess \in [Sessions -> SessType]
  BY DEF Base
<1>3. ASSUME NEW to \in {"end", "empty", "exit", "ended"}, SessionGoes(s, to)
      PROVE  /\ sess' \in [Sessions -> SessType]
             /\ sess'[s].pc = to /\ sess'[s].cfg = sess[s].cfg
             /\ \A t \in Sessions \ {s} : sess'[t] = sess[t]
  <2> DEFINE new == [pc |-> to, stop |-> sess[s].stop, cfg |-> sess[s].cfg]
  <2>1. new \in SessType /\ new.pc = to /\ new.cfg = sess[s].cfg
    BY <1>1 DEF SessType
  <2>2. sess' = [sess EXCEPT ![s] = [sess[s] EXCEPT !.pc = to]]
    BY <1>3 DEF SessionGoes
  <2>3. [sess[s] EXCEPT !.pc = to] = new
    BY <1>1
  <2> HIDE DEF new
  <2> QED
    BY <1>2, <2>1, <2>2, <2>3
<1>4. ASSUME NEW stop \in {sess[s].stop, TRUE}, NEW next \in {"poll", "queue", "sock"},
             SessionLoop(s, stop, next)
      PROVE  /\ sess' \in [Sessions -> SessType]
             /\ sess'[s].pc \in {"end", next} /\ sess'[s].cfg = sess[s].cfg
             /\ \A t \in Sessions \ {s} : sess'[t] = sess[t]
  <2> DEFINE to == IF stop THEN "end" ELSE next
  <2> DEFINE new == [pc |-> to, stop |-> stop, cfg |-> sess[s].cfg]
  <2>0. to \in {"end", next} /\ to \in {"end", "poll", "queue", "sock"}
    OBVIOUS
  <2>5. stop \in BOOLEAN
    BY <1>1, Zenon
  <2> HIDE DEF to
  <2>1. new \in SessType /\ new.pc = to /\ new.cfg = sess[s].cfg
    BY <1>1, <2>0, <2>5 DEF SessType
  <2>2. sess' = [sess EXCEPT ![s] = new]
    BY <1>4 DEF SessionLoop, to
  <2> HIDE DEF new
  <2> QED
    BY <1>2, <2>0, <2>1, <2>2
<1> HIDE DEF SessionGoes, SessionLoop
<1> QED
  BY <1>1, <1>3, <1>4, Zenon

(* How the server moves. *)
LEMMA ServerMoves ==
  ASSUME Base
  PROVE  /\ srv.pc \in {"none", "listen", "poll", "batch", "forward", "sock", "end",
                        "empty", "ended"}
         /\ srv.stop \in BOOLEAN /\ srv.cfg \in Cfg
         /\ srv.sessions \subseteq Sessions /\ srv.todo \subseteq Sessions
         /\ srv.wake \subseteq Sessions
         /\ \A to \in {"listen", "poll", "batch", "forward", "sock", "end", "empty", "ended"} :
              ServerGoes(to) =>
                /\ srv' \in SrvType /\ srv'.pc = to /\ srv'.cfg = srv.cfg
                /\ srv'.sessions = srv.sessions /\ srv'.todo = srv.todo
                /\ srv'.wake = srv.wake
BY DEF Base, SrvType, ServerGoes

(* Reference counts are numbers, and what is added to them. *)
LEMMA RefFacts ==
  ASSUME NEW r \in [Cfg -> Int]
  PROVE  /\ \A c \in Cfg : /\ AddRef(r, c) \in [Cfg -> Int] /\ DropRef(r, c) \in [Cfg -> Int]
                           /\ \A d \in Cfg : AddRef(r, c)[d] = r[d] + (IF d = c THEN 1 ELSE 0)
                           /\ \A d \in Cfg : DropRef(r, c)[d] = r[d] - (IF d = c THEN 1 ELSE 0)
         /\ \A M : \A q \in Seq(M) :
              /\ DropMsgs(r, q) \in [Cfg -> Int]
              /\ \A d \in Cfg : DropMsgs(r, q)[d] = r[d] - HeldByMsgs(q, d)
<1>1. ASSUME NEW c \in Cfg
      PROVE  /\ AddRef(r, c) \in [Cfg -> Int] /\ DropRef(r, c) \in [Cfg -> Int]
             /\ \A d \in Cfg : AddRef(r, c)[d] = r[d] + (IF d = c THEN 1 ELSE 0)
             /\ \A d \in Cfg : DropRef(r, c)[d] = r[d] - (IF d = c THEN 1 ELSE 0)
  BY DEF AddRef, DropRef
<1>2. ASSUME NEW M, NEW q \in Seq(M)
      PROVE  /\ DropMsgs(r, q) \in [Cfg -> Int]
             /\ \A d \in Cfg : DropMsgs(r, q)[d] = r[d] - HeldByMsgs(q, d)
  <2>1. \A d \in Cfg : HeldByMsgs(q, d) \in Nat
    BY HoldingFinite
  <2> QED
    BY <2>1 DEF DropMsgs
<1> QED
  BY <1>1, <1>2

(* A session that is freed: what the list, the session, its queue and the  *)
(* reference counts are then.                                              *)
LEMMA DestroyFacts ==
  ASSUME Base, NEW s \in Sessions, DestroySession(s)
  PROVE  /\ srv' \in SrvType /\ srv'.sessions = srv.sessions \ {s} /\ srv'.pc = srv.pc
         /\ srv'.cfg = srv.cfg /\ srv'.todo = srv.todo /\ srv'.wake = srv.wake
         /\ sess' \in [Sessions -> SessType] /\ sess'[s].pc = "freed"
         /\ \A t \in Sessions \ {s} : sess'[t] = sess[t]
         /\ sessQ' \in [Sessions -> SyncQueueType(SessionMsg)] /\ sessQ'[s].items = << >>
         /\ \A t \in Sessions \ {s} : sessQ'[t] = sessQ[t]
         /\ refs' \in [Cfg -> Int]
         /\ \A d \in Cfg : refs'[d] = refs[d] - HeldByMsgs(sessQ[s].items, d)
                                               - (IF d = sess[s].cfg THEN 1 ELSE 0)
<1>1. /\ srv' \in SrvType /\ srv'.sessions = srv.sessions \ {s} /\ srv'.pc = srv.pc
      /\ srv'.cfg = srv.cfg /\ srv'.todo = srv.todo /\ srv'.wake = srv.wake
  BY DEF DestroySession, Base, SrvType
<1>2. /\ sess' \in [Sessions -> SessType] /\ sess'[s].pc = "freed"
      /\ \A t \in Sessions \ {s} : sess'[t] = sess[t]
  <2> DEFINE new == [NoSession EXCEPT !.pc = "freed"]
  <2>1. 0 \in Cfg
    BY ServerAssumption DEF ServerAssumption, Cfg
  <2>2. new \in SessType /\ new.pc = "freed"
    BY <2>1 DEF NoSession, SessType
  <2>3. sess \in [Sessions -> SessType]
    BY DEF Base
  <2>4. sess' = [sess EXCEPT ![s] = new]
    BY DEF DestroySession
  <2> HIDE DEF new
  <2> QED
    BY <2>2, <2>3, <2>4
<1>3. /\ sessQ' \in [Sessions -> SyncQueueType(SessionMsg)] /\ sessQ'[s].items = << >>
      /\ \A t \in Sessions \ {s} : sessQ'[t] = sessQ[t]
  <2>1. sessQ \in [Sessions -> SyncQueueType(SessionMsg)]
    BY DEF Base
  <2>2. sessQ' = [sessQ EXCEPT ![s] = AfterGetAll(sessQ[s])]
    BY DEF DestroySession
  <2>3. /\ AfterGetAll(sessQ[s]) \in SyncQueueType(SessionMsg)
        /\ AfterGetAll(sessQ[s]).items = << >>
    BY <2>1, QueueFacts
  <2> QED
    BY <2>1, <2>2, <2>3
<1>4. /\ refs' \in [Cfg -> Int]
      /\ \A d \in Cfg : refs'[d] = refs[d] - HeldByMsgs(sessQ[s].items, d)
                                            - (IF d = sess[s].cfg THEN 1 ELSE 0)
  <2> DEFINE q == sessQ[s].items
             r == DropMsgs(refs, q)
  <2>1. q \in Seq(SessionMsg) /\ sess[s].cfg \in Cfg /\ refs \in [Cfg -> Int]
    BY QueueFacts, SessionMoves DEF Base
  <2>2. refs' = DropRef(r, sess[s].cfg)
    BY DEF DestroySession, RefsAfterSessionDestroy
  <2>3. r \in [Cfg -> Int] /\ \A d \in Cfg : r[d] = refs[d] - HeldByMsgs(q, d)
    <3> HIDE DEF q
    <3> QED
      BY <2>1, RefFacts
  <2>4. /\ DropRef(r, sess[s].cfg) \in [Cfg -> Int]
        /\ \A d \in Cfg : DropRef(r, sess[s].cfg)[d] = r[d] - (IF d = sess[s].cfg THEN 1 ELSE 0)
    <3> HIDE DEF r
    <3> QED
      BY <2>1, <2>3, RefFacts
  <2> QED
    BY <2>2, <2>3, <2>4
<1> QED
  BY <1>1, <1>2, <1>3, <1>4

-----------------------------------------------------------------------------
(* The configuration a session ends up with is one that was loaded. *)
LEMMA LatestType ==
  ASSUME NEW c \in Cfg, NEW q \in Seq(SessionMsg)
  PROVE  Latest(c, q) \in Cfg
<1>1. ASSUME NEW i \in Reloads(q) PROVE q[i].cfg \in Cfg
  <2>1. q[i] \in SessionMsg /\ IsReload(q[i])
    BY DEF Reloads
  <2> QED
    BY <2>1, SessionMsgFacts
<1> QED
  BY <1>1, LatestFacts

(* Every step keeps the types. *)
LEMMA BaseStep == Base /\ Control /\ [Next]_vars => Base'
<1> SUFFICES ASSUME Base, Control PROVE [Next]_vars => Base'
  OBVIOUS
<1>0. /\ globalCfg \in Cfg /\ refs \in [Cfg -> Int] /\ srvQ \in SyncQueueType(ServerMsg)
      /\ \A s \in Sessions : sessQ[s] \in SyncQueueType(SessionMsg)
  BY DEF Base
<1>1. ASSUME Start PROVE Base'
  BY <1>1 DEF Start, Base, SrvType
<1>2. ASSUME Reload PROVE Base'
  <2> DEFINE r == AddRef(DropRef(refs, globalCfg), globalCfg + 1)
  <2>1. globalCfg + 1 \in Cfg /\ ReloadMsg(globalCfg + 1) \in ServerMsg
        /\ ReloadMsg(globalCfg + 1).cfg \in Cfg
    <3>1. globalCfg + 1 \in Cfg
      BY <1>2, <1>0, ServerAssumption DEF Reload, Cfg, ServerAssumption
    <3> QED
      BY <3>1, NewMsgs
  <2>2. r \in [Cfg -> Int]
    BY <1>0, <2>1, RefFacts
  <2>3. server_queue_msg(ReloadMsg(globalCfg + 1), MainFaults, r)
    BY <1>2 DEF Reload
  <2> HIDE DEF r
  <2>4. /\ srvQ' \in SyncQueueType(ServerMsg)
        /\ faults' \in 0 .. MaxFaults /\ missed' \subseteq Sessions \cup {TheServer}
        /\ refs' \in {r, AddRef(r, ReloadMsg(globalCfg + 1).cfg)}
    BY <2>1, <2>3, ServerPut
  <2>5. refs' \in [Cfg -> Int]
    BY <2>1, <2>2, <2>4, RefFacts
  <2> QED
    BY <1>2, <2>1, <2>4, <2>5 DEF Reload, Base
<1>3. ASSUME ReloadDebug PROVE Base'
  <2>1. DebugMsg \in ServerMsg /\ ~IsReload(DebugMsg)
    BY NewMsgs
  <2>2. server_queue_msg(DebugMsg, MainFaults, refs)
    BY <1>3 DEF ReloadDebug
  <2>3. /\ srvQ' \in SyncQueueType(ServerMsg)
        /\ faults' \in 0 .. MaxFaults /\ missed' \subseteq Sessions \cup {TheServer}
        /\ refs' = refs
    BY <2>1, <2>2, ServerPut
  <2>4. debugs' \in 0 .. MaxDebugs
    BY <1>3, ServerAssumption DEF ReloadDebug, Base, ServerAssumption
  <2> QED
    BY <1>3, <2>3, <2>4 DEF ReloadDebug, Base
<1>4. ASSUME Destroy PROVE Base'
  <2>1. StopMsg \in ServerMsg /\ ~IsReload(StopMsg)
    BY NewMsgs
  <2>2. server_queue_msg(StopMsg, StopFaults, refs)
    BY <1>4 DEF Destroy
  <2>3. /\ srvQ' \in SyncQueueType(ServerMsg)
        /\ faults' \in 0 .. MaxFaults /\ missed' \subseteq Sessions \cup {TheServer}
        /\ refs' = refs
    BY <2>1, <2>2, ServerPut
  <2> QED
    BY <1>4, <2>3 DEF Destroy, Base
<1>5. ASSUME JoinServer PROVE Base'
  BY <1>5 DEF JoinServer, Base, SrvType
<1>6. ASSUME StopSessionsEnd PROVE Base'
  BY <1>6, ServerMoves DEF StopSessionsEnd, Base
<1>7. ASSUME JoinSessionsEnd PROVE Base'
  BY <1>7, ServerMoves DEF JoinSessionsEnd, Base
<1>8. ASSUME Release PROVE Base'
  <2>1. srv.cfg \in Cfg
    BY ServerMoves
  <2>2. refs' \in [Cfg -> Int]
    <3>1. DropRef(refs, srv.cfg) \in [Cfg -> Int]
      BY <1>0, <2>1, RefFacts
    <3> QED
      BY <1>8, <1>0, <3>1, RefFacts DEF Release
  <2> QED
    BY <1>8, <2>2 DEF Release, Base
<1>9. ASSUME NEW s \in Sessions, SetStop(s) PROVE Base'
  <2>1. srv' \in SrvType
    BY <1>9 DEF SetStop, Base, SrvType
  <2>2. sess' \in [Sessions -> SessType]
    BY <1>9 DEF SetStop, Base, SessType
  <2> QED
    BY <1>9, <2>1, <2>2 DEF SetStop, Base
<1>10. ASSUME NEW s \in Sessions, WakeSession(s) PROVE Base'
  <2>1. NoopMsg \in SessionMsg /\ ~IsReload(NoopMsg)
    BY NewMsgs
  <2>2. session_queue_msg(s, NoopMsg, MainFaults)
    BY <1>10 DEF WakeSession
  <2>3. /\ sessQ' \in [Sessions -> SyncQueueType(SessionMsg)]
        /\ faults' \in 0 .. MaxFaults /\ missed' \subseteq Sessions \cup {TheServer}
        /\ refs' = refs
    BY <2>1, <2>2, SessionPut
  <2>4. srv' \in SrvType
    BY <1>10 DEF WakeSession, Base, SrvType
  <2> QED
    BY <1>10, <2>3, <2>4 DEF WakeSession, Base
<1>11. ASSUME NEW s \in Sessions, JoinSession(s) PROVE Base'
  <2>1. DestroySession(s)
    BY <1>11 DEF JoinSession
  <2>2. /\ srv' \in SrvType /\ sess' \in [Sessions -> SessType]
        /\ sessQ' \in [Sessions -> SyncQueueType(SessionMsg)] /\ refs' \in [Cfg -> Int]
    BY <2>1, DestroyFacts
  <2> QED
    BY <1>11, <2>2 DEF JoinSession, Base
<1>12. ASSUME Listen PROVE Base'
  BY <1>12 DEF Listen, ServerGoes, Base, SrvType
<1>13. ASSUME ServerPollQueue PROVE Base'
  <2>1. srvQ.items \in Seq(ServerMsg) /\ AfterGetAll(srvQ) \in SyncQueueType(ServerMsg)
    BY <1>0, QueueFacts
  <2> QED
    BY <1>13, <2>1, ServerMoves DEF ServerPollQueue, Base
<1>14. ASSUME ServerReloadConfig PROVE Base'
  <2>1. Head(srvBatch) \in ServerMsg /\ Tail(srvBatch) \in Seq(ServerMsg)
    BY <1>14, PendingFacts DEF ServerReloadConfig, NextMsg
  <2> DEFINE c == Head(srvBatch).cfg
  <2>2. c \in Cfg /\ srv.cfg \in Cfg
    BY <1>14, <2>1, ServerMsgFacts, ServerMoves DEF ServerReloadConfig, NextMsg
  <2>3. refs' \in [Cfg -> Int]
    <3>1. DropRef(refs, srv.cfg) \in [Cfg -> Int]
      BY <1>0, <2>2, RefFacts
    <3>2. refs' = AddRef(DropRef(refs, srv.cfg), c)
      BY <1>14 DEF ServerReloadConfig
    <3> HIDE DEF c
    <3> QED
      BY <2>2, <3>1, <3>2, RefFacts
  <2>4. srv' \in SrvType
    <3>1. srv' = [srv EXCEPT !.pc = "forward", !.cfg = c, !.todo = srv.sessions]
      BY <1>14 DEF ServerReloadConfig
    <3> HIDE DEF c
    <3> QED
      BY <2>2, <3>1 DEF Base, SrvType
  <2> QED
    BY <1>14, <2>3, <2>4 DEF ServerReloadConfig, Base
<1>15. ASSUME ServerReloadDebug PROVE Base'
  BY <1>15 DEF ServerReloadDebug, NextMsg, Base, SrvType
<1>16. ASSUME ForwardEnd PROVE Base'
  <2>1. Head(srvBatch) \in ServerMsg /\ Tail(srvBatch) \in Seq(ServerMsg)
    BY <1>16, PendingFacts DEF ForwardEnd, Control, Threads
  <2>2. refs' \in [Cfg -> Int]
    <3>1. <<Head(srvBatch)>> \in Seq(ServerMsg)
      BY <2>1
    <3> QED
      BY <1>16, <1>0, <3>1, RefFacts DEF ForwardEnd
  <2> QED
    BY <1>16, <2>1, <2>2, ServerMoves DEF ForwardEnd, Base
<1>17. ASSUME ServerSessionEnd PROVE Base'
  <2>1. Head(srvBatch) \in ServerMsg /\ Tail(srvBatch) \in Seq(ServerMsg)
    BY <1>17, PendingFacts DEF ServerSessionEnd, NextMsg
  <2>2. PICK s \in Sessions : s = Head(srvBatch).session
    BY <1>17, <2>1, ServerMsgFacts DEF ServerSessionEnd, NextMsg
  <2>3. DestroySession(s)
    BY <1>17, <2>2 DEF ServerSessionEnd
  <2>4. /\ srv' \in SrvType /\ sess' \in [Sessions -> SessType]
        /\ sessQ' \in [Sessions -> SyncQueueType(SessionMsg)] /\ refs' \in [Cfg -> Int]
    BY <2>3, DestroyFacts
  <2> QED
    BY <1>17, <2>1, <2>4 DEF ServerSessionEnd, Base
<1>18. ASSUME ServerStop PROVE Base'
  <2>1. Head(srvBatch) \in ServerMsg /\ Tail(srvBatch) \in Seq(ServerMsg)
    BY <1>18, PendingFacts DEF ServerStop, NextMsg
  <2>2. srv' \in SrvType
    BY <1>18 DEF ServerStop, Base, SrvType
  <2> QED
    BY <1>18, <2>1, <2>2 DEF ServerStop, Base
<1>19. ASSUME ServerBatchEnd PROVE Base'
  BY <1>19, ServerMoves DEF ServerBatchEnd, Base
<1>20. ASSUME AcceptDropped PROVE Base'
  BY <1>20, ServerMoves DEF AcceptDropped, Base
<1>21. ASSUME AcceptFailed PROVE Base'
  BY <1>21 DEF AcceptFailed, Base, SrvType
<1>22. ASSUME ServerClose PROVE Base'
  BY <1>22, <1>0, QueueFacts, ServerMoves DEF ServerClose, Base
<1>23. ASSUME ServerEmpty PROVE Base'
  <2>1. AfterGetAll(srvQ) \in SyncQueueType(ServerMsg) /\ srvQ.items \in Seq(ServerMsg)
    BY <1>0, QueueFacts
  <2>2. refs' \in [Cfg -> Int]
    BY <1>23, <1>0, <2>1, RefFacts DEF ServerEmpty
  <2> QED
    BY <1>23, <2>1, <2>2, ServerMoves DEF ServerEmpty, Base
<1>24. ASSUME NEW s \in Sessions, Forward(s) PROVE Base'
  <2> DEFINE m == Head(srvBatch)
  <2>1. m \in ServerMsg /\ m \in SessionMsg /\ (IsReload(m) => m.cfg \in Cfg)
    <3>1. srvBatch # << >> /\ Head(srvBatch).id \in {"RELOAD_CONFIG", "RELOAD_DEBUG"}
      BY <1>24 DEF Forward, Control, Threads
    <3>2. Head(srvBatch) \in ServerMsg
      BY <3>1, PendingFacts
    <3> QED
      BY <3>1, <3>2, ServerMsgFacts
  <2>2. session_queue_msg(s, m, ServerFaults)
    BY <1>24 DEF Forward
  <2> HIDE DEF m
  <2>3. /\ sessQ' \in [Sessions -> SyncQueueType(SessionMsg)]
        /\ faults' \in 0 .. MaxFaults /\ missed' \subseteq Sessions \cup {TheServer}
        /\ refs' = refs \/ (IsReload(m) /\ refs' = AddRef(refs, m.cfg))
    BY <2>1, <2>2, SessionPut
  <2>4. refs' \in [Cfg -> Int]
    BY <1>0, <2>1, <2>3, RefFacts
  <2>5. srv' \in SrvType
    BY <1>24 DEF Forward, Base, SrvType
  <2> QED
    BY <1>24, <2>3, <2>4, <2>5 DEF Forward, Base
<1>25. ASSUME NEW s \in Sessions, Accept(s) PROVE Base'
  <2>1. srv.cfg \in Cfg
    BY ServerMoves
  <2>2. refs' \in [Cfg -> Int]
    BY <1>25, <1>0, <2>1, RefFacts DEF Accept
  <2>3. sess' \in [Sessions -> SessType]
    <3>1. [NoSession EXCEPT !.pc = "poll", !.cfg = srv.cfg] \in SessType
      BY <2>1 DEF NoSession, SessType
    <3> QED
      BY <1>25, <3>1 DEF Accept, Base
  <2>4. srv' \in SrvType
    BY <1>25 DEF Accept, Base, SrvType
  <2> QED
    BY <1>25, <2>2, <2>3, <2>4 DEF Accept, Base
<1>26. ASSUME ServerPollError PROVE Base'
  BY <1>26, ServerMoves DEF ServerPollError, Base
<1>27. ASSUME ServerPollSocket PROVE Base'
  BY <1>27, ServerMoves DEF ServerPollSocket, Base
<1>28. ASSUME NEW s \in Sessions, SessionPollQueue(s) PROVE Base'
  <2>1. sess' \in [Sessions -> SessType]
    BY <1>28, SessionMoves DEF SessionPollQueue
  <2> QED
    BY <1>28, <2>1 DEF SessionPollQueue, Base
<1>29. ASSUME NEW s \in Sessions, SessionQueueEvents(s) PROVE Base'
  <2> DEFINE msgs == sessQ[s].items
             new == Latest(sess[s].cfg, msgs)
             r == DropMsgs(refs, msgs)
  <2>1. /\ msgs \in Seq(SessionMsg) /\ AfterGetAll(sessQ[s]) \in SyncQueueType(SessionMsg)
        /\ sess[s].cfg \in Cfg /\ sess[s].stop \in BOOLEAN
    BY <1>0, QueueFacts, SessionMoves
  <2>2. new \in Cfg
    BY <2>1, LatestType
  <2>3. refs' \in [Cfg -> Int]
    <3>1. refs' = AddRef(DropRef(r, sess[s].cfg), new)
      BY <1>29 DEF SessionQueueEvents
    <3>2. r \in [Cfg -> Int]
      BY <1>0, <2>1, RefFacts
    <3> HIDE DEF r, new
    <3>3. DropRef(r, sess[s].cfg) \in [Cfg -> Int]
      BY <2>1, <3>2, RefFacts
    <3> QED
      BY <2>2, <3>1, <3>3, RefFacts
  <2>4. sess' \in [Sessions -> SessType]
    <3>1. PICK stop \in {sess[s].stop, sess[s].stop \/ Reloads(msgs) # {}},
               next \in {"sock", "poll"} :
                 sess' = [sess EXCEPT ![s] = [pc   |-> IF stop THEN "end" ELSE next,
                                              stop |-> stop,
                                              cfg  |-> new]]
      BY <1>29 DEF SessionQueueEvents
    <3>2. stop \in BOOLEAN
      BY <2>1, Zenon
    <3> HIDE DEF new
    <3>3. [pc |-> IF stop THEN "end" ELSE next, stop |-> stop, cfg |-> new] \in SessType
      BY <2>2, <3>2 DEF SessType
    <3> QED
      BY <3>1, <3>3 DEF Base
  <2>5. sessQ' \in [Sessions -> SyncQueueType(SessionMsg)]
    BY <1>29, <2>1 DEF SessionQueueEvents, Base
  <2> QED
    BY <1>29, <2>3, <2>4, <2>5 DEF SessionQueueEvents, Base
<1>30. ASSUME NEW s \in Sessions, SessionSockEvents(s) PROVE Base'
  <2>1. sess' \in [Sessions -> SessType]
    BY <1>30, SessionMoves DEF SessionSockEvents
  <2> QED
    BY <1>30, <2>1 DEF SessionSockEvents, Base
<1>31. ASSUME NEW s \in Sessions, SessionClose(s) PROVE Base'
  <2>1. CloseQueue(sessQ[s]) \in SyncQueueType(SessionMsg)
    BY <1>0, QueueFacts
  <2> QED
    BY <1>31, <2>1, SessionMoves DEF SessionClose, Base
<1>32. ASSUME NEW s \in Sessions, SessionEmpty(s) PROVE Base'
  <2>1. AfterGetAll(sessQ[s]) \in SyncQueueType(SessionMsg) /\ sessQ[s].items \in Seq(SessionMsg)
    BY <1>0, QueueFacts
  <2>2. refs' \in [Cfg -> Int]
    BY <1>32, <1>0, <2>1, RefFacts DEF SessionEmpty
  <2> QED
    BY <1>32, <2>1, <2>2, SessionMoves DEF SessionEmpty, Base
<1>33. ASSUME NEW s \in Sessions, SessionExit(s) PROVE Base'
  <2>1. SessionEndMsg(s) \in ServerMsg /\ ~IsReload(SessionEndMsg(s))
    BY NewMsgs
  <2>2. server_queue_msg(SessionEndMsg(s), SessionFaults, refs)
    BY <1>33 DEF SessionExit
  <2>3. /\ srvQ' \in SyncQueueType(ServerMsg)
        /\ faults' \in 0 .. MaxFaults /\ missed' \subseteq Sessions \cup {TheServer}
        /\ refs' = refs
    BY <2>1, <2>2, ServerPut
  <2> QED
    BY <1>33, <2>3, SessionMoves DEF SessionExit, Base
<1>34. ASSUME NEW s \in Sessions, SessionPollError(s) PROVE Base'
  <2>1. sess' \in [Sessions -> SessType]
    BY <1>34, SessionMoves DEF SessionPollError
  <2> QED
    BY <1>34, <2>1 DEF SessionPollError, Base
<1>35. ASSUME NEW s \in Sessions, SessionTimer(s) PROVE Base'
  <2>1. sess' \in [Sessions -> SessType]
    BY <1>35, SessionMoves DEF SessionTimer
  <2> QED
    BY <1>35, <2>1 DEF SessionTimer, Base
<1>36. ASSUME NEW s \in Sessions, SessionPollSocket(s) PROVE Base'
  <2>1. sess' \in [Sessions -> SessType]
    BY <1>36, SessionMoves DEF SessionPollSocket
  <2> QED
    BY <1>36, <2>1 DEF SessionPollSocket, Base
<1>37. ASSUME UNCHANGED vars PROVE Base'
  BY <1>37 DEF vars, Base
<1> QED
  BY <1>1, <1>2, <1>3, <1>4, <1>5, <1>6, <1>7, <1>8, <1>9, <1>10, <1>11, <1>12, <1>13,
     <1>14, <1>15, <1>16, <1>17, <1>18, <1>19, <1>20, <1>21, <1>22, <1>23, <1>24, <1>25,
     <1>26, <1>27, <1>28, <1>29, <1>30, <1>31, <1>32, <1>33, <1>34, <1>35, <1>36, <1>37
     DEF Next, MainEnds, ServerNext, ServerRuns, SessionNext, SessionRuns

-----------------------------------------------------------------------------
(* The main thread and the server thread stay in step. *)
LEMMA ThreadsStep == Base /\ Control /\ ListIsComplete /\ [Next]_vars => Threads'
<1> SUFFICES ASSUME Base, Control, ListIsComplete PROVE [Next]_vars => Threads'
  OBVIOUS
<1>0. Threads /\ srv \in SrvType /\ srvQ \in SyncQueueType(ServerMsg)
  BY DEF Base, Control
<1>1. ASSUME Start PROVE Threads'
  BY <1>1, <1>0 DEF Start, Threads, SrvType
<1>2. ASSUME Reload PROVE Threads'
  <2>1. ReloadMsg(globalCfg + 1) \in ServerMsg
    <3>1. globalCfg + 1 \in Cfg
      BY <1>2, ServerAssumption DEF Reload, Cfg, ServerAssumption, Base
    <3> QED
      BY <3>1, NewMsgs
  <2>2. server_queue_msg(ReloadMsg(globalCfg + 1), MainFaults, AddRef(DropRef(refs, globalCfg), globalCfg + 1))
    BY <1>2 DEF Reload
  <2>3. srvQ'.closed = srvQ.closed /\ (srvQ.closed => srvQ'.items = srvQ.items)
    BY <2>1, <2>2, ServerPut
  <2> QED
    BY <1>2, <1>0, <2>3 DEF Reload, Threads
<1>3. ASSUME ReloadDebug PROVE Threads'
  <2>1. DebugMsg \in ServerMsg
    BY NewMsgs
  <2>2. server_queue_msg(DebugMsg, MainFaults, refs)
    BY <1>3 DEF ReloadDebug
  <2>3. srvQ'.closed = srvQ.closed /\ (srvQ.closed => srvQ'.items = srvQ.items)
    BY <2>1, <2>2, ServerPut
  <2> QED
    BY <1>3, <1>0, <2>3 DEF ReloadDebug, Threads
<1>4. ASSUME Destroy PROVE Threads'
  <2>1. StopMsg \in ServerMsg
    BY NewMsgs
  <2>2. server_queue_msg(StopMsg, StopFaults, refs)
    BY <1>4 DEF Destroy
  <2>3. srvQ'.closed = srvQ.closed /\ (srvQ.closed => srvQ'.items = srvQ.items)
    BY <2>1, <2>2, ServerPut
  <2> QED
    BY <1>4, <1>0, <2>3 DEF Destroy, Threads
<1>5. ASSUME JoinServer PROVE Threads'
  BY <1>5, <1>0 DEF JoinServer, Threads, SrvType
<1>6. ASSUME StopSessionsEnd PROVE Threads'
  BY <1>6, <1>0 DEF StopSessionsEnd, Threads, SrvType
<1>7. ASSUME JoinSessionsEnd PROVE Threads'
  BY <1>7, <1>0 DEF JoinSessionsEnd, Threads, SrvType
<1>8. ASSUME Release PROVE Threads'
  BY <1>8, <1>0 DEF Release, Threads, SrvType
<1>9. ASSUME NEW s \in Sessions, SetStop(s) PROVE Threads'
  BY <1>9, <1>0 DEF SetStop, Threads, SrvType
<1>10. ASSUME NEW s \in Sessions, WakeSession(s) PROVE Threads'
  BY <1>10, <1>0 DEF WakeSession, Threads, SrvType
<1>11. ASSUME NEW s \in Sessions, JoinSession(s) PROVE Threads'
  BY <1>11, <1>0 DEF JoinSession, DestroySession, Threads, SrvType
<1>12. ASSUME Listen PROVE Threads'
  BY <1>12, <1>0 DEF Listen, ServerGoes, Threads, SrvType
<1>13. ASSUME ServerPollQueue PROVE Threads'
  BY <1>13, <1>0, QueueFacts, ServerMoves DEF ServerPollQueue, Threads
<1>14. ASSUME ServerReloadConfig PROVE Threads'
  BY <1>14, <1>0 DEF ServerReloadConfig, NextMsg, Threads, SrvType
<1>15. ASSUME ServerReloadDebug PROVE Threads'
  BY <1>15, <1>0 DEF ServerReloadDebug, NextMsg, Threads, SrvType
<1>16. ASSUME ForwardEnd PROVE Threads'
  BY <1>16, <1>0 DEF ForwardEnd, ServerGoes, Threads, SrvType
<1>17. ASSUME ServerSessionEnd PROVE Threads'
  <2>1. Head(srvBatch) \in ServerMsg
    BY <1>17, PendingFacts DEF ServerSessionEnd, NextMsg
  <2>2. PICK s \in Sessions : s = Head(srvBatch).session
    BY <1>17, <2>1, ServerMsgFacts DEF ServerSessionEnd, NextMsg
  <2>3. DestroySession(s)
    BY <1>17, <2>2 DEF ServerSessionEnd
  <2>4. /\ srv'.sessions = srv.sessions \ {s} /\ srv'.pc = srv.pc
        /\ srv'.todo = srv.todo /\ srv'.wake = srv.wake
    BY <2>3, DestroyFacts
  <2> QED
    BY <1>17, <1>0, <2>4 DEF ServerSessionEnd, NextMsg, Threads
<1>18. ASSUME ServerStop PROVE Threads'
  BY <1>18, <1>0 DEF ServerStop, NextMsg, Threads, SrvType
<1>19. ASSUME ServerBatchEnd PROVE Threads'
  BY <1>19, <1>0 DEF ServerBatchEnd, ServerGoes, Threads, SrvType
<1>20. ASSUME AcceptDropped PROVE Threads'
  BY <1>20, <1>0 DEF AcceptDropped, ServerGoes, Threads, SrvType
<1>21. ASSUME AcceptFailed PROVE Threads'
  BY <1>21, <1>0 DEF AcceptFailed, Threads, SrvType
<1>22. ASSUME ServerClose PROVE Threads'
  BY <1>22, <1>0, QueueFacts, ServerMoves DEF ServerClose, Threads
<1>23. ASSUME ServerEmpty PROVE Threads'
  BY <1>23, <1>0, QueueFacts, ServerMoves DEF ServerEmpty, Threads
<1>24. ASSUME NEW s \in Sessions, Forward(s) PROVE Threads'
  BY <1>24, <1>0 DEF Forward, Threads, SrvType
<1>25. ASSUME NEW s \in Sessions, Accept(s) PROVE Threads'
  BY <1>25, <1>0 DEF Accept, Threads, SrvType
<1>26. ASSUME ServerPollError PROVE Threads'
  BY <1>26, <1>0 DEF ServerPollError, ServerGoes, Threads, SrvType
<1>27. ASSUME ServerPollSocket PROVE Threads'
  BY <1>27, <1>0 DEF ServerPollSocket, ServerGoes, Threads, SrvType
<1>28. ASSUME NEW s \in Sessions, SessionPollQueue(s) PROVE Threads'
  BY <1>28, <1>0 DEF SessionPollQueue, Threads, SrvType
<1>29. ASSUME NEW s \in Sessions, SessionQueueEvents(s) PROVE Threads'
  BY <1>29, <1>0 DEF SessionQueueEvents, Threads, SrvType
<1>30. ASSUME NEW s \in Sessions, SessionSockEvents(s) PROVE Threads'
  BY <1>30, <1>0 DEF SessionSockEvents, Threads, SrvType
<1>31. ASSUME NEW s \in Sessions, SessionClose(s) PROVE Threads'
  BY <1>31, <1>0 DEF SessionClose, SessionGoes, Threads, SrvType
<1>32. ASSUME NEW s \in Sessions, SessionEmpty(s) PROVE Threads'
  BY <1>32, <1>0 DEF SessionEmpty, SessionGoes, Threads, SrvType
<1>33. ASSUME NEW s \in Sessions, SessionExit(s) PROVE Threads'
  <2>1. SessionEndMsg(s) \in ServerMsg
    BY NewMsgs
  <2>2. server_queue_msg(SessionEndMsg(s), SessionFaults, refs)
    BY <1>33 DEF SessionExit
  <2>3. srvQ'.closed = srvQ.closed /\ (srvQ.closed => srvQ'.items = srvQ.items)
    BY <2>1, <2>2, ServerPut
  <2> QED
    BY <1>33, <1>0, <2>3 DEF SessionExit, Threads
<1>34. ASSUME NEW s \in Sessions, SessionPollError(s) PROVE Threads'
  BY <1>34, <1>0 DEF SessionPollError, SessionGoes, Threads, SrvType
<1>35. ASSUME NEW s \in Sessions, SessionTimer(s) PROVE Threads'
  BY <1>35, <1>0 DEF SessionTimer, Threads, SrvType
<1>36. ASSUME NEW s \in Sessions, SessionPollSocket(s) PROVE Threads'
  BY <1>36, <1>0 DEF SessionPollSocket, Threads, SrvType
<1>37. ASSUME UNCHANGED vars PROVE Threads'
  BY <1>37, <1>0 DEF vars, Threads, SrvType
<1> QED
  BY <1>1, <1>2, <1>3, <1>4, <1>5, <1>6, <1>7, <1>8, <1>9, <1>10, <1>11, <1>12, <1>13,
     <1>14, <1>15, <1>16, <1>17, <1>18, <1>19, <1>20, <1>21, <1>22, <1>23, <1>24, <1>25,
     <1>26, <1>27, <1>28, <1>29, <1>30, <1>31, <1>32, <1>33, <1>34, <1>35, <1>36, <1>37
     DEF Next, MainEnds, ServerNext, ServerRuns, SessionNext, SessionRuns

-----------------------------------------------------------------------------
(* A session's queue is empty before and after its thread. *)
LEMMA SessionQueuesStep == Base /\ Control /\ ListIsComplete /\ [Next]_vars => SessionQueues'
<1> SUFFICES ASSUME Base, Control, ListIsComplete PROVE [Next]_vars => SessionQueues'
  OBVIOUS
<1>0. /\ SessionQueues /\ Threads /\ sess \in [Sessions -> SessType]
      /\ \A s \in Sessions : sessQ[s] \in SyncQueueType(SessionMsg)
      /\ sessQ \in [Sessions -> SyncQueueType(SessionMsg)]
  BY DEF Base, Control
<1>1. ASSUME Start PROVE SessionQueues'
  BY <1>1, <1>0 DEF Start, SessionQueues
<1>2. ASSUME Reload PROVE SessionQueues'
  BY <1>2, <1>0 DEF Reload, SessionQueues
<1>3. ASSUME ReloadDebug PROVE SessionQueues'
  BY <1>3, <1>0 DEF ReloadDebug, SessionQueues
<1>4. ASSUME Destroy PROVE SessionQueues'
  BY <1>4, <1>0 DEF Destroy, SessionQueues
<1>5. ASSUME JoinServer PROVE SessionQueues'
  BY <1>5, <1>0 DEF JoinServer, SessionQueues
<1>6. ASSUME StopSessionsEnd PROVE SessionQueues'
  BY <1>6, <1>0 DEF StopSessionsEnd, SessionQueues
<1>7. ASSUME JoinSessionsEnd PROVE SessionQueues'
  BY <1>7, <1>0 DEF JoinSessionsEnd, SessionQueues
<1>8. ASSUME Release PROVE SessionQueues'
  BY <1>8, <1>0 DEF Release, SessionQueues
<1>9. ASSUME NEW s \in Sessions, SetStop(s) PROVE SessionQueues'
  BY <1>9, <1>0 DEF SetStop, SessionQueues, SessType
<1>10. ASSUME NEW s \in Sessions, WakeSession(s) PROVE SessionQueues'
  <2>1. NoopMsg \in SessionMsg
    BY NewMsgs
  <2>2. session_queue_msg(s, NoopMsg, MainFaults)
    BY <1>10 DEF WakeSession
  <2>3. /\ sessQ'[s].closed = sessQ[s].closed
        /\ sessQ[s].closed => sessQ'[s].items = sessQ[s].items
        /\ \A t \in Sessions \ {s} : sessQ'[t] = sessQ[t]
    BY <2>1, <2>2, SessionPut
  <2>4. sess[s].pc # "none"
    BY <1>10, <1>0 DEF WakeSession, Threads, ListIsComplete, Alive
  <2> QED
    BY <1>10, <1>0, <2>3, <2>4 DEF WakeSession, SessionQueues
<1>11. ASSUME NEW s \in Sessions, JoinSession(s) PROVE SessionQueues'
  <2>1. DestroySession(s) /\ sess[s].pc = "ended"
    BY <1>11 DEF JoinSession
  <2>2. /\ sess'[s].pc = "freed" /\ sessQ'[s].items = << >>
        /\ \A t \in Sessions \ {s} : sess'[t] = sess[t] /\ sessQ'[t] = sessQ[t]
    BY <2>1, DestroyFacts
  <2>3. sessQ'[s].closed
    <3>1. sessQ' = [sessQ EXCEPT ![s] = AfterGetAll(sessQ[s])]
      BY <2>1 DEF DestroySession
    <3> QED
      BY <1>0, <2>1, <3>1, QueueFacts DEF SessionQueues
  <2> QED
    BY <1>0, <2>2, <2>3 DEF SessionQueues
<1>12. ASSUME Listen PROVE SessionQueues'
  BY <1>12, <1>0 DEF Listen, SessionQueues
<1>13. ASSUME ServerPollQueue PROVE SessionQueues'
  BY <1>13, <1>0 DEF ServerPollQueue, SessionQueues
<1>14. ASSUME ServerReloadConfig PROVE SessionQueues'
  BY <1>14, <1>0 DEF ServerReloadConfig, SessionQueues
<1>15. ASSUME ServerReloadDebug PROVE SessionQueues'
  BY <1>15, <1>0 DEF ServerReloadDebug, SessionQueues
<1>16. ASSUME ForwardEnd PROVE SessionQueues'
  BY <1>16, <1>0 DEF ForwardEnd, SessionQueues
<1>17. ASSUME ServerSessionEnd PROVE SessionQueues'
  <2>0. Head(srvBatch) \in ServerMsg
    BY <1>17, PendingFacts DEF ServerSessionEnd, NextMsg
  <2>4. PICK s \in Sessions : s = Head(srvBatch).session
    BY <1>17, <2>0, ServerMsgFacts DEF ServerSessionEnd, NextMsg
  <2>1. DestroySession(s) /\ sess[s].pc = "ended"
    BY <1>17, <2>4 DEF ServerSessionEnd
  <2>2. /\ sess'[s].pc = "freed" /\ sessQ'[s].items = << >>
        /\ \A t \in Sessions \ {s} : sess'[t] = sess[t] /\ sessQ'[t] = sessQ[t]
    BY <2>1, DestroyFacts
  <2>3. sessQ'[s].closed
    <3>1. sessQ' = [sessQ EXCEPT ![s] = AfterGetAll(sessQ[s])]
      BY <2>1 DEF DestroySession
    <3> QED
      BY <1>0, <2>1, <3>1, QueueFacts DEF SessionQueues
  <2> QED
    BY <1>0, <2>2, <2>3 DEF SessionQueues
<1>18. ASSUME ServerStop PROVE SessionQueues'
  BY <1>18, <1>0 DEF ServerStop, SessionQueues
<1>19. ASSUME ServerBatchEnd PROVE SessionQueues'
  BY <1>19, <1>0 DEF ServerBatchEnd, SessionQueues
<1>20. ASSUME AcceptDropped PROVE SessionQueues'
  BY <1>20, <1>0 DEF AcceptDropped, SessionQueues
<1>21. ASSUME AcceptFailed PROVE SessionQueues'
  BY <1>21, <1>0 DEF AcceptFailed, SessionQueues
<1>22. ASSUME ServerClose PROVE SessionQueues'
  BY <1>22, <1>0 DEF ServerClose, SessionQueues
<1>23. ASSUME ServerEmpty PROVE SessionQueues'
  BY <1>23, <1>0 DEF ServerEmpty, SessionQueues
<1>24. ASSUME NEW s \in Sessions, Forward(s) PROVE SessionQueues'
  <2> DEFINE m == Head(srvBatch)
  <2>1. m \in SessionMsg
    <3>1. srvBatch # << >> /\ Head(srvBatch).id \in {"RELOAD_CONFIG", "RELOAD_DEBUG"}
      BY <1>24 DEF Forward, Control, Threads
    <3>2. Head(srvBatch) \in ServerMsg
      BY <3>1, PendingFacts
    <3> QED
      BY <3>1, <3>2, ServerMsgFacts
  <2>2. session_queue_msg(s, m, ServerFaults)
    BY <1>24 DEF Forward
  <2> HIDE DEF m
  <2>3. /\ sessQ'[s].closed = sessQ[s].closed
        /\ sessQ[s].closed => sessQ'[s].items = sessQ[s].items
        /\ \A t \in Sessions \ {s} : sessQ'[t] = sessQ[t]
    BY <2>1, <2>2, SessionPut
  <2>4. sess[s].pc # "none"
    BY <1>24, <1>0 DEF Forward, Threads, ListIsComplete, Alive
  <2> QED
    BY <1>24, <1>0, <2>3, <2>4 DEF Forward, SessionQueues
<1>25. ASSUME NEW s \in Sessions, Accept(s) PROVE SessionQueues'
  <2>1. sess'[s].pc = "poll" /\ \A t \in Sessions \ {s} : sess'[t] = sess[t]
    BY <1>25, <1>0 DEF Accept, NoSession, SessType
  <2> QED
    BY <1>25, <1>0, <2>1 DEF Accept, SessionQueues
<1>26. ASSUME ServerPollError PROVE SessionQueues'
  BY <1>26, <1>0 DEF ServerPollError, SessionQueues
<1>27. ASSUME ServerPollSocket PROVE SessionQueues'
  BY <1>27, <1>0 DEF ServerPollSocket, SessionQueues
<1>28. ASSUME NEW s \in Sessions, SessionPollQueue(s) PROVE SessionQueues'
  <2>1. /\ sess'[s].pc \notin {"none", "empty", "exit", "ended", "freed"}
        /\ \A t \in Sessions \ {s} : sess'[t] = sess[t]
    BY <1>28, SessionMoves DEF SessionPollQueue
  <2>2. sessQ' = sessQ
    BY <1>28 DEF SessionPollQueue
  <2> QED
    BY <1>0, <2>1, <2>2 DEF SessionQueues
<1>29. ASSUME NEW s \in Sessions, SessionQueueEvents(s) PROVE SessionQueues'
  <2>1. sess'[s].pc \in {"end", "sock", "poll"} /\ \A t \in Sessions \ {s} : sess'[t] = sess[t]
    <3>1. PICK stop \in {sess[s].stop, sess[s].stop \/ Reloads(sessQ[s].items) # {}},
               next \in {"sock", "poll"} :
                 sess' = [sess EXCEPT ![s] = [pc   |-> IF stop THEN "end" ELSE next,
                                              stop |-> stop,
                                              cfg  |-> Latest(sess[s].cfg, sessQ[s].items)]]
      BY <1>29 DEF SessionQueueEvents
    <3> QED
      BY <1>0, <3>1
  <2>2. \A t \in Sessions \ {s} : sessQ'[t] = sessQ[t]
    BY <1>29, <1>0 DEF SessionQueueEvents
  <2> QED
    BY <1>0, <2>1, <2>2 DEF SessionQueues
<1>30. ASSUME NEW s \in Sessions, SessionSockEvents(s) PROVE SessionQueues'
  <2>1. /\ sess'[s].pc \notin {"none", "empty", "exit", "ended", "freed"}
        /\ \A t \in Sessions \ {s} : sess'[t] = sess[t]
    BY <1>30, SessionMoves DEF SessionSockEvents
  <2>2. sessQ' = sessQ
    BY <1>30 DEF SessionSockEvents
  <2> QED
    BY <1>0, <2>1, <2>2 DEF SessionQueues
<1>31. ASSUME NEW s \in Sessions, SessionClose(s) PROVE SessionQueues'
  <2>1. sessQ'[s].closed /\ \A t \in Sessions \ {s} : sessQ'[t] = sessQ[t]
    BY <1>31, <1>0, QueueFacts DEF SessionClose
  <2>2. sess'[s].pc = "empty" /\ \A t \in Sessions \ {s} : sess'[t] = sess[t]
    BY <1>31, SessionMoves DEF SessionClose
  <2> QED
    BY <1>0, <2>1, <2>2 DEF SessionQueues
<1>32. ASSUME NEW s \in Sessions, SessionEmpty(s) PROVE SessionQueues'
  <2>1. /\ sessQ'[s].closed /\ sessQ'[s].items = << >>
        /\ \A t \in Sessions \ {s} : sessQ'[t] = sessQ[t]
    BY <1>32, <1>0, QueueFacts DEF SessionEmpty, SessionQueues
  <2>2. sess'[s].pc = "exit" /\ \A t \in Sessions \ {s} : sess'[t] = sess[t]
    BY <1>32, SessionMoves DEF SessionEmpty
  <2> QED
    BY <1>0, <2>1, <2>2 DEF SessionQueues
<1>33. ASSUME NEW s \in Sessions, SessionExit(s) PROVE SessionQueues'
  <2>1. sess'[s].pc = "ended" /\ \A t \in Sessions \ {s} : sess'[t] = sess[t]
    BY <1>33, SessionMoves DEF SessionExit
  <2>2. sess[s].pc = "exit" /\ sessQ' = sessQ
    BY <1>33 DEF SessionExit
  <2> QED
    BY <1>0, <2>1, <2>2 DEF SessionQueues
<1>34. ASSUME NEW s \in Sessions, SessionPollError(s) PROVE SessionQueues'
  <2>1. /\ sess'[s].pc \notin {"none", "empty", "exit", "ended", "freed"}
        /\ \A t \in Sessions \ {s} : sess'[t] = sess[t]
    BY <1>34, SessionMoves DEF SessionPollError
  <2>2. sessQ' = sessQ
    BY <1>34 DEF SessionPollError
  <2> QED
    BY <1>0, <2>1, <2>2 DEF SessionQueues
<1>35. ASSUME NEW s \in Sessions, SessionTimer(s) PROVE SessionQueues'
  <2>1. /\ sess'[s].pc \notin {"none", "empty", "exit", "ended", "freed"}
        /\ \A t \in Sessions \ {s} : sess'[t] = sess[t]
    BY <1>35, SessionMoves DEF SessionTimer
  <2>2. sessQ' = sessQ
    BY <1>35 DEF SessionTimer
  <2> QED
    BY <1>0, <2>1, <2>2 DEF SessionQueues
<1>36. ASSUME NEW s \in Sessions, SessionPollSocket(s) PROVE SessionQueues'
  <2>1. /\ sess'[s].pc \notin {"none", "empty", "exit", "ended", "freed"}
        /\ \A t \in Sessions \ {s} : sess'[t] = sess[t]
    BY <1>36, SessionMoves DEF SessionPollSocket
  <2>2. sessQ' = sessQ
    BY <1>36 DEF SessionPollSocket
  <2> QED
    BY <1>0, <2>1, <2>2 DEF SessionQueues
<1>37. ASSUME UNCHANGED vars PROVE SessionQueues'
  BY <1>37 DEF vars, Control, SessionQueues
<1> QED
  BY <1>1, <1>2, <1>3, <1>4, <1>5, <1>6, <1>7, <1>8, <1>9, <1>10, <1>11, <1>12, <1>13,
     <1>14, <1>15, <1>16, <1>17, <1>18, <1>19, <1>20, <1>21, <1>22, <1>23, <1>24, <1>25,
     <1>26, <1>27, <1>28, <1>29, <1>30, <1>31, <1>32, <1>33, <1>34, <1>35, <1>36, <1>37
     DEF Next, MainEnds, ServerNext, ServerRuns, SessionNext, SessionRuns

-----------------------------------------------------------------------------
(* The list follows the sessions that are created and freed. *)
LEMMA ListStep == Base /\ Control /\ ListIsComplete /\ [Next]_vars => ListIsComplete'
<1> SUFFICES ASSUME Base, Control, ListIsComplete PROVE [Next]_vars => ListIsComplete'
  OBVIOUS
<1>0. /\ srv \in SrvType /\ sess \in [Sessions -> SessType]
      /\ srv.sessions = {s \in Sessions : sess[s].pc \notin {"none", "freed"}}
  BY DEF Base, ListIsComplete, Alive
<1> USE DEF ListIsComplete, Alive
<1>1. ASSUME Start PROVE ListIsComplete'
  BY <1>1, <1>0 DEF Start, SrvType
<1>2. ASSUME Reload PROVE ListIsComplete'
  BY <1>2, <1>0 DEF Reload, SrvType
<1>3. ASSUME ReloadDebug PROVE ListIsComplete'
  BY <1>3, <1>0 DEF ReloadDebug, SrvType
<1>4. ASSUME Destroy PROVE ListIsComplete'
  BY <1>4, <1>0 DEF Destroy, SrvType
<1>5. ASSUME JoinServer PROVE ListIsComplete'
  BY <1>5, <1>0 DEF JoinServer, SrvType
<1>6. ASSUME StopSessionsEnd PROVE ListIsComplete'
  BY <1>6, <1>0 DEF StopSessionsEnd, SrvType
<1>7. ASSUME JoinSessionsEnd PROVE ListIsComplete'
  BY <1>7, <1>0 DEF JoinSessionsEnd, SrvType
<1>8. ASSUME Release PROVE ListIsComplete'
  BY <1>8, <1>0 DEF Release, SrvType
<1>9. ASSUME NEW s \in Sessions, SetStop(s) PROVE ListIsComplete'
  BY <1>9, <1>0 DEF SetStop, SrvType, SessType
<1>10. ASSUME NEW s \in Sessions, WakeSession(s) PROVE ListIsComplete'
  BY <1>10, <1>0 DEF WakeSession, SrvType
<1>11. ASSUME NEW s \in Sessions, JoinSession(s) PROVE ListIsComplete'
  <2>1. DestroySession(s)
    BY <1>11 DEF JoinSession
  <2>2. /\ srv'.sessions = srv.sessions \ {s} /\ sess'[s].pc = "freed"
        /\ \A t \in Sessions \ {s} : sess'[t] = sess[t]
    BY <2>1, DestroyFacts
  <2> QED
    BY <1>0, <2>2
<1>12. ASSUME Listen PROVE ListIsComplete'
  BY <1>12, <1>0 DEF Listen, ServerGoes, SrvType
<1>13. ASSUME ServerPollQueue PROVE ListIsComplete'
  BY <1>13, <1>0 DEF ServerPollQueue, ServerGoes, SrvType
<1>14. ASSUME ServerReloadConfig PROVE ListIsComplete'
  BY <1>14, <1>0 DEF ServerReloadConfig, NextMsg, SrvType
<1>15. ASSUME ServerReloadDebug PROVE ListIsComplete'
  BY <1>15, <1>0 DEF ServerReloadDebug, NextMsg, SrvType
<1>16. ASSUME ForwardEnd PROVE ListIsComplete'
  BY <1>16, <1>0 DEF ForwardEnd, ServerGoes, SrvType
<1>17. ASSUME ServerSessionEnd PROVE ListIsComplete'
  <2>0. Head(srvBatch) \in ServerMsg
    BY <1>17, PendingFacts DEF ServerSessionEnd, NextMsg
  <2>4. PICK s \in Sessions : s = Head(srvBatch).session
    BY <1>17, <2>0, ServerMsgFacts DEF ServerSessionEnd, NextMsg
  <2>1. DestroySession(s)
    BY <1>17, <2>4 DEF ServerSessionEnd
  <2>2. /\ srv'.sessions = srv.sessions \ {s} /\ sess'[s].pc = "freed"
        /\ \A t \in Sessions \ {s} : sess'[t] = sess[t]
    BY <2>1, DestroyFacts
  <2> QED
    BY <1>0, <2>2
<1>18. ASSUME ServerStop PROVE ListIsComplete'
  BY <1>18, <1>0 DEF ServerStop, NextMsg, SrvType
<1>19. ASSUME ServerBatchEnd PROVE ListIsComplete'
  BY <1>19, <1>0 DEF ServerBatchEnd, ServerGoes, SrvType
<1>20. ASSUME AcceptDropped PROVE ListIsComplete'
  BY <1>20, <1>0 DEF AcceptDropped, ServerGoes, SrvType
<1>21. ASSUME AcceptFailed PROVE ListIsComplete'
  BY <1>21, <1>0 DEF AcceptFailed, SrvType
<1>22. ASSUME ServerClose PROVE ListIsComplete'
  BY <1>22, <1>0 DEF ServerClose, ServerGoes, SrvType
<1>23. ASSUME ServerEmpty PROVE ListIsComplete'
  BY <1>23, <1>0 DEF ServerEmpty, ServerGoes, SrvType
<1>24. ASSUME NEW s \in Sessions, Forward(s) PROVE ListIsComplete'
  BY <1>24, <1>0 DEF Forward, SrvType
<1>25. ASSUME NEW s \in Sessions, Accept(s) PROVE ListIsComplete'
  <2>1. sess'[s].pc = "poll" /\ \A t \in Sessions \ {s} : sess'[t] = sess[t]
    BY <1>25, <1>0 DEF Accept, NoSession, SessType
  <2>2. srv'.sessions = srv.sessions \cup {s}
    BY <1>25, <1>0 DEF Accept, SrvType
  <2> QED
    BY <1>0, <2>1, <2>2
<1>26. ASSUME ServerPollError PROVE ListIsComplete'
  BY <1>26, <1>0 DEF ServerPollError, ServerGoes, SrvType
<1>27. ASSUME ServerPollSocket PROVE ListIsComplete'
  BY <1>27, <1>0 DEF ServerPollSocket, ServerGoes, SrvType
<1>28. ASSUME NEW s \in Sessions, SessionPollQueue(s) PROVE ListIsComplete'
  <2>1. /\ sess'[s].pc \notin {"none", "freed"}
        /\ \A t \in Sessions \ {s} : sess'[t] = sess[t]
    BY <1>28, SessionMoves DEF SessionPollQueue
  <2>2. sess[s].pc \notin {"none", "freed"} /\ srv' = srv
    BY <1>28 DEF SessionPollQueue
  <2> QED
    BY <1>0, <2>1, <2>2
<1>29. ASSUME NEW s \in Sessions, SessionQueueEvents(s) PROVE ListIsComplete'
  <2>1. sess'[s].pc \in {"end", "sock", "poll"} /\ \A t \in Sessions \ {s} : sess'[t] = sess[t]
    <3>1. PICK stop \in {sess[s].stop, sess[s].stop \/ Reloads(sessQ[s].items) # {}},
               next \in {"sock", "poll"} :
                 sess' = [sess EXCEPT ![s] = [pc   |-> IF stop THEN "end" ELSE next,
                                              stop |-> stop,
                                              cfg  |-> Latest(sess[s].cfg, sessQ[s].items)]]
      BY <1>29 DEF SessionQueueEvents
    <3> QED
      BY <1>0, <3>1
  <2>2. sess[s].pc = "queue" /\ srv' = srv
    BY <1>29 DEF SessionQueueEvents
  <2> QED
    BY <1>0, <2>1, <2>2
<1>30. ASSUME NEW s \in Sessions, SessionSockEvents(s) PROVE ListIsComplete'
  <2>1. /\ sess'[s].pc \notin {"none", "freed"}
        /\ \A t \in Sessions \ {s} : sess'[t] = sess[t]
    BY <1>30, SessionMoves DEF SessionSockEvents
  <2>2. sess[s].pc \notin {"none", "freed"} /\ srv' = srv
    BY <1>30 DEF SessionSockEvents
  <2> QED
    BY <1>0, <2>1, <2>2
<1>31. ASSUME NEW s \in Sessions, SessionClose(s) PROVE ListIsComplete'
  <2>1. /\ sess'[s].pc \notin {"none", "freed"}
        /\ \A t \in Sessions \ {s} : sess'[t] = sess[t]
    BY <1>31, SessionMoves DEF SessionClose
  <2>2. sess[s].pc \notin {"none", "freed"} /\ srv' = srv
    BY <1>31 DEF SessionClose
  <2> QED
    BY <1>0, <2>1, <2>2
<1>32. ASSUME NEW s \in Sessions, SessionEmpty(s) PROVE ListIsComplete'
  <2>1. /\ sess'[s].pc \notin {"none", "freed"}
        /\ \A t \in Sessions \ {s} : sess'[t] = sess[t]
    BY <1>32, SessionMoves DEF SessionEmpty
  <2>2. sess[s].pc \notin {"none", "freed"} /\ srv' = srv
    BY <1>32 DEF SessionEmpty
  <2> QED
    BY <1>0, <2>1, <2>2
<1>33. ASSUME NEW s \in Sessions, SessionExit(s) PROVE ListIsComplete'
  <2>1. /\ sess'[s].pc \notin {"none", "freed"}
        /\ \A t \in Sessions \ {s} : sess'[t] = sess[t]
    BY <1>33, SessionMoves DEF SessionExit
  <2>2. sess[s].pc \notin {"none", "freed"} /\ srv' = srv
    BY <1>33 DEF SessionExit
  <2> QED
    BY <1>0, <2>1, <2>2
<1>34. ASSUME NEW s \in Sessions, SessionPollError(s) PROVE ListIsComplete'
  <2>1. /\ sess'[s].pc \notin {"none", "freed"}
        /\ \A t \in Sessions \ {s} : sess'[t] = sess[t]
    BY <1>34, SessionMoves DEF SessionPollError
  <2>2. sess[s].pc \notin {"none", "freed"} /\ srv' = srv
    BY <1>34 DEF SessionPollError
  <2> QED
    BY <1>0, <2>1, <2>2
<1>35. ASSUME NEW s \in Sessions, SessionTimer(s) PROVE ListIsComplete'
  <2>1. /\ sess'[s].pc \notin {"none", "freed"}
        /\ \A t \in Sessions \ {s} : sess'[t] = sess[t]
    BY <1>35, SessionMoves DEF SessionTimer
  <2>2. sess[s].pc \notin {"none", "freed"} /\ srv' = srv
    BY <1>35 DEF SessionTimer
  <2> QED
    BY <1>0, <2>1, <2>2
<1>36. ASSUME NEW s \in Sessions, SessionPollSocket(s) PROVE ListIsComplete'
  <2>1. /\ sess'[s].pc \notin {"none", "freed"}
        /\ \A t \in Sessions \ {s} : sess'[t] = sess[t]
    BY <1>36, SessionMoves DEF SessionPollSocket
  <2>2. sess[s].pc \notin {"none", "freed"} /\ srv' = srv
    BY <1>36 DEF SessionPollSocket
  <2> QED
    BY <1>0, <2>1, <2>2
<1>37. ASSUME UNCHANGED vars PROVE ListIsComplete'
  BY <1>37, <1>0 DEF vars
<1> QED
  BY <1>1, <1>2, <1>3, <1>4, <1>5, <1>6, <1>7, <1>8, <1>9, <1>10, <1>11, <1>12, <1>13,
     <1>14, <1>15, <1>16, <1>17, <1>18, <1>19, <1>20, <1>21, <1>22, <1>23, <1>24, <1>25,
     <1>26, <1>27, <1>28, <1>29, <1>30, <1>31, <1>32, <1>33, <1>34, <1>35, <1>36, <1>37
     DEF Next, MainEnds, ServerNext, ServerRuns, SessionNext, SessionRuns

-----------------------------------------------------------------------------
(* What is pending for the server changes by a message at its end, or at   *)
(* its head, or is dropped when the thread ends.                           *)
LEMMA PendingStep ==
  ASSUME Base, Control
  PROVE  /\ UNCHANGED <<srvQ, srvBatch>> => ServerPending' = ServerPending
         /\ \A m \in ServerMsg : \A set, r : server_queue_msg(m, set, r) /\ srvBatch' = srvBatch =>
              ServerPending' = Append(ServerPending, m) \/ ServerPending' = ServerPending
         /\ ServerPollQueue => ServerPending' = ServerPending
         /\ ForwardEnd \/ ServerSessionEnd \/ ServerStop =>
              /\ ServerPending # << >> /\ Head(ServerPending) = Head(srvBatch)
              /\ Head(srvBatch) \in ServerMsg
              /\ ServerPending' = Tail(ServerPending)
         /\ ServerClose => ServerPending' = ServerPending
         /\ ServerEmpty => ServerPending = srvQ.items /\ ServerPending' = << >>
<1>0. /\ Threads /\ srvQ \in SyncQueueType(ServerMsg) /\ srvBatch \in Seq(ServerMsg)
      /\ srvQ.items \in Seq(ServerMsg)
  BY QueueFacts DEF Base, Control
<1>1. UNCHANGED <<srvQ, srvBatch>> => ServerPending' = ServerPending
  BY DEF ServerPending
<1>2. ASSUME NEW m \in ServerMsg, NEW set, NEW r,
             server_queue_msg(m, set, r), srvBatch' = srvBatch
      PROVE  ServerPending' = Append(ServerPending, m) \/ ServerPending' = ServerPending
  <2>1. srvQ'.items = Append(srvQ.items, m) \/ srvQ'.items = srvQ.items
    BY <1>2, ServerPut
  <2>2. srvBatch \o Append(srvQ.items, m) = Append(ServerPending, m)
    BY PendingFacts
  <2> QED
    BY <1>2, <2>1, <2>2 DEF ServerPending
<1>3. ASSUME ServerPollQueue PROVE ServerPending' = ServerPending
  <2>1. srvBatch = << >> /\ srvBatch' = srvQ.items /\ srvQ'.items = << >>
    BY <1>0, <1>3, QueueFacts DEF ServerPollQueue, Threads
  <2> QED
    BY <1>0, <2>1 DEF ServerPending
<1>4. ASSUME ForwardEnd \/ ServerSessionEnd \/ ServerStop
      PROVE  /\ ServerPending # << >> /\ Head(ServerPending) = Head(srvBatch)
             /\ Head(srvBatch) \in ServerMsg
             /\ ServerPending' = Tail(ServerPending)
  <2>1. srvBatch # << >> /\ srvBatch' = Tail(srvBatch) /\ srvQ' = srvQ
    BY <1>0, <1>4 DEF ForwardEnd, ServerSessionEnd, ServerStop, NextMsg, Threads
  <2> QED
    BY <2>1, PendingFacts DEF ServerPending
<1>5. ASSUME ServerClose PROVE ServerPending' = ServerPending
  <2>1. srvQ'.items = srvQ.items /\ srvBatch' = srvBatch
    BY <1>0, <1>5, QueueFacts DEF ServerClose
  <2> QED
    BY <2>1 DEF ServerPending
<1>6. ASSUME ServerEmpty PROVE ServerPending = srvQ.items /\ ServerPending' = << >>
  <2>1. srvQ'.items = << >> /\ srvBatch' = srvBatch /\ srvBatch = << >>
    BY <1>0, <1>6, QueueFacts DEF ServerEmpty, Threads
  <2> QED
    BY <1>0, <2>1 DEF ServerPending
<1> QED
  BY <1>1, <1>2, <1>3, <1>4, <1>5, <1>6

(* Where the messages of a session are, when one is put or the first is    *)
(* taken.                                                                  *)
LEMMA EndsOfAppend ==
  ASSUME NEW q \in Seq(ServerMsg), NEW m \in ServerMsg, NEW e
  PROVE  /\ \A i \in DOMAIN Append(q, m) : Append(q, m)[i] = e =>
              (i \in DOMAIN q /\ q[i] = e) \/ (i = Len(q) + 1 /\ m = e)
<1>1. /\ DOMAIN Append(q, m) = 1 .. Len(q) + 1 /\ DOMAIN q = 1 .. Len(q) /\ Len(q) \in Nat
      /\ Append(q, m)[Len(q) + 1] = m
  OBVIOUS
<1>2. \A i \in 1 .. Len(q) : Append(q, m)[i] = q[i]
  OBVIOUS
<1> QED
  BY <1>1, <1>2

(* Where they are when the first is taken.                                 *)
LEMMA EndsOfTail ==
  ASSUME NEW q \in Seq(ServerMsg), q # << >>
  PROVE  /\ \A i \in DOMAIN Tail(q) :
              i \in Nat /\ i + 1 \in DOMAIN q /\ i + 1 # 1 /\ Tail(q)[i] = q[i + 1]
         /\ 1 \in DOMAIN q /\ q[1] = Head(q)
<1>1. DOMAIN q = 1 .. Len(q) /\ Len(q) \in Nat /\ Len(q) >= 1 /\ Head(q) = q[1]
  OBVIOUS
<1>2. DOMAIN Tail(q) = 1 .. Len(q) - 1
  OBVIOUS
<1>3. \A i \in 1 .. Len(q) - 1 : Tail(q)[i] = q[i + 1]
  OBVIOUS
<1> QED
  BY <1>1, <1>2, <1>3

-----------------------------------------------------------------------------
(* The messages of sessions that ended, as what is pending changes.        *)
LEMMA EndsKept ==
  ASSUME EndsOnce, ServerPending' = ServerPending,
         \A t \in Sessions : sess[t].pc = "ended" => sess'[t].pc = "ended"
  PROVE  EndsOnce'
BY DEF EndsOnce, EndMsgs

(* Another message is put.                                                 *)
LEMMA EndsPut ==
  ASSUME EndsOnce, Base, NEW m \in ServerMsg, \A t \in Sessions : m # SessionEndMsg(t),
         ServerPending' \in {Append(ServerPending, m), ServerPending},
         \A t \in Sessions : sess[t].pc = "ended" => sess'[t].pc = "ended"
  PROVE  EndsOnce'
<1>1. CASE ServerPending' = ServerPending
  BY <1>1, EndsKept
<1>2. CASE ServerPending' = Append(ServerPending, m)
  <2>1. ASSUME NEW t \in Sessions PROVE EndMsgs(t)' \subseteq EndMsgs(t)
    <3>1. ServerPending \in Seq(ServerMsg)
      BY PendingFacts
    <3> QED
      BY <1>2, <3>1, EndsOfAppend DEF EndMsgs
  <2> QED
    BY <2>1 DEF EndsOnce
<1> QED
  BY <1>1, <1>2

(* The first message is taken: a session whose message it was may be freed. *)
LEMMA EndsTail ==
  ASSUME EndsOnce, Base, ServerPending # << >>, ServerPending' = Tail(ServerPending),
         \A t \in Sessions : sess[t].pc = "ended" =>
            sess'[t].pc = "ended" \/ Head(ServerPending) = SessionEndMsg(t)
  PROVE  EndsOnce'
<1>1. ServerPending \in Seq(ServerMsg)
  BY PendingFacts
<1> DEFINE P == ServerPending
<1>2. /\ \A i \in DOMAIN Tail(P) :
           i \in Nat /\ i + 1 \in DOMAIN P /\ i + 1 # 1 /\ Tail(P)[i] = P[i + 1]
      /\ 1 \in DOMAIN P /\ P[1] = Head(P)
  BY <1>1, EndsOfTail
<1>3. ASSUME NEW t \in Sessions PROVE \A i \in EndMsgs(t)' : i \in Nat /\ i + 1 # 1 /\ i + 1 \in EndMsgs(t)
  BY <1>2 DEF EndMsgs
<1>4. \A t \in Sessions : Head(P) = SessionEndMsg(t) => 1 \in EndMsgs(t)
  BY <1>2 DEF EndMsgs
<1> HIDE DEF P
<1>5. ASSUME NEW t \in Sessions, NEW i \in EndMsgs(t)' PROVE sess'[t].pc = "ended"
  <2>1. i \in Nat /\ i + 1 # 1 /\ i + 1 \in EndMsgs(t)
    BY <1>3, <1>5
  <2>2. sess[t].pc = "ended" /\ 1 \notin EndMsgs(t)
    BY <2>1 DEF EndsOnce
  <2> QED
    BY <1>4, <2>2 DEF P
<1>6. ASSUME NEW t \in Sessions, NEW i \in EndMsgs(t)', NEW j \in EndMsgs(t)' PROVE i = j
  <2>1. i \in Nat /\ j \in Nat /\ i + 1 \in EndMsgs(t) /\ j + 1 \in EndMsgs(t)
    BY <1>3, <1>6
  <2>2. i + 1 = j + 1
    BY <2>1 DEF EndsOnce
  <2> QED
    BY <2>1, <2>2
<1> QED
  BY <1>5, <1>6 DEF EndsOnce

(* A session says once that it ended. *)
LEMMA EndsOnceStep == Base /\ Control /\ ListIsComplete /\ EndsOnce /\ [Next]_vars => EndsOnce'
<1> SUFFICES ASSUME Base, Control, ListIsComplete, EndsOnce PROVE [Next]_vars => EndsOnce'
  OBVIOUS
<1>0. /\ srv \in SrvType /\ sess \in [Sessions -> SessType]
      /\ ServerPending \in Seq(ServerMsg)
  BY PendingFacts DEF Base
<1>1. ASSUME Start PROVE EndsOnce'
  BY <1>1, PendingStep, EndsKept DEF Start
<1>2. ASSUME Reload PROVE EndsOnce'
  <2>1. ReloadMsg(globalCfg + 1) \in ServerMsg /\ \A t \in Sessions : ReloadMsg(globalCfg + 1) # SessionEndMsg(t)
    <3>1. globalCfg + 1 \in Cfg
      BY <1>2, ServerAssumption DEF Reload, Cfg, ServerAssumption, Base
    <3> QED
      BY <3>1, NewMsgs DEF ReloadMsg, SessionEndMsg
  <2>2. server_queue_msg(ReloadMsg(globalCfg + 1), MainFaults, AddRef(DropRef(refs, globalCfg), globalCfg + 1)) /\ srvBatch' = srvBatch /\ sess' = sess
    BY <1>2 DEF Reload
  <2>3. ServerPending' \in {Append(ServerPending, ReloadMsg(globalCfg + 1)), ServerPending}
    BY <2>1, <2>2, PendingStep
  <2> QED
    BY <2>1, <2>2, <2>3, EndsPut
<1>3. ASSUME ReloadDebug PROVE EndsOnce'
  <2>1. DebugMsg \in ServerMsg /\ \A t \in Sessions : DebugMsg # SessionEndMsg(t)
    BY NewMsgs DEF DebugMsg, SessionEndMsg
  <2>2. server_queue_msg(DebugMsg, MainFaults, refs) /\ srvBatch' = srvBatch /\ sess' = sess
    BY <1>3 DEF ReloadDebug
  <2>3. ServerPending' \in {Append(ServerPending, DebugMsg), ServerPending}
    BY <2>1, <2>2, PendingStep
  <2> QED
    BY <2>1, <2>2, <2>3, EndsPut
<1>4. ASSUME Destroy PROVE EndsOnce'
  <2>1. StopMsg \in ServerMsg /\ \A t \in Sessions : StopMsg # SessionEndMsg(t)
    BY NewMsgs DEF StopMsg, SessionEndMsg
  <2>2. server_queue_msg(StopMsg, StopFaults, refs) /\ srvBatch' = srvBatch /\ sess' = sess
    BY <1>4 DEF Destroy
  <2>3. ServerPending' \in {Append(ServerPending, StopMsg), ServerPending}
    BY <2>1, <2>2, PendingStep
  <2> QED
    BY <2>1, <2>2, <2>3, EndsPut
<1>5. ASSUME JoinServer PROVE EndsOnce'
  BY <1>5, PendingStep, EndsKept DEF JoinServer
<1>6. ASSUME StopSessionsEnd PROVE EndsOnce'
  BY <1>6, PendingStep, EndsKept DEF StopSessionsEnd
<1>7. ASSUME JoinSessionsEnd PROVE EndsOnce'
  BY <1>7, PendingStep, EndsKept DEF JoinSessionsEnd
<1>8. ASSUME Release PROVE EndsOnce'
  BY <1>8, PendingStep, EndsKept DEF Release
<1>9. ASSUME NEW s \in Sessions, SetStop(s) PROVE EndsOnce'
  <2>1. \A t \in Sessions : sess'[t].pc = sess[t].pc
    BY <1>9, <1>0 DEF SetStop, SessType
  <2> QED
    BY <1>9, <2>1, PendingStep, EndsKept DEF SetStop
<1>10. ASSUME NEW s \in Sessions, WakeSession(s) PROVE EndsOnce'
  BY <1>10, PendingStep, EndsKept DEF WakeSession
<1>11. ASSUME NEW s \in Sessions, JoinSession(s) PROVE EndsOnce'
  <2>1. DestroySession(s) /\ srv.pc = "ended"
    BY <1>11 DEF JoinSession, Control, Threads
  <2>2. \A t \in Sessions \ {s} : sess'[t] = sess[t]
    BY <2>1, DestroyFacts
  <2>3. ServerPending = << >> /\ ServerPending' = ServerPending
    BY <1>11, <2>1, PendingFacts, PendingStep DEF JoinSession, Control, Threads
  <2>4. \A t \in Sessions : EndMsgs(t)' = {}
    BY <2>3 DEF EndMsgs
  <2> QED
    BY <2>4 DEF EndsOnce
<1>12. ASSUME Listen PROVE EndsOnce'
  BY <1>12, PendingStep, EndsKept DEF Listen
<1>13. ASSUME ServerPollQueue PROVE EndsOnce'
  <2>1. ServerPending' = ServerPending /\ sess' = sess
    BY <1>13, PendingStep DEF ServerPollQueue
  <2> QED
    BY <2>1, EndsKept
<1>14. ASSUME ServerReloadConfig PROVE EndsOnce'
  BY <1>14, PendingStep, EndsKept DEF ServerReloadConfig
<1>15. ASSUME ServerReloadDebug PROVE EndsOnce'
  BY <1>15, PendingStep, EndsKept DEF ServerReloadDebug
<1>16. ASSUME ForwardEnd PROVE EndsOnce'
  <2>1. /\ ServerPending # << >> /\ ServerPending' = Tail(ServerPending)
        /\ sess' = sess
    BY <1>16, PendingStep DEF ForwardEnd
  <2> QED
    BY <2>1, EndsTail
<1>17. ASSUME ServerSessionEnd PROVE EndsOnce'
  <2>1. /\ ServerPending # << >> /\ ServerPending' = Tail(ServerPending)
        /\ Head(ServerPending) = Head(srvBatch) /\ Head(srvBatch) \in ServerMsg
    BY <1>17, PendingStep
  <2>2. PICK s \in Sessions : s = Head(srvBatch).session /\ Head(srvBatch) = SessionEndMsg(s)
    BY <1>17, <2>1, ServerMsgFacts DEF ServerSessionEnd, NextMsg
  <2>3. DestroySession(s)
    BY <1>17, <2>2 DEF ServerSessionEnd
  <2>4. \A t \in Sessions \ {s} : sess'[t] = sess[t]
    BY <2>3, DestroyFacts
  <2> QED
    BY <2>1, <2>2, <2>4, EndsTail
<1>18. ASSUME ServerStop PROVE EndsOnce'
  <2>1. /\ ServerPending # << >> /\ ServerPending' = Tail(ServerPending)
        /\ sess' = sess
    BY <1>18, PendingStep DEF ServerStop
  <2> QED
    BY <2>1, EndsTail
<1>19. ASSUME ServerBatchEnd PROVE EndsOnce'
  BY <1>19, PendingStep, EndsKept DEF ServerBatchEnd
<1>20. ASSUME AcceptDropped PROVE EndsOnce'
  BY <1>20, PendingStep, EndsKept DEF AcceptDropped
<1>21. ASSUME AcceptFailed PROVE EndsOnce'
  BY <1>21, PendingStep, EndsKept DEF AcceptFailed
<1>22. ASSUME ServerClose PROVE EndsOnce'
  <2>1. ServerPending' = ServerPending /\ sess' = sess
    BY <1>22, PendingStep DEF ServerClose
  <2> QED
    BY <2>1, EndsKept
<1>23. ASSUME ServerEmpty PROVE EndsOnce'
  <2>1. ServerPending' = << >>
    BY <1>23, PendingStep
  <2>2. \A t \in Sessions : EndMsgs(t)' = {}
    BY <2>1 DEF EndMsgs
  <2> QED
    BY <2>2 DEF EndsOnce
<1>24. ASSUME NEW s \in Sessions, Forward(s) PROVE EndsOnce'
  BY <1>24, PendingStep, EndsKept DEF Forward
<1>25. ASSUME NEW s \in Sessions, Accept(s) PROVE EndsOnce'
  <2>1. \A t \in Sessions \ {s} : sess'[t] = sess[t]
    BY <1>25, <1>0 DEF Accept
  <2>2. sess[s].pc # "ended"
    BY <1>25 DEF Accept
  <2> QED
    BY <1>25, <2>1, <2>2, PendingStep, EndsKept DEF Accept
<1>26. ASSUME ServerPollError PROVE EndsOnce'
  BY <1>26, PendingStep, EndsKept DEF ServerPollError
<1>27. ASSUME ServerPollSocket PROVE EndsOnce'
  BY <1>27, PendingStep, EndsKept DEF ServerPollSocket
<1>28. ASSUME NEW s \in Sessions, SessionPollQueue(s) PROVE EndsOnce'
  <2>1. \A t \in Sessions : sess[t].pc = "ended" => sess'[t].pc = "ended"
    BY <1>28, SessionMoves DEF SessionPollQueue
  <2> QED
    BY <1>28, <2>1, PendingStep, EndsKept DEF SessionPollQueue
<1>29. ASSUME NEW s \in Sessions, SessionQueueEvents(s) PROVE EndsOnce'
  <2>1. \A t \in Sessions \ {s} : sess'[t] = sess[t]
    BY <1>29, <1>0 DEF SessionQueueEvents
  <2>2. sess[s].pc # "ended"
    BY <1>29 DEF SessionQueueEvents
  <2> QED
    BY <1>29, <2>1, <2>2, PendingStep, EndsKept DEF SessionQueueEvents
<1>30. ASSUME NEW s \in Sessions, SessionSockEvents(s) PROVE EndsOnce'
  <2>1. \A t \in Sessions : sess[t].pc = "ended" => sess'[t].pc = "ended"
    BY <1>30, SessionMoves DEF SessionSockEvents
  <2> QED
    BY <1>30, <2>1, PendingStep, EndsKept DEF SessionSockEvents
<1>31. ASSUME NEW s \in Sessions, SessionClose(s) PROVE EndsOnce'
  <2>1. \A t \in Sessions : sess[t].pc = "ended" => sess'[t].pc = "ended"
    BY <1>31, SessionMoves DEF SessionClose
  <2> QED
    BY <1>31, <2>1, PendingStep, EndsKept DEF SessionClose
<1>32. ASSUME NEW s \in Sessions, SessionEmpty(s) PROVE EndsOnce'
  <2>1. \A t \in Sessions : sess[t].pc = "ended" => sess'[t].pc = "ended"
    BY <1>32, SessionMoves DEF SessionEmpty
  <2> QED
    BY <1>32, <2>1, PendingStep, EndsKept DEF SessionEmpty
<1>33. ASSUME NEW s \in Sessions, SessionExit(s) PROVE EndsOnce'
  <2>1. /\ SessionEndMsg(s) \in ServerMsg
        /\ \A t \in Sessions \ {s} : SessionEndMsg(t) # SessionEndMsg(s)
    BY NewMsgs
  <2>2. /\ server_queue_msg(SessionEndMsg(s), SessionFaults, refs) /\ srvBatch' = srvBatch
        /\ sess[s].pc = "exit" /\ SessionGoes(s, "ended")
    BY <1>33 DEF SessionExit
  <2>3. /\ sess'[s].pc = "ended" /\ \A t \in Sessions \ {s} : sess'[t] = sess[t]
    BY <2>2, SessionMoves
  <2>4. CASE ServerPending' = ServerPending
    BY <2>3, <2>4, EndsKept
  <2>5. CASE ServerPending' = Append(ServerPending, SessionEndMsg(s))
    <3>1. EndMsgs(s) = {}
      BY <2>2 DEF EndsOnce
    <3>2. \A i \in EndMsgs(s)' : i = Len(ServerPending) + 1
      BY <1>0, <2>1, <2>5, <3>1, EndsOfAppend DEF EndMsgs
    <3>3. \A t \in Sessions \ {s} : EndMsgs(t)' \subseteq EndMsgs(t)
      BY <1>0, <2>1, <2>5, EndsOfAppend DEF EndMsgs
    <3> QED
      BY <2>3, <3>2, <3>3 DEF EndsOnce
  <2>6. ServerPending' = Append(ServerPending, SessionEndMsg(s)) \/ ServerPending' = ServerPending
    BY <2>1, <2>2, PendingStep
  <2> QED
    BY <2>4, <2>5, <2>6
<1>34. ASSUME NEW s \in Sessions, SessionPollError(s) PROVE EndsOnce'
  <2>1. \A t \in Sessions : sess[t].pc = "ended" => sess'[t].pc = "ended"
    BY <1>34, SessionMoves DEF SessionPollError
  <2> QED
    BY <1>34, <2>1, PendingStep, EndsKept DEF SessionPollError
<1>35. ASSUME NEW s \in Sessions, SessionTimer(s) PROVE EndsOnce'
  <2>1. \A t \in Sessions : sess[t].pc = "ended" => sess'[t].pc = "ended"
    BY <1>35, SessionMoves DEF SessionTimer
  <2> QED
    BY <1>35, <2>1, PendingStep, EndsKept DEF SessionTimer
<1>36. ASSUME NEW s \in Sessions, SessionPollSocket(s) PROVE EndsOnce'
  <2>1. \A t \in Sessions : sess[t].pc = "ended" => sess'[t].pc = "ended"
    BY <1>36, SessionMoves DEF SessionPollSocket
  <2> QED
    BY <1>36, <2>1, PendingStep, EndsKept DEF SessionPollSocket
<1>37. ASSUME UNCHANGED vars PROVE EndsOnce'
  BY <1>37, PendingStep, EndsKept DEF vars
<1> QED
  BY <1>1, <1>2, <1>3, <1>4, <1>5, <1>6, <1>7, <1>8, <1>9, <1>10, <1>11, <1>12, <1>13,
     <1>14, <1>15, <1>16, <1>17, <1>18, <1>19, <1>20, <1>21, <1>22, <1>23, <1>24, <1>25,
     <1>26, <1>27, <1>28, <1>29, <1>30, <1>31, <1>32, <1>33, <1>34, <1>35, <1>36, <1>37
     DEF Next, MainEnds, ServerNext, ServerRuns, SessionNext, SessionRuns

-----------------------------------------------------------------------------
(* Configurations are numbers. *)
LEMMA CfgFacts ==
  ASSUME Base
  PROVE  /\ Cfg \subseteq Nat /\ globalCfg \in Cfg /\ srv.cfg \in Cfg
         /\ \A i \in Reloads(ServerPending) : ServerPending[i].cfg \in Cfg
         /\ \A s \in Sessions :
              sess[s].cfg \in Cfg /\ \A i \in Reloads(sessQ[s].items) : sessQ[s].items[i].cfg \in Cfg
<1>1. Cfg \subseteq Nat
  BY ServerAssumption DEF Cfg, ServerAssumption
<1>2. globalCfg \in Cfg /\ srv.cfg \in Cfg
  BY ServerMoves DEF Base
<1>3. ASSUME NEW i \in Reloads(ServerPending) PROVE ServerPending[i].cfg \in Cfg
  <2>1. ServerPending \in Seq(ServerMsg)
    BY PendingFacts
  <2>2. ServerPending[i] \in ServerMsg /\ IsReload(ServerPending[i])
    BY <2>1 DEF Reloads
  <2> QED
    BY <2>2, ServerMsgFacts
<1>4. ASSUME NEW s \in Sessions
      PROVE  sess[s].cfg \in Cfg /\ \A i \in Reloads(sessQ[s].items) : sessQ[s].items[i].cfg \in Cfg
  <2> DEFINE q == sessQ[s].items
  <2>1. sess[s].cfg \in Cfg /\ q \in Seq(SessionMsg)
    BY SessionMoves, QueueFacts DEF Base
  <2>2. \A i \in Reloads(q) : q[i] \in SessionMsg /\ IsReload(q[i])
    BY <2>1 DEF Reloads
  <2> QED
    BY <2>1, <2>2, SessionMsgFacts
<1> QED
  BY <1>1, <1>2, <1>3, <1>4

(* The order as what is pending changes. *)
LEMMA OrderKept ==
  ASSUME InOrder, ServerPending' = ServerPending, globalCfg' = globalCfg, srv'.cfg = srv.cfg
  PROVE  InOrder'
BY DEF InOrder

(* A message that is no reload is put.                                     *)
LEMMA OrderPut ==
  ASSUME InOrder, Base, NEW m \in ServerMsg, ~IsReload(m),
         ServerPending' \in {Append(ServerPending, m), ServerPending},
         globalCfg' = globalCfg, srv'.cfg = srv.cfg
  PROVE  InOrder'
<1>1. CASE ServerPending' = ServerPending
  BY <1>1, OrderKept
<1>2. CASE ServerPending' = Append(ServerPending, m)
  <2>1. ServerPending \in Seq(ServerMsg)
    BY PendingFacts
  <2>2. /\ Reloads(ServerPending') = Reloads(ServerPending)
        /\ \A i \in Reloads(ServerPending) : ServerPending'[i] = ServerPending[i]
    <3>1. Reloads(Append(ServerPending, m)) = Reloads(ServerPending)
          /\ \A i \in Reloads(ServerPending) : Append(ServerPending, m)[i] = ServerPending[i]
      <4>1. /\ Reloads(Append(ServerPending, m)) =
                 Reloads(ServerPending) \cup (IF IsReload(m) THEN {Len(ServerPending) + 1} ELSE {})
            /\ \A i \in Reloads(ServerPending) : Append(ServerPending, m)[i] = ServerPending[i]
        BY <2>1, ReloadsAppend
      <4> QED
        BY <4>1
    <3> QED
      BY <1>2, <3>1
  <2> QED
    BY <2>2 DEF InOrder
<1> QED
  BY <1>1, <1>2

(* The first message is taken.                                             *)
LEMMA OrderTail ==
  ASSUME InOrder, Base, ServerPending # << >>, ServerPending' = Tail(ServerPending),
         globalCfg' = globalCfg, srv'.cfg = srv.cfg
  PROVE  InOrder'
<1>1. ServerPending \in Seq(ServerMsg)
  BY PendingFacts
<1>2. \A i \in Reloads(ServerPending') :
        /\ i \in Nat /\ i + 1 \in Reloads(ServerPending)
        /\ ServerPending'[i] = ServerPending[i + 1]
  BY <1>1, ReloadsTail
<1>3. \A i \in Reloads(ServerPending') :
        srv.cfg <= ServerPending'[i].cfg /\ ServerPending'[i].cfg <= globalCfg
  BY <1>2 DEF InOrder
<1>4. ASSUME NEW i \in Reloads(ServerPending'), NEW j \in Reloads(ServerPending'), i <= j
      PROVE  ServerPending'[i].cfg <= ServerPending'[j].cfg
  <2>1. i \in Nat /\ j \in Nat /\ i + 1 <= j + 1
    BY <1>2, <1>4
  <2> QED
    BY <1>2, <2>1 DEF InOrder
<1> QED
  BY <1>3, <1>4 DEF InOrder

(* Configurations reach the server in order. *)
LEMMA InOrderStep == Base /\ Control /\ InOrder /\ [Next]_vars => InOrder'
<1> SUFFICES ASSUME Base, Control, InOrder PROVE [Next]_vars => InOrder'
  OBVIOUS
<1>0. srv \in SrvType /\ ServerPending \in Seq(ServerMsg)
  BY PendingFacts DEF Base
<1>1. ASSUME Start PROVE InOrder'
  BY <1>1, <1>0, PendingStep, OrderKept DEF Start, SrvType
<1>2. ASSUME Reload PROVE InOrder'
  <2> DEFINE g == globalCfg + 1
             m == ReloadMsg(g)
             P == ServerPending
  <2>1. g \in Cfg
    BY <1>2, ServerAssumption DEF Reload, Cfg, ServerAssumption, Base
  <2>2. m \in ServerMsg /\ m.cfg = g /\ IsReload(m)
    BY <2>1, NewMsgs
  <2>3. /\ server_queue_msg(m, MainFaults, AddRef(DropRef(refs, globalCfg), g))
        /\ srvBatch' = srvBatch /\ srv' = srv /\ globalCfg' = g
    BY <1>2 DEF Reload
  <2>4. ServerPending' = Append(P, m) \/ ServerPending' = P
    <3> HIDE DEF m, g
    <3> QED
      BY <2>2, <2>3, PendingStep
  <2>5. /\ \A i \in Reloads(P) : P[i].cfg \in Nat /\ P[i].cfg <= g
        /\ srv.cfg <= g /\ globalCfg \in Nat /\ srv.cfg \in Nat /\ g \in Nat
    BY CfgFacts DEF InOrder
  <2> HIDE DEF m, g
  <2>6. CASE ServerPending' = P
    BY <2>3, <2>5, <2>6 DEF InOrder
  <2>7. CASE ServerPending' = Append(P, m)
    <3> DEFINE k == Len(P) + 1
    <3>1. /\ Reloads(P) \subseteq 1 .. Len(P) /\ Len(P) \in Nat
          /\ Reloads(ServerPending') = Reloads(P) \cup {k}
          /\ \A i \in Reloads(P) : ServerPending'[i] = P[i]
          /\ ServerPending'[k] = m
      <4>1. /\ Reloads(P) \subseteq 1 .. Len(P) /\ Len(P) \in Nat
            /\ Reloads(Append(P, m)) = Reloads(P) \cup {k}
            /\ \A i \in Reloads(P) : Append(P, m)[i] = P[i]
        BY <1>0, <2>2, ReloadsAppend
      <4>2. Append(P, m)[k] = m
        BY <1>0
      <4> QED
        BY <2>7, <4>1, <4>2
    <3>2. \A i \in Reloads(P) : i < k
      BY <3>1
    <3> HIDE DEF k
    <3>3. \A i \in Reloads(ServerPending') :
            srv.cfg <= ServerPending'[i].cfg /\ ServerPending'[i].cfg <= g
      <4>1. ServerPending'[k].cfg = g
        BY <2>2, <3>1
      <4>2. \A i \in Reloads(P) : ServerPending'[i].cfg = P[i].cfg /\ srv.cfg <= P[i].cfg
        BY <3>1 DEF InOrder
      <4> QED
        BY <2>5, <3>1, <4>1, <4>2
    <3>4. ASSUME NEW i \in Reloads(ServerPending'), NEW j \in Reloads(ServerPending'), i <= j
          PROVE  ServerPending'[i].cfg <= ServerPending'[j].cfg
      <4>1. CASE j = k
        BY <2>2, <2>5, <3>1, <3>3, <4>1
      <4>2. CASE j # k /\ i # k
        <5>1. i \in Reloads(P) /\ j \in Reloads(P)
          BY <3>1, <4>2
        <5>2. ServerPending'[i] = P[i] /\ ServerPending'[j] = P[j]
          BY <3>1, <5>1
        <5> QED
          BY <3>4, <5>1, <5>2 DEF InOrder
      <4>3. CASE j # k /\ i = k
        <5>1. j < k /\ j \in Int /\ k \in Int
          <6>1. j \in Reloads(P)
            BY <3>1, <4>3
          <6>2. k \in Int /\ j \in Int
            BY <3>1, <6>1 DEF k
          <6> QED
            BY <3>2, <6>1, <6>2
        <5> QED
          BY <3>4, <4>3, <5>1
      <4> QED
        BY <4>1, <4>2, <4>3
    <3> QED
      BY <2>3, <2>5, <3>3, <3>4 DEF InOrder
  <2> QED
    BY <2>4, <2>6, <2>7
<1>3. ASSUME ReloadDebug PROVE InOrder'
  <2>1. DebugMsg \in ServerMsg /\ ~IsReload(DebugMsg)
    BY NewMsgs
  <2>2. /\ server_queue_msg(DebugMsg, MainFaults, refs) /\ srvBatch' = srvBatch
        /\ srv' = srv /\ globalCfg' = globalCfg
    BY <1>3 DEF ReloadDebug
  <2>3. ServerPending' \in {Append(ServerPending, DebugMsg), ServerPending}
    BY <2>1, <2>2, PendingStep
  <2> QED
    BY <2>1, <2>2, <2>3, OrderPut
<1>4. ASSUME Destroy PROVE InOrder'
  <2>1. StopMsg \in ServerMsg /\ ~IsReload(StopMsg)
    BY NewMsgs
  <2>2. /\ server_queue_msg(StopMsg, StopFaults, refs) /\ srvBatch' = srvBatch
        /\ srv' = srv /\ globalCfg' = globalCfg
    BY <1>4 DEF Destroy
  <2>3. ServerPending' \in {Append(ServerPending, StopMsg), ServerPending}
    BY <2>1, <2>2, PendingStep
  <2> QED
    BY <2>1, <2>2, <2>3, OrderPut
<1>5. ASSUME JoinServer PROVE InOrder'
  BY <1>5, <1>0, PendingStep, OrderKept DEF JoinServer, SrvType
<1>6. ASSUME StopSessionsEnd PROVE InOrder'
  BY <1>6, <1>0, PendingStep, OrderKept DEF StopSessionsEnd, SrvType
<1>7. ASSUME JoinSessionsEnd PROVE InOrder'
  BY <1>7, <1>0, PendingStep, OrderKept DEF JoinSessionsEnd, SrvType
<1>8. ASSUME Release PROVE InOrder'
  BY <1>8, <1>0, PendingStep, OrderKept DEF Release, SrvType
<1>9. ASSUME NEW s \in Sessions, SetStop(s) PROVE InOrder'
  BY <1>9, <1>0, PendingStep, OrderKept DEF SetStop, SrvType
<1>10. ASSUME NEW s \in Sessions, WakeSession(s) PROVE InOrder'
  BY <1>10, <1>0, PendingStep, OrderKept DEF WakeSession, SrvType
<1>11. ASSUME NEW s \in Sessions, JoinSession(s) PROVE InOrder'
  <2>1. DestroySession(s)
    BY <1>11 DEF JoinSession
  <2>2. srv'.cfg = srv.cfg
    BY <2>1, DestroyFacts
  <2> QED
    BY <1>11, <2>2, PendingStep, OrderKept DEF JoinSession
<1>12. ASSUME Listen PROVE InOrder'
  BY <1>12, <1>0, PendingStep, OrderKept DEF Listen, ServerGoes, SrvType
<1>13. ASSUME ServerPollQueue PROVE InOrder'
  <2>1. ServerPending' = ServerPending /\ globalCfg' = globalCfg
    BY <1>13, PendingStep DEF ServerPollQueue
  <2>2. srv'.cfg = srv.cfg
    BY <1>13, ServerMoves DEF ServerPollQueue
  <2> QED
    BY <2>1, <2>2, OrderKept
<1>14. ASSUME ServerReloadConfig PROVE InOrder'
  <2> DEFINE P == ServerPending
  <2>1. /\ P # << >> /\ Head(P) = Head(srvBatch) /\ ServerPending' = P
        /\ IsReload(Head(P)) /\ globalCfg' = globalCfg
    BY <1>14, PendingFacts, PendingStep DEF ServerReloadConfig, NextMsg, IsReload
  <2>2. 1 \in Reloads(P) /\ Head(P) = P[1]
    BY <1>0, <2>1, ReloadsTail
  <2>3. srv'.cfg = P[1].cfg
    BY <1>14, <1>0, <2>1, <2>2 DEF ServerReloadConfig, SrvType
  <2>4. \A i \in Reloads(P) : 1 <= i
    BY <1>0, ReloadsAppend DEF Reloads
  <2> HIDE DEF P
  <2> QED
    BY <2>1, <2>2, <2>3, <2>4 DEF InOrder, P
<1>15. ASSUME ServerReloadDebug PROVE InOrder'
  BY <1>15, <1>0, PendingStep, OrderKept DEF ServerReloadDebug, NextMsg, SrvType
<1>16. ASSUME ForwardEnd PROVE InOrder'
  <2>1. /\ ServerPending # << >> /\ ServerPending' = Tail(ServerPending)
        /\ globalCfg' = globalCfg
    BY <1>16, PendingStep DEF ForwardEnd
  <2>2. srv'.cfg = srv.cfg
    BY <1>16, ServerMoves DEF ForwardEnd
  <2> QED
    BY <2>1, <2>2, OrderTail
<1>17. ASSUME ServerSessionEnd PROVE InOrder'
  <2>1. /\ ServerPending # << >> /\ ServerPending' = Tail(ServerPending)
        /\ Head(srvBatch) \in ServerMsg /\ globalCfg' = globalCfg
    BY <1>17, PendingStep DEF ServerSessionEnd
  <2>2. PICK s \in Sessions : s = Head(srvBatch).session
    BY <1>17, <2>1, ServerMsgFacts DEF ServerSessionEnd, NextMsg
  <2>3. DestroySession(s)
    BY <1>17, <2>2 DEF ServerSessionEnd
  <2>4. srv'.cfg = srv.cfg
    BY <2>3, DestroyFacts
  <2> QED
    BY <2>1, <2>4, OrderTail
<1>18. ASSUME ServerStop PROVE InOrder'
  <2>1. /\ ServerPending # << >> /\ ServerPending' = Tail(ServerPending)
        /\ globalCfg' = globalCfg
    BY <1>18, PendingStep DEF ServerStop
  <2>2. srv'.cfg = srv.cfg
    BY <1>18, <1>0 DEF ServerStop, SrvType
  <2> QED
    BY <2>1, <2>2, OrderTail
<1>19. ASSUME ServerBatchEnd PROVE InOrder'
  BY <1>19, <1>0, PendingStep, OrderKept DEF ServerBatchEnd, ServerGoes, SrvType
<1>20. ASSUME AcceptDropped PROVE InOrder'
  BY <1>20, <1>0, PendingStep, OrderKept DEF AcceptDropped, ServerGoes, SrvType
<1>21. ASSUME AcceptFailed PROVE InOrder'
  BY <1>21, <1>0, PendingStep, OrderKept DEF AcceptFailed, SrvType
<1>22. ASSUME ServerClose PROVE InOrder'
  <2>1. ServerPending' = ServerPending /\ globalCfg' = globalCfg
    BY <1>22, PendingStep DEF ServerClose
  <2>2. srv'.cfg = srv.cfg
    BY <1>22, ServerMoves DEF ServerClose
  <2> QED
    BY <2>1, <2>2, OrderKept
<1>23. ASSUME ServerEmpty PROVE InOrder'
  <2>1. ServerPending' = << >> /\ globalCfg' = globalCfg
    BY <1>23, PendingStep DEF ServerEmpty
  <2>2. srv'.cfg = srv.cfg
    BY <1>23, ServerMoves DEF ServerEmpty
  <2>3. Reloads(ServerPending') = {}
    BY <2>1 DEF Reloads
  <2> QED
    BY <2>1, <2>2, <2>3 DEF InOrder
<1>24. ASSUME NEW s \in Sessions, Forward(s) PROVE InOrder'
  BY <1>24, <1>0, PendingStep, OrderKept DEF Forward, SrvType
<1>25. ASSUME NEW s \in Sessions, Accept(s) PROVE InOrder'
  BY <1>25, <1>0, PendingStep, OrderKept DEF Accept, SrvType
<1>26. ASSUME ServerPollError PROVE InOrder'
  BY <1>26, <1>0, PendingStep, OrderKept DEF ServerPollError, ServerGoes, SrvType
<1>27. ASSUME ServerPollSocket PROVE InOrder'
  BY <1>27, <1>0, PendingStep, OrderKept DEF ServerPollSocket, ServerGoes, SrvType
<1>28. ASSUME NEW s \in Sessions, SessionPollQueue(s) PROVE InOrder'
  BY <1>28, PendingStep, OrderKept DEF SessionPollQueue
<1>29. ASSUME NEW s \in Sessions, SessionQueueEvents(s) PROVE InOrder'
  BY <1>29, PendingStep, OrderKept DEF SessionQueueEvents
<1>30. ASSUME NEW s \in Sessions, SessionSockEvents(s) PROVE InOrder'
  BY <1>30, PendingStep, OrderKept DEF SessionSockEvents
<1>31. ASSUME NEW s \in Sessions, SessionClose(s) PROVE InOrder'
  BY <1>31, PendingStep, OrderKept DEF SessionClose
<1>32. ASSUME NEW s \in Sessions, SessionEmpty(s) PROVE InOrder'
  BY <1>32, PendingStep, OrderKept DEF SessionEmpty
<1>33. ASSUME NEW s \in Sessions, SessionExit(s) PROVE InOrder'
  <2>1. SessionEndMsg(s) \in ServerMsg /\ ~IsReload(SessionEndMsg(s))
    BY NewMsgs
  <2>2. /\ server_queue_msg(SessionEndMsg(s), SessionFaults, refs) /\ srvBatch' = srvBatch
        /\ srv' = srv /\ globalCfg' = globalCfg
    BY <1>33 DEF SessionExit
  <2>3. ServerPending' \in {Append(ServerPending, SessionEndMsg(s)), ServerPending}
    BY <2>1, <2>2, PendingStep
  <2> QED
    BY <2>1, <2>2, <2>3, OrderPut
<1>34. ASSUME NEW s \in Sessions, SessionPollError(s) PROVE InOrder'
  BY <1>34, PendingStep, OrderKept DEF SessionPollError
<1>35. ASSUME NEW s \in Sessions, SessionTimer(s) PROVE InOrder'
  BY <1>35, PendingStep, OrderKept DEF SessionTimer
<1>36. ASSUME NEW s \in Sessions, SessionPollSocket(s) PROVE InOrder'
  BY <1>36, PendingStep, OrderKept DEF SessionPollSocket
<1>37. ASSUME UNCHANGED vars PROVE InOrder'
  BY <1>37, PendingStep, OrderKept DEF vars
<1> QED
  BY <1>1, <1>2, <1>3, <1>4, <1>5, <1>6, <1>7, <1>8, <1>9, <1>10, <1>11, <1>12, <1>13,
     <1>14, <1>15, <1>16, <1>17, <1>18, <1>19, <1>20, <1>21, <1>22, <1>23, <1>24, <1>25,
     <1>26, <1>27, <1>28, <1>29, <1>30, <1>31, <1>32, <1>33, <1>34, <1>35, <1>36, <1>37
     DEF Next, MainEnds, ServerNext, ServerRuns, SessionNext, SessionRuns

-----------------------------------------------------------------------------
(* The server tells its sessions of the configuration it has. *)
LEMMA ForwardingStep == Base /\ Control /\ Forwarding /\ [Next]_vars => Forwarding'
<1> SUFFICES ASSUME Base, Control, Forwarding PROVE [Next]_vars => Forwarding'
  OBVIOUS
<1>0. srv \in SrvType
  BY DEF Base
<1>1. ASSUME Start PROVE Forwarding'
  BY <1>1, <1>0 DEF Start, SrvType, Forwarding
<1>2. ASSUME Reload PROVE Forwarding'
  BY <1>2, <1>0 DEF Reload, SrvType, Forwarding
<1>3. ASSUME ReloadDebug PROVE Forwarding'
  BY <1>3, <1>0 DEF ReloadDebug, SrvType, Forwarding
<1>4. ASSUME Destroy PROVE Forwarding'
  BY <1>4, <1>0 DEF Destroy, SrvType, Forwarding
<1>5. ASSUME JoinServer PROVE Forwarding'
  BY <1>5, <1>0 DEF JoinServer, SrvType, Forwarding
<1>6. ASSUME StopSessionsEnd PROVE Forwarding'
  BY <1>6, <1>0 DEF StopSessionsEnd, SrvType, Forwarding
<1>7. ASSUME JoinSessionsEnd PROVE Forwarding'
  BY <1>7, <1>0 DEF JoinSessionsEnd, SrvType, Forwarding
<1>8. ASSUME Release PROVE Forwarding'
  BY <1>8, <1>0 DEF Release, SrvType, Forwarding
<1>9. ASSUME NEW s \in Sessions, SetStop(s) PROVE Forwarding'
  BY <1>9, <1>0 DEF SetStop, SrvType, Forwarding
<1>10. ASSUME NEW s \in Sessions, WakeSession(s) PROVE Forwarding'
  BY <1>10, <1>0 DEF WakeSession, SrvType, Forwarding
<1>11. ASSUME NEW s \in Sessions, JoinSession(s) PROVE Forwarding'
  <2>1. srv.pc = "ended" /\ DestroySession(s)
    BY <1>11 DEF JoinSession, Control, Threads
  <2>2. srv'.pc = "ended"
    BY <2>1, DestroyFacts
  <2> QED
    BY <2>2 DEF Forwarding
<1>12. ASSUME Listen PROVE Forwarding'
  BY <1>12, <1>0 DEF Listen, ServerGoes, SrvType, Forwarding
<1>13. ASSUME ServerPollQueue PROVE Forwarding'
  BY <1>13, ServerMoves DEF ServerPollQueue, Forwarding
<1>14. ASSUME ServerReloadConfig PROVE Forwarding'
  BY <1>14, <1>0 DEF ServerReloadConfig, NextMsg, SrvType, Forwarding
<1>15. ASSUME ServerReloadDebug PROVE Forwarding'
  <2>1. ~IsReload(Head(srvBatch)) /\ srvBatch' = srvBatch
    BY <1>15 DEF ServerReloadDebug, NextMsg, IsReload
  <2> QED
    BY <2>1 DEF Forwarding
<1>16. ASSUME ForwardEnd PROVE Forwarding'
  BY <1>16, ServerMoves DEF ForwardEnd, Forwarding
<1>17. ASSUME ServerSessionEnd PROVE Forwarding'
  <2>1. Head(srvBatch) \in ServerMsg
    BY <1>17, PendingFacts DEF ServerSessionEnd, NextMsg
  <2>2. PICK s \in Sessions : s = Head(srvBatch).session
    BY <1>17, <2>1, ServerMsgFacts DEF ServerSessionEnd, NextMsg
  <2>3. DestroySession(s)
    BY <1>17, <2>2 DEF ServerSessionEnd
  <2>4. srv'.pc = "batch"
    BY <1>17, <2>3, DestroyFacts DEF ServerSessionEnd, NextMsg
  <2> QED
    BY <2>4 DEF Forwarding
<1>18. ASSUME ServerStop PROVE Forwarding'
  BY <1>18, <1>0 DEF ServerStop, NextMsg, SrvType, Forwarding
<1>19. ASSUME ServerBatchEnd PROVE Forwarding'
  BY <1>19, ServerMoves DEF ServerBatchEnd, Forwarding
<1>20. ASSUME AcceptDropped PROVE Forwarding'
  BY <1>20, ServerMoves DEF AcceptDropped, Forwarding
<1>21. ASSUME AcceptFailed PROVE Forwarding'
  BY <1>21, <1>0 DEF AcceptFailed, SrvType, Forwarding
<1>22. ASSUME ServerClose PROVE Forwarding'
  BY <1>22, ServerMoves DEF ServerClose, Forwarding
<1>23. ASSUME ServerEmpty PROVE Forwarding'
  BY <1>23, ServerMoves DEF ServerEmpty, Forwarding
<1>24. ASSUME NEW s \in Sessions, Forward(s) PROVE Forwarding'
  BY <1>24, <1>0 DEF Forward, SrvType, Forwarding
<1>25. ASSUME NEW s \in Sessions, Accept(s) PROVE Forwarding'
  BY <1>25, <1>0 DEF Accept, SrvType, Forwarding
<1>26. ASSUME ServerPollError PROVE Forwarding'
  BY <1>26, ServerMoves DEF ServerPollError, Forwarding
<1>27. ASSUME ServerPollSocket PROVE Forwarding'
  BY <1>27, ServerMoves DEF ServerPollSocket, Forwarding
<1>28. ASSUME NEW s \in Sessions, SessionPollQueue(s) PROVE Forwarding'
  BY <1>28 DEF SessionPollQueue, Forwarding
<1>29. ASSUME NEW s \in Sessions, SessionQueueEvents(s) PROVE Forwarding'
  BY <1>29 DEF SessionQueueEvents, Forwarding
<1>30. ASSUME NEW s \in Sessions, SessionSockEvents(s) PROVE Forwarding'
  BY <1>30 DEF SessionSockEvents, Forwarding
<1>31. ASSUME NEW s \in Sessions, SessionClose(s) PROVE Forwarding'
  BY <1>31 DEF SessionClose, Forwarding
<1>32. ASSUME NEW s \in Sessions, SessionEmpty(s) PROVE Forwarding'
  BY <1>32 DEF SessionEmpty, Forwarding
<1>33. ASSUME NEW s \in Sessions, SessionExit(s) PROVE Forwarding'
  BY <1>33 DEF SessionExit, Forwarding
<1>34. ASSUME NEW s \in Sessions, SessionPollError(s) PROVE Forwarding'
  BY <1>34 DEF SessionPollError, Forwarding
<1>35. ASSUME NEW s \in Sessions, SessionTimer(s) PROVE Forwarding'
  BY <1>35 DEF SessionTimer, Forwarding
<1>36. ASSUME NEW s \in Sessions, SessionPollSocket(s) PROVE Forwarding'
  BY <1>36 DEF SessionPollSocket, Forwarding
<1>37. ASSUME UNCHANGED vars PROVE Forwarding'
  BY <1>37 DEF vars, Forwarding
<1> QED
  BY <1>1, <1>2, <1>3, <1>4, <1>5, <1>6, <1>7, <1>8, <1>9, <1>10, <1>11, <1>12, <1>13,
     <1>14, <1>15, <1>16, <1>17, <1>18, <1>19, <1>20, <1>21, <1>22, <1>23, <1>24, <1>25,
     <1>26, <1>27, <1>28, <1>29, <1>30, <1>31, <1>32, <1>33, <1>34, <1>35, <1>36, <1>37
     DEF Next, MainEnds, ServerNext, ServerRuns, SessionNext, SessionRuns

(* No session gets ahead of the server, whichever session moves. *)
LEMMA BehindKept ==
  ASSUME Behind, srv'.sessions \subseteq srv.sessions, srv'.cfg = srv.cfg,
         \A t \in srv'.sessions :
           sess'[t].cfg = sess[t].cfg /\ (sessQ'[t].items = sessQ[t].items \/ sessQ'[t].items = << >>)
  PROVE  Behind'
<1>1. Reloads(<< >>) = {}
  BY DEF Reloads
<1> QED
  BY <1>1 DEF Behind

(* A put to the queue of one session. *)
LEMMA BehindPut ==
  ASSUME Behind, Base, NEW s \in srv.sessions, NEW m \in SessionMsg, IsReload(m) => m.cfg = srv.cfg,
         srv'.sessions = srv.sessions, srv'.cfg = srv.cfg, sess' = sess,
         sessQ'[s].items \in {Append(sessQ[s].items, m), sessQ[s].items},
         \A t \in Sessions \ {s} : sessQ'[t] = sessQ[t]
  PROVE  Behind'
<1> DEFINE q == sessQ[s].items
<1>1. s \in Sessions /\ q \in Seq(SessionMsg) /\ srv.sessions \subseteq Sessions
  BY QueueFacts, ServerMoves DEF Base
<1>2. ASSUME NEW i \in Reloads(sessQ'[s].items)
      PROVE  sess[s].cfg <= sessQ'[s].items[i].cfg /\ sessQ'[s].items[i].cfg <= srv.cfg
  <2>1. CASE sessQ'[s].items = q
    BY <1>2, <2>1 DEF Behind
  <2>2. CASE sessQ'[s].items = Append(q, m)
    <3> DEFINE r == Append(q, m)
    <3>1. /\ Reloads(r) = Reloads(q) \cup (IF IsReload(m) THEN {Len(q) + 1} ELSE {})
          /\ \A j \in Reloads(q) : r[j] = q[j]
      <4> HIDE DEF q
      <4> QED
        BY <1>1, ReloadsAppend
    <3>2. r[Len(q) + 1] = m
      BY <1>1
    <3>3. CASE i \in Reloads(q)
      BY <2>2, <3>1, <3>3 DEF Behind
    <3>4. CASE i \notin Reloads(q)
      <4>1. i = Len(q) + 1 /\ IsReload(m) /\ i \in Reloads(r)
        BY <1>2, <2>2, <3>1, <3>4
      <4>2. r[i].cfg = srv.cfg
        BY <3>2, <4>1
      <4>3. sess[s].cfg <= srv.cfg /\ srv.cfg \in Nat
        BY CfgFacts DEF Behind
      <4> QED
        BY <2>2, <4>2, <4>3
    <3> QED
      BY <3>3, <3>4
  <2> QED
    BY <2>1, <2>2
<1>3. \A t \in srv.sessions \ {s} : sessQ'[t] = sessQ[t]
  BY <1>1
<1> QED
  BY <1>2, <1>3 DEF Behind

(* A session never is ahead of the server. *)
LEMMA BehindStep ==
  Base /\ Control /\ ListIsComplete /\ Ordered /\ [Next]_vars => Behind'
<1> SUFFICES ASSUME Base, Control, ListIsComplete, Ordered PROVE [Next]_vars => Behind'
  OBVIOUS
<1>0. /\ srv \in SrvType /\ sess \in [Sessions -> SessType] /\ srv.sessions \subseteq Sessions
      /\ Behind /\ \A s \in Sessions : sessQ[s] \in SyncQueueType(SessionMsg)
      /\ sessQ \in [Sessions -> SyncQueueType(SessionMsg)]
  BY ServerMoves DEF Base, Ordered
<1>1. ASSUME Start PROVE Behind'
  BY <1>1, <1>0, BehindKept DEF Start, SrvType
<1>2. ASSUME Reload PROVE Behind'
  BY <1>2, <1>0, BehindKept DEF Reload, SrvType
<1>3. ASSUME ReloadDebug PROVE Behind'
  BY <1>3, <1>0, BehindKept DEF ReloadDebug, SrvType
<1>4. ASSUME Destroy PROVE Behind'
  BY <1>4, <1>0, BehindKept DEF Destroy, SrvType
<1>5. ASSUME JoinServer PROVE Behind'
  BY <1>5, <1>0, BehindKept DEF JoinServer, SrvType
<1>6. ASSUME StopSessionsEnd PROVE Behind'
  BY <1>6, <1>0, BehindKept DEF StopSessionsEnd, SrvType
<1>7. ASSUME JoinSessionsEnd PROVE Behind'
  BY <1>7, <1>0, BehindKept DEF JoinSessionsEnd, SrvType
<1>8. ASSUME Release PROVE Behind'
  BY <1>8, <1>0, BehindKept DEF Release, SrvType
<1>9. ASSUME NEW s \in Sessions, SetStop(s) PROVE Behind'
  <2>1. \A t \in Sessions : sess'[t].cfg = sess[t].cfg
    BY <1>9, <1>0 DEF SetStop, SessType
  <2>2. srv'.sessions = srv.sessions /\ srv'.cfg = srv.cfg
    BY <1>9, <1>0 DEF SetStop, SrvType
  <2> QED
    BY <1>9, <1>0, <2>1, <2>2, BehindKept DEF SetStop
<1>10. ASSUME NEW s \in Sessions, WakeSession(s) PROVE Behind'
  <2>1. NoopMsg \in SessionMsg /\ ~IsReload(NoopMsg)
    BY NewMsgs
  <2>2. session_queue_msg(s, NoopMsg, MainFaults)
    BY <1>10 DEF WakeSession
  <2>3. /\ sessQ'[s].items \in {Append(sessQ[s].items, NoopMsg), sessQ[s].items}
        /\ \A t \in Sessions \ {s} : sessQ'[t] = sessQ[t]
    BY <2>1, <2>2, SessionPut
  <2>4. s \in srv.sessions
    BY <1>10 DEF WakeSession, Control, Threads
  <2>5. srv'.sessions = srv.sessions /\ srv'.cfg = srv.cfg /\ sess' = sess
    BY <1>10, <1>0 DEF WakeSession, SrvType
  <2> QED
    BY <1>0, <2>1, <2>3, <2>4, <2>5, BehindPut
<1>11. ASSUME NEW s \in Sessions, JoinSession(s) PROVE Behind'
  <2>1. DestroySession(s)
    BY <1>11 DEF JoinSession
  <2>2. /\ srv'.sessions = srv.sessions \ {s} /\ srv'.cfg = srv.cfg
        /\ \A t \in Sessions \ {s} : sess'[t] = sess[t] /\ sessQ'[t] = sessQ[t]
    BY <2>1, DestroyFacts
  <2> QED
    BY <1>0, <2>2, BehindKept
<1>12. ASSUME Listen PROVE Behind'
  BY <1>12, <1>0, BehindKept DEF Listen, ServerGoes, SrvType
<1>13. ASSUME ServerPollQueue PROVE Behind'
  <2>1. srv'.sessions = srv.sessions /\ srv'.cfg = srv.cfg
    BY <1>13, ServerMoves DEF ServerPollQueue
  <2> QED
    BY <1>13, <1>0, <2>1, BehindKept DEF ServerPollQueue
<1>14. ASSUME ServerReloadConfig PROVE Behind'
  <2> DEFINE P == ServerPending
  <2>1. P # << >> /\ Head(P) = Head(srvBatch) /\ IsReload(Head(P)) /\ P \in Seq(ServerMsg)
    BY <1>14, PendingFacts DEF ServerReloadConfig, NextMsg, IsReload
  <2>2. 1 \in Reloads(P) /\ Head(P) = P[1]
    BY <2>1, ReloadsTail
  <2>3. srv'.cfg = P[1].cfg /\ srv'.sessions = srv.sessions
    BY <1>14, <1>0, <2>1, <2>2 DEF ServerReloadConfig, SrvType
  <2>4. srv.cfg <= srv'.cfg
    BY <2>2, <2>3 DEF Ordered, InOrder
  <2>5. srv.cfg \in Nat /\ srv'.cfg \in Nat
    BY <2>2, <2>3, CfgFacts
  <2>6. /\ sess' = sess /\ sessQ' = sessQ
        /\ \A s \in srv.sessions :
              sess[s].cfg \in Nat /\ \A i \in Reloads(sessQ[s].items) : sessQ[s].items[i].cfg \in Nat
    BY <1>14, <1>0, CfgFacts DEF ServerReloadConfig
  <2> QED
    BY <1>0, <2>3, <2>4, <2>5, <2>6 DEF Behind
<1>15. ASSUME ServerReloadDebug PROVE Behind'
  BY <1>15, <1>0, BehindKept DEF ServerReloadDebug, NextMsg, SrvType
<1>16. ASSUME ForwardEnd PROVE Behind'
  <2>1. srv'.sessions = srv.sessions /\ srv'.cfg = srv.cfg
    BY <1>16, ServerMoves DEF ForwardEnd
  <2> QED
    BY <1>16, <1>0, <2>1, BehindKept DEF ForwardEnd
<1>17. ASSUME ServerSessionEnd PROVE Behind'
  <2>0. Head(srvBatch) \in ServerMsg
    BY <1>17, PendingFacts DEF ServerSessionEnd, NextMsg
  <2>4. PICK s \in Sessions : s = Head(srvBatch).session
    BY <1>17, <2>0, ServerMsgFacts DEF ServerSessionEnd, NextMsg
  <2>1. DestroySession(s)
    BY <1>17, <2>4 DEF ServerSessionEnd
  <2>2. /\ srv'.sessions = srv.sessions \ {s} /\ srv'.cfg = srv.cfg
        /\ \A t \in Sessions \ {s} : sess'[t] = sess[t] /\ sessQ'[t] = sessQ[t]
    BY <2>1, DestroyFacts
  <2> QED
    BY <1>0, <2>2, BehindKept
<1>18. ASSUME ServerStop PROVE Behind'
  BY <1>18, <1>0, BehindKept DEF ServerStop, NextMsg, SrvType
<1>19. ASSUME ServerBatchEnd PROVE Behind'
  <2>1. srv'.sessions = srv.sessions /\ srv'.cfg = srv.cfg
    BY <1>19, ServerMoves DEF ServerBatchEnd
  <2> QED
    BY <1>19, <1>0, <2>1, BehindKept DEF ServerBatchEnd
<1>20. ASSUME AcceptDropped PROVE Behind'
  <2>1. srv'.sessions = srv.sessions /\ srv'.cfg = srv.cfg
    BY <1>20, ServerMoves DEF AcceptDropped
  <2> QED
    BY <1>20, <1>0, <2>1, BehindKept DEF AcceptDropped
<1>21. ASSUME AcceptFailed PROVE Behind'
  BY <1>21, <1>0, BehindKept DEF AcceptFailed, SrvType
<1>22. ASSUME ServerClose PROVE Behind'
  <2>1. srv'.sessions = srv.sessions /\ srv'.cfg = srv.cfg
    BY <1>22, ServerMoves DEF ServerClose
  <2> QED
    BY <1>22, <1>0, <2>1, BehindKept DEF ServerClose
<1>23. ASSUME ServerEmpty PROVE Behind'
  <2>1. srv'.sessions = srv.sessions /\ srv'.cfg = srv.cfg
    BY <1>23, ServerMoves DEF ServerEmpty
  <2> QED
    BY <1>23, <1>0, <2>1, BehindKept DEF ServerEmpty
<1>24. ASSUME NEW s \in Sessions, Forward(s) PROVE Behind'
  <2> DEFINE m == Head(srvBatch)
  <2>1. m \in SessionMsg /\ (IsReload(m) => m.cfg = srv.cfg)
    <3>1. srvBatch # << >> /\ Head(srvBatch).id \in {"RELOAD_CONFIG", "RELOAD_DEBUG"}
      BY <1>24 DEF Forward, Control, Threads
    <3>2. Head(srvBatch) \in ServerMsg
      BY <3>1, PendingFacts
    <3>3. IsReload(m) => m.cfg = srv.cfg
      BY <1>24 DEF Forward, Ordered, Forwarding
    <3> QED
      BY <3>1, <3>2, <3>3, ServerMsgFacts
  <2>2. session_queue_msg(s, m, ServerFaults)
    BY <1>24 DEF Forward
  <2>4. s \in srv.sessions
    BY <1>24 DEF Forward, Control, Threads
  <2>5. srv'.sessions = srv.sessions /\ srv'.cfg = srv.cfg /\ sess' = sess
    BY <1>24, <1>0 DEF Forward, SrvType
  <2> HIDE DEF m
  <2>3. /\ sessQ'[s].items \in {Append(sessQ[s].items, m), sessQ[s].items}
        /\ \A t \in Sessions \ {s} : sessQ'[t] = sessQ[t]
    BY <2>1, <2>2, SessionPut
  <2> QED
    BY <1>0, <2>1, <2>3, <2>4, <2>5, BehindPut
<1>25. ASSUME NEW s \in Sessions, Accept(s) PROVE Behind'
  <2>1. sess'[s].cfg = srv.cfg /\ \A t \in Sessions \ {s} : sess'[t] = sess[t]
    BY <1>25, <1>0 DEF Accept, NoSession, SessType
  <2>2. srv'.sessions = srv.sessions \cup {s} /\ srv'.cfg = srv.cfg /\ sessQ' = sessQ
    BY <1>25, <1>0 DEF Accept, SrvType
  <2>3. Reloads(sessQ[s].items) = {}
    <3>1. sessQ[s].items = << >>
      BY <1>25 DEF Accept, Control, SessionQueues, CreateQueue
    <3> QED
      BY <3>1 DEF Reloads
  <2>4. srv.cfg \in Nat
    BY CfgFacts
  <2>5. s \notin srv.sessions
    BY <1>25 DEF Accept, ListIsComplete, Alive
  <2>6. ASSUME NEW t \in srv.sessions
        PROVE  /\ sess'[t].cfg <= srv.cfg
               /\ \A i \in Reloads(sessQ[t].items) :
                    sess'[t].cfg <= sessQ[t].items[i].cfg /\ sessQ[t].items[i].cfg <= srv.cfg
    BY <1>0, <2>1, <2>5 DEF Behind
  <2>7. /\ sess'[s].cfg <= srv.cfg
        /\ \A i \in Reloads(sessQ[s].items) :
             sess'[s].cfg <= sessQ[s].items[i].cfg /\ sessQ[s].items[i].cfg <= srv.cfg
    BY <2>1, <2>3, <2>4
  <2> QED
    BY <2>2, <2>6, <2>7 DEF Behind
<1>26. ASSUME ServerPollError PROVE Behind'
  <2>1. srv'.sessions = srv.sessions /\ srv'.cfg = srv.cfg
    BY <1>26, ServerMoves DEF ServerPollError
  <2> QED
    BY <1>26, <1>0, <2>1, BehindKept DEF ServerPollError
<1>27. ASSUME ServerPollSocket PROVE Behind'
  <2>1. srv'.sessions = srv.sessions /\ srv'.cfg = srv.cfg
    BY <1>27, ServerMoves DEF ServerPollSocket
  <2> QED
    BY <1>27, <1>0, <2>1, BehindKept DEF ServerPollSocket
<1>28. ASSUME NEW s \in Sessions, SessionPollQueue(s) PROVE Behind'
  <2>1. \A t \in Sessions : sess'[t].cfg = sess[t].cfg
    BY <1>28, SessionMoves DEF SessionPollQueue
  <2> QED
    BY <1>28, <1>0, <2>1, BehindKept DEF SessionPollQueue
<1>29. ASSUME NEW s \in Sessions, SessionQueueEvents(s) PROVE Behind'
  <2> DEFINE q == sessQ[s].items
  <2>0. q \in Seq(SessionMsg)
    BY <1>0, QueueFacts
  <2>1. /\ sess'[s].cfg = Latest(sess[s].cfg, q)
        /\ \A t \in Sessions \ {s} : sess'[t] = sess[t] /\ sessQ'[t] = sessQ[t]
    <3>1. PICK stop \in {sess[s].stop, sess[s].stop \/ Reloads(q) # {}},
               next \in {"sock", "poll"} :
                 sess' = [sess EXCEPT ![s] = [pc   |-> IF stop THEN "end" ELSE next,
                                              stop |-> stop,
                                              cfg  |-> Latest(sess[s].cfg, q)]]
      BY <1>29 DEF SessionQueueEvents
    <3>2. sessQ' = [sessQ EXCEPT ![s] = AfterGetAll(sessQ[s])]
      BY <1>29 DEF SessionQueueEvents
    <3> QED
      BY <1>0, <3>1, <3>2
  <2>2. Reloads(sessQ'[s].items) = {}
    <3>1. sessQ'[s].items = << >>
      BY <1>29, <1>0, QueueFacts DEF SessionQueueEvents
    <3> QED
      BY <3>1 DEF Reloads
  <2>3. s \in srv.sessions /\ srv' = srv
    BY <1>29 DEF SessionQueueEvents, ListIsComplete, Alive
  <2>4. Latest(sess[s].cfg, q) <= srv.cfg
    <3> HIDE DEF q
    <3>1. CASE Reloads(q) = {}
      BY <1>0, <2>0, <2>3, <3>1, LatestFacts DEF Behind
    <3>2. CASE Reloads(q) # {}
      <4>1. PICK i \in Reloads(q) : \A j \in Reloads(q) : j <= i
        BY <2>0, <3>2, LatestFacts
      <4>2. Latest(sess[s].cfg, q) = q[i].cfg
        BY <2>0, <4>1, LatestFacts
      <4> QED
        BY <1>0, <2>3, <4>1, <4>2 DEF Behind, q
    <3> QED
      BY <3>1, <3>2
  <2>5. ASSUME NEW t \in srv.sessions \ {s}
        PROVE  /\ sess'[t].cfg <= srv.cfg
               /\ \A i \in Reloads(sessQ'[t].items) :
                    sess'[t].cfg <= sessQ'[t].items[i].cfg /\ sessQ'[t].items[i].cfg <= srv.cfg
    BY <1>0, <2>1 DEF Behind
  <2> QED
    BY <2>1, <2>2, <2>3, <2>4, <2>5 DEF Behind
<1>30. ASSUME NEW s \in Sessions, SessionSockEvents(s) PROVE Behind'
  <2>1. \A t \in Sessions : sess'[t].cfg = sess[t].cfg
    BY <1>30, SessionMoves DEF SessionSockEvents
  <2> QED
    BY <1>30, <1>0, <2>1, BehindKept DEF SessionSockEvents
<1>31. ASSUME NEW s \in Sessions, SessionClose(s) PROVE Behind'
  <2>1. \A t \in Sessions : sess'[t].cfg = sess[t].cfg
    BY <1>31, SessionMoves DEF SessionClose
  <2>2. \A t \in Sessions : sessQ'[t].items = sessQ[t].items
    BY <1>31, <1>0, QueueFacts DEF SessionClose
  <2> QED
    BY <1>31, <1>0, <2>1, <2>2, BehindKept DEF SessionClose
<1>32. ASSUME NEW s \in Sessions, SessionEmpty(s) PROVE Behind'
  <2>1. \A t \in Sessions : sess'[t].cfg = sess[t].cfg
    BY <1>32, SessionMoves DEF SessionEmpty
  <2>2. \A t \in Sessions : sessQ'[t].items = sessQ[t].items \/ sessQ'[t].items = << >>
    BY <1>32, <1>0, QueueFacts DEF SessionEmpty
  <2> QED
    BY <1>32, <1>0, <2>1, <2>2, BehindKept DEF SessionEmpty
<1>33. ASSUME NEW s \in Sessions, SessionExit(s) PROVE Behind'
  <2>1. \A t \in Sessions : sess'[t].cfg = sess[t].cfg
    BY <1>33, SessionMoves DEF SessionExit
  <2> QED
    BY <1>33, <1>0, <2>1, BehindKept DEF SessionExit
<1>34. ASSUME NEW s \in Sessions, SessionPollError(s) PROVE Behind'
  <2>1. \A t \in Sessions : sess'[t].cfg = sess[t].cfg
    BY <1>34, SessionMoves DEF SessionPollError
  <2> QED
    BY <1>34, <1>0, <2>1, BehindKept DEF SessionPollError
<1>35. ASSUME NEW s \in Sessions, SessionTimer(s) PROVE Behind'
  <2>1. \A t \in Sessions : sess'[t].cfg = sess[t].cfg
    BY <1>35, SessionMoves DEF SessionTimer
  <2> QED
    BY <1>35, <1>0, <2>1, BehindKept DEF SessionTimer
<1>36. ASSUME NEW s \in Sessions, SessionPollSocket(s) PROVE Behind'
  <2>1. \A t \in Sessions : sess'[t].cfg = sess[t].cfg
    BY <1>36, SessionMoves DEF SessionPollSocket
  <2> QED
    BY <1>36, <1>0, <2>1, BehindKept DEF SessionPollSocket
<1>37. ASSUME UNCHANGED vars PROVE Behind'
  BY <1>37, <1>0, BehindKept DEF vars
<1> QED
  BY <1>1, <1>2, <1>3, <1>4, <1>5, <1>6, <1>7, <1>8, <1>9, <1>10, <1>11, <1>12, <1>13,
     <1>14, <1>15, <1>16, <1>17, <1>18, <1>19, <1>20, <1>21, <1>22, <1>23, <1>24, <1>25,
     <1>26, <1>27, <1>28, <1>29, <1>30, <1>31, <1>32, <1>33, <1>34, <1>35, <1>36, <1>37
     DEF Next, MainEnds, ServerNext, ServerRuns, SessionNext, SessionRuns

-----------------------------------------------------------------------------
(* What the server will have, as what is pending for it changes.           *)
LEMMA ServerNewestKept ==
  ASSUME ServerNewest, ServerPending' = ServerPending, globalCfg' = globalCfg, srv'.cfg = srv.cfg,
         srvQ'.closed = srvQ.closed \/ srvQ'.closed = TRUE,
         TheServer \in missed => TheServer \in missed',
         main' \in {"created", "loaded"} => main \in {"created", "loaded"}
  PROVE  ServerNewest'
BY DEF ServerNewest

(* A message that is no reload is put.                                     *)
LEMMA ServerNewestPut ==
  ASSUME ServerNewest, Base, NEW m \in ServerMsg, ~IsReload(m),
         ServerPending' \in {Append(ServerPending, m), ServerPending},
         globalCfg' = globalCfg, srv'.cfg = srv.cfg, srvQ'.closed = srvQ.closed, missed' = missed,
         main' \in {"created", "loaded"} => main \in {"created", "loaded"}
  PROVE  ServerNewest'
<1>1. ServerPending \in Seq(ServerMsg)
  BY PendingFacts
<1>2. \A c : Latest(c, Append(ServerPending, m)) = Latest(c, ServerPending)
  BY <1>1, LatestAppend
<1> QED
  BY <1>2 DEF ServerNewest

(* The first message is taken, after the server has its configuration.     *)
LEMMA ServerNewestTail ==
  ASSUME ServerNewest, Base, ServerPending # << >>, ServerPending' = Tail(ServerPending),
         IsReload(Head(ServerPending)) => Head(ServerPending).cfg = srv.cfg,
         globalCfg' = globalCfg, srv'.cfg = srv.cfg, srvQ' = srvQ, missed' = missed, main' = main
  PROVE  ServerNewest'
<1>1. ServerPending \in Seq(ServerMsg)
  BY PendingFacts
<1>2. Latest(srv.cfg, ServerPending) =
        Latest(IF IsReload(Head(ServerPending)) THEN Head(ServerPending).cfg ELSE srv.cfg,
               Tail(ServerPending))
  BY <1>1, LatestTail
<1>3. Latest(srv.cfg, ServerPending) = Latest(srv.cfg, Tail(ServerPending))
  BY <1>2
<1> QED
  BY <1>3 DEF ServerNewest

(* The last configuration is on its way to the server. *)
LEMMA ServerNewestStep ==
  Base /\ Control /\ Forwarding /\ ServerNewest /\ [Next]_vars => ServerNewest'
<1> SUFFICES ASSUME Base, Control, Forwarding, ServerNewest PROVE [Next]_vars => ServerNewest'
  OBVIOUS
<1>0. /\ srv \in SrvType /\ ServerPending \in Seq(ServerMsg) /\ srvQ \in SyncQueueType(ServerMsg)
  BY PendingFacts DEF Base
<1>1. ASSUME Start PROVE ServerNewest'
  BY <1>1, <1>0, PendingStep, ServerNewestKept DEF Start, SrvType
<1>2. ASSUME Reload PROVE ServerNewest'
  <2> DEFINE g == globalCfg + 1
             m == ReloadMsg(g)
             r == AddRef(DropRef(refs, globalCfg), g)
  <2>1. m \in ServerMsg /\ m.cfg = g /\ IsReload(m)
    <3>1. g \in Cfg
      BY <1>2, ServerAssumption DEF Reload, Cfg, ServerAssumption, Base
    <3> QED
      BY <3>1, NewMsgs
  <2>2. /\ server_queue_msg(m, MainFaults, r)
        /\ srvBatch' = srvBatch /\ srv' = srv /\ globalCfg' = g
    BY <1>2 DEF Reload
  <2> HIDE DEF m, g, r
  <2>3. srvBatch \o Append(srvQ.items, m) = Append(ServerPending, m)
    BY <2>1, PendingFacts
  <2>4. \A c : Latest(c, Append(ServerPending, m)) = g
    BY <1>0, <2>1, LatestAppend
  <2>5. \/ srvQ'.items = Append(srvQ.items, m)
        \/ TheServer \in missed'
        \/ srvQ'.closed
    BY <2>1, <2>2, ServerPut
  <2> QED
    BY <2>2, <2>3, <2>4, <2>5 DEF ServerNewest, ServerPending
<1>3. ASSUME ReloadDebug PROVE ServerNewest'
  <2>1. DebugMsg \in ServerMsg /\ ~IsReload(DebugMsg)
    BY NewMsgs
  <2>2. /\ server_queue_msg(DebugMsg, MainFaults, refs) /\ srvBatch' = srvBatch
        /\ srv' = srv /\ globalCfg' = globalCfg
        /\ main' \in {"created", "loaded"} => main \in {"created", "loaded"}
    BY <1>3 DEF ReloadDebug
  <2>3. ServerPending' \in {Append(ServerPending, DebugMsg), ServerPending}
    BY <2>1, <2>2, PendingStep
  <2>4. srvQ'.closed = srvQ.closed /\ missed' = missed
    BY <2>1, <2>2, ServerPut
  <2> QED
    BY <2>1, <2>2, <2>3, <2>4, ServerNewestPut
<1>4. ASSUME Destroy PROVE ServerNewest'
  <2>1. StopMsg \in ServerMsg /\ ~IsReload(StopMsg)
    BY NewMsgs
  <2>2. /\ server_queue_msg(StopMsg, StopFaults, refs) /\ srvBatch' = srvBatch
        /\ srv' = srv /\ globalCfg' = globalCfg
        /\ main' \in {"created", "loaded"} => main \in {"created", "loaded"}
    BY <1>4 DEF Destroy
  <2>3. ServerPending' \in {Append(ServerPending, StopMsg), ServerPending}
    BY <2>1, <2>2, PendingStep
  <2>4. srvQ'.closed = srvQ.closed /\ missed' = missed
    BY <2>1, <2>2, ServerPut
  <2> QED
    BY <2>1, <2>2, <2>3, <2>4, ServerNewestPut
<1>5. ASSUME JoinServer PROVE ServerNewest'
  BY <1>5, <1>0, PendingStep, ServerNewestKept DEF JoinServer, SrvType
<1>6. ASSUME StopSessionsEnd PROVE ServerNewest'
  BY <1>6, <1>0, PendingStep, ServerNewestKept DEF StopSessionsEnd, SrvType
<1>7. ASSUME JoinSessionsEnd PROVE ServerNewest'
  BY <1>7, <1>0, PendingStep, ServerNewestKept DEF JoinSessionsEnd, SrvType
<1>8. ASSUME Release PROVE ServerNewest'
  BY <1>8, <1>0, PendingStep, ServerNewestKept DEF Release, SrvType
<1>9. ASSUME NEW s \in Sessions, SetStop(s) PROVE ServerNewest'
  BY <1>9, <1>0, PendingStep, ServerNewestKept DEF SetStop, SrvType
<1>10. ASSUME NEW s \in Sessions, WakeSession(s) PROVE ServerNewest'
  <2>1. NoopMsg \in SessionMsg /\ ~IsReload(NoopMsg)
    BY NewMsgs
  <2>2. session_queue_msg(s, NoopMsg, MainFaults)
    BY <1>10 DEF WakeSession
  <2>3. missed' = missed
    BY <2>1, <2>2, SessionPut
  <2>4. srv'.cfg = srv.cfg
    BY <1>10, <1>0 DEF WakeSession, SrvType
  <2> QED
    BY <1>10, <2>3, <2>4, PendingStep, ServerNewestKept DEF WakeSession
<1>11. ASSUME NEW s \in Sessions, JoinSession(s) PROVE ServerNewest'
  <2>1. main' \notin {"created", "loaded"}
    BY <1>11 DEF JoinSession
  <2> QED
    BY <2>1 DEF ServerNewest
<1>12. ASSUME Listen PROVE ServerNewest'
  BY <1>12, <1>0, PendingStep, ServerNewestKept DEF Listen, ServerGoes, SrvType
<1>13. ASSUME ServerPollQueue PROVE ServerNewest'
  <2>1. /\ ServerPending' = ServerPending /\ globalCfg' = globalCfg /\ missed' = missed
        /\ main' = main
    BY <1>13, PendingStep DEF ServerPollQueue
  <2>2. srv'.cfg = srv.cfg
    BY <1>13, ServerMoves DEF ServerPollQueue
  <2>3. srvQ'.closed = srvQ.closed
    BY <1>13, <1>0, QueueFacts DEF ServerPollQueue
  <2> QED
    BY <2>1, <2>2, <2>3, ServerNewestKept
<1>14. ASSUME ServerReloadConfig PROVE ServerNewest'
  <2> DEFINE P == ServerPending
  <2>1. /\ P # << >> /\ Head(P) = Head(srvBatch) /\ ServerPending' = P
        /\ IsReload(Head(P)) /\ globalCfg' = globalCfg
    BY <1>14, PendingFacts, PendingStep DEF ServerReloadConfig, NextMsg, IsReload
  <2>2. Latest(srv'.cfg, P) = Latest(srv.cfg, P)
    <3> HIDE DEF P
    <3> QED
      BY <1>0, <2>1, LatestTail DEF P
  <2> QED
    BY <1>14, <2>1, <2>2 DEF ServerReloadConfig, ServerNewest
<1>15. ASSUME ServerReloadDebug PROVE ServerNewest'
  BY <1>15, <1>0, PendingStep, ServerNewestKept DEF ServerReloadDebug, NextMsg, SrvType
<1>16. ASSUME ForwardEnd PROVE ServerNewest'
  <2>1. /\ ServerPending # << >> /\ ServerPending' = Tail(ServerPending)
        /\ Head(ServerPending) = Head(srvBatch) /\ Head(srvBatch) \in ServerMsg
        /\ globalCfg' = globalCfg /\ srvQ' = srvQ /\ missed' = missed /\ main' = main
    BY <1>16, PendingStep DEF ForwardEnd
  <2>2. srv'.cfg = srv.cfg
    BY <1>16, ServerMoves DEF ForwardEnd
  <2>3. IsReload(Head(ServerPending)) => Head(ServerPending).cfg = srv.cfg
    BY <1>16, <2>1 DEF ForwardEnd, Forwarding
  <2> QED
    BY <2>1, <2>2, <2>3, ServerNewestTail
<1>17. ASSUME ServerSessionEnd PROVE ServerNewest'
  <2>1. /\ ServerPending # << >> /\ ServerPending' = Tail(ServerPending)
        /\ Head(ServerPending) = Head(srvBatch) /\ Head(srvBatch) \in ServerMsg
        /\ globalCfg' = globalCfg /\ srvQ' = srvQ /\ missed' = missed /\ main' = main
    BY <1>17, PendingStep DEF ServerSessionEnd
  <2>2. srv'.cfg = srv.cfg
    <3>1. PICK s \in Sessions : s = Head(srvBatch).session
      BY <1>17, <2>1, ServerMsgFacts DEF ServerSessionEnd, NextMsg
    <3>2. DestroySession(s)
      BY <1>17, <3>1 DEF ServerSessionEnd
    <3> QED
      BY <3>2, DestroyFacts
  <2>3. IsReload(Head(ServerPending)) => Head(ServerPending).cfg = srv.cfg
    BY <1>17, <2>1 DEF ServerSessionEnd, NextMsg, IsReload
  <2> QED
    BY <2>1, <2>2, <2>3, ServerNewestTail
<1>18. ASSUME ServerStop PROVE ServerNewest'
  <2>1. /\ ServerPending # << >> /\ ServerPending' = Tail(ServerPending)
        /\ Head(ServerPending) = Head(srvBatch) /\ Head(srvBatch) \in ServerMsg
        /\ globalCfg' = globalCfg /\ srvQ' = srvQ /\ missed' = missed /\ main' = main
    BY <1>18, PendingStep DEF ServerStop
  <2>2. srv'.cfg = srv.cfg
    BY <1>18, <1>0 DEF ServerStop, SrvType
  <2>3. IsReload(Head(ServerPending)) => Head(ServerPending).cfg = srv.cfg
    BY <1>18, <2>1 DEF ServerStop, NextMsg, IsReload
  <2> QED
    BY <2>1, <2>2, <2>3, ServerNewestTail
<1>19. ASSUME ServerBatchEnd PROVE ServerNewest'
  <2>1. srv'.cfg = srv.cfg
    BY <1>19, ServerMoves DEF ServerBatchEnd
  <2> QED
    BY <1>19, <2>1, PendingStep, ServerNewestKept DEF ServerBatchEnd
<1>20. ASSUME AcceptDropped PROVE ServerNewest'
  <2>1. srv'.cfg = srv.cfg
    BY <1>20, ServerMoves DEF AcceptDropped
  <2> QED
    BY <1>20, <2>1, PendingStep, ServerNewestKept DEF AcceptDropped
<1>21. ASSUME AcceptFailed PROVE ServerNewest'
  BY <1>21, <1>0, PendingStep, ServerNewestKept DEF AcceptFailed, SrvType
<1>22. ASSUME ServerClose PROVE ServerNewest'
  <2>1. srvQ'.closed
    BY <1>22, <1>0, QueueFacts DEF ServerClose
  <2> QED
    BY <2>1 DEF ServerNewest
<1>23. ASSUME ServerEmpty PROVE ServerNewest'
  <2>1. srvQ'.closed
    BY <1>23, <1>0, QueueFacts DEF ServerEmpty, Control, Threads
  <2> QED
    BY <2>1 DEF ServerNewest
<1>24. ASSUME NEW s \in Sessions, Forward(s) PROVE ServerNewest'
  <2> DEFINE m == Head(srvBatch)
  <2>1. m \in SessionMsg
    <3>1. srvBatch # << >> /\ Head(srvBatch).id \in {"RELOAD_CONFIG", "RELOAD_DEBUG"}
      BY <1>24 DEF Forward, Control, Threads
    <3>2. Head(srvBatch) \in ServerMsg
      BY <3>1, PendingFacts
    <3> QED
      BY <3>1, <3>2, ServerMsgFacts
  <2>2. session_queue_msg(s, m, ServerFaults)
    BY <1>24 DEF Forward
  <2> HIDE DEF m
  <2>3. TheServer \in missed => TheServer \in missed'
    <3>1. missed' \in {missed, missed \ {s}, missed \cup {s}}
      BY <2>1, <2>2, SessionPut
    <3> QED
      BY <3>1, ServerAssumption DEF ServerAssumption
  <2>4. srv'.cfg = srv.cfg
    BY <1>24, <1>0 DEF Forward, SrvType
  <2> QED
    BY <1>24, <2>3, <2>4, PendingStep, ServerNewestKept DEF Forward
<1>25. ASSUME NEW s \in Sessions, Accept(s) PROVE ServerNewest'
  BY <1>25, <1>0, PendingStep, ServerNewestKept DEF Accept, SrvType
<1>26. ASSUME ServerPollError PROVE ServerNewest'
  <2>1. srv'.cfg = srv.cfg
    BY <1>26, ServerMoves DEF ServerPollError
  <2> QED
    BY <1>26, <2>1, PendingStep, ServerNewestKept DEF ServerPollError
<1>27. ASSUME ServerPollSocket PROVE ServerNewest'
  <2>1. srv'.cfg = srv.cfg
    BY <1>27, ServerMoves DEF ServerPollSocket
  <2> QED
    BY <1>27, <2>1, PendingStep, ServerNewestKept DEF ServerPollSocket
<1>28. ASSUME NEW s \in Sessions, SessionPollQueue(s) PROVE ServerNewest'
  BY <1>28, PendingStep, ServerNewestKept DEF SessionPollQueue
<1>29. ASSUME NEW s \in Sessions, SessionQueueEvents(s) PROVE ServerNewest'
  BY <1>29, PendingStep, ServerNewestKept DEF SessionQueueEvents
<1>30. ASSUME NEW s \in Sessions, SessionSockEvents(s) PROVE ServerNewest'
  BY <1>30, PendingStep, ServerNewestKept DEF SessionSockEvents
<1>31. ASSUME NEW s \in Sessions, SessionClose(s) PROVE ServerNewest'
  BY <1>31, PendingStep, ServerNewestKept DEF SessionClose
<1>32. ASSUME NEW s \in Sessions, SessionEmpty(s) PROVE ServerNewest'
  BY <1>32, PendingStep, ServerNewestKept DEF SessionEmpty
<1>33. ASSUME NEW s \in Sessions, SessionExit(s) PROVE ServerNewest'
  <2>1. SessionEndMsg(s) \in ServerMsg /\ ~IsReload(SessionEndMsg(s))
    BY NewMsgs
  <2>2. /\ server_queue_msg(SessionEndMsg(s), SessionFaults, refs) /\ srvBatch' = srvBatch
        /\ srv' = srv /\ globalCfg' = globalCfg
        /\ main' \in {"created", "loaded"} => main \in {"created", "loaded"}
    BY <1>33 DEF SessionExit
  <2>3. ServerPending' \in {Append(ServerPending, SessionEndMsg(s)), ServerPending}
    BY <2>1, <2>2, PendingStep
  <2>4. srvQ'.closed = srvQ.closed /\ missed' = missed
    BY <2>1, <2>2, ServerPut
  <2> QED
    BY <2>1, <2>2, <2>3, <2>4, ServerNewestPut
<1>34. ASSUME NEW s \in Sessions, SessionPollError(s) PROVE ServerNewest'
  BY <1>34, PendingStep, ServerNewestKept DEF SessionPollError
<1>35. ASSUME NEW s \in Sessions, SessionTimer(s) PROVE ServerNewest'
  BY <1>35, PendingStep, ServerNewestKept DEF SessionTimer
<1>36. ASSUME NEW s \in Sessions, SessionPollSocket(s) PROVE ServerNewest'
  BY <1>36, PendingStep, ServerNewestKept DEF SessionPollSocket
<1>37. ASSUME UNCHANGED vars PROVE ServerNewest'
  BY <1>37, PendingStep, ServerNewestKept DEF vars
<1> QED
  BY <1>1, <1>2, <1>3, <1>4, <1>5, <1>6, <1>7, <1>8, <1>9, <1>10, <1>11, <1>12, <1>13,
     <1>14, <1>15, <1>16, <1>17, <1>18, <1>19, <1>20, <1>21, <1>22, <1>23, <1>24, <1>25,
     <1>26, <1>27, <1>28, <1>29, <1>30, <1>31, <1>32, <1>33, <1>34, <1>35, <1>36, <1>37
     DEF Next, MainEnds, ServerNext, ServerRuns, SessionNext, SessionRuns

-----------------------------------------------------------------------------
(* What the sessions will have, when no message reaches them.              *)
LEMMA SessionsNewestKept ==
  ASSUME SessionsNewest, srv'.sessions \subseteq srv.sessions, srv'.cfg = srv.cfg,
         Untold \subseteq Untold',
         \A t \in srv'.sessions :
           /\ sess'[t].cfg = sess[t].cfg
           /\ sessQ'[t].closed \/ (sessQ'[t].items = sessQ[t].items /\ sessQ'[t].closed = sessQ[t].closed)
           /\ t \in missed => t \in missed'
  PROVE  SessionsNewest'
BY DEF SessionsNewest

(* The server's configuration is on its way to the sessions. *)
LEMMA SessionsNewestStep ==
  Base /\ Control /\ ListIsComplete /\ Forwarding /\ SessionsNewest /\ [Next]_vars => SessionsNewest'
<1> SUFFICES ASSUME Base, Control, ListIsComplete, Forwarding, SessionsNewest
             PROVE  [Next]_vars => SessionsNewest'
  OBVIOUS
<1>0. /\ srv \in SrvType /\ sess \in [Sessions -> SessType] /\ srv.sessions \subseteq Sessions
      /\ \A s \in Sessions : sessQ[s] \in SyncQueueType(SessionMsg)
      /\ sessQ \in [Sessions -> SyncQueueType(SessionMsg)] /\ TheServer \notin Sessions
  BY ServerMoves, ServerAssumption DEF Base, ServerAssumption
<1>1. ASSUME Start PROVE SessionsNewest'
  <2>1. srv.pc # "forward" /\ srv'.pc # "forward"
    BY <1>1, <1>0 DEF Start, Control, Threads, SrvType
  <2>2. Untold' = {} /\ Untold = {}
    BY <2>1 DEF Untold
  <2>3. srv'.sessions = srv.sessions /\ srv'.cfg = srv.cfg
    BY <1>1, <1>0 DEF Start, SrvType
  <2> QED
    BY <1>1, <1>0, <2>2, <2>3, SessionsNewestKept DEF Start
<1>2. ASSUME Reload PROVE SessionsNewest'
  <2>1. ReloadMsg(globalCfg + 1) \in ServerMsg
    <3>1. globalCfg + 1 \in Cfg
      BY <1>2, ServerAssumption DEF Reload, Cfg, ServerAssumption, Base
    <3> QED
      BY <3>1, NewMsgs
  <2>2. server_queue_msg(ReloadMsg(globalCfg + 1), MainFaults, AddRef(DropRef(refs, globalCfg), globalCfg + 1))
    BY <1>2 DEF Reload
  <2>3. \A t \in Sessions : t \in missed => t \in missed'
    <3>1. missed' \in {missed, missed \ {TheServer}, missed \cup {TheServer}}
      BY <2>1, <2>2, ServerPut
    <3> QED
      BY <1>0, <3>1
  <2> QED
    BY <1>2, <1>0, <2>3, SessionsNewestKept DEF Reload, Untold
<1>3. ASSUME ReloadDebug PROVE SessionsNewest'
  <2>1. DebugMsg \in ServerMsg
    BY NewMsgs
  <2>2. server_queue_msg(DebugMsg, MainFaults, refs)
    BY <1>3 DEF ReloadDebug
  <2>3. \A t \in Sessions : t \in missed => t \in missed'
    <3>1. missed' \in {missed, missed \ {TheServer}, missed \cup {TheServer}}
      BY <2>1, <2>2, ServerPut
    <3> QED
      BY <1>0, <3>1
  <2> QED
    BY <1>3, <1>0, <2>3, SessionsNewestKept DEF ReloadDebug, Untold
<1>4. ASSUME Destroy PROVE SessionsNewest'
  <2>1. StopMsg \in ServerMsg
    BY NewMsgs
  <2>2. server_queue_msg(StopMsg, StopFaults, refs)
    BY <1>4 DEF Destroy
  <2>3. \A t \in Sessions : t \in missed => t \in missed'
    <3>1. missed' \in {missed, missed \ {TheServer}, missed \cup {TheServer}}
      BY <2>1, <2>2, ServerPut
    <3> QED
      BY <1>0, <3>1
  <2> QED
    BY <1>4, <1>0, <2>3, SessionsNewestKept DEF Destroy, Untold
<1>5. ASSUME JoinServer PROVE SessionsNewest'
  BY <1>5, <1>0, SessionsNewestKept DEF JoinServer, SrvType, Untold
<1>6. ASSUME StopSessionsEnd PROVE SessionsNewest'
  BY <1>6, <1>0, SessionsNewestKept DEF StopSessionsEnd, SrvType, Untold
<1>7. ASSUME JoinSessionsEnd PROVE SessionsNewest'
  BY <1>7, <1>0, SessionsNewestKept DEF JoinSessionsEnd, SrvType, Untold
<1>8. ASSUME Release PROVE SessionsNewest'
  BY <1>8, <1>0, SessionsNewestKept DEF Release, SrvType, Untold
<1>9. ASSUME NEW s \in Sessions, SetStop(s) PROVE SessionsNewest'
  <2>1. \A t \in Sessions : sess'[t].cfg = sess[t].cfg
    BY <1>9, <1>0 DEF SetStop, SessType
  <2>2. srv'.sessions = srv.sessions /\ srv'.cfg = srv.cfg
    BY <1>9, <1>0 DEF SetStop, SrvType
  <2>3. Untold' = {} /\ Untold = {}
    BY <1>9, <1>0 DEF SetStop, Control, Threads, SrvType, Untold
  <2> QED
    BY <1>9, <1>0, <2>1, <2>2, <2>3, SessionsNewestKept DEF SetStop
<1>10. ASSUME NEW s \in Sessions, WakeSession(s) PROVE SessionsNewest'
  <2>1. NoopMsg \in SessionMsg /\ ~IsReload(NoopMsg)
    BY NewMsgs
  <2>2. session_queue_msg(s, NoopMsg, MainFaults)
    BY <1>10 DEF WakeSession
  <2>3. /\ sessQ'[s].items \in {Append(sessQ[s].items, NoopMsg), sessQ[s].items}
        /\ sessQ'[s].closed = sessQ[s].closed /\ missed' = missed
        /\ \A t \in Sessions \ {s} : sessQ'[t] = sessQ[t]
    BY <2>1, <2>2, SessionPut
  <2>4. \A c : Latest(c, sessQ'[s].items) = Latest(c, sessQ[s].items)
    <3>1. sessQ[s].items \in Seq(SessionMsg)
      BY <1>0, QueueFacts
    <3>2. \A c : Latest(c, Append(sessQ[s].items, NoopMsg)) = Latest(c, sessQ[s].items)
      BY <2>1, <3>1, LatestAppend
    <3> QED
      BY <2>3, <3>2
  <2>5. /\ srv'.sessions = srv.sessions /\ srv'.cfg = srv.cfg /\ sess' = sess
        /\ Untold' = {} /\ Untold = {}
    BY <1>10, <1>0 DEF WakeSession, Control, Threads, SrvType, Untold
  <2> QED
    BY <1>0, <2>3, <2>4, <2>5 DEF SessionsNewest
<1>11. ASSUME NEW s \in Sessions, JoinSession(s) PROVE SessionsNewest'
  <2>1. DestroySession(s) /\ srv.pc \in {"batch", "ended"} /\ missed' = missed
    BY <1>11 DEF JoinSession, Control, Threads
  <2>2. /\ srv'.sessions = srv.sessions \ {s} /\ srv'.cfg = srv.cfg /\ srv'.pc = srv.pc
        /\ \A t \in Sessions \ {s} : sess'[t] = sess[t] /\ sessQ'[t] = sessQ[t]
    BY <2>1, DestroyFacts
  <2>3. Untold' = {} /\ Untold = {}
    BY <2>1, <2>2 DEF Untold
  <2> QED
    BY <1>0, <2>1, <2>2, <2>3, SessionsNewestKept
<1>12. ASSUME Listen PROVE SessionsNewest'
  BY <1>12, <1>0, SessionsNewestKept DEF Listen, ServerGoes, SrvType, Untold
<1>13. ASSUME ServerPollQueue PROVE SessionsNewest'
  <2>1. /\ srv'.sessions = srv.sessions /\ srv'.cfg = srv.cfg
        /\ srv.pc # "forward" /\ srv'.pc # "forward"
    BY <1>13, ServerMoves DEF ServerPollQueue
  <2>2. Untold' = {} /\ Untold = {}
    BY <2>1 DEF Untold
  <2> QED
    BY <1>13, <1>0, <2>1, <2>2, SessionsNewestKept DEF ServerPollQueue
<1>14. ASSUME ServerReloadConfig PROVE SessionsNewest'
  <2>1. Untold' = srv'.sessions
    BY <1>14, <1>0 DEF ServerReloadConfig, NextMsg, IsReload, SrvType, Untold
  <2> QED
    BY <2>1 DEF SessionsNewest
<1>15. ASSUME ServerReloadDebug PROVE SessionsNewest'
  <2>1. Untold' = {} /\ Untold = {}
    BY <1>15, <1>0 DEF ServerReloadDebug, NextMsg, IsReload, SrvType, Untold
  <2>2. srv'.sessions = srv.sessions /\ srv'.cfg = srv.cfg
    BY <1>15, <1>0 DEF ServerReloadDebug, SrvType
  <2> QED
    BY <1>15, <1>0, <2>1, <2>2, SessionsNewestKept DEF ServerReloadDebug
<1>16. ASSUME ForwardEnd PROVE SessionsNewest'
  <2>1. srv'.sessions = srv.sessions /\ srv'.cfg = srv.cfg /\ srv'.pc = "batch"
    BY <1>16, ServerMoves DEF ForwardEnd
  <2>2. Untold' = {} /\ Untold = {}
    BY <1>16, <2>1 DEF ForwardEnd, Untold
  <2> QED
    BY <1>16, <1>0, <2>1, <2>2, SessionsNewestKept DEF ForwardEnd
<1>17. ASSUME ServerSessionEnd PROVE SessionsNewest'
  <2>0. Head(srvBatch) \in ServerMsg
    BY <1>17, PendingFacts DEF ServerSessionEnd, NextMsg
  <2>4. PICK s \in Sessions : s = Head(srvBatch).session
    BY <1>17, <2>0, ServerMsgFacts DEF ServerSessionEnd, NextMsg
  <2>1. DestroySession(s) /\ srv.pc \in {"batch", "ended"} /\ missed' = missed
    BY <1>17, <2>4 DEF ServerSessionEnd, NextMsg
  <2>2. /\ srv'.sessions = srv.sessions \ {s} /\ srv'.cfg = srv.cfg /\ srv'.pc = srv.pc
        /\ \A t \in Sessions \ {s} : sess'[t] = sess[t] /\ sessQ'[t] = sessQ[t]
    BY <2>1, DestroyFacts
  <2>3. Untold' = {} /\ Untold = {}
    BY <2>1, <2>2 DEF Untold
  <2> QED
    BY <1>0, <2>1, <2>2, <2>3, SessionsNewestKept
<1>18. ASSUME ServerStop PROVE SessionsNewest'
  <2>1. /\ srv'.sessions = srv.sessions /\ srv'.cfg = srv.cfg
        /\ srv'.pc = "batch" /\ srv.pc = "batch"
    BY <1>18, <1>0 DEF ServerStop, NextMsg, SrvType
  <2>2. Untold' = {} /\ Untold = {}
    BY <2>1 DEF Untold
  <2> QED
    BY <1>18, <1>0, <2>1, <2>2, SessionsNewestKept DEF ServerStop
<1>19. ASSUME ServerBatchEnd PROVE SessionsNewest'
  <2>1. /\ srv'.sessions = srv.sessions /\ srv'.cfg = srv.cfg
        /\ srv.pc # "forward" /\ srv'.pc # "forward"
    BY <1>19, ServerMoves DEF ServerBatchEnd
  <2>2. Untold' = {} /\ Untold = {}
    BY <2>1 DEF Untold
  <2> QED
    BY <1>19, <1>0, <2>1, <2>2, SessionsNewestKept DEF ServerBatchEnd
<1>20. ASSUME AcceptDropped PROVE SessionsNewest'
  <2>1. /\ srv'.sessions = srv.sessions /\ srv'.cfg = srv.cfg
        /\ srv.pc # "forward" /\ srv'.pc # "forward"
    BY <1>20, ServerMoves DEF AcceptDropped
  <2>2. Untold' = {} /\ Untold = {}
    BY <2>1 DEF Untold
  <2> QED
    BY <1>20, <1>0, <2>1, <2>2, SessionsNewestKept DEF AcceptDropped
<1>21. ASSUME AcceptFailed PROVE SessionsNewest'
  BY <1>21, <1>0, SessionsNewestKept DEF AcceptFailed, SrvType, Untold
<1>22. ASSUME ServerClose PROVE SessionsNewest'
  <2>1. /\ srv'.sessions = srv.sessions /\ srv'.cfg = srv.cfg
        /\ srv.pc # "forward" /\ srv'.pc # "forward"
    BY <1>22, ServerMoves DEF ServerClose
  <2>2. Untold' = {} /\ Untold = {}
    BY <2>1 DEF Untold
  <2> QED
    BY <1>22, <1>0, <2>1, <2>2, SessionsNewestKept DEF ServerClose
<1>23. ASSUME ServerEmpty PROVE SessionsNewest'
  <2>1. /\ srv'.sessions = srv.sessions /\ srv'.cfg = srv.cfg
        /\ srv.pc # "forward" /\ srv'.pc # "forward"
    BY <1>23, ServerMoves DEF ServerEmpty
  <2>2. Untold' = {} /\ Untold = {}
    BY <2>1 DEF Untold
  <2> QED
    BY <1>23, <1>0, <2>1, <2>2, SessionsNewestKept DEF ServerEmpty
<1>24. ASSUME NEW s \in Sessions, Forward(s) PROVE SessionsNewest'
  <2> DEFINE m == Head(srvBatch)
             q == sessQ[s].items
  <2>1. m \in SessionMsg /\ (IsReload(m) => m.cfg = srv.cfg)
    <3>1. srvBatch # << >> /\ Head(srvBatch).id \in {"RELOAD_CONFIG", "RELOAD_DEBUG"}
      BY <1>24 DEF Forward, Control, Threads
    <3>2. Head(srvBatch) \in ServerMsg
      BY <3>1, PendingFacts
    <3>3. IsReload(m) => m.cfg = srv.cfg
      BY <1>24 DEF Forward, Forwarding
    <3> QED
      BY <3>1, <3>2, <3>3, ServerMsgFacts
  <2>2. session_queue_msg(s, m, ServerFaults) /\ sess' = sess
    BY <1>24 DEF Forward
  <2>3. /\ srv'.sessions = srv.sessions /\ srv'.cfg = srv.cfg /\ srv'.pc = "forward"
        /\ srv'.todo = srv.todo \ {s} /\ srv.pc = "forward" /\ srvBatch' = srvBatch
    BY <1>24, <1>0 DEF Forward, SrvType
  <2>4. Untold' = Untold \ {s} /\ (~IsReload(m) => Untold = {})
    BY <2>3 DEF Untold
  <2>5. q \in Seq(SessionMsg)
    BY <1>0, QueueFacts
  <2> HIDE DEF m, q
  <2>6. \A c : Latest(c, Append(q, m)) = IF IsReload(m) THEN m.cfg ELSE Latest(c, q)
    BY <2>1, <2>5, LatestAppend
  <2>7. /\ sessQ'[s].closed = sessQ[s].closed
        /\ \A t \in Sessions \ {s} : sessQ'[t] = sessQ[t]
        /\ missed' \in {missed, missed \ {s}, missed \cup {s}}
        /\ \/ sessQ'[s].items = Append(q, m)
           \/ sessQ'[s].items = q /\ (IsReload(m) => s \in missed')
           \/ sessQ[s].closed
        /\ ~IsReload(m) => missed' = missed
    <3>1. /\ sessQ'[s].closed = sessQ[s].closed
          /\ \A t \in Sessions \ {s} : sessQ'[t] = sessQ[t]
          /\ \/ /\ ~sessQ[s].closed /\ sessQ'[s].items = Append(q, m)
                /\ missed' = IF IsReload(m) THEN missed \ {s} ELSE missed
             \/ /\ sessQ'[s].items = q
                /\ missed' = IF IsReload(m) THEN missed \cup {s} ELSE missed
             \/ /\ sessQ[s].closed /\ sessQ'[s].items = q
                /\ missed' = IF IsReload(m) THEN missed \ {s} ELSE missed
      BY <2>1, <2>2, SessionPut DEF q
    <3> QED
      BY <3>1
  <2>8. ASSUME NEW t \in srv.sessions \ Untold', ~sessQ'[t].closed, t \notin missed', t # s
        PROVE  Latest(sess[t].cfg, sessQ'[t].items) = srv.cfg
    <3>1. t \in srv.sessions \ Untold /\ sessQ'[t] = sessQ[t] /\ t \notin missed
      BY <1>0, <2>4, <2>7, <2>8
    <3> QED
      BY <2>8, <3>1 DEF SessionsNewest
  <2>9. ASSUME s \in srv.sessions \ Untold', ~sessQ'[s].closed, s \notin missed'
        PROVE  Latest(sess[s].cfg, sessQ'[s].items) = srv.cfg
    <3>1. CASE IsReload(m)
      BY <2>1, <2>6, <2>7, <2>9, <3>1
    <3>2. CASE ~IsReload(m)
      <4>1. s \in srv.sessions \ Untold /\ ~sessQ[s].closed /\ s \notin missed
        BY <2>4, <2>7, <2>9, <3>2
      <4>2. Latest(sess[s].cfg, q) = srv.cfg
        BY <4>1 DEF SessionsNewest, q
      <4> QED
        BY <2>6, <2>7, <2>9, <3>2, <4>2
    <3> QED
      BY <3>1, <3>2
  <2> QED
    BY <2>2, <2>3, <2>8, <2>9 DEF SessionsNewest
<1>25. ASSUME NEW s \in Sessions, Accept(s) PROVE SessionsNewest'
  <2>1. sess'[s].cfg = srv.cfg /\ \A t \in Sessions \ {s} : sess'[t] = sess[t]
    BY <1>25, <1>0 DEF Accept, NoSession, SessType
  <2>2. /\ srv'.sessions = srv.sessions \cup {s} /\ srv'.cfg = srv.cfg /\ sessQ' = sessQ
        /\ missed' = missed /\ srv.pc = "sock" /\ srv'.pc = "poll"
    BY <1>25, <1>0 DEF Accept, SrvType
  <2>3. Latest(srv.cfg, sessQ[s].items) = srv.cfg
    <3>1. sessQ[s].items = << >>
      BY <1>25 DEF Accept, Control, SessionQueues, CreateQueue
    <3> QED
      BY <3>1 DEF Latest, Reloads
  <2>4. Untold' = {} /\ Untold = {}
    BY <2>2 DEF Untold
  <2>5. s \notin srv.sessions
    BY <1>25 DEF Accept, ListIsComplete, Alive
  <2>6. \A t \in srv.sessions : sess'[t] = sess[t]
    BY <1>0, <2>1, <2>5
  <2> QED
    BY <2>1, <2>2, <2>3, <2>4, <2>6 DEF SessionsNewest
<1>26. ASSUME ServerPollError PROVE SessionsNewest'
  <2>1. /\ srv'.sessions = srv.sessions /\ srv'.cfg = srv.cfg
        /\ srv.pc # "forward" /\ srv'.pc # "forward"
    BY <1>26, ServerMoves DEF ServerPollError
  <2>2. Untold' = {} /\ Untold = {}
    BY <2>1 DEF Untold
  <2> QED
    BY <1>26, <1>0, <2>1, <2>2, SessionsNewestKept DEF ServerPollError
<1>27. ASSUME ServerPollSocket PROVE SessionsNewest'
  <2>1. /\ srv'.sessions = srv.sessions /\ srv'.cfg = srv.cfg
        /\ srv.pc # "forward" /\ srv'.pc # "forward"
    BY <1>27, ServerMoves DEF ServerPollSocket
  <2>2. Untold' = {} /\ Untold = {}
    BY <2>1 DEF Untold
  <2> QED
    BY <1>27, <1>0, <2>1, <2>2, SessionsNewestKept DEF ServerPollSocket
<1>28. ASSUME NEW s \in Sessions, SessionPollQueue(s) PROVE SessionsNewest'
  <2>1. \A t \in Sessions : sess'[t].cfg = sess[t].cfg
    BY <1>28, SessionMoves DEF SessionPollQueue
  <2> QED
    BY <1>28, <1>0, <2>1, SessionsNewestKept DEF SessionPollQueue, Untold
<1>29. ASSUME NEW s \in Sessions, SessionQueueEvents(s) PROVE SessionsNewest'
  <2> DEFINE q == sessQ[s].items
  <2>1. /\ sess'[s].cfg = Latest(sess[s].cfg, q)
        /\ \A t \in Sessions \ {s} : sess'[t] = sess[t] /\ sessQ'[t] = sessQ[t]
    <3>1. PICK stop \in {sess[s].stop, sess[s].stop \/ Reloads(q) # {}},
               next \in {"sock", "poll"} :
                 sess' = [sess EXCEPT ![s] = [pc   |-> IF stop THEN "end" ELSE next,
                                              stop |-> stop,
                                              cfg  |-> Latest(sess[s].cfg, q)]]
      BY <1>29 DEF SessionQueueEvents
    <3>2. sessQ' = [sessQ EXCEPT ![s] = AfterGetAll(sessQ[s])]
      BY <1>29 DEF SessionQueueEvents
    <3> QED
      BY <1>0, <3>1, <3>2
  <2>2. \A c : Latest(c, sessQ'[s].items) = c
    <3>1. sessQ'[s].items = << >>
      BY <1>29, <1>0, QueueFacts DEF SessionQueueEvents
    <3> QED
      BY <3>1 DEF Latest, Reloads
  <2>3. sessQ'[s].closed = sessQ[s].closed
    BY <1>29, <1>0, QueueFacts DEF SessionQueueEvents
  <2>4. srv' = srv /\ missed' = missed /\ Untold' = Untold
    BY <1>29 DEF SessionQueueEvents, Untold
  <2> QED
    BY <1>0, <2>1, <2>2, <2>3, <2>4 DEF SessionsNewest
<1>30. ASSUME NEW s \in Sessions, SessionSockEvents(s) PROVE SessionsNewest'
  <2>1. \A t \in Sessions : sess'[t].cfg = sess[t].cfg
    BY <1>30, SessionMoves DEF SessionSockEvents
  <2> QED
    BY <1>30, <1>0, <2>1, SessionsNewestKept DEF SessionSockEvents, Untold
<1>31. ASSUME NEW s \in Sessions, SessionClose(s) PROVE SessionsNewest'
  <2>1. \A t \in Sessions : sess'[t].cfg = sess[t].cfg
    BY <1>31, SessionMoves DEF SessionClose
  <2>2. \A t \in Sessions : sessQ'[t].closed \/ sessQ'[t] = sessQ[t]
    BY <1>31, <1>0, QueueFacts DEF SessionClose
  <2> QED
    BY <1>31, <1>0, <2>1, <2>2, SessionsNewestKept DEF SessionClose, Untold
<1>32. ASSUME NEW s \in Sessions, SessionEmpty(s) PROVE SessionsNewest'
  <2>1. \A t \in Sessions : sess'[t].cfg = sess[t].cfg
    BY <1>32, SessionMoves DEF SessionEmpty
  <2>2. \A t \in Sessions : sessQ'[t].closed \/ sessQ'[t] = sessQ[t]
    BY <1>32, <1>0, QueueFacts DEF SessionEmpty, Control, SessionQueues
  <2> QED
    BY <1>32, <1>0, <2>1, <2>2, SessionsNewestKept DEF SessionEmpty, Untold
<1>33. ASSUME NEW s \in Sessions, SessionExit(s) PROVE SessionsNewest'
  <2>1. SessionEndMsg(s) \in ServerMsg
    BY NewMsgs
  <2>2. server_queue_msg(SessionEndMsg(s), SessionFaults, refs)
    BY <1>33 DEF SessionExit
  <2>3. \A t \in Sessions : t \in missed => t \in missed'
    <3>1. missed' \in {missed, missed \ {TheServer}, missed \cup {TheServer}}
      BY <2>1, <2>2, ServerPut
    <3> QED
      BY <1>0, <3>1
  <2>4. \A t \in Sessions : sess'[t].cfg = sess[t].cfg
    BY <1>33, SessionMoves DEF SessionExit
  <2> QED
    BY <1>33, <1>0, <2>3, <2>4, SessionsNewestKept DEF SessionExit, Untold
<1>34. ASSUME NEW s \in Sessions, SessionPollError(s) PROVE SessionsNewest'
  <2>1. \A t \in Sessions : sess'[t].cfg = sess[t].cfg
    BY <1>34, SessionMoves DEF SessionPollError
  <2> QED
    BY <1>34, <1>0, <2>1, SessionsNewestKept DEF SessionPollError, Untold
<1>35. ASSUME NEW s \in Sessions, SessionTimer(s) PROVE SessionsNewest'
  <2>1. \A t \in Sessions : sess'[t].cfg = sess[t].cfg
    BY <1>35, SessionMoves DEF SessionTimer
  <2> QED
    BY <1>35, <1>0, <2>1, SessionsNewestKept DEF SessionTimer, Untold
<1>36. ASSUME NEW s \in Sessions, SessionPollSocket(s) PROVE SessionsNewest'
  <2>1. \A t \in Sessions : sess'[t].cfg = sess[t].cfg
    BY <1>36, SessionMoves DEF SessionPollSocket
  <2> QED
    BY <1>36, <1>0, <2>1, SessionsNewestKept DEF SessionPollSocket, Untold
<1>37. ASSUME UNCHANGED vars PROVE SessionsNewest'
  BY <1>37, <1>0, SessionsNewestKept DEF vars, Untold
<1> QED
  BY <1>1, <1>2, <1>3, <1>4, <1>5, <1>6, <1>7, <1>8, <1>9, <1>10, <1>11, <1>12, <1>13,
     <1>14, <1>15, <1>16, <1>17, <1>18, <1>19, <1>20, <1>21, <1>22, <1>23, <1>24, <1>25,
     <1>26, <1>27, <1>28, <1>29, <1>30, <1>31, <1>32, <1>33, <1>34, <1>35, <1>36, <1>37
     DEF Next, MainEnds, ServerNext, ServerRuns, SessionNext, SessionRuns

-----------------------------------------------------------------------------
(* The holders of a configuration, one kind at a time.                     *)
InSessionQueues(c) == Cardinality(UNION {{s} \X Holding(sessQ[s].items, c) : s \in Sessions})
Uses(s, c) == IF Alive(s) /\ sess[s].cfg = c THEN 1 ELSE 0
Users(c) == {s \in Sessions : Alive(s) /\ sess[s].cfg = c}
ByModule(c) == (IF main # "unloaded" /\ globalCfg = c THEN 1 ELSE 0)
                 + (IF main # "unloaded" /\ srv.cfg = c THEN 1 ELSE 0)

(* What is added up is numbers.                                            *)
Numbers ==
  \A c \in Cfg :
    /\ HeldByMsgs(ServerPending, c) \in Nat /\ InSessionQueues(c) \in Nat
    /\ Cardinality(Users(c)) \in Nat /\ ByModule(c) \in Nat
    /\ \A s \in Sessions : HeldByMsgs(sessQ[s].items, c) \in Nat

(* A count is the sum of the holders of each kind.                         *)
Balanced ==
  \A c \in Cfg : refs[c] = HeldByMsgs(ServerPending, c) + InSessionQueues(c)
                             + Cardinality(Users(c)) + ByModule(c)

(* They are numbers. *)
LEMMA HolderTypes ==
  ASSUME Base, NEW c
  PROVE  /\ HeldByMsgs(ServerPending, c) \in Nat /\ InSessionQueues(c) \in Nat
         /\ IsFiniteSet(Users(c)) /\ Cardinality(Users(c)) \in Nat /\ ByModule(c) \in Nat
         /\ \A s \in Sessions : HeldByMsgs(sessQ[s].items, c) \in Nat
<1>1. HeldByMsgs(ServerPending, c) \in Nat
  <2>1. ServerPending \in Seq(ServerMsg)
    BY PendingFacts
  <2> QED
    BY <2>1, HoldingFinite
<1>2. \A s \in Sessions : /\ IsFiniteSet(Holding(sessQ[s].items, c))
                          /\ HeldByMsgs(sessQ[s].items, c) \in Nat
  <2> SUFFICES ASSUME NEW s \in Sessions
               PROVE  /\ IsFiniteSet(Holding(sessQ[s].items, c))
                      /\ HeldByMsgs(sessQ[s].items, c) \in Nat
    OBVIOUS
  <2>1. sessQ[s].items \in Seq(SessionMsg)
    BY QueueFacts DEF Base
  <2> QED
    BY <2>1, HoldingFinite
<1>3. InSessionQueues(c) \in Nat
  <2> DEFINE f == [s \in Sessions |-> Holding(sessQ[s].items, c)]
  <2>1. \A s \in Sessions : IsFiniteSet(f[s])
    BY <1>2
  <2>2. Family(f) = UNION {{s} \X Holding(sessQ[s].items, c) : s \in Sessions}
    BY DEF Family
  <2>3. Cardinality(Family(f)) \in Nat
    <3> HIDE DEF f
    <3> QED
      BY <2>1, FamilyFinite
  <2> QED
    BY <2>2, <2>3 DEF InSessionQueues
<1>4. IsFiniteSet(Users(c)) /\ Cardinality(Users(c)) \in Nat
  <2>1. IsFiniteSet(Sessions) /\ Users(c) \subseteq Sessions
    BY ServerAssumption DEF ServerAssumption, Users
  <2>2. IsFiniteSet(Users(c))
    BY <2>1, FS_Subset
  <2> QED
    BY <2>2, FS_CardinalityType
<1>5. ByModule(c) \in Nat
  BY DEF ByModule
<1> QED
  BY <1>1, <1>2, <1>3, <1>4, <1>5

(* RefsMatchHolders with these names. *)
LEMMA RefsEquation == Base => (RefsMatchHolders <=> Balanced) /\ Numbers
<1> SUFFICES ASSUME Base PROVE RefsMatchHolders <=> Balanced
  BY HolderTypes DEF Numbers
<1> SUFFICES ASSUME NEW c \in Cfg
             PROVE  HeldInQueues(c)
                      + Cardinality({s \in Sessions : Alive(s) /\ sess[s].cfg = c})
                      + (IF main # "unloaded" /\ globalCfg = c THEN 1 ELSE 0)
                      + (IF main # "unloaded" /\ srv.cfg = c THEN 1 ELSE 0)
                    = HeldByMsgs(ServerPending, c) + InSessionQueues(c)
                        + Cardinality(Users(c)) + ByModule(c)
  BY DEF RefsMatchHolders, Balanced
<1> DEFINE a == IF main # "unloaded" /\ globalCfg = c THEN 1 ELSE 0
           b == IF main # "unloaded" /\ srv.cfg = c THEN 1 ELSE 0
<1>1. HeldInQueues(c) = HeldByMsgs(ServerPending, c) + InSessionQueues(c)
  BY DEF HeldInQueues, InSessionQueues
<1>2. Users(c) = {s \in Sessions : Alive(s) /\ sess[s].cfg = c}
  BY DEF Users
<1>3. ByModule(c) = a + b
  BY DEF ByModule
<1>4. a \in Nat /\ b \in Nat
  OBVIOUS
<1> HIDE DEF a, b
<1>5. HeldInQueues(c) + Cardinality(Users(c)) + a + b
        = HeldByMsgs(ServerPending, c) + InSessionQueues(c) + Cardinality(Users(c)) + ByModule(c)
  BY <1>1, <1>3, <1>4, HolderTypes
<1> QED
  BY <1>2, <1>5 DEF a, b

(* The same after a step. *)
LEMMA RefsEquationNext == Base' => (RefsMatchHolders' <=> Balanced') /\ Numbers'
BY RefsEquation, PTL

(* A step that adds to a count what it adds to the holders. *)
LEMMA RefsBalance ==
  ASSUME Base, Base', RefsMatchHolders,
         \A c \in Cfg :
           refs'[c] + HeldByMsgs(ServerPending, c) + InSessionQueues(c)
                    + Cardinality(Users(c)) + ByModule(c)
             = refs[c] + HeldByMsgs(ServerPending', c) + InSessionQueues(c)'
                    + Cardinality(Users(c)') + ByModule(c)'
  PROVE  RefsMatchHolders'
<1>1. Balanced /\ Numbers /\ Numbers'
  BY RefsEquation, RefsEquationNext
<1>2. refs \in [Cfg -> Int] /\ refs' \in [Cfg -> Int]
  BY DEF Base
<1>3. ASSUME NEW c \in Cfg
      PROVE  refs'[c] = HeldByMsgs(ServerPending', c) + InSessionQueues(c)'
                          + Cardinality(Users(c)') + ByModule(c)'
  <2>1. /\ HeldByMsgs(ServerPending, c) \in Nat /\ InSessionQueues(c) \in Nat
        /\ Cardinality(Users(c)) \in Nat /\ ByModule(c) \in Nat
        /\ refs[c] = HeldByMsgs(ServerPending, c) + InSessionQueues(c)
                       + Cardinality(Users(c)) + ByModule(c)
    BY <1>1 DEF Numbers, Balanced
  <2>2. /\ HeldByMsgs(ServerPending', c) \in Nat /\ InSessionQueues(c)' \in Nat
        /\ Cardinality(Users(c)') \in Nat /\ ByModule(c)' \in Nat
    BY <1>1 DEF Numbers
  <2>3. refs'[c] \in Int
    BY <1>2
  <2> QED
    BY <2>1, <2>2, <2>3
<1>4. Balanced'
  BY <1>3 DEF Balanced
<1> QED
  BY <1>4, RefsEquationNext

(* The queue of one session changes. *)
LEMMA QueuesChange ==
  ASSUME Base, Base', NEW c, NEW s \in Sessions,
         \A t \in Sessions \ {s} : sessQ'[t].items = sessQ[t].items
  PROVE  InSessionQueues(c)' = InSessionQueues(c) + HeldByMsgs(sessQ'[s].items, c)
                                                  - HeldByMsgs(sessQ[s].items, c)
<1> DEFINE f == [t \in Sessions |-> Holding(sessQ[t].items, c)]
           g == [t \in Sessions |-> Holding(sessQ'[t].items, c)]
<1>1. \A t \in Sessions : IsFiniteSet(f[t]) /\ IsFiniteSet(g[t])
  <2> SUFFICES ASSUME NEW t \in Sessions PROVE IsFiniteSet(f[t]) /\ IsFiniteSet(g[t])
    OBVIOUS
  <2>1. sessQ[t].items \in Seq(SessionMsg) /\ sessQ'[t].items \in Seq(SessionMsg)
    BY QueueFacts DEF Base
  <2> QED
    BY <2>1, HoldingFinite
<1>2. \A t \in Sessions \ {s} : g[t] = f[t]
  OBVIOUS
<1>3. /\ Cardinality(Family(f)) = InSessionQueues(c)
      /\ Cardinality(Family(g)) = InSessionQueues(c)'
  BY DEF Family, InSessionQueues
<1>4. /\ Cardinality(f[s]) = HeldByMsgs(sessQ[s].items, c)
      /\ Cardinality(g[s]) = HeldByMsgs(sessQ'[s].items, c)
  BY DEF HeldByMsgs
<1> HIDE DEF f, g
<1>5. /\ Cardinality(f[s]) \in Nat /\ Cardinality(g[s]) \in Nat
      /\ Cardinality(Family(f)) \in Nat /\ Cardinality(Family(g)) \in Nat
      /\ Cardinality(Family(g)) - Cardinality(g[s]) = Cardinality(Family(f)) - Cardinality(f[s])
  BY <1>1, <1>2, FamilyChange
<1> QED
  BY <1>3, <1>4, <1>5

(* No queue changes. *)
LEMMA QueuesSame ==
  ASSUME NEW c, \A t \in Sessions : sessQ'[t].items = sessQ[t].items
  PROVE  InSessionQueues(c)' = InSessionQueues(c)
<1>1. {{s} \X Holding(sessQ[s].items, c) : s \in Sessions}' =
        {{s} \X Holding(sessQ[s].items, c) : s \in Sessions}
  OBVIOUS
<1> QED
  BY <1>1 DEF InSessionQueues

(* One session changes. *)
LEMMA UsersChange ==
  ASSUME Base, NEW c, NEW s \in Sessions, \A t \in Sessions \ {s} : sess'[t] = sess[t]
  PROVE  Cardinality(Users(c)') = Cardinality(Users(c)) + Uses(s, c)' - Uses(s, c)
<1> DEFINE R == Users(c) \ {s}
<1>1. IsFiniteSet(Users(c)) /\ Cardinality(Users(c)) \in Nat
  BY HolderTypes
<1>2. IsFiniteSet(R) /\ s \notin R /\ Cardinality(R) \in Nat
  BY <1>1, FS_Subset, FS_CardinalityType
<1>3. Users(c) = IF Alive(s) /\ sess[s].cfg = c THEN R \cup {s} ELSE R
  BY DEF Users
<1>4. Users(c)' = IF (Alive(s) /\ sess[s].cfg = c)' THEN R \cup {s} ELSE R
  BY DEF Users, Alive
<1>5. Cardinality(R \cup {s}) = Cardinality(R) + 1
  BY <1>2, FS_AddElement
<1> HIDE DEF R
<1>6. Cardinality(Users(c)) = Cardinality(R) + Uses(s, c)
  BY <1>2, <1>3, <1>5 DEF Uses
<1>7. Cardinality(Users(c)') = Cardinality(R) + Uses(s, c)'
  BY <1>2, <1>4, <1>5 DEF Uses
<1>8. Uses(s, c) \in Nat /\ Uses(s, c)' \in Nat
  BY DEF Uses
<1> QED
  BY <1>2, <1>6, <1>7, <1>8

(* No session is created, freed or changes its configuration. *)
LEMMA UsersSame ==
  ASSUME NEW c, \A t \in Sessions : Alive(t)' = Alive(t) /\ sess'[t].cfg = sess[t].cfg
  PROVE  Users(c)' = Users(c)
BY DEF Users

-----------------------------------------------------------------------------
(* A step that touches no reference. *)
LEMMA RefsKept ==
  ASSUME Base, Base', RefsMatchHolders, refs' = refs, globalCfg' = globalCfg,
         \A c : HeldByMsgs(ServerPending', c) = HeldByMsgs(ServerPending, c),
         \A t \in Sessions : sessQ'[t].items = sessQ[t].items,
         \A t \in Sessions : Alive(t)' = Alive(t) /\ sess'[t].cfg = sess[t].cfg,
         srv'.cfg = srv.cfg, main' = "unloaded" <=> main = "unloaded"
  PROVE  RefsMatchHolders'
<1>1. \A c \in Cfg : /\ InSessionQueues(c)' = InSessionQueues(c) /\ Users(c)' = Users(c)
                     /\ HeldByMsgs(ServerPending', c) = HeldByMsgs(ServerPending, c)
  BY QueuesSame, UsersSame
<1>2. \A c \in Cfg : ByModule(c)' = ByModule(c)
  BY DEF ByModule
<1>3. \A c \in Cfg : Cardinality(Users(c)') = Cardinality(Users(c))
  BY <1>1
<1>4. \A c \in Cfg :
        refs'[c] + HeldByMsgs(ServerPending, c) + InSessionQueues(c)
                 + Cardinality(Users(c)) + ByModule(c)
          = refs[c] + HeldByMsgs(ServerPending', c) + InSessionQueues(c)'
                 + Cardinality(Users(c)') + ByModule(c)'
  BY <1>1, <1>2, <1>3
<1> QED
  BY <1>4, RefsBalance

(* A message that carries no configuration is put to the server's queue.   *)
LEMMA HeldKeptByPut ==
  ASSUME Base, NEW m \in ServerMsg, ~IsReload(m),
         ServerPending' \in {Append(ServerPending, m), ServerPending}
  PROVE  \A c : HeldByMsgs(ServerPending', c) = HeldByMsgs(ServerPending, c)
<1> SUFFICES ASSUME NEW c PROVE HeldByMsgs(ServerPending', c) = HeldByMsgs(ServerPending, c)
  OBVIOUS
<1>1. ServerPending \in Seq(ServerMsg) /\ HeldByMsgs(ServerPending, c) \in Nat
  BY PendingFacts, HolderTypes
<1>2. HeldByMsgs(Append(ServerPending, m), c) = HeldByMsgs(ServerPending, c) + Carries(m, c)
  BY <1>1, HeldAppend
<1>3. Carries(m, c) = 0
  BY DEF Carries
<1>4. HeldByMsgs(Append(ServerPending, m), c) = HeldByMsgs(ServerPending, c)
  BY <1>1, <1>2, <1>3
<1> QED
  BY <1>4

(* The first of the pending messages is handled.                           *)
LEMMA HeldByTail ==
  ASSUME Base, ServerPending # << >>, ServerPending' = Tail(ServerPending), NEW c
  PROVE  /\ HeldByMsgs(ServerPending, c)
              = HeldByMsgs(ServerPending', c) + Carries(Head(ServerPending), c)
         /\ HeldByMsgs(ServerPending', c) \in Nat
<1>1. ServerPending \in Seq(ServerMsg) /\ Tail(ServerPending) \in Seq(ServerMsg)
  BY PendingFacts
<1> QED
  BY <1>1, HeldTail, HoldingFinite

(* What is left of a count when messages are destroyed.                    *)
LEMMA DropFacts ==
  ASSUME NEW r \in [Cfg -> Int], NEW M, NEW q \in Seq(M), NEW c \in Cfg
  PROVE  /\ DropMsgs(r, q) \in [Cfg -> Int] /\ DropMsgs(r, q)[c] = r[c] - HeldByMsgs(q, c)
         /\ HeldByMsgs(q, c) \in Nat
BY RefFacts, HoldingFinite

(* Reference counts count the holders. *)
LEMMA RefsStep ==
  Base /\ Base' /\ Control /\ ListIsComplete /\ Forwarding /\ RefsMatchHolders /\ [Next]_vars
    => RefsMatchHolders'
<1> SUFFICES ASSUME Base, Base', Control, ListIsComplete, Forwarding, RefsMatchHolders
             PROVE  [Next]_vars => RefsMatchHolders'
  OBVIOUS
<1>0. /\ srv \in SrvType /\ sess \in [Sessions -> SessType] /\ srv.cfg \in Cfg /\ globalCfg \in Cfg
      /\ \A s \in Sessions : sessQ[s] \in SyncQueueType(SessionMsg)
      /\ sessQ \in [Sessions -> SyncQueueType(SessionMsg)] /\ refs \in [Cfg -> Int]
      /\ ServerPending \in Seq(ServerMsg) /\ srvQ \in SyncQueueType(ServerMsg)
  BY ServerMoves, PendingFacts DEF Base
<1>1. ASSUME Start PROVE RefsMatchHolders'
  BY <1>1, <1>0, PendingStep, RefsKept DEF Start, SrvType, Alive
<1>2. ASSUME Reload PROVE RefsMatchHolders'
  <2> DEFINE g == globalCfg + 1
             m == ReloadMsg(g)
             d == DropRef(refs, globalCfg)
             r == AddRef(d, g)
  <2>1. g \in Cfg /\ m \in ServerMsg /\ m.cfg = g /\ IsReload(m)
    <3>1. g \in Cfg
      BY <1>2, ServerAssumption DEF Reload, Cfg, ServerAssumption, Base
    <3> QED
      BY <3>1, NewMsgs
  <2>2. /\ server_queue_msg(m, MainFaults, r) /\ main = "loaded" /\ main' = main
        /\ srvBatch' = srvBatch /\ srv' = srv /\ globalCfg' = g /\ sess' = sess /\ sessQ' = sessQ
    BY <1>2 DEF Reload
  <2> SUFFICES ASSUME NEW c \in Cfg
      PROVE  refs'[c] + HeldByMsgs(ServerPending, c) + InSessionQueues(c)
               + Cardinality(Users(c)) + ByModule(c)
               = refs[c] + HeldByMsgs(ServerPending', c) + InSessionQueues(c)'
               + Cardinality(Users(c)') + ByModule(c)'
    BY RefsBalance
  <2>0. /\ HeldByMsgs(ServerPending, c) \in Nat /\ InSessionQueues(c) \in Nat
        /\ Cardinality(Users(c)) \in Nat /\ ByModule(c) \in Nat /\ refs[c] \in Int
        /\ \A s \in Sessions : HeldByMsgs(sessQ[s].items, c) \in Nat
    BY <1>0, RefsEquation DEF Numbers
  <2> HIDE DEF m, g
  <2>3. d \in [Cfg -> Int] /\ d[c] = refs[c] - (IF c = globalCfg THEN 1 ELSE 0)
    BY <1>0, RefFacts
  <2> HIDE DEF d
  <2>4. r \in [Cfg -> Int] /\ r[c] = d[c] + (IF c = g THEN 1 ELSE 0)
    BY <2>1, <2>3, RefFacts
  <2> HIDE DEF r
  <2>5. InSessionQueues(c)' = InSessionQueues(c) /\ Users(c)' = Users(c)
    BY <2>2, QueuesSame, UsersSame DEF Alive
  <2>6. ByModule(c)' = ByModule(c) + (IF c = g THEN 1 ELSE 0) - (IF c = globalCfg THEN 1 ELSE 0)
    BY <2>2 DEF ByModule
  <2>7. \/ ServerPending' = ServerPending /\ refs' = r
        \/ ServerPending' = Append(ServerPending, m) /\ refs' = AddRef(r, g)
    <3>1. srvBatch \o Append(srvQ.items, m) = Append(ServerPending, m)
      BY <2>1, PendingFacts
    <3>2. \/ srvQ'.items = Append(srvQ.items, m) /\ refs' = AddRef(r, g)
          \/ srvQ'.items = srvQ.items /\ refs' = r
      BY <2>1, <2>2, ServerPut
    <3> QED
      BY <2>2, <3>1, <3>2 DEF ServerPending
  <2>8. CASE ServerPending' = ServerPending /\ refs' = r
    BY <2>0, <2>3, <2>4, <2>5, <2>6, <2>8
  <2>9. CASE ServerPending' = Append(ServerPending, m) /\ refs' = AddRef(r, g)
    <3>1. HeldByMsgs(ServerPending', c) = HeldByMsgs(ServerPending, c) + (IF c = g THEN 1 ELSE 0)
      <4>1. HeldByMsgs(Append(ServerPending, m), c) = HeldByMsgs(ServerPending, c) + Carries(m, c)
        BY <1>0, <2>1, HeldAppend
      <4> QED
        BY <2>1, <2>9, <4>1 DEF Carries
    <3>2. refs'[c] = r[c] + (IF c = g THEN 1 ELSE 0)
      BY <2>1, <2>4, <2>9, RefFacts
    <3> QED
      BY <2>0, <2>3, <2>4, <2>5, <2>6, <3>1, <3>2
  <2> QED
    BY <2>7, <2>8, <2>9
<1>3. ASSUME ReloadDebug PROVE RefsMatchHolders'
  <2>1. DebugMsg \in ServerMsg /\ ~IsReload(DebugMsg)
    BY NewMsgs
  <2>2. server_queue_msg(DebugMsg, MainFaults, refs) /\ srvBatch' = srvBatch
    BY <1>3 DEF ReloadDebug
  <2>3. ServerPending' \in {Append(ServerPending, DebugMsg), ServerPending} /\ refs' = refs
    BY <2>1, <2>2, PendingStep, ServerPut
  <2>4. \A c : HeldByMsgs(ServerPending', c) = HeldByMsgs(ServerPending, c)
    BY <2>1, <2>3, HeldKeptByPut
  <2> QED
    BY <1>3, <2>3, <2>4, RefsKept DEF ReloadDebug, Alive
<1>4. ASSUME Destroy PROVE RefsMatchHolders'
  <2>1. StopMsg \in ServerMsg /\ ~IsReload(StopMsg)
    BY NewMsgs
  <2>2. server_queue_msg(StopMsg, StopFaults, refs) /\ srvBatch' = srvBatch
    BY <1>4 DEF Destroy
  <2>3. ServerPending' \in {Append(ServerPending, StopMsg), ServerPending} /\ refs' = refs
    BY <2>1, <2>2, PendingStep, ServerPut
  <2>4. \A c : HeldByMsgs(ServerPending', c) = HeldByMsgs(ServerPending, c)
    BY <2>1, <2>3, HeldKeptByPut
  <2> QED
    BY <1>4, <2>3, <2>4, RefsKept DEF Destroy, Alive
<1>5. ASSUME JoinServer PROVE RefsMatchHolders'
  BY <1>5, <1>0, PendingStep, RefsKept DEF JoinServer, SrvType, Alive
<1>6. ASSUME StopSessionsEnd PROVE RefsMatchHolders'
  BY <1>6, <1>0, PendingStep, RefsKept DEF StopSessionsEnd, SrvType, Alive
<1>7. ASSUME JoinSessionsEnd PROVE RefsMatchHolders'
  BY <1>7, <1>0, PendingStep, RefsKept DEF JoinSessionsEnd, SrvType, Alive
<1>8. ASSUME Release PROVE RefsMatchHolders'
  <2> SUFFICES ASSUME NEW c \in Cfg
      PROVE  refs'[c] + HeldByMsgs(ServerPending, c) + InSessionQueues(c)
               + Cardinality(Users(c)) + ByModule(c)
               = refs[c] + HeldByMsgs(ServerPending', c) + InSessionQueues(c)'
               + Cardinality(Users(c)') + ByModule(c)'
    BY RefsBalance
  <2>0. /\ HeldByMsgs(ServerPending, c) \in Nat /\ InSessionQueues(c) \in Nat
        /\ Cardinality(Users(c)) \in Nat /\ ByModule(c) \in Nat /\ refs[c] \in Int
        /\ \A s \in Sessions : HeldByMsgs(sessQ[s].items, c) \in Nat
    BY <1>0, RefsEquation DEF Numbers
  <2> DEFINE d == DropRef(refs, srv.cfg)
  <2>1. d \in [Cfg -> Int] /\ d[c] = refs[c] - (IF c = srv.cfg THEN 1 ELSE 0)
    BY <1>0, RefFacts
  <2>2. refs' = DropRef(d, globalCfg)
    BY <1>8 DEF Release
  <2> HIDE DEF d
  <2>3. refs'[c] = d[c] - (IF c = globalCfg THEN 1 ELSE 0)
    BY <1>0, <2>1, <2>2, RefFacts
  <2>4. /\ InSessionQueues(c)' = InSessionQueues(c) /\ Users(c)' = Users(c)
        /\ ServerPending' = ServerPending
    BY <1>8, QueuesSame, UsersSame, PendingStep DEF Release, Alive
  <2>5. ByModule(c) = (IF c = globalCfg THEN 1 ELSE 0) + (IF c = srv.cfg THEN 1 ELSE 0)
        /\ ByModule(c)' = 0
    BY <1>8 DEF Release, ByModule
  <2> QED
    BY <2>0, <2>1, <2>3, <2>4, <2>5
<1>9. ASSUME NEW s \in Sessions, SetStop(s) PROVE RefsMatchHolders'
  <2>1. \A t \in Sessions : Alive(t)' = Alive(t) /\ sess'[t].cfg = sess[t].cfg
    BY <1>9, <1>0 DEF SetStop, SessType, Alive
  <2>2. srv'.cfg = srv.cfg
    BY <1>9, <1>0 DEF SetStop, SrvType
  <2> QED
    BY <1>9, <2>1, <2>2, PendingStep, RefsKept DEF SetStop
<1>10. ASSUME NEW s \in Sessions, WakeSession(s) PROVE RefsMatchHolders'
  <2>1. NoopMsg \in SessionMsg /\ ~IsReload(NoopMsg)
    BY NewMsgs
  <2>2. session_queue_msg(s, NoopMsg, MainFaults)
    BY <1>10 DEF WakeSession
  <2>3. /\ sessQ'[s].items \in {Append(sessQ[s].items, NoopMsg), sessQ[s].items} /\ refs' = refs
        /\ \A t \in Sessions \ {s} : sessQ'[t] = sessQ[t]
    BY <2>1, <2>2, SessionPut
  <2> SUFFICES ASSUME NEW c \in Cfg
      PROVE  refs'[c] + HeldByMsgs(ServerPending, c) + InSessionQueues(c)
               + Cardinality(Users(c)) + ByModule(c)
               = refs[c] + HeldByMsgs(ServerPending', c) + InSessionQueues(c)'
               + Cardinality(Users(c)') + ByModule(c)'
    BY RefsBalance
  <2>0. /\ HeldByMsgs(ServerPending, c) \in Nat /\ InSessionQueues(c) \in Nat
        /\ Cardinality(Users(c)) \in Nat /\ ByModule(c) \in Nat /\ refs[c] \in Int
        /\ \A t \in Sessions : HeldByMsgs(sessQ[t].items, c) \in Nat
    BY <1>0, RefsEquation DEF Numbers
  <2>4. HeldByMsgs(sessQ'[s].items, c) = HeldByMsgs(sessQ[s].items, c)
    <3>1. sessQ[s].items \in Seq(SessionMsg)
      BY <1>0, QueueFacts
    <3>2. HeldByMsgs(Append(sessQ[s].items, NoopMsg), c)
            = HeldByMsgs(sessQ[s].items, c) + Carries(NoopMsg, c)
      BY <2>1, <3>1, HeldAppend
    <3>3. Carries(NoopMsg, c) = 0
      BY <2>1 DEF Carries
    <3>4. HeldByMsgs(Append(sessQ[s].items, NoopMsg), c) = HeldByMsgs(sessQ[s].items, c)
      BY <2>0, <3>2, <3>3
    <3> QED
      BY <2>3, <3>4
  <2>5. InSessionQueues(c)' = InSessionQueues(c)
    <3>1. InSessionQueues(c)' = InSessionQueues(c) + HeldByMsgs(sessQ'[s].items, c)
                                                   - HeldByMsgs(sessQ[s].items, c)
      BY <2>3, QueuesChange
    <3> QED
      BY <2>0, <2>4, <3>1
  <2>6. Users(c)' = Users(c) /\ ServerPending' = ServerPending
    BY <1>10, UsersSame, PendingStep DEF WakeSession, Alive
  <2>7. ByModule(c)' = ByModule(c)
    BY <1>10, <1>0 DEF WakeSession, ByModule, SrvType
  <2> QED
    BY <2>0, <2>3, <2>5, <2>6, <2>7
<1>11. ASSUME NEW s \in Sessions, JoinSession(s) PROVE RefsMatchHolders'
  <2>1. DestroySession(s) /\ sess[s].pc = "ended" /\ main' = main /\ globalCfg' = globalCfg
    BY <1>11 DEF JoinSession
  <2> SUFFICES ASSUME NEW c \in Cfg
      PROVE  refs'[c] + HeldByMsgs(ServerPending, c) + InSessionQueues(c)
               + Cardinality(Users(c)) + ByModule(c)
               = refs[c] + HeldByMsgs(ServerPending', c) + InSessionQueues(c)'
               + Cardinality(Users(c)') + ByModule(c)'
    BY RefsBalance
  <2>0. /\ HeldByMsgs(ServerPending, c) \in Nat /\ InSessionQueues(c) \in Nat
        /\ Cardinality(Users(c)) \in Nat /\ ByModule(c) \in Nat /\ refs[c] \in Int
        /\ \A t \in Sessions : HeldByMsgs(sessQ[t].items, c) \in Nat
    BY <1>0, RefsEquation DEF Numbers
  <2>2. /\ srv'.cfg = srv.cfg /\ sess'[s].pc = "freed" /\ sessQ'[s].items = << >>
        /\ \A t \in Sessions \ {s} : sess'[t] = sess[t] /\ sessQ'[t] = sessQ[t]
        /\ refs'[c] = refs[c] - HeldByMsgs(sessQ[s].items, c) - (IF c = sess[s].cfg THEN 1 ELSE 0)
    BY <2>1, DestroyFacts
  <2>9. HeldByMsgs(sessQ[s].items, c) \in Nat
    BY <2>0
  <2>3. InSessionQueues(c)' = InSessionQueues(c) - HeldByMsgs(sessQ[s].items, c)
    <3>1. InSessionQueues(c)' = InSessionQueues(c) + HeldByMsgs(sessQ'[s].items, c)
                                                   - HeldByMsgs(sessQ[s].items, c)
      BY <2>2, QueuesChange
    <3>2. HeldByMsgs(sessQ'[s].items, c) = 0
      BY <2>2, HeldEmpty
    <3> QED
      BY <2>0, <3>1, <3>2
  <2>4. Cardinality(Users(c)') = Cardinality(Users(c)) - (IF c = sess[s].cfg THEN 1 ELSE 0)
    <3>1. Cardinality(Users(c)') = Cardinality(Users(c)) + Uses(s, c)' - Uses(s, c)
      BY <2>2, UsersChange
    <3>2. Uses(s, c)' = 0 /\ Uses(s, c) = IF c = sess[s].cfg THEN 1 ELSE 0
      BY <2>1, <2>2 DEF Uses, Alive
    <3> QED
      BY <2>0, <3>1, <3>2
  <2>5. ByModule(c)' = ByModule(c)
    BY <2>1, <2>2 DEF ByModule
  <2>6. ServerPending' = ServerPending
    BY <1>11, PendingStep DEF JoinSession
  <2> DEFINE u == IF c = sess[s].cfg THEN 1 ELSE 0
             h == HeldByMsgs(sessQ[s].items, c)
  <2>10. /\ refs'[c] = refs[c] - h - u /\ u \in Nat /\ h \in Nat
         /\ Cardinality(Users(c)') = Cardinality(Users(c)) - u
         /\ InSessionQueues(c)' = InSessionQueues(c) - h
         /\ HeldByMsgs(ServerPending', c) = HeldByMsgs(ServerPending, c)
    BY <2>2, <2>3, <2>4, <2>6, <2>9
  <2> HIDE DEF u, h
  <2> QED
    BY <2>0, <2>5, <2>10
<1>12. ASSUME Listen PROVE RefsMatchHolders'
  BY <1>12, <1>0, PendingStep, RefsKept DEF Listen, ServerGoes, SrvType, Alive
<1>13. ASSUME ServerPollQueue PROVE RefsMatchHolders'
  <2>1. srv'.cfg = srv.cfg
    BY <1>13, ServerMoves DEF ServerPollQueue
  <2>2. ServerPending' = ServerPending
    BY <1>13, PendingStep
  <2> QED
    BY <1>13, <2>1, <2>2, RefsKept DEF ServerPollQueue, Alive
<1>14. ASSUME ServerReloadConfig PROVE RefsMatchHolders'
  <2> DEFINE k == Head(srvBatch).cfg
             d == DropRef(refs, srv.cfg)
  <2>1. k \in Cfg /\ main # "unloaded"
    <3>1. Head(srvBatch) \in ServerMsg
      BY <1>14, PendingFacts DEF ServerReloadConfig, NextMsg
    <3>2. k \in Cfg
      BY <1>14, <3>1, ServerMsgFacts DEF ServerReloadConfig, NextMsg
    <3>3. main # "unloaded"
      BY <1>14 DEF ServerReloadConfig, NextMsg, Control, Threads
    <3> QED
      BY <3>2, <3>3
  <2>2. refs' = AddRef(d, k) /\ srv'.cfg = k
    BY <1>14, <1>0 DEF ServerReloadConfig, SrvType
  <2> HIDE DEF k
  <2> SUFFICES ASSUME NEW c \in Cfg
      PROVE  refs'[c] + HeldByMsgs(ServerPending, c) + InSessionQueues(c)
               + Cardinality(Users(c)) + ByModule(c)
               = refs[c] + HeldByMsgs(ServerPending', c) + InSessionQueues(c)'
               + Cardinality(Users(c)') + ByModule(c)'
    BY RefsBalance
  <2>0. /\ HeldByMsgs(ServerPending, c) \in Nat /\ InSessionQueues(c) \in Nat
        /\ Cardinality(Users(c)) \in Nat /\ ByModule(c) \in Nat /\ refs[c] \in Int
        /\ \A s \in Sessions : HeldByMsgs(sessQ[s].items, c) \in Nat
    BY <1>0, RefsEquation DEF Numbers
  <2>3. d \in [Cfg -> Int] /\ d[c] = refs[c] - (IF c = srv.cfg THEN 1 ELSE 0)
    BY <1>0, RefFacts
  <2> HIDE DEF d
  <2>4. refs'[c] = d[c] + (IF c = k THEN 1 ELSE 0)
    BY <2>1, <2>2, <2>3, RefFacts
  <2>5. /\ InSessionQueues(c)' = InSessionQueues(c) /\ Users(c)' = Users(c)
        /\ ServerPending' = ServerPending
    BY <1>14, QueuesSame, UsersSame, PendingStep DEF ServerReloadConfig, Alive
  <2>6. ByModule(c)' = ByModule(c) + (IF c = k THEN 1 ELSE 0) - (IF c = srv.cfg THEN 1 ELSE 0)
    BY <1>14, <2>1, <2>2 DEF ServerReloadConfig, ByModule
  <2> QED
    BY <2>0, <2>3, <2>4, <2>5, <2>6
<1>15. ASSUME ServerReloadDebug PROVE RefsMatchHolders'
  BY <1>15, <1>0, PendingStep, RefsKept DEF ServerReloadDebug, NextMsg, SrvType, Alive
<1>16. ASSUME ForwardEnd PROVE RefsMatchHolders'
  <2>1. /\ ServerPending # << >> /\ ServerPending' = Tail(ServerPending)
        /\ Head(ServerPending) = Head(srvBatch) /\ Head(srvBatch) \in ServerMsg
    BY <1>16, PendingStep
  <2> SUFFICES ASSUME NEW c \in Cfg
      PROVE  refs'[c] + HeldByMsgs(ServerPending, c) + InSessionQueues(c)
               + Cardinality(Users(c)) + ByModule(c)
               = refs[c] + HeldByMsgs(ServerPending', c) + InSessionQueues(c)'
               + Cardinality(Users(c)') + ByModule(c)'
    BY RefsBalance
  <2>0. /\ HeldByMsgs(ServerPending, c) \in Nat /\ InSessionQueues(c) \in Nat
        /\ Cardinality(Users(c)) \in Nat /\ ByModule(c) \in Nat /\ refs[c] \in Int
        /\ \A s \in Sessions : HeldByMsgs(sessQ[s].items, c) \in Nat
    BY <1>0, RefsEquation DEF Numbers
  <2>2. /\ HeldByMsgs(ServerPending, c)
             = HeldByMsgs(ServerPending', c) + Carries(Head(ServerPending), c)
        /\ HeldByMsgs(ServerPending', c) \in Nat
    BY <2>1, HeldByTail
  <2>3. refs'[c] = refs[c] - Carries(Head(srvBatch), c)
    <3> DEFINE m == Head(srvBatch)
    <3>1. <<m>> \in Seq(ServerMsg)
      BY <2>1
    <3>2. refs' = DropMsgs(refs, <<m>>)
      BY <1>16 DEF ForwardEnd
    <3> HIDE DEF m
    <3>3. refs'[c] = refs[c] - HeldByMsgs(<<m>>, c)
      BY <1>0, <3>1, <3>2, DropFacts
    <3>4. HeldByMsgs(<<m>>, c) = Carries(m, c)
      BY <2>1, HeldSingle DEF m
    <3> QED
      BY <3>3, <3>4 DEF m
  <2>4. InSessionQueues(c)' = InSessionQueues(c) /\ Users(c)' = Users(c)
    BY <1>16, QueuesSame, UsersSame DEF ForwardEnd, Alive
  <2>5. ByModule(c)' = ByModule(c)
    <3>1. srv'.cfg = srv.cfg
      BY <1>16, ServerMoves DEF ForwardEnd
    <3> QED
      BY <1>16, <3>1 DEF ForwardEnd, ByModule
  <2>6. Carries(Head(srvBatch), c) \in Nat
    BY DEF Carries
  <2> QED
    BY <2>0, <2>1, <2>2, <2>3, <2>4, <2>5, <2>6
<1>17. ASSUME ServerSessionEnd PROVE RefsMatchHolders'
  <2>7. /\ ServerPending # << >> /\ ServerPending' = Tail(ServerPending)
        /\ Head(ServerPending) = Head(srvBatch) /\ Head(srvBatch) \in ServerMsg
    BY <1>17, PendingStep
  <2>8. PICK s \in Sessions : s = Head(srvBatch).session
    BY <1>17, <2>7, ServerMsgFacts DEF ServerSessionEnd, NextMsg
  <2>1. DestroySession(s) /\ sess[s].pc = "ended" /\ main' = main /\ globalCfg' = globalCfg
    BY <1>17, <2>8 DEF ServerSessionEnd
  <2> SUFFICES ASSUME NEW c \in Cfg
      PROVE  refs'[c] + HeldByMsgs(ServerPending, c) + InSessionQueues(c)
               + Cardinality(Users(c)) + ByModule(c)
               = refs[c] + HeldByMsgs(ServerPending', c) + InSessionQueues(c)'
               + Cardinality(Users(c)') + ByModule(c)'
    BY RefsBalance
  <2>0. /\ HeldByMsgs(ServerPending, c) \in Nat /\ InSessionQueues(c) \in Nat
        /\ Cardinality(Users(c)) \in Nat /\ ByModule(c) \in Nat /\ refs[c] \in Int
        /\ \A t \in Sessions : HeldByMsgs(sessQ[t].items, c) \in Nat
    BY <1>0, RefsEquation DEF Numbers
  <2>2. /\ srv'.cfg = srv.cfg /\ sess'[s].pc = "freed" /\ sessQ'[s].items = << >>
        /\ \A t \in Sessions \ {s} : sess'[t] = sess[t] /\ sessQ'[t] = sessQ[t]
        /\ refs'[c] = refs[c] - HeldByMsgs(sessQ[s].items, c) - (IF c = sess[s].cfg THEN 1 ELSE 0)
    BY <2>1, DestroyFacts
  <2>9. HeldByMsgs(sessQ[s].items, c) \in Nat
    BY <2>0
  <2>3. InSessionQueues(c)' = InSessionQueues(c) - HeldByMsgs(sessQ[s].items, c)
    <3>1. InSessionQueues(c)' = InSessionQueues(c) + HeldByMsgs(sessQ'[s].items, c)
                                                   - HeldByMsgs(sessQ[s].items, c)
      BY <2>2, QueuesChange
    <3>2. HeldByMsgs(sessQ'[s].items, c) = 0
      BY <2>2, HeldEmpty
    <3> QED
      BY <2>0, <3>1, <3>2
  <2>4. Cardinality(Users(c)') = Cardinality(Users(c)) - (IF c = sess[s].cfg THEN 1 ELSE 0)
    <3>1. Cardinality(Users(c)') = Cardinality(Users(c)) + Uses(s, c)' - Uses(s, c)
      BY <2>2, UsersChange
    <3>2. Uses(s, c)' = 0 /\ Uses(s, c) = IF c = sess[s].cfg THEN 1 ELSE 0
      BY <2>1, <2>2 DEF Uses, Alive
    <3> QED
      BY <2>0, <3>1, <3>2
  <2>5. ByModule(c)' = ByModule(c)
    BY <2>1, <2>2 DEF ByModule
  <2>6. HeldByMsgs(ServerPending', c) = HeldByMsgs(ServerPending, c)
    <3>1. Carries(Head(ServerPending), c) = 0
      BY <1>17, <2>7 DEF ServerSessionEnd, NextMsg, IsReload, Carries
    <3> QED
      BY <2>7, <3>1, HeldByTail
  <2> DEFINE u == IF c = sess[s].cfg THEN 1 ELSE 0
             h == HeldByMsgs(sessQ[s].items, c)
  <2>10. /\ refs'[c] = refs[c] - h - u /\ u \in Nat /\ h \in Nat
         /\ Cardinality(Users(c)') = Cardinality(Users(c)) - u
         /\ InSessionQueues(c)' = InSessionQueues(c) - h
         /\ HeldByMsgs(ServerPending', c) = HeldByMsgs(ServerPending, c)
    BY <2>2, <2>3, <2>4, <2>6, <2>9
  <2> HIDE DEF u, h
  <2> QED
    BY <2>0, <2>5, <2>10
<1>18. ASSUME ServerStop PROVE RefsMatchHolders'
  <2>1. /\ ServerPending # << >> /\ ServerPending' = Tail(ServerPending)
        /\ Head(ServerPending) = Head(srvBatch)
    BY <1>18, PendingStep
  <2>2. \A c : HeldByMsgs(ServerPending', c) = HeldByMsgs(ServerPending, c)
    <3> SUFFICES ASSUME NEW c PROVE HeldByMsgs(ServerPending', c) = HeldByMsgs(ServerPending, c)
      OBVIOUS
    <3>1. Carries(Head(ServerPending), c) = 0
      BY <1>18, <2>1 DEF ServerStop, NextMsg, IsReload, Carries
    <3> QED
      BY <2>1, <3>1, HeldByTail
  <2>3. srv'.cfg = srv.cfg
    BY <1>18, <1>0 DEF ServerStop, SrvType
  <2> QED
    BY <1>18, <2>2, <2>3, RefsKept DEF ServerStop, Alive
<1>19. ASSUME ServerBatchEnd PROVE RefsMatchHolders'
  <2>1. srv'.cfg = srv.cfg
    BY <1>19, ServerMoves DEF ServerBatchEnd
  <2> QED
    BY <1>19, <2>1, PendingStep, RefsKept DEF ServerBatchEnd, Alive
<1>20. ASSUME AcceptDropped PROVE RefsMatchHolders'
  <2>1. srv'.cfg = srv.cfg
    BY <1>20, ServerMoves DEF AcceptDropped
  <2> QED
    BY <1>20, <2>1, PendingStep, RefsKept DEF AcceptDropped, Alive
<1>21. ASSUME AcceptFailed PROVE RefsMatchHolders'
  BY <1>21, <1>0, PendingStep, RefsKept DEF AcceptFailed, SrvType, Alive
<1>22. ASSUME ServerClose PROVE RefsMatchHolders'
  <2>1. srv'.cfg = srv.cfg
    BY <1>22, ServerMoves DEF ServerClose
  <2>2. ServerPending' = ServerPending
    BY <1>22, PendingStep
  <2> QED
    BY <1>22, <2>1, <2>2, RefsKept DEF ServerClose, Alive
<1>23. ASSUME ServerEmpty PROVE RefsMatchHolders'
  <2> SUFFICES ASSUME NEW c \in Cfg
      PROVE  refs'[c] + HeldByMsgs(ServerPending, c) + InSessionQueues(c)
               + Cardinality(Users(c)) + ByModule(c)
               = refs[c] + HeldByMsgs(ServerPending', c) + InSessionQueues(c)'
               + Cardinality(Users(c)') + ByModule(c)'
    BY RefsBalance
  <2>0. /\ HeldByMsgs(ServerPending, c) \in Nat /\ InSessionQueues(c) \in Nat
        /\ Cardinality(Users(c)) \in Nat /\ ByModule(c) \in Nat /\ refs[c] \in Int
        /\ \A s \in Sessions : HeldByMsgs(sessQ[s].items, c) \in Nat
    BY <1>0, RefsEquation DEF Numbers
  <2>1. ServerPending = srvQ.items /\ ServerPending' = << >> /\ srvQ.items \in Seq(ServerMsg)
    BY <1>23, <1>0, PendingStep, QueueFacts
  <2>2. refs'[c] = refs[c] - HeldByMsgs(ServerPending, c)
    BY <1>23, <1>0, <2>1, DropFacts DEF ServerEmpty
  <2>3. HeldByMsgs(ServerPending', c) = 0
    BY <2>1, HeldEmpty
  <2>4. InSessionQueues(c)' = InSessionQueues(c) /\ Users(c)' = Users(c)
    BY <1>23, QueuesSame, UsersSame DEF ServerEmpty, Alive
  <2>5. ByModule(c)' = ByModule(c)
    <3>1. srv'.cfg = srv.cfg
      BY <1>23, ServerMoves DEF ServerEmpty
    <3> QED
      BY <1>23, <3>1 DEF ServerEmpty, ByModule
  <2> QED
    BY <2>0, <2>2, <2>3, <2>4, <2>5
<1>24. ASSUME NEW s \in Sessions, Forward(s) PROVE RefsMatchHolders'
  <2> DEFINE m == Head(srvBatch)
             q == sessQ[s].items
  <2>1. m \in SessionMsg /\ (IsReload(m) => m.cfg \in Cfg)
    <3>1. srvBatch # << >> /\ Head(srvBatch).id \in {"RELOAD_CONFIG", "RELOAD_DEBUG"}
      BY <1>24 DEF Forward, Control, Threads
    <3>2. Head(srvBatch) \in ServerMsg
      BY <3>1, PendingFacts
    <3> QED
      BY <3>1, <3>2, ServerMsgFacts
  <2>2. session_queue_msg(s, m, ServerFaults)
    BY <1>24 DEF Forward
  <2> HIDE DEF m
  <2> SUFFICES ASSUME NEW c \in Cfg
      PROVE  refs'[c] + HeldByMsgs(ServerPending, c) + InSessionQueues(c)
               + Cardinality(Users(c)) + ByModule(c)
               = refs[c] + HeldByMsgs(ServerPending', c) + InSessionQueues(c)'
               + Cardinality(Users(c)') + ByModule(c)'
    BY RefsBalance
  <2>0. /\ HeldByMsgs(ServerPending, c) \in Nat /\ InSessionQueues(c) \in Nat
        /\ Cardinality(Users(c)) \in Nat /\ ByModule(c) \in Nat /\ refs[c] \in Int
        /\ \A t \in Sessions : HeldByMsgs(sessQ[t].items, c) \in Nat
    BY <1>0, RefsEquation DEF Numbers
  <2>3. /\ InSessionQueues(c)' = InSessionQueues(c) + HeldByMsgs(sessQ'[s].items, c)
                                                   - HeldByMsgs(q, c)
        /\ q \in Seq(SessionMsg) /\ HeldByMsgs(q, c) \in Nat
    <3>1. \A t \in Sessions \ {s} : sessQ'[t] = sessQ[t]
      BY <2>1, <2>2, SessionPut
    <3>2. InSessionQueues(c)' = InSessionQueues(c) + HeldByMsgs(sessQ'[s].items, c)
                                                   - HeldByMsgs(sessQ[s].items, c)
      BY <1>0, <3>1, QueuesChange
    <3>3. sessQ[s] \in SyncQueueType(SessionMsg)
      BY <1>0 DEF Base
    <3>4. q \in Seq(SessionMsg)
      BY <3>3, QueueFacts
    <3> QED
      BY <2>0, <3>2, <3>4
  <2>4. /\ Users(c)' = Users(c) /\ ServerPending' = ServerPending
    BY <1>24, UsersSame, PendingStep DEF Forward, Alive
  <2>5. ByModule(c)' = ByModule(c)
    BY <1>24, <1>0 DEF Forward, ByModule, SrvType
  <2> HIDE DEF q
  <2>6. \/ /\ sessQ'[s].items = Append(q, m)
           /\ refs' = IF IsReload(m) THEN AddRef(refs, m.cfg) ELSE refs
        \/ sessQ'[s].items = q /\ refs' = refs
    BY <2>1, <2>2, SessionPut DEF q
  <2>7. CASE sessQ'[s].items = q /\ refs' = refs
    BY <2>0, <2>3, <2>4, <2>5, <2>7
  <2>8. CASE /\ sessQ'[s].items = Append(q, m)
             /\ refs' = IF IsReload(m) THEN AddRef(refs, m.cfg) ELSE refs
    <3>1. HeldByMsgs(sessQ'[s].items, c) = HeldByMsgs(q, c) + Carries(m, c)
      BY <2>1, <2>3, <2>8, HeldAppend
    <3>2. refs'[c] = refs[c] + Carries(m, c)
      <4>1. CASE IsReload(m)
        <5>1. refs'[c] = refs[c] + (IF c = m.cfg THEN 1 ELSE 0)
          BY <1>0, <2>1, <2>8, <4>1, RefFacts
        <5> QED
          BY <4>1, <5>1 DEF Carries
      <4>2. CASE ~IsReload(m)
        BY <2>0, <2>8, <4>2 DEF Carries
      <4> QED
        BY <4>1, <4>2
    <3>3. Carries(m, c) \in Nat
      BY DEF Carries
    <3> QED
      BY <2>0, <2>3, <2>4, <2>5, <3>1, <3>2, <3>3
  <2> QED
    BY <2>6, <2>7, <2>8
<1>25. ASSUME NEW s \in Sessions, Accept(s) PROVE RefsMatchHolders'
  <2> SUFFICES ASSUME NEW c \in Cfg
      PROVE  refs'[c] + HeldByMsgs(ServerPending, c) + InSessionQueues(c)
               + Cardinality(Users(c)) + ByModule(c)
               = refs[c] + HeldByMsgs(ServerPending', c) + InSessionQueues(c)'
               + Cardinality(Users(c)') + ByModule(c)'
    BY RefsBalance
  <2>0. /\ HeldByMsgs(ServerPending, c) \in Nat /\ InSessionQueues(c) \in Nat
        /\ Cardinality(Users(c)) \in Nat /\ ByModule(c) \in Nat /\ refs[c] \in Int
        /\ \A t \in Sessions : HeldByMsgs(sessQ[t].items, c) \in Nat
    BY <1>0, RefsEquation DEF Numbers
  <2>1. sess'[s].cfg = srv.cfg /\ sess'[s].pc = "poll"
        /\ \A t \in Sessions \ {s} : sess'[t] = sess[t]
    BY <1>25, <1>0 DEF Accept, NoSession, SessType
  <2>2. Cardinality(Users(c)') = Cardinality(Users(c)) + (IF c = srv.cfg THEN 1 ELSE 0)
    <3>1. Cardinality(Users(c)') = Cardinality(Users(c)) + Uses(s, c)' - Uses(s, c)
      BY <2>1, UsersChange
    <3>2. Uses(s, c) = 0 /\ Uses(s, c)' = IF c = srv.cfg THEN 1 ELSE 0
      BY <1>25, <2>1 DEF Uses, Alive, Accept
    <3> QED
      BY <2>0, <3>1, <3>2
  <2>3. refs'[c] = refs[c] + (IF c = srv.cfg THEN 1 ELSE 0)
    BY <1>25, <1>0, RefFacts DEF Accept
  <2>4. InSessionQueues(c)' = InSessionQueues(c) /\ ServerPending' = ServerPending
    BY <1>25, QueuesSame, PendingStep DEF Accept
  <2>5. ByModule(c)' = ByModule(c)
    BY <1>25, <1>0 DEF Accept, ByModule, SrvType
  <2> QED
    BY <2>0, <2>2, <2>3, <2>4, <2>5
<1>26. ASSUME ServerPollError PROVE RefsMatchHolders'
  <2>1. srv'.cfg = srv.cfg
    BY <1>26, ServerMoves DEF ServerPollError
  <2> QED
    BY <1>26, <2>1, PendingStep, RefsKept DEF ServerPollError, Alive
<1>27. ASSUME ServerPollSocket PROVE RefsMatchHolders'
  <2>1. srv'.cfg = srv.cfg
    BY <1>27, ServerMoves DEF ServerPollSocket
  <2> QED
    BY <1>27, <2>1, PendingStep, RefsKept DEF ServerPollSocket, Alive
<1>28. ASSUME NEW s \in Sessions, SessionPollQueue(s) PROVE RefsMatchHolders'
  <2>1. \A t \in Sessions : Alive(t)' = Alive(t) /\ sess'[t].cfg = sess[t].cfg
    BY <1>28, SessionMoves DEF SessionPollQueue, Alive
  <2> QED
    BY <1>28, <2>1, PendingStep, RefsKept DEF SessionPollQueue
<1>29. ASSUME NEW s \in Sessions, SessionQueueEvents(s) PROVE RefsMatchHolders'
  <2> DEFINE q == sessQ[s].items
             old == sess[s].cfg
             new == Latest(old, q)
             d == DropMsgs(refs, q)
             e == DropRef(d, old)
  <2> SUFFICES ASSUME NEW c \in Cfg
      PROVE  refs'[c] + HeldByMsgs(ServerPending, c) + InSessionQueues(c)
               + Cardinality(Users(c)) + ByModule(c)
               = refs[c] + HeldByMsgs(ServerPending', c) + InSessionQueues(c)'
               + Cardinality(Users(c)') + ByModule(c)'
    BY RefsBalance
  <2>0. /\ HeldByMsgs(ServerPending, c) \in Nat /\ InSessionQueues(c) \in Nat
        /\ Cardinality(Users(c)) \in Nat /\ ByModule(c) \in Nat /\ refs[c] \in Int
        /\ \A t \in Sessions : HeldByMsgs(sessQ[t].items, c) \in Nat
    BY <1>0, RefsEquation DEF Numbers
  <2>1. /\ sess'[s].cfg = new /\ Alive(s) /\ Alive(s)'
        /\ \A t \in Sessions \ {s} : sess'[t] = sess[t] /\ sessQ'[t] = sessQ[t]
    <3>1. PICK stop \in {sess[s].stop, sess[s].stop \/ Reloads(q) # {}},
               next \in {"sock", "poll"} :
                 sess' = [sess EXCEPT ![s] = [pc   |-> IF stop THEN "end" ELSE next,
                                              stop |-> stop,
                                              cfg  |-> new]]
      BY <1>29 DEF SessionQueueEvents
    <3>2. sessQ' = [sessQ EXCEPT ![s] = AfterGetAll(sessQ[s])] /\ sess[s].pc = "queue"
      BY <1>29 DEF SessionQueueEvents
    <3>3. sess'[s].pc \in {"end", "sock", "poll"} /\ sess'[s].cfg = new
      BY <1>0, <3>1
    <3> QED
      BY <1>0, <3>1, <3>2, <3>3 DEF Alive
  <2>2. /\ sessQ'[s].items = << >> /\ q \in Seq(SessionMsg) /\ HeldByMsgs(q, c) \in Nat
        /\ old \in Cfg
    <3>1. sessQ'[s].items = << >> /\ q \in Seq(SessionMsg)
      BY <1>29, <1>0, QueueFacts DEF SessionQueueEvents
    <3>2. old \in Cfg
      BY SessionMoves
    <3> QED
      BY <2>0, <3>1, <3>2
  <2>3. new \in Cfg
    BY <2>2, LatestType
  <2>4. refs' = AddRef(e, new)
    BY <1>29 DEF SessionQueueEvents
  <2>5. InSessionQueues(c)' = InSessionQueues(c) - HeldByMsgs(q, c)
    <3>1. InSessionQueues(c)' = InSessionQueues(c) + HeldByMsgs(sessQ'[s].items, c) - HeldByMsgs(q, c)
      BY <2>1, QueuesChange
    <3>2. HeldByMsgs(sessQ'[s].items, c) = 0
      BY <2>2, HeldEmpty
    <3> QED
      BY <2>0, <2>2, <3>1, <3>2
  <2>6. Cardinality(Users(c)') = Cardinality(Users(c)) + (IF c = new THEN 1 ELSE 0)
                                                       - (IF c = old THEN 1 ELSE 0)
    <3>1. Cardinality(Users(c)') = Cardinality(Users(c)) + Uses(s, c)' - Uses(s, c)
      BY <2>1, UsersChange
    <3>2. Uses(s, c) = (IF c = old THEN 1 ELSE 0) /\ Uses(s, c)' = IF c = new THEN 1 ELSE 0
      BY <2>1 DEF Uses
    <3> HIDE DEF new, old
    <3> QED
      BY <2>0, <3>1, <3>2
  <2>7. ServerPending' = ServerPending /\ ByModule(c)' = ByModule(c)
    BY <1>29, PendingStep DEF SessionQueueEvents, ByModule
  <2> HIDE DEF new, old, q
  <2>8. d \in [Cfg -> Int] /\ d[c] = refs[c] - HeldByMsgs(q, c)
    BY <1>0, <2>2, DropFacts
  <2> HIDE DEF d
  <2>9. e \in [Cfg -> Int] /\ e[c] = d[c] - (IF c = old THEN 1 ELSE 0)
    BY <2>2, <2>8, RefFacts
  <2> HIDE DEF e
  <2>10. refs'[c] = e[c] + (IF c = new THEN 1 ELSE 0)
    BY <2>3, <2>4, <2>9, RefFacts
  <2> DEFINE u == IF c = old THEN 1 ELSE 0
             v == IF c = new THEN 1 ELSE 0
             h == HeldByMsgs(q, c)
  <2>11. /\ u \in Nat /\ v \in Nat /\ h \in Nat
         /\ InSessionQueues(c)' = InSessionQueues(c) - h
         /\ Cardinality(Users(c)') = Cardinality(Users(c)) + v - u
         /\ d[c] = refs[c] - h /\ e[c] = d[c] - u /\ refs'[c] = e[c] + v
    BY <2>2, <2>5, <2>6, <2>8, <2>9, <2>10
  <2> HIDE DEF u, v, h
  <2>12. HeldByMsgs(ServerPending', c) = HeldByMsgs(ServerPending, c)
    BY <2>7
  <2> QED
    BY <2>0, <2>7, <2>11, <2>12
<1>30. ASSUME NEW s \in Sessions, SessionSockEvents(s) PROVE RefsMatchHolders'
  <2>1. \A t \in Sessions : Alive(t)' = Alive(t) /\ sess'[t].cfg = sess[t].cfg
    BY <1>30, SessionMoves DEF SessionSockEvents, Alive
  <2> QED
    BY <1>30, <2>1, PendingStep, RefsKept DEF SessionSockEvents
<1>31. ASSUME NEW s \in Sessions, SessionClose(s) PROVE RefsMatchHolders'
  <2>1. \A t \in Sessions : Alive(t)' = Alive(t) /\ sess'[t].cfg = sess[t].cfg
    BY <1>31, SessionMoves DEF SessionClose, Alive
  <2>2. \A t \in Sessions : sessQ'[t].items = sessQ[t].items
    BY <1>31, <1>0, QueueFacts DEF SessionClose
  <2> QED
    BY <1>31, <2>1, <2>2, PendingStep, RefsKept DEF SessionClose
<1>32. ASSUME NEW s \in Sessions, SessionEmpty(s) PROVE RefsMatchHolders'
  <2> DEFINE q == sessQ[s].items
  <2> SUFFICES ASSUME NEW c \in Cfg
      PROVE  refs'[c] + HeldByMsgs(ServerPending, c) + InSessionQueues(c)
               + Cardinality(Users(c)) + ByModule(c)
               = refs[c] + HeldByMsgs(ServerPending', c) + InSessionQueues(c)'
               + Cardinality(Users(c)') + ByModule(c)'
    BY RefsBalance
  <2>0. /\ HeldByMsgs(ServerPending, c) \in Nat /\ InSessionQueues(c) \in Nat
        /\ Cardinality(Users(c)) \in Nat /\ ByModule(c) \in Nat /\ refs[c] \in Int
        /\ \A t \in Sessions : HeldByMsgs(sessQ[t].items, c) \in Nat
    BY <1>0, RefsEquation DEF Numbers
  <2>1. \A t \in Sessions : Alive(t)' = Alive(t) /\ sess'[t].cfg = sess[t].cfg
    BY <1>32, SessionMoves DEF SessionEmpty, Alive
  <2>2. /\ sessQ'[s].items = << >> /\ \A t \in Sessions \ {s} : sessQ'[t] = sessQ[t]
        /\ q \in Seq(SessionMsg) /\ HeldByMsgs(q, c) \in Nat
    BY <1>32, <1>0, <2>0, QueueFacts DEF SessionEmpty
  <2>3. InSessionQueues(c)' = InSessionQueues(c) - HeldByMsgs(q, c)
    <3>1. InSessionQueues(c)' = InSessionQueues(c) + HeldByMsgs(sessQ'[s].items, c) - HeldByMsgs(q, c)
      BY <2>2, QueuesChange
    <3>2. HeldByMsgs(sessQ'[s].items, c) = 0
      BY <2>2, HeldEmpty
    <3> QED
      BY <2>0, <2>2, <3>1, <3>2
  <2>4. refs'[c] = refs[c] - HeldByMsgs(q, c)
    <3>1. refs' = DropMsgs(refs, q)
      BY <1>32 DEF SessionEmpty
    <3> HIDE DEF q
    <3> QED
      BY <1>0, <2>2, <3>1, DropFacts
  <2>5. Users(c)' = Users(c) /\ ServerPending' = ServerPending
    BY <1>32, <2>1, UsersSame, PendingStep DEF SessionEmpty
  <2>6. ByModule(c)' = ByModule(c)
    BY <1>32 DEF SessionEmpty, ByModule
  <2> QED
    BY <2>0, <2>2, <2>3, <2>4, <2>5, <2>6
<1>33. ASSUME NEW s \in Sessions, SessionExit(s) PROVE RefsMatchHolders'
  <2>1. SessionEndMsg(s) \in ServerMsg /\ ~IsReload(SessionEndMsg(s))
    BY NewMsgs
  <2>2. server_queue_msg(SessionEndMsg(s), SessionFaults, refs) /\ srvBatch' = srvBatch
    BY <1>33 DEF SessionExit
  <2>3. ServerPending' \in {Append(ServerPending, SessionEndMsg(s)), ServerPending} /\ refs' = refs
    BY <2>1, <2>2, PendingStep, ServerPut
  <2>4. \A c : HeldByMsgs(ServerPending', c) = HeldByMsgs(ServerPending, c)
    BY <2>1, <2>3, HeldKeptByPut
  <2>5. \A t \in Sessions : Alive(t)' = Alive(t) /\ sess'[t].cfg = sess[t].cfg
    BY <1>33, SessionMoves DEF SessionExit, Alive
  <2> QED
    BY <1>33, <2>3, <2>4, <2>5, RefsKept DEF SessionExit
<1>34. ASSUME NEW s \in Sessions, SessionPollError(s) PROVE RefsMatchHolders'
  <2>1. \A t \in Sessions : Alive(t)' = Alive(t) /\ sess'[t].cfg = sess[t].cfg
    BY <1>34, SessionMoves DEF SessionPollError, Alive
  <2> QED
    BY <1>34, <2>1, PendingStep, RefsKept DEF SessionPollError
<1>35. ASSUME NEW s \in Sessions, SessionTimer(s) PROVE RefsMatchHolders'
  <2>1. \A t \in Sessions : Alive(t)' = Alive(t) /\ sess'[t].cfg = sess[t].cfg
    BY <1>35, SessionMoves DEF SessionTimer, Alive
  <2> QED
    BY <1>35, <2>1, PendingStep, RefsKept DEF SessionTimer
<1>36. ASSUME NEW s \in Sessions, SessionPollSocket(s) PROVE RefsMatchHolders'
  <2>1. \A t \in Sessions : Alive(t)' = Alive(t) /\ sess'[t].cfg = sess[t].cfg
    BY <1>36, SessionMoves DEF SessionPollSocket, Alive
  <2> QED
    BY <1>36, <2>1, PendingStep, RefsKept DEF SessionPollSocket
<1>37. ASSUME UNCHANGED vars PROVE RefsMatchHolders'
  BY <1>37, PendingStep, RefsKept DEF vars, Alive
<1> QED
  BY <1>1, <1>2, <1>3, <1>4, <1>5, <1>6, <1>7, <1>8, <1>9, <1>10, <1>11, <1>12, <1>13,
     <1>14, <1>15, <1>16, <1>17, <1>18, <1>19, <1>20, <1>21, <1>22, <1>23, <1>24, <1>25,
     <1>26, <1>27, <1>28, <1>29, <1>30, <1>31, <1>32, <1>33, <1>34, <1>35, <1>36, <1>37
     DEF Next, MainEnds, ServerNext, ServerRuns, SessionNext, SessionRuns

-----------------------------------------------------------------------------
(* The invariant holds when the module is loaded. *)
LEMMA InitServerInv == Init => ServerInv
<1> SUFFICES ASSUME Init PROVE ServerInv
  OBVIOUS
<1>0. 0 \in Cfg /\ MaxReloads \in Nat /\ MaxDebugs \in Nat /\ MaxFaults \in Nat
  BY ServerAssumption DEF ServerAssumption, Cfg
<1>1. CreateQueue.items = << >> /\ CreateQueue.closed = FALSE
  BY DEF CreateQueue
<1>2. Base
  <2>1. CreateQueue \in SyncQueueType(ServerMsg) /\ CreateQueue \in SyncQueueType(SessionMsg)
    BY DEF CreateQueue, SyncQueueType
  <2>2. NoSession \in SessType
    BY <1>0 DEF NoSession, SessType
  <2>3. srv \in SrvType
    BY <1>0 DEF Init, SrvType
  <2>4. refs \in [Cfg -> Int]
    BY DEF Init
  <2>5. /\ sess \in [Sessions -> SessType]
        /\ sessQ \in [Sessions -> SyncQueueType(SessionMsg)]
        /\ srvQ \in SyncQueueType(ServerMsg)
    BY <2>1, <2>2 DEF Init
  <2>6. /\ main \in {"created", "loaded", "join", "stopSessions", "joinSessions",
                     "release", "unloaded"}
        /\ globalCfg \in Cfg /\ missed \subseteq Sessions \cup {TheServer}
        /\ faults \in 0 .. MaxFaults /\ debugs \in 0 .. MaxDebugs
        /\ srvBatch \in Seq(ServerMsg)
    BY <1>0 DEF Init
  <2> QED
    BY <2>3, <2>4, <2>5, <2>6 DEF Base
<1>3. ServerPending = << >>
  BY <1>1 DEF Init, ServerPending
<1>4. \A s \in Sessions : sess[s] = NoSession /\ sess[s].pc = "none" /\ sessQ[s] = CreateQueue
  BY DEF Init, NoSession
<1>5. Control
  <2>1. Threads
    BY <1>1 DEF Init, Threads
  <2>2. SessionQueues
    BY <1>4 DEF SessionQueues
  <2> QED
    BY <2>1, <2>2 DEF Control
<1>6. EndsOnce
  BY <1>3 DEF EndsOnce, EndMsgs
<1>7. ListIsComplete
  BY <1>4 DEF ListIsComplete, Alive, Init
<1>8. Ordered
  <2>1. Reloads(ServerPending) = {}
    BY <1>3 DEF Reloads
  <2>2. srv.cfg = 0 /\ globalCfg = 0 /\ srv.pc = "none" /\ srv.sessions = {}
    BY DEF Init
  <2> QED
    BY <2>1, <2>2 DEF Ordered, InOrder, Forwarding, Behind
<1>9. Newest
  <2>1. Reloads(ServerPending) = {}
    BY <1>3 DEF Reloads
  <2>2. srv.cfg = 0 /\ globalCfg = 0 /\ srv.pc = "none" /\ srv.sessions = {}
    BY DEF Init
  <2> QED
    BY <2>1, <2>2 DEF Newest, ServerNewest, SessionsNewest, Latest
<1>10. RefsMatchHolders
  <2> SUFFICES ASSUME NEW c \in Cfg
               PROVE  refs[c] = HeldByMsgs(ServerPending, c) + InSessionQueues(c)
                                  + Cardinality(Users(c)) + ByModule(c)
    BY <1>2, RefsEquation DEF Balanced
  <2>1. HeldByMsgs(ServerPending, c) = 0
    BY <1>3, HeldEmpty
  <2>2. InSessionQueues(c) = 0
    <3>1. UNION {{s} \X Holding(sessQ[s].items, c) : s \in Sessions} = {}
      <4>1. \A s \in Sessions : Holding(sessQ[s].items, c) = {}
        BY <1>1, <1>4, HeldEmpty
      <4> QED
        BY <4>1
    <3> QED
      BY <3>1, FS_EmptySet DEF InSessionQueues
  <2>3. Cardinality(Users(c)) = 0
    <3>1. Users(c) = {}
      BY <1>4 DEF Users, Alive
    <3> QED
      BY <3>1, FS_EmptySet
  <2>4. ByModule(c) = refs[c] /\ refs[c] \in Nat
    BY DEF Init, ByModule
  <2> QED
    BY <2>1, <2>2, <2>3, <2>4
<1> QED
  BY <1>2, <1>5, <1>6, <1>7, <1>8, <1>9, <1>10 DEF ServerInv

(* Every step keeps the invariant. *)
LEMMA ServerInvStep == ServerInv /\ [Next]_vars => ServerInv'
<1> SUFFICES ASSUME ServerInv, [Next]_vars PROVE ServerInv'
  OBVIOUS
<1>1. /\ Base /\ Control /\ EndsOnce /\ ListIsComplete /\ Ordered /\ InOrder /\ Forwarding /\ Behind
      /\ ServerNewest /\ SessionsNewest /\ RefsMatchHolders
  BY DEF ServerInv, Ordered, Newest
<1>2. Base'
  BY <1>1, BaseStep, Zenon
<1>3. Threads' /\ SessionQueues'
  BY <1>1, ThreadsStep, SessionQueuesStep, Zenon
<1>4. ListIsComplete' /\ EndsOnce'
  BY <1>1, ListStep, EndsOnceStep, Zenon
<1>5. InOrder' /\ Forwarding' /\ Behind'
  BY <1>1, InOrderStep, ForwardingStep, BehindStep, Zenon
<1>6. ServerNewest' /\ SessionsNewest'
  BY <1>1, ServerNewestStep, SessionsNewestStep, Zenon
<1>7. RefsMatchHolders'
  BY <1>1, <1>2, RefsStep, Zenon
<1> QED
  BY <1>2, <1>3, <1>4, <1>5, <1>6, <1>7, Zenon DEF ServerInv, Control, Ordered, Newest

(* What the whole server keeps true, at every step of every thread.        *)
THEOREM ServerInvariant == Spec => []ServerInv
<1> QED
  BY InitServerInv, ServerInvStep, PTL DEF Spec

(* The sessions in the list, those that say they ended, and those that     *)
(* run, agree, and once the module is unloaded none is left.               *)
LEMMA KnownFromInv == ServerInv => SessionsAreKnown
<1> SUFFICES ASSUME ServerInv PROVE SessionsAreKnown
  OBVIOUS
<1>1. Base /\ Threads /\ EndsOnce /\ ListIsComplete /\ RefsMatchHolders
  BY DEF ServerInv, Control
<1>2. TypeOK
  <2>1. refs \in [Cfg -> Nat]
    <3>1. \A c \in Cfg : refs[c] \in Nat
      BY <1>1, RefsEquation DEF Balanced, Numbers
    <3> QED
      BY <1>1, <3>1 DEF Base
  <2> QED
    BY <1>1, <2>1, Zenon DEF Base, TypeOK, SrvType, SessType
<1>3. SessionEndIsValid
  <2> SUFFICES ASSUME NEW s \in Sessions
               PROVE  /\ Cardinality(EndMsgs(s)) <= 1
                      /\ EndMsgs(s) # {} => s \in srv.sessions /\ sess[s].pc = "ended"
    BY DEF SessionEndIsValid
  <2>1. EndMsgs(s) # {} => sess[s].pc = "ended"
    BY <1>1 DEF EndsOnce
  <2>2. sess[s].pc = "ended" => s \in srv.sessions
    BY <1>1 DEF ListIsComplete, Alive
  <2>3. Cardinality(EndMsgs(s)) <= 1
    <3>1. CASE EndMsgs(s) = {}
      BY <3>1, FS_EmptySet
    <3>2. CASE EndMsgs(s) # {}
      <4>1. PICK i : i \in EndMsgs(s)
        BY <3>2
      <4>2. EndMsgs(s) = {i}
        BY <1>1, <4>1 DEF EndsOnce
      <4> QED
        BY <4>2, FS_Singleton
    <3> QED
      BY <3>1, <3>2
  <2> QED
    BY <2>1, <2>2, <2>3
<1>4. UnloadedIsQuiet
  BY <1>1 DEF UnloadedIsQuiet, Threads, ListIsComplete, Alive, Running
<1> QED
  BY <1>1, <1>2, <1>3, <1>4, Zenon DEF SessionsAreKnown

(* A session is joined and freed once, the list is complete, and unloading *)
(* leaves no thread behind.                                                *)
THEOREM ServerSessionsAreKnown == Spec => []SessionsAreKnown
<1> QED
  BY ServerInvariant, KnownFromInv, PTL

(* Every reference to a configuration is counted, and none is given back   *)
(* twice: the count never falls below what the holders need.               *)
THEOREM ServerRefsMatchHolders == Spec => []RefsMatchHolders
<1>1. ServerInv => RefsMatchHolders
  BY DEF ServerInv
<1> QED
  BY <1>1, ServerInvariant, PTL

(* The newest configuration is on its way to whoever was not refused it.   *)
THEOREM ServerNewestIsPending == Spec => []NewestIsPending
<1>1. ServerInv => NewestIsPending
  <2> SUFFICES ASSUME ServerInv PROVE NewestIsPending
    OBVIOUS
  <2>1. ServerNewest /\ SessionsNewest
    BY DEF ServerInv, Newest
  <2>2. \A s \in srv.sessions \ srv.todo : s \in srv.sessions \ Untold
    BY DEF Untold
  <2> QED
    BY <2>1, <2>2 DEF NewestIsPending, ServerNewest, SessionsNewest
<1> QED
  BY <1>1, ServerInvariant, PTL

(* What ConfigOnlyAdvances says of a step.                                 *)
Advances ==
  /\ \A s \in Sessions : Running(s) => sess'[s].cfg >= sess[s].cfg
  /\ srv'.cfg >= srv.cfg

(* No step takes a session, or the server, back to an older configuration. *)
LEMMA AdvancesStep == Base /\ Control /\ ListIsComplete /\ Ordered /\ [Next]_vars => Advances
<1> SUFFICES ASSUME Base, Control, ListIsComplete, Ordered PROVE [Next]_vars => Advances
  OBVIOUS
<1>0. /\ srv \in SrvType /\ sess \in [Sessions -> SessType] /\ srv.cfg \in Nat
      /\ \A s \in Sessions : sess[s].cfg \in Nat
  BY CfgFacts DEF Base
<1>a. srv'.cfg = srv.cfg /\ (\A s \in Sessions : sess'[s].cfg = sess[s].cfg \/ ~Running(s))
        => Advances
  BY <1>0 DEF Advances
<1> HIDE DEF Advances
<1>1. ASSUME Start PROVE Advances
  BY <1>1, <1>0, <1>a DEF Start, SrvType
<1>2. ASSUME Reload PROVE Advances
  BY <1>2, <1>0, <1>a DEF Reload, SrvType
<1>3. ASSUME ReloadDebug PROVE Advances
  BY <1>3, <1>0, <1>a DEF ReloadDebug, SrvType
<1>4. ASSUME Destroy PROVE Advances
  BY <1>4, <1>0, <1>a DEF Destroy, SrvType
<1>5. ASSUME JoinServer PROVE Advances
  BY <1>5, <1>0, <1>a DEF JoinServer, SrvType
<1>6. ASSUME StopSessionsEnd PROVE Advances
  BY <1>6, <1>0, <1>a DEF StopSessionsEnd, SrvType
<1>7. ASSUME JoinSessionsEnd PROVE Advances
  BY <1>7, <1>0, <1>a DEF JoinSessionsEnd, SrvType
<1>8. ASSUME Release PROVE Advances
  BY <1>8, <1>0, <1>a DEF Release, SrvType
<1>9. ASSUME NEW s \in Sessions, SetStop(s) PROVE Advances
  <2>1. \A t \in Sessions : sess'[t].cfg = sess[t].cfg
    BY <1>9, <1>0 DEF SetStop, SessType
  <2>2. srv'.cfg = srv.cfg
    BY <1>9, <1>0 DEF SetStop, SrvType
  <2> QED
    BY <1>a, <2>1, <2>2
<1>10. ASSUME NEW s \in Sessions, WakeSession(s) PROVE Advances
  BY <1>10, <1>0, <1>a DEF WakeSession, SrvType
<1>11. ASSUME NEW s \in Sessions, JoinSession(s) PROVE Advances
  <2>1. DestroySession(s) /\ ~Running(s)
    BY <1>11 DEF JoinSession, Running
  <2>2. srv'.cfg = srv.cfg /\ \A t \in Sessions \ {s} : sess'[t] = sess[t]
    BY <2>1, DestroyFacts
  <2> QED
    BY <1>a, <2>1, <2>2
<1>12. ASSUME Listen PROVE Advances
  BY <1>12, <1>0, <1>a DEF Listen, ServerGoes, SrvType
<1>13. ASSUME ServerPollQueue PROVE Advances
  <2>1. srv'.cfg = srv.cfg
    BY <1>13, ServerMoves DEF ServerPollQueue
  <2> QED
    BY <1>13, <2>1, <1>a DEF ServerPollQueue
<1>14. ASSUME ServerReloadConfig PROVE Advances
  <2> DEFINE P == ServerPending
  <2>1. P # << >> /\ Head(P) = Head(srvBatch) /\ IsReload(Head(P)) /\ P \in Seq(ServerMsg)
    BY <1>14, PendingFacts DEF ServerReloadConfig, NextMsg, IsReload
  <2>2. 1 \in Reloads(P) /\ Head(P) = P[1]
    BY <2>1, ReloadsTail
  <2>3. srv'.cfg = P[1].cfg /\ sess' = sess
    BY <1>14, <1>0, <2>1, <2>2 DEF ServerReloadConfig, SrvType
  <2>4. srv.cfg <= srv'.cfg /\ srv'.cfg \in Nat
    BY <2>2, <2>3, CfgFacts DEF Ordered, InOrder
  <2> QED
    BY <1>0, <2>3, <2>4 DEF Advances
<1>15. ASSUME ServerReloadDebug PROVE Advances
  BY <1>15, <1>0, <1>a DEF ServerReloadDebug, NextMsg, SrvType
<1>16. ASSUME ForwardEnd PROVE Advances
  <2>1. srv'.cfg = srv.cfg
    BY <1>16, ServerMoves DEF ForwardEnd
  <2> QED
    BY <1>16, <2>1, <1>a DEF ForwardEnd
<1>17. ASSUME ServerSessionEnd PROVE Advances
  <2>0. Head(srvBatch) \in ServerMsg
    BY <1>17, PendingFacts DEF ServerSessionEnd, NextMsg
  <2>4. PICK s \in Sessions : s = Head(srvBatch).session
    BY <1>17, <2>0, ServerMsgFacts DEF ServerSessionEnd, NextMsg
  <2>1. DestroySession(s) /\ ~Running(s)
    BY <1>17, <2>4 DEF ServerSessionEnd, Running
  <2>2. srv'.cfg = srv.cfg /\ \A t \in Sessions \ {s} : sess'[t] = sess[t]
    BY <2>1, DestroyFacts
  <2> QED
    BY <1>a, <2>1, <2>2
<1>18. ASSUME ServerStop PROVE Advances
  BY <1>18, <1>0, <1>a DEF ServerStop, NextMsg, SrvType
<1>19. ASSUME ServerBatchEnd PROVE Advances
  <2>1. srv'.cfg = srv.cfg
    BY <1>19, ServerMoves DEF ServerBatchEnd
  <2> QED
    BY <1>19, <2>1, <1>a DEF ServerBatchEnd
<1>20. ASSUME AcceptDropped PROVE Advances
  <2>1. srv'.cfg = srv.cfg
    BY <1>20, ServerMoves DEF AcceptDropped
  <2> QED
    BY <1>20, <2>1, <1>a DEF AcceptDropped
<1>21. ASSUME AcceptFailed PROVE Advances
  BY <1>21, <1>0, <1>a DEF AcceptFailed, SrvType
<1>22. ASSUME ServerClose PROVE Advances
  <2>1. srv'.cfg = srv.cfg
    BY <1>22, ServerMoves DEF ServerClose
  <2> QED
    BY <1>22, <2>1, <1>a DEF ServerClose
<1>23. ASSUME ServerEmpty PROVE Advances
  <2>1. srv'.cfg = srv.cfg
    BY <1>23, ServerMoves DEF ServerEmpty
  <2> QED
    BY <1>23, <2>1, <1>a DEF ServerEmpty
<1>24. ASSUME NEW s \in Sessions, Forward(s) PROVE Advances
  BY <1>24, <1>0, <1>a DEF Forward, SrvType
<1>25. ASSUME NEW s \in Sessions, Accept(s) PROVE Advances
  <2>1. \A t \in Sessions \ {s} : sess'[t] = sess[t]
    BY <1>25, <1>0 DEF Accept
  <2>2. srv'.cfg = srv.cfg /\ ~Running(s)
    BY <1>25, <1>0 DEF Accept, SrvType, Running
  <2> QED
    BY <1>a, <2>1, <2>2
<1>26. ASSUME ServerPollError PROVE Advances
  <2>1. srv'.cfg = srv.cfg
    BY <1>26, ServerMoves DEF ServerPollError
  <2> QED
    BY <1>26, <2>1, <1>a DEF ServerPollError
<1>27. ASSUME ServerPollSocket PROVE Advances
  <2>1. srv'.cfg = srv.cfg
    BY <1>27, ServerMoves DEF ServerPollSocket
  <2> QED
    BY <1>27, <2>1, <1>a DEF ServerPollSocket
<1>28. ASSUME NEW s \in Sessions, SessionPollQueue(s) PROVE Advances
  <2>1. \A t \in Sessions : sess'[t].cfg = sess[t].cfg
    BY <1>28, SessionMoves DEF SessionPollQueue
  <2> QED
    BY <1>28, <2>1, <1>a DEF SessionPollQueue
<1>29. ASSUME NEW s \in Sessions, SessionQueueEvents(s) PROVE Advances
  <2> DEFINE q == sessQ[s].items
  <2>0. q \in Seq(SessionMsg)
    BY QueueFacts DEF Base
  <2>1. sess'[s].cfg = Latest(sess[s].cfg, q) /\ \A t \in Sessions \ {s} : sess'[t] = sess[t]
    <3>1. PICK stop \in {sess[s].stop, sess[s].stop \/ Reloads(q) # {}},
               next \in {"sock", "poll"} :
                 sess' = [sess EXCEPT ![s] = [pc   |-> IF stop THEN "end" ELSE next,
                                              stop |-> stop,
                                              cfg  |-> Latest(sess[s].cfg, q)]]
      BY <1>29 DEF SessionQueueEvents
    <3> QED
      BY <1>0, <3>1
  <2>2. s \in srv.sessions /\ srv' = srv
    BY <1>29 DEF SessionQueueEvents, ListIsComplete, Alive
  <2>3. Latest(sess[s].cfg, q) >= sess[s].cfg
    <3> HIDE DEF q
    <3>1. CASE Reloads(q) = {}
      BY <1>0, <2>0, <3>1, LatestFacts
    <3>2. CASE Reloads(q) # {}
      <4>1. PICK i \in Reloads(q) : \A j \in Reloads(q) : j <= i
        BY <2>0, <3>2, LatestFacts
      <4>2. Latest(sess[s].cfg, q) = q[i].cfg
        BY <2>0, <4>1, LatestFacts
      <4>3. sess[s].cfg <= q[i].cfg /\ q[i].cfg \in Nat
        BY <2>2, <4>1, CfgFacts DEF Ordered, Behind, q
      <4> QED
        BY <1>0, <4>2, <4>3
    <3> QED
      BY <3>1, <3>2
  <2> QED
    BY <1>0, <2>1, <2>2, <2>3 DEF Advances
<1>30. ASSUME NEW s \in Sessions, SessionSockEvents(s) PROVE Advances
  <2>1. \A t \in Sessions : sess'[t].cfg = sess[t].cfg
    BY <1>30, SessionMoves DEF SessionSockEvents
  <2> QED
    BY <1>30, <2>1, <1>a DEF SessionSockEvents
<1>31. ASSUME NEW s \in Sessions, SessionClose(s) PROVE Advances
  <2>1. \A t \in Sessions : sess'[t].cfg = sess[t].cfg
    BY <1>31, SessionMoves DEF SessionClose
  <2> QED
    BY <1>31, <2>1, <1>a DEF SessionClose
<1>32. ASSUME NEW s \in Sessions, SessionEmpty(s) PROVE Advances
  <2>1. \A t \in Sessions : sess'[t].cfg = sess[t].cfg
    BY <1>32, SessionMoves DEF SessionEmpty
  <2> QED
    BY <1>32, <2>1, <1>a DEF SessionEmpty
<1>33. ASSUME NEW s \in Sessions, SessionExit(s) PROVE Advances
  <2>1. \A t \in Sessions : sess'[t].cfg = sess[t].cfg
    BY <1>33, SessionMoves DEF SessionExit
  <2> QED
    BY <1>33, <2>1, <1>a DEF SessionExit
<1>34. ASSUME NEW s \in Sessions, SessionPollError(s) PROVE Advances
  <2>1. \A t \in Sessions : sess'[t].cfg = sess[t].cfg
    BY <1>34, SessionMoves DEF SessionPollError
  <2> QED
    BY <1>34, <2>1, <1>a DEF SessionPollError
<1>35. ASSUME NEW s \in Sessions, SessionTimer(s) PROVE Advances
  <2>1. \A t \in Sessions : sess'[t].cfg = sess[t].cfg
    BY <1>35, SessionMoves DEF SessionTimer
  <2> QED
    BY <1>35, <2>1, <1>a DEF SessionTimer
<1>36. ASSUME NEW s \in Sessions, SessionPollSocket(s) PROVE Advances
  <2>1. \A t \in Sessions : sess'[t].cfg = sess[t].cfg
    BY <1>36, SessionMoves DEF SessionPollSocket
  <2> QED
    BY <1>36, <2>1, <1>a DEF SessionPollSocket
<1>37. ASSUME UNCHANGED vars PROVE Advances
  BY <1>37, <1>a DEF vars
<1> QED
  BY <1>1, <1>2, <1>3, <1>4, <1>5, <1>6, <1>7, <1>8, <1>9, <1>10, <1>11, <1>12, <1>13,
     <1>14, <1>15, <1>16, <1>17, <1>18, <1>19, <1>20, <1>21, <1>22, <1>23, <1>24, <1>25,
     <1>26, <1>27, <1>28, <1>29, <1>30, <1>31, <1>32, <1>33, <1>34, <1>35, <1>36, <1>37
     DEF Next, MainEnds, ServerNext, ServerRuns, SessionNext, SessionRuns

(* No session ever goes back to an older configuration: reloads overtake   *)
(* each other neither in the server's queue nor in a session's.            *)
THEOREM ServerConfigOnlyAdvances == Spec => ConfigOnlyAdvances
<1>1. ServerInv /\ [Next]_vars => [Advances]_vars
  <2> SUFFICES ASSUME ServerInv, [Next]_vars PROVE [Advances]_vars
    OBVIOUS
  <2>1. Base /\ Control /\ ListIsComplete /\ Ordered
    BY DEF ServerInv
  <2> QED
    BY <2>1, AdvancesStep, Zenon
<1> QED
  BY <1>1, ServerInvariant, PTL DEF Spec, ConfigOnlyAdvances, Advances
=============================================================================
