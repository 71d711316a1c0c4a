---------------------------- MODULE DeviceSettings ----------------------------
(***************************************************************************)
(* What a device remembers and what it watches (sccp_device.c):            *)
(*                                                                         *)
(*   - the do-not-disturb and call-forwarding settings of its user, kept   *)
(*     in Asterisk's database across sessions and restarts;                *)
(*   - its configuration, which a reload replaces at once if the phone     *)
(*     need not know, and otherwise by resetting the phone;                *)
(*   - the mailbox and the extensions (busy lamps of its speed dials) it   *)
(*     has subscribed to, whose callbacks come from threads of Asterisk    *)
(*     while the session thread registers, reloads or destroys the device. *)
(*                                                                         *)
(* One phone, one device at a time.  The calls of the device are the       *)
(* subject of Device: here it is idle or not.  The database, the           *)
(* subscriptions and the states that they report are external.             *)
(***************************************************************************)
EXTENDS Integers, Sequences, FiniteSets

CONSTANTS
  Cfgs,        \* the configurations that the device may have
  Extens,      \* where calls may be forwarded
  Watched,     \* mailboxes and extensions that have a state
  None,
  MaxDials,    \* the most speed dials of a configuration
  MaxReloads,  \* bound: reload messages in the session's queue
  MaxEvents,   \* bound: state changes on their way to one callback
  MaxChanges,  \* bound: state changes
  MaxFailures  \* bound: crashes of Asterisk

(* A configuration: key is all that test_apply_config compares besides the *)
(* mailbox and the speed dials, rest is what it does not look at.          *)
DialType == [label : STRING, blf : BOOLEAN, exten : Watched]
CfgType(c) ==
  /\ DOMAIN c = {"key", "voicemail", "dials", "rest"}
  /\ c.voicemail \in Watched \cup {None}
  /\ c.dials \in Seq(DialType) /\ Len(c.dials) <= MaxDials

ASSUME DeviceSettingsAssumption ==
  /\ \A c \in Cfgs : CfgType(c)
  /\ None \notin Extens \cup Watched
  /\ {MaxDials, MaxReloads, MaxEvents, MaxChanges, MaxFailures} \subseteq Nat

(* What a device may subscribe to: its mailbox, and one extension for each *)
(* speed dial.                                                             *)
Sources == 0 .. MaxDials
Mailbox == 0

VARIABLES
  (* the database: entries for the device's dnd and call forwarding, and   *)
  (* the entry that former versions kept under the name of its line        *)
  dbDnd, dbForward, dbLine,
  global,    \* the configuration in force
  reloads,   \* the reload messages in the session's queue
  pc, at,    \* where the session thread is, and with which speed dial
  (* the device: ->state, ->cfg, the configuration of each speed dial,     *)
  (* ->dnd, ->callfwd, ->callfwd_exten; whether it has calls; its flags    *)
  state, cfg, dials, dnd, callfwd, callfwdExten, busy, resetOnIdle,
  sub,       \* mwi_event_sub, exten_state_cb_id: what each is subscribed to
  known,     \* the lamp, or exten_state, as last read or reported
  events,    \* the state changes that callbacks have still to handle
  world,     \* the state of what may be watched
  resetSent, \* the phone has been asked to reset
  chosen,    \* history: what the user last chose
  cut,       \* history: a crash came between the two writes of init_callfwd
  missed,    \* history: a change came between reading a state and subscribing
  changes, failures

db       == <<dbDnd, dbForward, dbLine>>
settings == <<dnd, callfwd, callfwdExten>>
flags    == <<busy, resetOnIdle, resetSent>>
applied  == <<cfg, dials>>
watching == <<sub, known, events, missed>>
history  == <<chosen, cut>>
outside  == <<global, world, changes, failures>>
vars == <<db, settings, flags, applied, watching, history, outside, reloads, pc, at, state>>

Init ==
  /\ dbDnd \in BOOLEAN
  /\ dbForward \in Extens \cup {None} /\ dbLine \in Extens \cup {None}
  /\ None \in {dbForward, dbLine}
  /\ global \in Cfgs /\ reloads = << >>
  /\ pc = "none" /\ at = 0
  /\ state = "none" /\ cfg = None /\ dials = << >>
  /\ dnd = FALSE /\ callfwd = "INACTIVE" /\ callfwdExten = None
  /\ busy = FALSE /\ resetOnIdle = FALSE /\ resetSent = FALSE
  /\ sub = [s \in Sources |-> None]
  /\ known = [s \in Sources |-> 0]
  /\ events = [s \in Sources |-> << >>]
  /\ missed = {}
  /\ world = [w \in Watched |-> 0]
  /\ chosen = [dnd |-> dbDnd, forward |-> IF dbForward # None THEN dbForward ELSE dbLine]
  /\ cut = FALSE /\ changes = 0 /\ failures = 0

\* Variant for the mutation runs: sccp_device_destroy takes the lock first.
Locked_Destroy == pc \in {"migrate", "lamp", "destroy", "del", "unsubscribe", "join"}

(* The session thread holds the device's lock from init_dnd to the end of  *)
(* init_voicemail_lamp_state.                                              *)
Locked == pc \in {"migrate", "lamp"}

(* The callback that a source has, if it is subscribed. *)
Target(c, s) ==
  CASE s = Mailbox -> c.voicemail
    [] s \in DOMAIN c.dials /\ c.dials[s].blf -> c.dials[s].exten
    [] OTHER -> None

-----------------------------------------------------------------------------
(* Registration: sccp_device_create, sccp_device_on_registration_success.  *)

(* The session creates the device with the configuration that it has: the  *)
(* message that tells it of a newer one may still be in its queue.         *)
sccp_device_create ==
  /\ pc = "none"
  /\ pc' = "created" /\ state' = "NEW"
  /\ \E c \in Cfgs :
       /\ cfg' = c /\ dials' = c.dials
       /\ reloads' = IF c = global THEN << >> ELSE <<global>>
  /\ busy' = FALSE /\ resetOnIdle' = FALSE /\ resetSent' = FALSE
  /\ UNCHANGED <<db, settings, watching, history, outside, at>>

\* Variant for the mutation runs: the entry of the line is only looked at.
init_callfwd_Kept ==
  IF dbForward # None
  THEN /\ callfwd' = "ACTIVE" /\ callfwdExten' = dbForward
       /\ pc' = "lamp"
       /\ UNCHANGED dbForward
  ELSE IF dbLine # None
       THEN /\ callfwd' = "ACTIVE" /\ callfwdExten' = dbLine
            /\ dbForward' = dbLine
            /\ pc' = "lamp"
       ELSE pc' = "lamp" /\ UNCHANGED <<callfwd, callfwdExten, dbForward>>

init_callfwd ==
  IF dbForward # None
  THEN /\ callfwd' = "ACTIVE" /\ callfwdExten' = dbForward
       /\ pc' = "lamp"
       /\ UNCHANGED dbForward
  ELSE IF dbLine # None
       THEN /\ callfwd' = "ACTIVE" /\ callfwdExten' = dbLine
            /\ dbForward' = dbLine
            /\ pc' = "migrate"
       ELSE pc' = "lamp" /\ UNCHANGED <<callfwd, callfwdExten, dbForward>>

RestoreSettings ==
  /\ pc = "created"
  /\ dnd' = dbDnd
  /\ init_callfwd
  /\ UNCHANGED <<dbDnd, dbLine, flags, applied, watching, history, outside, reloads, at, state>>

(* init_callfwd, the last statement. *)
ForgetLine ==
  /\ pc = "migrate"
  /\ pc' = "lamp"
  /\ dbLine' = None
  /\ UNCHANGED <<dbDnd, dbForward, settings, flags, applied, watching, history, outside, reloads,
                 at, state>>

init_voicemail_lamp_state ==
  /\ pc = "lamp"
  /\ pc' = "mwi" /\ state' = "WORKING"
  /\ known' = IF cfg.voicemail # None THEN [known EXCEPT ![Mailbox] = world[cfg.voicemail]]
                                      ELSE known
  /\ UNCHANGED <<db, settings, flags, applied, sub, events, missed, history, outside, reloads, at>>

subscribe_mwi ==
  /\ pc = "mwi"
  /\ sub' = [sub EXCEPT ![Mailbox] = cfg.voicemail]
  /\ pc' = "blf" /\ at' = 1
  /\ UNCHANGED <<db, settings, flags, applied, known, events, missed, history, outside, reloads,
                 state>>

(* sccp_speeddials_on_registration_success, up to the next busy lamp; the  *)
(* first statement of sccp_speeddial_add_extension_state_cb.               *)
FetchState ==
  /\ pc = "blf"
  /\ LET lamps == {i \in DOMAIN dials : i >= at /\ dials[i].blf}
     IN  IF lamps = {}
         THEN pc' = "serving" /\ UNCHANGED <<at, known>>
         ELSE /\ at' = CHOOSE i \in lamps : \A j \in lamps : i <= j
              /\ known' = [known EXCEPT ![at'] = world[dials[at'].exten]]
              /\ pc' = "add"
  /\ UNCHANGED <<db, settings, flags, applied, sub, events, missed, history, outside, reloads, state>>

AddCallback ==
  /\ pc = "add"
  /\ sub' = [sub EXCEPT ![at] = dials[at].exten]
  /\ pc' = "blf" /\ at' = at + 1
  /\ UNCHANGED <<db, settings, flags, applied, known, events, missed, history, outside, reloads,
                 state>>

-----------------------------------------------------------------------------
(* The phone and its user, while the session thread waits for messages.    *)

handle_softkey_dnd ==
  /\ pc = "serving"
  /\ dnd' = ~dnd /\ dbDnd' = ~dnd
  /\ chosen' = [chosen EXCEPT !.dnd = ~dnd]
  /\ UNCHANGED <<dbForward, dbLine, callfwd, callfwdExten, flags, applied, watching, cut, outside,
                 reloads, pc, at, state>>

(* handle_softkey_cfwdall starts the input, or ends the forwarding. *)
StartInput ==
  /\ pc = "serving" /\ callfwd = "INACTIVE"
  /\ callfwd' = "INPUT"
  /\ UNCHANGED <<db, dnd, callfwdExten, flags, applied, watching, history, outside, reloads, pc, at,
                 state>>

set_callforward ==
  /\ pc = "serving" /\ callfwd = "INPUT"
  /\ \E e \in Extens :
       /\ callfwd' = "ACTIVE" /\ callfwdExten' = e
       /\ dbForward' = e
       /\ chosen' = [chosen EXCEPT !.forward = e]
  /\ UNCHANGED <<dbDnd, dbLine, dnd, flags, applied, watching, cut, outside, reloads, pc, at, state>>

cancel_callforward_input ==
  /\ pc = "serving" /\ callfwd = "INPUT"
  /\ callfwd' = "INACTIVE"
  /\ UNCHANGED <<db, dnd, callfwdExten, flags, applied, watching, history, outside, reloads, pc, at,
                 state>>

clear_callforward ==
  /\ pc = "serving" /\ callfwd = "ACTIVE"
  /\ callfwd' = "INACTIVE" /\ callfwdExten' = None
  /\ dbForward' = None
  /\ chosen' = [chosen EXCEPT !.forward = None]
  /\ UNCHANGED <<dbDnd, dbLine, dnd, flags, applied, watching, cut, outside, reloads, pc, at, state>>

(* The first call starts, on any thread. *)
CallStarts ==
  /\ pc # "none" /\ ~Locked /\ ~busy
  /\ busy' = TRUE
  /\ UNCHANGED <<db, settings, resetOnIdle, resetSent, applied, watching, history, outside,
                 reloads, pc, at, state>>

(* The last call ends: sccp_device_on_idle.  A fault of the phone, now or  *)
(* before, is a reason for a reset too.                                    *)
CallsEnd ==
  /\ pc # "none" /\ ~Locked /\ busy
  /\ busy' = FALSE
  /\ resetSent' \in {resetSent \/ resetOnIdle, TRUE}
  /\ UNCHANGED <<db, settings, resetOnIdle, applied, watching, history, outside, reloads, pc, at,
                 state>>

-----------------------------------------------------------------------------
(* Reload.                                                                 *)

(* The session has a device, and its queue is open.                        *)
HasDevice == pc \in {"created", "migrate", "lamp", "mwi", "blf", "add", "serving"}

(* The main thread loads a configuration, and the server tells the session *)
(* of the device.                                                          *)
Reload ==
  /\ Len(reloads) < MaxReloads
  /\ \E c \in Cfgs \ {global} :
       /\ global' = c
       /\ reloads' = IF HasDevice THEN Append(reloads, c) ELSE reloads
  /\ UNCHANGED <<db, settings, flags, applied, watching, history, world, changes, failures, pc, at,
                 state>>

\* Variant for the mutation runs: whether a speed dial has a lamp is not looked at.
SameDial_AnyLamp(old, new) ==
  old.label = new.label /\ (old.blf /\ new.blf => old.exten = new.exten)

SameDial(old, new) ==
  old.label = new.label /\ old.blf = new.blf /\ (new.blf => old.exten = new.exten)

sccp_device_test_apply_config(new) ==
  /\ cfg.key = new.key /\ cfg.voicemail = new.voicemail
  /\ Len(dials) = Len(new.dials)
  /\ \A i \in DOMAIN dials : SameDial(dials[i], new.dials[i])

\* Variant for the mutation runs: a device with calls is not reset later.
ResetLater_Never == UNCHANGED <<resetSent, resetOnIdle>>

ResetLater ==
  IF busy THEN resetOnIdle' = TRUE /\ UNCHANGED resetSent
          ELSE resetSent' = TRUE /\ UNCHANGED resetOnIdle

sccp_device_reload_config ==
  /\ pc = "serving" /\ reloads # << >>
  /\ reloads' = Tail(reloads)
  /\ LET new == Head(reloads)
     IN  \/ /\ sccp_device_test_apply_config(new)
            /\ cfg' = new /\ dials' = new.dials
            /\ UNCHANGED flags
         \/ /\ ~sccp_device_test_apply_config(new)
            /\ ResetLater
            /\ UNCHANGED <<applied, busy>>
  /\ UNCHANGED <<db, settings, watching, history, outside, pc, at, state>>

(* sccp_device_reset, from the CLI. *)
sccp_device_reset ==
  /\ ~Locked /\ state = "WORKING"
  /\ resetSent' = TRUE
  /\ UNCHANGED <<db, settings, busy, resetOnIdle, applied, watching, history, outside,
                 reloads, pc, at, state>>

-----------------------------------------------------------------------------
(* The threads that report states.                                         *)

Unsubscribed ==
  {s \in Sources : \/ pc = "mwi" /\ s = Mailbox
                   \/ pc = "add" /\ s = at}

(* Something that may be watched changes: those who subscribed to it will  *)
(* be told, those who have read it and not subscribed yet will not.        *)
StateChanges ==
  /\ changes < MaxChanges
  /\ changes' = changes + 1
  /\ \E w \in Watched :
       LET told == {s \in Sources : sub[s] = w}
       IN  /\ \A s \in told : Len(events[s]) < MaxEvents
           /\ world' = [world EXCEPT ![w] = 1 - @]
           /\ events' = [s \in Sources |-> IF s \in told THEN Append(events[s], world'[w])
                                                         ELSE events[s]]
           /\ missed' = (missed \ told) \cup {s \in Unsubscribed : Target(cfg, s) = w}
  /\ UNCHANGED <<db, settings, flags, applied, sub, known, history, global, failures, reloads, pc,
                 at, state>>

\* Variant for the mutation runs: the state is transmitted but not kept.
Reported_NotKept(s) == IF s = Mailbox THEN Head(events[s]) ELSE known[s]

Reported(s) == Head(events[s])

(* on_extension_state_change, on_mwi_event: with the device locked. *)
Callback(s) ==
  /\ events[s] # << >> /\ ~Locked
  /\ events' = [events EXCEPT ![s] = Tail(@)]
  /\ known' = [known EXCEPT ![s] = Reported(s)]
  /\ UNCHANGED <<db, settings, flags, applied, sub, missed, history, outside, reloads, pc, at, state>>

-----------------------------------------------------------------------------
(* The end of the device: sccp_device_destroy.                             *)

(* The registration is refused by the registry, or the session ends: the   *)
(* connection may be lost, or the session stopped.                         *)
EndSession ==
  /\ pc \in {"created", "serving"}
  /\ pc' = "destroy" /\ at' = 1
  /\ state' \in {state} \cup (IF pc = "serving" THEN {"CONNLOST"} ELSE {})
  /\ reloads' = << >>
  /\ UNCHANGED <<db, settings, flags, applied, watching, history, outside>>

(* sccp_speeddials_destroy: taking a callback away waits for one that is   *)
(* running.                                                                *)
DelCallback ==
  /\ pc = "destroy"
  /\ LET lamps == {i \in DOMAIN dials : i >= at /\ dials[i].blf}
     IN  IF lamps = {}
         THEN pc' = "unsubscribe" /\ UNCHANGED <<at, sub>>
         ELSE /\ at' = CHOOSE i \in lamps : \A j \in lamps : i <= j
              /\ sub' = [sub EXCEPT ![at'] = None]
              /\ pc' = "del"
  /\ UNCHANGED <<db, settings, flags, applied, known, events, missed, history, outside, reloads,
                 state>>

CallbackDeleted ==
  /\ pc = "del" /\ events[at] = << >>
  /\ pc' = "destroy" /\ at' = at + 1
  /\ UNCHANGED <<db, settings, flags, applied, watching, history, outside, reloads, state>>

(* unsubscribe_mwi: stasis_unsubscribe_and_join. *)
unsubscribe_mwi ==
  /\ pc = "unsubscribe"
  /\ sub' = [sub EXCEPT ![Mailbox] = None]
  /\ pc' = "join"
  /\ UNCHANGED <<db, settings, flags, applied, known, events, missed, history, outside, reloads, at,
                 state>>

Joined == pc = "join" /\ events[Mailbox] = << >>

NoDevice ==
  /\ pc' = "none" /\ at' = 0
  /\ state' = "none" /\ cfg' = None /\ dials' = << >>
  /\ dnd' = FALSE /\ callfwd' = "INACTIVE" /\ callfwdExten' = None
  /\ busy' = FALSE /\ resetOnIdle' = FALSE /\ resetSent' = FALSE
  /\ known' = [s \in Sources |-> 0] /\ missed' = {}

(* The rest of sccp_device_destroy; the phone of a working device is told  *)
(* to reset, and may register again.                                       *)
FreeDevice ==
  /\ Joined
  /\ NoDevice
  /\ UNCHANGED <<db, sub, events, history, outside, reloads>>

(* Asterisk crashes and starts again; only the database is left.           *)
Crash ==
  /\ failures < MaxFailures
  /\ failures' = failures + 1
  /\ cut' = (cut \/ pc = "migrate")
  /\ NoDevice
  /\ reloads' = << >>
  /\ sub' = [s \in Sources |-> None]
  /\ events' = [s \in Sources |-> << >>]
  /\ UNCHANGED <<db, chosen, global, world, changes>>

-----------------------------------------------------------------------------
Registering ==
  \/ RestoreSettings \/ ForgetLine \/ init_voicemail_lamp_state \/ subscribe_mwi
  \/ FetchState \/ AddCallback

Destroying == DelCallback \/ CallbackDeleted \/ unsubscribe_mwi \/ FreeDevice

User ==
  \/ handle_softkey_dnd \/ StartInput \/ set_callforward \/ cancel_callforward_input
  \/ clear_callforward \/ CallStarts \/ CallsEnd

Callbacks == \E s \in Sources : Callback(s)

Next ==
  \/ sccp_device_create \/ Registering \/ User
  \/ Reload \/ sccp_device_reload_config \/ sccp_device_reset
  \/ StateChanges \/ Callbacks \/ EndSession \/ Destroying \/ Crash

Spec == Init /\ [][Next]_vars

(* The session thread goes on when it does not wait for the phone, and     *)
(* Asterisk's threads run the callbacks.                                   *)
FairSpec == Spec /\ WF_vars(Registering) /\ WF_vars(Destroying) /\ WF_vars(Callbacks)

-----------------------------------------------------------------------------
TypeOK ==
  /\ dbDnd \in BOOLEAN /\ dbForward \in Extens \cup {None} /\ dbLine \in Extens \cup {None}
  /\ global \in Cfgs /\ reloads \in Seq(Cfgs)
  /\ pc \in {"none", "created", "migrate", "lamp", "mwi", "blf", "add", "serving",
             "destroy", "del", "unsubscribe", "join"}
  /\ at \in 0 .. MaxDials + 1
  /\ state \in {"none", "NEW", "WORKING", "CONNLOST"}
  /\ cfg \in Cfgs \cup {None} /\ dials \in Seq(DialType)
  /\ dnd \in BOOLEAN /\ cut \in BOOLEAN
  /\ busy \in BOOLEAN /\ resetOnIdle \in BOOLEAN /\ resetSent \in BOOLEAN
  /\ callfwd \in {"INACTIVE", "INPUT", "ACTIVE"} /\ callfwdExten \in Extens \cup {None}
  /\ sub \in [Sources -> Watched \cup {None}] /\ known \in [Sources -> 0 .. 1]
  /\ events \in [Sources -> Seq(0 .. 1)] /\ world \in [Watched -> 0 .. 1]
  /\ chosen \in [dnd : BOOLEAN, forward : Extens \cup {None}]
  /\ missed \subseteq Sources

(* A registered device treats calls as its user last chose, whatever       *)
(* sessions, restarts and crashes came between, and though a former        *)
(* version may have kept the choice elsewhere.  (Unless a crash cut        *)
(* init_callfwd between its two writes: then the line's entry is still     *)
(* there when the user has cleared the device's.)                          *)
SettingsAsChosen ==
  (pc = "serving" /\ ~cut) =>
    /\ dnd = chosen.dnd
    /\ IF callfwd = "ACTIVE" THEN callfwdExten = chosen.forward ELSE chosen.forward = None

(* A device is subscribed to what its configuration says, to the state of  *)
(* each extension that one of its lamps shows and of no other, though a    *)
(* reload changes the configuration under it; and once it is freed nobody  *)
(* calls it back.                                                          *)
SubscriptionsFollowConfig ==
  /\ pc = "serving" => \A s \in Sources : sub[s] = Target(cfg, s)
  /\ pc = "none" => \A s \in Sources : sub[s] = None /\ events[s] = << >>

(* What the device is, and what others know of it. *)
DeviceIsSound == TypeOK /\ SubscriptionsFollowConfig

(* A phone whose device could not take the newest configuration has been   *)
(* asked to reset, or will be as soon as its calls end.                    *)
AppliedOrReset ==
  (pc = "serving" /\ reloads = << >>) =>
    (cfg # global => resetSent \/ (busy /\ resetOnIdle))

(* What the lamps of the phone show is true, once the callbacks have run,  *)
(* but for a change that came after the state was read and before the      *)
(* device had subscribed to it.                                            *)
LampsAreTrue ==
  pc = "serving" =>
    \A s \in Sources \ missed :
      (sub[s] # None /\ events[s] = << >>) => known[s] = world[sub[s]]

(* "Must be called only from the thread session, with the device NOT       *)
(* locked": the session waits for callbacks which wait for the device, and *)
(* yet a device that is to be destroyed is freed.                          *)
DestroyEnds == pc = "destroy" ~> pc = "none"
=============================================================================
