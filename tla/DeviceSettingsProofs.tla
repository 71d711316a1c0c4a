------------------------- MODULE DeviceSettingsProofs -------------------------
(***************************************************************************)
(* Theorems about the settings, the configuration and the subscriptions of *)
(* a device, for any configurations, extensions and bounds.                *)
(***************************************************************************)
EXTENDS DeviceSettings, SequenceTheorems, WellFoundedInduction, TLAPS

(* The device is what its configuration says, and init_callfwd and init_dnd *)
(* have not run when it has just been created.                             *)
Configured ==
  /\ pc # "none" => cfg \in Cfgs /\ dials = cfg.dials
  /\ pc \in {"none", "created"} => callfwd = "INACTIVE"

(* A speed dial that shows a state. *)
(* The speed dial has a lamp. *)
Lamp(i) == i \in DOMAIN dials /\ dials[i].blf

(* How far the session thread is with subscribing, or unsubscribing.       *)
Subscribing ==
  /\ pc \in {"none", "created", "migrate", "lamp", "mwi"} => \A s \in Sources : sub[s] = None
  /\ pc \in {"blf", "add"} =>
       /\ at >= 1
       /\ \A s \in Sources : sub[s] = IF s < at THEN Target(cfg, s) ELSE None
  /\ pc = "add" => Lamp(at)
  /\ pc = "serving" => \A s \in Sources : sub[s] = Target(cfg, s)
  /\ pc \in {"destroy", "del"} =>
       /\ at >= 1
       /\ \A s \in Sources \ {Mailbox} : sub[s] # None => s >= at /\ Lamp(s)
  /\ pc = "del" => Lamp(at) /\ sub[at] = None
  /\ pc = "unsubscribe" => \A s \in Sources \ {Mailbox} : sub[s] = None
  /\ pc = "join" => \A s \in Sources : sub[s] = None

(* A callback that was taken away is still running only where the session  *)
(* thread waits for it.                                                    *)
Quiet ==
  \A s \in Sources :
    (sub[s] = None /\ events[s] # << >>) =>
      (pc = "del" /\ s = at) \/ (pc = "join" /\ s = Mailbox)

(* The last event of a source is its state; without one the lamp is, or    *)
(* will be once the device has subscribed.                                 *)
LampsFollow ==
  \A s \in Sources :
    /\ (sub[s] # None /\ events[s] # << >>) => events[s][Len(events[s])] = world[sub[s]]
    /\ (sub[s] # None /\ events[s] = << >> /\ s \notin missed) => known[s] = world[sub[s]]
    /\ (s \in Unsubscribed /\ Target(cfg, s) # None /\ s \notin missed) =>
         known[s] = world[Target(cfg, s)]

(* The database has what the user chose, and the device what the database  *)
(* has; the entry of the line is forgotten before the user can choose.     *)
SettingsKept ==
  /\ chosen.dnd = dbDnd
  /\ pc \in {"migrate", "lamp", "mwi", "blf", "add", "serving"} =>
       /\ dnd = dbDnd
       /\ pc = "migrate" => callfwd = "ACTIVE"
       /\ IF callfwd = "ACTIVE" THEN callfwdExten = dbForward /\ dbForward # None
                                ELSE dbForward = None
  /\ ~cut =>
       /\ chosen.forward = IF dbForward # None THEN dbForward ELSE dbLine
       /\ (dbForward # None /\ dbLine # None) => pc = "migrate"
       /\ pc \in {"lamp", "mwi", "blf", "add", "serving"} => dbLine = None

(* The last reload message is of the configuration in force; without one   *)
(* the device has it, or the phone is asked to reset.                      *)
Pending ==
  HasDevice =>
    /\ reloads # << >> => reloads[Len(reloads)] = global
    /\ (reloads = << >> /\ cfg # global) => resetSent \/ (busy /\ resetOnIdle)

(* The inductive invariant. *)
SettingsInv ==
  /\ TypeOK /\ Configured /\ Subscribing /\ Quiet
  /\ LampsFollow /\ SettingsKept /\ Pending

-----------------------------------------------------------------------------
(* What the configurations are. *)
LEMMA CfgFacts ==
  ASSUME NEW c \in Cfgs
  PROVE  /\ c.voicemail \in Watched \cup {None}
         /\ c.dials \in Seq(DialType)
         /\ Len(c.dials) \in 0 .. MaxDials /\ DOMAIN c.dials = 1 .. Len(c.dials)
         /\ \A i \in DOMAIN c.dials : c.dials[i].exten \in Watched
<1>1. CfgType(c) /\ MaxDials \in Nat
  BY DeviceSettingsAssumption DEF DeviceSettingsAssumption
<1>2. /\ c.voicemail \in Watched \cup {None}
      /\ c.dials \in Seq(DialType) /\ Len(c.dials) <= MaxDials
  BY <1>1 DEF CfgType
<1>3. /\ Len(c.dials) \in 0 .. MaxDials /\ DOMAIN c.dials = 1 .. Len(c.dials)
      /\ \A i \in DOMAIN c.dials : c.dials[i] \in DialType
  BY <1>1, <1>2
<1>4. \A d \in DialType : d.exten \in Watched
  BY DEF DialType
<1> QED
  BY <1>2, <1>3, <1>4

(* None is no extension and no mailbox; the bounds are numbers. *)
LEMMA ConstantFacts ==
  /\ None \notin Extens /\ None \notin Watched
  /\ MaxDials \in Nat /\ 0 \in Sources /\ Mailbox \in Sources
BY DeviceSettingsAssumption DEF DeviceSettingsAssumption, Sources, Mailbox

(* The target of the mailbox. *)
LEMMA MailboxTarget ==
  ASSUME NEW c \in Cfgs
  PROVE  Target(c, Mailbox) = c.voicemail
BY CfgFacts DEF Target, Mailbox

(* What is last in a queue stays so until it is taken. *)
LEMMA TailLast ==
  ASSUME NEW S, NEW q \in Seq(S), q # << >>
  PROVE  /\ Tail(q) \in Seq(S) /\ Head(q) \in S
         /\ Tail(q) # << >> => Tail(q)[Len(Tail(q))] = q[Len(q)]
         /\ Tail(q) = << >> => Head(q) = q[Len(q)]
<1>1. PICK n \in Nat : Len(q) = n + 1
  <2>1. Len(q) \in Nat /\ Len(q) # 0
    OBVIOUS
  <2>2. Len(q) - 1 \in Nat /\ Len(q) = (Len(q) - 1) + 1
    BY <2>1
  <2> QED
    BY <2>2
<1>2. Tail(q) \in Seq(S) /\ Len(Tail(q)) = n /\ Head(q) = q[1]
  BY <1>1
<1>3. \A i \in 1 .. n : Tail(q)[i] = q[i + 1]
  BY <1>1
<1>4. Tail(q) # << >> => n \in 1 .. n
  BY <1>2
<1>5. Tail(q) # << >> => Tail(q)[n] = q[n + 1]
  BY <1>3, <1>4
<1>6. Tail(q) = << >> => n = 0
  BY <1>2
<1> QED
  BY <1>1, <1>2, <1>5, <1>6

(* What has been appended is last. *)
LEMMA AppendLast ==
  ASSUME NEW S, NEW q \in Seq(S), NEW e \in S
  PROVE  Append(q, e) # << >> /\ Append(q, e)[Len(Append(q, e))] = e
OBVIOUS

(* The first lamp from a speed dial on. *)
LEMMA FirstLamp ==
  ASSUME NEW a \in Int, NEW ds \in Seq(DialType),
         NEW lamps, lamps = {i \in DOMAIN ds : i >= a /\ ds[i].blf}, lamps # {}
  PROVE  LET i == CHOOSE i \in lamps : \A j \in lamps : i <= j
         IN  i \in lamps /\ \A j \in lamps : i <= j
<1>1. lamps \subseteq Nat
  OBVIOUS
<1>2. PICK i \in lamps : \A j \in lamps : ~ (<<j, i>> \in OpToRel(<, Nat))
  BY <1>1, NatLessThanWellFounded, WFMin, Zenon
<1>3. \A j \in lamps : i <= j
  <2> SUFFICES ASSUME NEW j \in lamps PROVE i <= j
    OBVIOUS
  <2>1. <<j, i>> \in Nat \X Nat /\ <<j, i>>[1] = j /\ <<j, i>>[2] = i
    BY <1>1
  <2>2. ~ (j < i)
    BY <1>2, <2>1 DEF OpToRel
  <2> QED
    BY <2>2, <1>1
<1> QED
  BY <1>3

(* FetchState finds the next lamp, or that there is none. *)
LEMMA FetchNext ==
  ASSUME TypeOK, Configured, Subscribing, FetchState
  PROVE  /\ at' \in 0 .. MaxDials + 1 /\ known' \in [Sources -> 0 .. 1]
         /\ pc' \in {"serving", "add"}
         /\ pc' = "serving" =>
              UNCHANGED <<at, known>> /\ \A i \in DOMAIN dials : i >= at => ~dials[i].blf
         /\ pc' = "add" =>
              /\ Lamp(at') /\ at' \in 1 .. MaxDials /\ at' >= at
              /\ \A i \in DOMAIN dials : (i >= at /\ i < at') => ~dials[i].blf
              /\ dials[at'].exten \in Watched
              /\ known' = [known EXCEPT ![at'] = world[dials[at'].exten]]
<1> DEFINE lamps == {i \in DOMAIN dials : i >= at /\ dials[i].blf}
<1>1. dials \in Seq(DialType) /\ at \in Int /\ at \in 0 .. MaxDials + 1 /\ at >= 1
  BY ConstantFacts DEF FetchState, TypeOK, Subscribing
<1>2. Len(dials) \in 0 .. MaxDials /\ DOMAIN dials = 1 .. Len(dials)
      /\ \A i \in DOMAIN dials : dials[i].exten \in Watched
  BY CfgFacts DEF FetchState, Configured
<1>3. CASE lamps = {}
  BY <1>1, <1>3 DEF FetchState, TypeOK
<1>4. CASE lamps # {}
  <2>1. at' = CHOOSE i \in lamps : \A j \in lamps : i <= j
    BY <1>4 DEF FetchState
  <2>2. at' \in lamps /\ \A j \in lamps : at' <= j
    <3> HIDE DEF lamps
    <3>1. lamps = {i \in DOMAIN dials : i >= at /\ dials[i].blf}
      BY DEF lamps
    <3> QED
      BY <1>1, <1>4, <2>1, <3>1, FirstLamp
  <2>3. pc' = "add" /\ known' = [known EXCEPT ![at'] = world[dials[at'].exten]]
    BY <1>4 DEF FetchState
  <2>4. at' \in 1 .. MaxDials /\ at' >= at /\ at' \in 0 .. MaxDials + 1
    BY <1>2, <2>2, ConstantFacts
  <2>5. \A i \in DOMAIN dials : (i >= at /\ i < at') => ~dials[i].blf
    BY <1>1, <1>2, <2>2, <2>4
  <2>6. Lamp(at') /\ dials[at'].exten \in Watched
    BY <1>2, <2>2 DEF Lamp
  <2>7. world[dials[at'].exten] \in 0 .. 1
    BY <2>6 DEF TypeOK
  <2>8. known' \in [Sources -> 0 .. 1]
    BY <2>3, <2>7 DEF TypeOK
  <2> QED
    BY <2>3, <2>4, <2>5, <2>6, <2>8
<1> QED
  BY <1>3, <1>4

(* DelCallback finds the next lamp, or that there is none. *)
LEMMA DelNext ==
  ASSUME TypeOK, Configured, Subscribing, DelCallback
  PROVE  /\ at' \in 0 .. MaxDials + 1 /\ sub' \in [Sources -> Watched \cup {None}]
         /\ pc' \in {"unsubscribe", "del"}
         /\ pc' = "unsubscribe" =>
              UNCHANGED <<at, sub>> /\ \A i \in DOMAIN dials : i >= at => ~dials[i].blf
         /\ pc' = "del" =>
              /\ Lamp(at') /\ at' \in 1 .. MaxDials /\ at' >= at
              /\ \A i \in DOMAIN dials : (i >= at /\ i < at') => ~dials[i].blf
              /\ sub' = [sub EXCEPT ![at'] = None]
<1> DEFINE lamps == {i \in DOMAIN dials : i >= at /\ dials[i].blf}
<1>1. dials \in Seq(DialType) /\ at \in Int /\ at \in 0 .. MaxDials + 1 /\ at >= 1
  BY ConstantFacts DEF DelCallback, TypeOK, Subscribing
<1>2. Len(dials) \in 0 .. MaxDials /\ DOMAIN dials = 1 .. Len(dials)
  BY CfgFacts DEF DelCallback, Configured
<1>3. CASE lamps = {}
  BY <1>1, <1>3 DEF DelCallback, TypeOK
<1>4. CASE lamps # {}
  <2>1. at' = CHOOSE i \in lamps : \A j \in lamps : i <= j
    BY <1>4 DEF DelCallback
  <2>2. at' \in lamps /\ \A j \in lamps : at' <= j
    <3> HIDE DEF lamps
    <3>1. lamps = {i \in DOMAIN dials : i >= at /\ dials[i].blf}
      BY DEF lamps
    <3> QED
      BY <1>1, <1>4, <2>1, <3>1, FirstLamp
  <2>3. pc' = "del" /\ sub' = [sub EXCEPT ![at'] = None]
    BY <1>4 DEF DelCallback
  <2>4. at' \in 1 .. MaxDials /\ at' >= at /\ at' \in 0 .. MaxDials + 1
    BY <1>2, <2>2, ConstantFacts
  <2>5. \A i \in DOMAIN dials : (i >= at /\ i < at') => ~dials[i].blf
    BY <1>1, <1>2, <2>2, <2>4
  <2>6. Lamp(at')
    BY <1>2, <2>2 DEF Lamp
  <2>7. sub' \in [Sources -> Watched \cup {None}]
    BY <2>3 DEF TypeOK
  <2> QED
    BY <2>3, <2>4, <2>5, <2>6, <2>7
<1> QED
  BY <1>3, <1>4

(* Every step keeps the types. *)
LEMMA TypeStep == TypeOK /\ Configured /\ Subscribing /\ Quiet /\ [Next]_vars => TypeOK'
<1> SUFFICES ASSUME TypeOK, Configured, Subscribing, Quiet
             PROVE  [Next]_vars => TypeOK'
  OBVIOUS
<1> USE ConstantFacts
<1> USE DEF vars, db, settings, flags, applied, watching, history, outside, TypeOK
<1>1. ASSUME sccp_device_create PROVE TypeOK'
  <2>1. PICK c \in Cfgs : /\ cfg' = c /\ dials' = c.dials
                            /\ reloads' = IF c = global THEN << >> ELSE <<global>>
    BY <1>1 DEF sccp_device_create
  <2>2. reloads' \in Seq(Cfgs) /\ cfg' \in Cfgs /\ dials' \in Seq(DialType)
    BY <2>1, CfgFacts
  <2> QED
    BY <2>2, <1>1 DEF sccp_device_create
<1>2. ASSUME RestoreSettings PROVE TypeOK'
  BY <1>2 DEF RestoreSettings, init_callfwd
<1>3. ASSUME ForgetLine PROVE TypeOK'
  BY <1>3 DEF ForgetLine
<1>4. ASSUME init_voicemail_lamp_state PROVE TypeOK'
  <2>1. cfg.voicemail # None => world[cfg.voicemail] \in 0 .. 1
    BY <1>4, CfgFacts DEF init_voicemail_lamp_state, Configured
  <2>2. known' \in [Sources -> 0 .. 1]
    BY <2>1, <1>4 DEF init_voicemail_lamp_state
  <2> QED
    BY <2>2, <1>4 DEF init_voicemail_lamp_state
<1>5. ASSUME subscribe_mwi PROVE TypeOK'
  <2>1. cfg.voicemail \in Watched \cup {None}
    BY <1>5, CfgFacts DEF subscribe_mwi, Configured
  <2>2. sub' \in [Sources -> Watched \cup {None}]
    BY <2>1, <1>5 DEF subscribe_mwi
  <2>3. at' \in 0 .. MaxDials + 1
    BY <1>5 DEF subscribe_mwi
  <2> QED
    BY <2>2, <2>3, <1>5 DEF subscribe_mwi
<1>6. ASSUME FetchState PROVE TypeOK'
  <2>1. /\ at' \in 0 .. MaxDials + 1 /\ known' \in [Sources -> 0 .. 1]
        /\ pc' \in {"serving", "add"}
    <3> HIDE DEF TypeOK
    <3> QED
      BY <1>6, FetchNext
  <2> QED
    BY <2>1, <1>6 DEF FetchState
<1>7. ASSUME AddCallback PROVE TypeOK'
  <2>1. dials[at].exten \in Watched /\ at \in 1 .. MaxDials
    BY <1>7, CfgFacts DEF AddCallback, Configured, Subscribing, Lamp
  <2>2. sub' \in [Sources -> Watched \cup {None}]
    BY <2>1, <1>7 DEF AddCallback
  <2>3. at' \in 0 .. MaxDials + 1
    BY <2>1, <1>7 DEF AddCallback
  <2> QED
    BY <2>2, <2>3, <1>7 DEF AddCallback
<1>8. ASSUME handle_softkey_dnd PROVE TypeOK'
  <2>1. dnd' \in BOOLEAN /\ dbDnd' \in BOOLEAN
    BY <1>8, Zenon DEF handle_softkey_dnd
  <2>2. chosen' \in [dnd : BOOLEAN, forward : Extens \cup {None}]
    BY <2>1, <1>8 DEF handle_softkey_dnd
  <2> QED
    BY <2>1, <2>2, <1>8 DEF handle_softkey_dnd
<1>9. ASSUME StartInput PROVE TypeOK'
  BY <1>9 DEF StartInput
<1>10. ASSUME set_callforward PROVE TypeOK'
  <2>1. PICK e \in Extens : callfwdExten' = e /\ dbForward' = e
                            /\ chosen' = [chosen EXCEPT !.forward = e]
    BY <1>10 DEF set_callforward
  <2>2. chosen' \in [dnd : BOOLEAN, forward : Extens \cup {None}]
    BY <2>1
  <2> QED
    BY <2>1, <2>2, <1>10 DEF set_callforward
<1>11. ASSUME cancel_callforward_input PROVE TypeOK'
  BY <1>11 DEF cancel_callforward_input
<1>12. ASSUME clear_callforward PROVE TypeOK'
  <2>1. chosen' \in [dnd : BOOLEAN, forward : Extens \cup {None}]
    BY <1>12 DEF clear_callforward
  <2> QED
    BY <2>1, <1>12 DEF clear_callforward
<1>13. ASSUME CallStarts PROVE TypeOK'
  BY <1>13 DEF CallStarts
<1>14. ASSUME CallsEnd PROVE TypeOK'
  <2>1. busy' \in BOOLEAN /\ resetSent' \in BOOLEAN
    BY <1>14 DEF CallsEnd
  <2> QED
    BY <2>1, <1>14 DEF CallsEnd
<1>15. ASSUME Reload PROVE TypeOK'
  <2>1. PICK c \in Cfgs : global' = c /\ reloads' = IF HasDevice THEN Append(reloads, c) ELSE reloads
    BY <1>15 DEF Reload
  <2>2. reloads' \in Seq(Cfgs)
    BY <2>1
  <2> QED
    BY <2>1, <2>2, <1>15 DEF Reload
<1>16. ASSUME sccp_device_reload_config PROVE TypeOK'
  <2>1. /\ Head(reloads) \in Cfgs /\ reloads' \in Seq(Cfgs)
        /\ cfg' \in {cfg, Head(reloads)} /\ dials' \in {dials, Head(reloads).dials}
    BY <1>16 DEF sccp_device_reload_config
  <2>2. cfg' \in Cfgs \cup {None} /\ dials' \in Seq(DialType)
    BY <2>1, CfgFacts
  <2>3. /\ busy' \in BOOLEAN /\ resetOnIdle' \in BOOLEAN /\ resetSent' \in BOOLEAN
    BY <1>16 DEF sccp_device_reload_config, ResetLater
  <2> QED
    BY <2>1, <2>2, <2>3, <1>16 DEF sccp_device_reload_config
<1>17. ASSUME sccp_device_reset PROVE TypeOK'
  BY <1>17 DEF sccp_device_reset
<1>18. ASSUME StateChanges PROVE TypeOK'
  <2>1. PICK w \in Watched :
          LET told == {s \in Sources : sub[s] = w}
          IN  /\ world' = [world EXCEPT ![w] = 1 - @]
              /\ events' = [s \in Sources |-> IF s \in told THEN Append(events[s], world'[w])
                                                           ELSE events[s]]
              /\ missed' = (missed \ told) \cup {s \in Unsubscribed : Target(cfg, s) = w}
    BY <1>18 DEF StateChanges
  <2>2. world[w] \in 0 .. 1
    OBVIOUS
  <2>3. world' \in [Watched -> 0 .. 1] /\ world'[w] \in 0 .. 1
    BY <2>1, <2>2
  <2>4. events' \in [Sources -> Seq(0 .. 1)]
    BY <2>1, <2>3
  <2>5. missed' \subseteq Sources
    BY <2>1 DEF Unsubscribed
  <2> QED
    BY <2>3, <2>4, <2>5, <1>18 DEF StateChanges
<1>19. ASSUME NEW s \in Sources, Callback(s)
      PROVE  TypeOK'
  BY <1>19 DEF Callback, Reported
<1>20. ASSUME EndSession PROVE TypeOK'
  <2>1. at' \in 0 .. MaxDials + 1 /\ reloads' \in Seq(Cfgs)
    BY <1>20 DEF EndSession
  <2>2. state' \in {"none", "NEW", "WORKING", "CONNLOST"}
    BY <1>20 DEF EndSession
  <2> QED
    BY <2>1, <2>2, <1>20 DEF EndSession
<1>21. ASSUME DelCallback PROVE TypeOK'
  <2>1. /\ at' \in 0 .. MaxDials + 1 /\ sub' \in [Sources -> Watched \cup {None}]
        /\ pc' \in {"unsubscribe", "del"}
    <3> HIDE DEF TypeOK
    <3> QED
      BY <1>21, DelNext
  <2> QED
    BY <2>1, <1>21 DEF DelCallback
<1>22. ASSUME CallbackDeleted PROVE TypeOK'
  <2>1. at \in 1 .. MaxDials
    BY <1>22, CfgFacts DEF CallbackDeleted, Configured, Subscribing, Lamp
  <2>2. at' \in 0 .. MaxDials + 1
    BY <2>1, <1>22 DEF CallbackDeleted
  <2> QED
    BY <2>2, <1>22 DEF CallbackDeleted
<1>23. ASSUME unsubscribe_mwi PROVE TypeOK'
  <2>1. sub' \in [Sources -> Watched \cup {None}]
    BY <1>23 DEF unsubscribe_mwi
  <2> QED
    BY <2>1, <1>23 DEF unsubscribe_mwi
<1>24. ASSUME FreeDevice PROVE TypeOK'
  <2>1. /\ known' \in [Sources -> 0 .. 1] /\ missed' \subseteq Sources
        /\ dials' \in Seq(DialType) /\ at' \in 0 .. MaxDials + 1
    BY <1>24 DEF FreeDevice, NoDevice
  <2> QED
    BY <2>1, <1>24 DEF FreeDevice, NoDevice
<1>25. ASSUME Crash PROVE TypeOK'
  <2>1. /\ known' \in [Sources -> 0 .. 1] /\ missed' \subseteq Sources
        /\ dials' \in Seq(DialType) /\ at' \in 0 .. MaxDials + 1
        /\ reloads' \in Seq(Cfgs)
    BY <1>25 DEF Crash, NoDevice
  <2>2. sub' \in [Sources -> Watched \cup {None}] /\ events' \in [Sources -> Seq(0 .. 1)]
    BY <1>25 DEF Crash
  <2>3. cut' \in BOOLEAN
    BY <1>25 DEF Crash
  <2> QED
    BY <2>1, <2>2, <2>3, <1>25 DEF Crash, NoDevice
<1>26. ASSUME UNCHANGED vars PROVE TypeOK'
  BY <1>26
<1> QED
  BY <1>1, <1>2, <1>3, <1>4, <1>5, <1>6, <1>7, <1>8, <1>9, <1>10, <1>11, <1>12, <1>13, <1>14, <1>15, <1>16, <1>17, <1>18, <1>19, <1>20, <1>21, <1>22, <1>23, <1>24, <1>25, <1>26
     DEF Next, Registering, User, Callbacks, Destroying

(* The device keeps to its configuration. *)
LEMMA ConfiguredStep ==
  ASSUME TypeOK, Configured
  PROVE  [Next]_vars => Configured'
<1> USE ConstantFacts DEF vars, db, settings, flags, applied, watching, history, outside, TypeOK, Configured
<1>1. ASSUME sccp_device_create PROVE Configured'
  BY <1>1 DEF sccp_device_create
<1>2. ASSUME RestoreSettings PROVE Configured'
  BY <1>2 DEF RestoreSettings, init_callfwd
<1>3. ASSUME ForgetLine PROVE Configured'
  BY <1>3 DEF ForgetLine
<1>4. ASSUME init_voicemail_lamp_state PROVE Configured'
  BY <1>4 DEF init_voicemail_lamp_state
<1>5. ASSUME subscribe_mwi PROVE Configured'
  BY <1>5 DEF subscribe_mwi
<1>6. ASSUME FetchState PROVE Configured'
  BY <1>6 DEF FetchState
<1>7. ASSUME AddCallback PROVE Configured'
  BY <1>7 DEF AddCallback
<1>8. ASSUME handle_softkey_dnd PROVE Configured'
  BY <1>8 DEF handle_softkey_dnd
<1>9. ASSUME StartInput PROVE Configured'
  BY <1>9 DEF StartInput
<1>10. ASSUME set_callforward PROVE Configured'
  BY <1>10 DEF set_callforward
<1>11. ASSUME cancel_callforward_input PROVE Configured'
  BY <1>11 DEF cancel_callforward_input
<1>12. ASSUME clear_callforward PROVE Configured'
  BY <1>12 DEF clear_callforward
<1>13. ASSUME CallStarts PROVE Configured'
  BY <1>13 DEF CallStarts
<1>14. ASSUME CallsEnd PROVE Configured'
  BY <1>14 DEF CallsEnd
<1>15. ASSUME Reload PROVE Configured'
  BY <1>15 DEF Reload
<1>16. ASSUME sccp_device_reload_config PROVE Configured'
  BY <1>16 DEF sccp_device_reload_config, ResetLater, sccp_device_test_apply_config, SameDial
<1>17. ASSUME sccp_device_reset PROVE Configured'
  BY <1>17 DEF sccp_device_reset
<1>18. ASSUME StateChanges PROVE Configured'
  BY <1>18 DEF StateChanges
<1>19. ASSUME NEW s \in Sources, Callback(s) PROVE Configured'
  BY <1>19 DEF Callback, Reported
<1>20. ASSUME EndSession PROVE Configured'
  BY <1>20 DEF EndSession
<1>21. ASSUME DelCallback PROVE Configured'
  BY <1>21 DEF DelCallback
<1>22. ASSUME CallbackDeleted PROVE Configured'
  BY <1>22 DEF CallbackDeleted
<1>23. ASSUME unsubscribe_mwi PROVE Configured'
  BY <1>23 DEF unsubscribe_mwi
<1>24. ASSUME FreeDevice PROVE Configured'
  BY <1>24 DEF FreeDevice, Joined, NoDevice
<1>25. ASSUME Crash PROVE Configured'
  BY <1>25 DEF Crash, NoDevice
<1>26. ASSUME UNCHANGED vars PROVE Configured'
  BY <1>26 DEF Unsubscribed, Target, HasDevice
<1> QED
  BY <1>1, <1>2, <1>3, <1>4, <1>5, <1>6, <1>7, <1>8, <1>9, <1>10, <1>11, <1>12, <1>13, <1>14, <1>15, <1>16, <1>17, <1>18, <1>19, <1>20, <1>21, <1>22, <1>23, <1>24, <1>25, <1>26
     DEF Next, Registering, User, Callbacks, Destroying


(* The settings are kept. *)
LEMMA SettingsStep ==
  ASSUME TypeOK, Configured, SettingsKept
  PROVE  [Next]_vars => SettingsKept'
<1> USE ConstantFacts DEF vars, db, settings, flags, applied, watching, history, outside, TypeOK, Configured, SettingsKept
<1>1. ASSUME sccp_device_create PROVE SettingsKept'
  BY <1>1 DEF sccp_device_create
<1>2. ASSUME RestoreSettings PROVE SettingsKept'
  BY <1>2 DEF RestoreSettings, init_callfwd
<1>3. ASSUME ForgetLine PROVE SettingsKept'
  <2>1. dbLine' = None /\ pc = "migrate" /\ pc' = "lamp"
    BY <1>3 DEF ForgetLine
  <2>2. UNCHANGED <<dbDnd, dbForward, dnd, callfwd, callfwdExten, chosen, cut>>
    BY <1>3 DEF ForgetLine
  <2>3. ~cut => chosen.forward = dbForward
    BY <2>1
  <2> QED
    BY <2>1, <2>2, <2>3
<1>4. ASSUME init_voicemail_lamp_state PROVE SettingsKept'
  BY <1>4 DEF init_voicemail_lamp_state
<1>5. ASSUME subscribe_mwi PROVE SettingsKept'
  BY <1>5 DEF subscribe_mwi
<1>6. ASSUME FetchState PROVE SettingsKept'
  BY <1>6 DEF FetchState
<1>7. ASSUME AddCallback PROVE SettingsKept'
  BY <1>7 DEF AddCallback
<1>8. ASSUME handle_softkey_dnd PROVE SettingsKept'
  BY <1>8 DEF handle_softkey_dnd
<1>9. ASSUME StartInput PROVE SettingsKept'
  BY <1>9 DEF StartInput
<1>10. ASSUME set_callforward PROVE SettingsKept'
  BY <1>10 DEF set_callforward
<1>11. ASSUME cancel_callforward_input PROVE SettingsKept'
  BY <1>11 DEF cancel_callforward_input
<1>12. ASSUME clear_callforward PROVE SettingsKept'
  BY <1>12 DEF clear_callforward
<1>13. ASSUME CallStarts PROVE SettingsKept'
  BY <1>13 DEF CallStarts
<1>14. ASSUME CallsEnd PROVE SettingsKept'
  BY <1>14 DEF CallsEnd
<1>15. ASSUME Reload PROVE SettingsKept'
  BY <1>15 DEF Reload
<1>16. ASSUME sccp_device_reload_config PROVE SettingsKept'
  BY <1>16 DEF sccp_device_reload_config, ResetLater, sccp_device_test_apply_config, SameDial
<1>17. ASSUME sccp_device_reset PROVE SettingsKept'
  BY <1>17 DEF sccp_device_reset
<1>18. ASSUME StateChanges PROVE SettingsKept'
  BY <1>18 DEF StateChanges
<1>19. ASSUME NEW s \in Sources, Callback(s) PROVE SettingsKept'
  BY <1>19 DEF Callback, Reported
<1>20. ASSUME EndSession PROVE SettingsKept'
  BY <1>20 DEF EndSession
<1>21. ASSUME DelCallback PROVE SettingsKept'
  BY <1>21 DEF DelCallback
<1>22. ASSUME CallbackDeleted PROVE SettingsKept'
  BY <1>22 DEF CallbackDeleted
<1>23. ASSUME unsubscribe_mwi PROVE SettingsKept'
  BY <1>23 DEF unsubscribe_mwi
<1>24. ASSUME FreeDevice PROVE SettingsKept'
  BY <1>24 DEF FreeDevice, Joined, NoDevice
<1>25. ASSUME Crash PROVE SettingsKept'
  BY <1>25 DEF Crash, NoDevice
<1>26. ASSUME UNCHANGED vars PROVE SettingsKept'
  BY <1>26 DEF Unsubscribed, Target, HasDevice
<1> QED
  BY <1>1, <1>2, <1>3, <1>4, <1>5, <1>6, <1>7, <1>8, <1>9, <1>10, <1>11, <1>12, <1>13, <1>14, <1>15, <1>16, <1>17, <1>18, <1>19, <1>20, <1>21, <1>22, <1>23, <1>24, <1>25, <1>26
     DEF Next, Registering, User, Callbacks, Destroying


(* A reload that is not applied is pending. *)
LEMMA PendingStep ==
  ASSUME TypeOK, Configured, Pending
  PROVE  [Next]_vars => Pending'
<1> USE ConstantFacts DEF vars, db, settings, flags, applied, watching, history, outside, TypeOK, Configured, Pending, HasDevice
<1>1. ASSUME sccp_device_create PROVE Pending'
  BY <1>1 DEF sccp_device_create
<1>2. ASSUME RestoreSettings PROVE Pending'
  BY <1>2 DEF RestoreSettings, init_callfwd
<1>3. ASSUME ForgetLine PROVE Pending'
  BY <1>3 DEF ForgetLine
<1>4. ASSUME init_voicemail_lamp_state PROVE Pending'
  BY <1>4 DEF init_voicemail_lamp_state
<1>5. ASSUME subscribe_mwi PROVE Pending'
  BY <1>5 DEF subscribe_mwi
<1>6. ASSUME FetchState PROVE Pending'
  BY <1>6 DEF FetchState
<1>7. ASSUME AddCallback PROVE Pending'
  BY <1>7 DEF AddCallback
<1>8. ASSUME handle_softkey_dnd PROVE Pending'
  BY <1>8 DEF handle_softkey_dnd
<1>9. ASSUME StartInput PROVE Pending'
  BY <1>9 DEF StartInput
<1>10. ASSUME set_callforward PROVE Pending'
  BY <1>10 DEF set_callforward
<1>11. ASSUME cancel_callforward_input PROVE Pending'
  BY <1>11 DEF cancel_callforward_input
<1>12. ASSUME clear_callforward PROVE Pending'
  BY <1>12 DEF clear_callforward
<1>13. ASSUME CallStarts PROVE Pending'
  BY <1>13 DEF CallStarts
<1>14. ASSUME CallsEnd PROVE Pending'
  BY <1>14 DEF CallsEnd
<1>15. ASSUME Reload PROVE Pending'
  BY <1>15 DEF Reload
<1>16. ASSUME sccp_device_reload_config PROVE Pending'
  <2>1. /\ reloads \in Seq(Cfgs) /\ reloads # << >>
        /\ pc = "serving" /\ pc' = "serving" /\ global' = global
        /\ reloads' = Tail(reloads)
    BY <1>16 DEF sccp_device_reload_config
  <2>2. /\ reloads' # << >> => reloads'[Len(reloads')] = reloads[Len(reloads)]
        /\ reloads' = << >> => Head(reloads) = reloads[Len(reloads)]
    BY <2>1, TailLast
  <2>3. CASE reloads' = << >>
    <3>1. Head(reloads) = global
      BY <2>1, <2>2, <2>3
    <3>2. CASE cfg' = Head(reloads)
      BY <2>1, <2>3, <3>1, <3>2
    <3>3. CASE ResetLater /\ busy' = busy
      BY <2>1, <2>3, <3>3 DEF ResetLater
    <3> QED
      BY <3>2, <3>3, <1>16 DEF sccp_device_reload_config
  <2>4. CASE reloads' # << >>
    BY <2>1, <2>2, <2>4
  <2> QED
    BY <2>3, <2>4
<1>17. ASSUME sccp_device_reset PROVE Pending'
  BY <1>17 DEF sccp_device_reset
<1>18. ASSUME StateChanges PROVE Pending'
  BY <1>18 DEF StateChanges
<1>19. ASSUME NEW s \in Sources, Callback(s) PROVE Pending'
  BY <1>19 DEF Callback, Reported
<1>20. ASSUME EndSession PROVE Pending'
  BY <1>20 DEF EndSession
<1>21. ASSUME DelCallback PROVE Pending'
  BY <1>21 DEF DelCallback
<1>22. ASSUME CallbackDeleted PROVE Pending'
  BY <1>22 DEF CallbackDeleted
<1>23. ASSUME unsubscribe_mwi PROVE Pending'
  BY <1>23 DEF unsubscribe_mwi
<1>24. ASSUME FreeDevice PROVE Pending'
  BY <1>24 DEF FreeDevice, Joined, NoDevice
<1>25. ASSUME Crash PROVE Pending'
  BY <1>25 DEF Crash, NoDevice
<1>26. ASSUME UNCHANGED vars PROVE Pending'
  BY <1>26 DEF Unsubscribed, Target, HasDevice
<1> QED
  BY <1>1, <1>2, <1>3, <1>4, <1>5, <1>6, <1>7, <1>8, <1>9, <1>10, <1>11, <1>12, <1>13, <1>14, <1>15, <1>16, <1>17, <1>18, <1>19, <1>20, <1>21, <1>22, <1>23, <1>24, <1>25, <1>26
     DEF Next, Registering, User, Callbacks, Destroying


(* A configuration that is applied at once watches what the former one did. *)
LEMMA SameTargets ==
  ASSUME cfg \in Cfgs, dials = cfg.dials,
         NEW new \in Cfgs, sccp_device_test_apply_config(new)
  PROVE  \A s \in Sources : Target(new, s) = Target(cfg, s)
<1>1. /\ cfg.voicemail = new.voicemail /\ DOMAIN new.dials = DOMAIN dials
      /\ \A i \in DOMAIN dials : SameDial(dials[i], new.dials[i])
  BY CfgFacts DEF sccp_device_test_apply_config
<1> QED
  BY <1>1 DEF Target, SameDial

(* Every step keeps track of how far the subscriptions are. *)
LEMMA SubscribingStep ==
  ASSUME TypeOK, Configured, Subscribing, Quiet
  PROVE  [Next]_vars => Subscribing'
<1> USE ConstantFacts DEF vars, db, settings, flags, applied, watching, history, outside, TypeOK, Subscribing, Lamp, Target
<1>1. ASSUME sccp_device_create PROVE Subscribing'
  BY <1>1 DEF sccp_device_create
<1>2. ASSUME RestoreSettings PROVE Subscribing'
  BY <1>2 DEF RestoreSettings, init_callfwd
<1>3. ASSUME ForgetLine PROVE Subscribing'
  BY <1>3 DEF ForgetLine
<1>4. ASSUME init_voicemail_lamp_state PROVE Subscribing'
  <2>1. pc = "lamp" /\ pc' = "mwi" /\ UNCHANGED <<at, sub, cfg, dials>>
    BY <1>4 DEF init_voicemail_lamp_state
  <2> QED
    BY <2>1
<1>5. ASSUME subscribe_mwi PROVE Subscribing'
  <2>1. /\ pc = "mwi" /\ pc' = "blf" /\ at' = 1 /\ UNCHANGED <<cfg, dials>>
        /\ sub' = [sub EXCEPT ![Mailbox] = cfg.voicemail]
    BY <1>5 DEF subscribe_mwi
  <2>2. \A s \in Sources : sub'[s] = IF s < 1 THEN Target(cfg, s) ELSE None
    <3> SUFFICES ASSUME NEW s \in Sources
                 PROVE  sub'[s] = IF s < 1 THEN Target(cfg, s) ELSE None
      OBVIOUS
    <3>1. s \in Nat /\ (s < 1 <=> s = Mailbox) /\ sub[s] = None
      BY <2>1 DEF Sources, Mailbox
    <3>2. Target(cfg, Mailbox) = cfg.voicemail
      BY <2>1, MailboxTarget DEF Configured
    <3> HIDE DEF Target
    <3> QED
      BY <2>1, <3>1, <3>2
  <2> HIDE DEF Target
  <2> QED
    BY <2>1, <2>2
<1>6. ASSUME FetchState PROVE Subscribing'
  <2>1. /\ pc = "blf" /\ at >= 1 /\ at \in Int
        /\ \A s \in Sources : sub[s] = IF s < at THEN Target(cfg, s) ELSE None
        /\ UNCHANGED <<sub, cfg, dials>>
    BY <1>6 DEF FetchState
  <2>2. /\ pc' \in {"serving", "add"}
        /\ pc' = "serving" => \A i \in DOMAIN dials : i >= at => ~dials[i].blf
        /\ pc' = "add" => /\ Lamp(at') /\ at' \in 1 .. MaxDials /\ at' >= at
                          /\ \A i \in DOMAIN dials : (i >= at /\ i < at') => ~dials[i].blf
    <3> HIDE DEF TypeOK, Configured, Subscribing, Lamp
    <3> QED
      BY <1>6, FetchNext
  <2>3. cfg \in Cfgs /\ dials = cfg.dials
    BY <2>1 DEF Configured
  <2>4. CASE pc' = "serving"
    <3>1. \A s \in Sources : s >= at => Target(cfg, s) = None
      BY <2>1, <2>2, <2>3, <2>4 DEF Sources, Mailbox
    <3>2. \A s \in Sources : sub[s] = Target(cfg, s)
      BY <2>1, <3>1 DEF Sources
    <3> QED
      BY <2>1, <2>4, <3>2
  <2>5. CASE pc' = "add"
    <3>1. \A s \in Sources : (s >= at /\ s < at') => Target(cfg, s) = None
      BY <2>1, <2>2, <2>3, <2>5 DEF Sources, Mailbox
    <3>2. \A s \in Sources : sub[s] = IF s < at' THEN Target(cfg, s) ELSE None
      BY <2>1, <2>2, <2>5, <3>1 DEF Sources
    <3>3. at' >= 1 /\ Lamp(at')
      BY <2>2, <2>5
    <3> HIDE DEF Target
    <3> QED
      BY <2>1, <2>5, <3>2, <3>3
  <2> QED
    BY <2>2, <2>4, <2>5
<1>7. ASSUME AddCallback PROVE Subscribing'
  <2>1. /\ pc = "add" /\ pc' = "blf" /\ at' = at + 1 /\ UNCHANGED <<cfg, dials>>
        /\ sub' = [sub EXCEPT ![at] = dials[at].exten]
    BY <1>7 DEF AddCallback
  <2>2. cfg \in Cfgs /\ dials = cfg.dials /\ Lamp(at) /\ at >= 1 /\ at \in Int
    BY <2>1 DEF Configured
  <2>3. Target(cfg, at) = dials[at].exten
    BY <2>2 DEF Mailbox
  <2>4. \A s \in Sources : sub'[s] = IF s < at + 1 THEN Target(cfg, s) ELSE None
    <3> SUFFICES ASSUME NEW s \in Sources
                 PROVE  sub'[s] = IF s < at + 1 THEN Target(cfg, s) ELSE None
      OBVIOUS
    <3>1. s \in Int /\ sub[s] = IF s < at THEN Target(cfg, s) ELSE None
      BY <2>1 DEF Sources
    <3> HIDE DEF Target
    <3> QED
      BY <2>1, <2>2, <2>3, <3>1
  <2> HIDE DEF Target
  <2> QED
    BY <2>1, <2>2, <2>4
<1>8. ASSUME handle_softkey_dnd PROVE Subscribing'
  BY <1>8 DEF handle_softkey_dnd
<1>9. ASSUME StartInput PROVE Subscribing'
  BY <1>9 DEF StartInput
<1>10. ASSUME set_callforward PROVE Subscribing'
  BY <1>10 DEF set_callforward
<1>11. ASSUME cancel_callforward_input PROVE Subscribing'
  BY <1>11 DEF cancel_callforward_input
<1>12. ASSUME clear_callforward PROVE Subscribing'
  BY <1>12 DEF clear_callforward
<1>13. ASSUME CallStarts PROVE Subscribing'
  BY <1>13 DEF CallStarts
<1>14. ASSUME CallsEnd PROVE Subscribing'
  BY <1>14 DEF CallsEnd
<1>15. ASSUME Reload PROVE Subscribing'
  BY <1>15 DEF Reload
<1>16. ASSUME sccp_device_reload_config PROVE Subscribing'
  <2> DEFINE new == Head(reloads)
  <2>1. /\ pc = "serving" /\ pc' = "serving" /\ UNCHANGED sub /\ new \in Cfgs
        /\ cfg' = cfg \/ (cfg' = new /\ sccp_device_test_apply_config(new))
    BY <1>16 DEF sccp_device_reload_config
  <2>2. cfg \in Cfgs /\ dials = cfg.dials
    BY <2>1 DEF Configured
  <2>3. \A s \in Sources : Target(cfg', s) = Target(cfg, s)
    <3> HIDE DEF Target, new
    <3> QED
      BY <2>1, <2>2, SameTargets
  <2> HIDE DEF Target
  <2> QED
    BY <2>1, <2>3
<1>17. ASSUME sccp_device_reset PROVE Subscribing'
  BY <1>17 DEF sccp_device_reset
<1>18. ASSUME StateChanges PROVE Subscribing'
  BY <1>18 DEF StateChanges
<1>19. ASSUME NEW s \in Sources, Callback(s) PROVE Subscribing'
  BY <1>19 DEF Callback, Reported
<1>20. ASSUME EndSession PROVE Subscribing'
  <2>1. /\ pc \in {"created", "serving"} /\ pc' = "destroy" /\ at' = 1
        /\ UNCHANGED <<sub, cfg, dials>>
    BY <1>20 DEF EndSession
  <2>2. cfg \in Cfgs /\ dials = cfg.dials
    BY <2>1 DEF Configured
  <2>3. \A s \in Sources \ {Mailbox} : sub[s] # None => s >= 1 /\ Lamp(s)
    BY <2>1, <2>2 DEF Sources, Mailbox
  <2> QED
    BY <2>1, <2>3
<1>21. ASSUME DelCallback PROVE Subscribing'
  <2>1. /\ pc = "destroy" /\ at >= 1 /\ at \in Int /\ UNCHANGED <<cfg, dials>>
        /\ \A s \in Sources \ {Mailbox} : sub[s] # None => s >= at /\ Lamp(s)
    BY <1>21 DEF DelCallback
  <2>2. /\ pc' \in {"unsubscribe", "del"}
        /\ pc' = "unsubscribe" =>
             UNCHANGED <<at, sub>> /\ \A i \in DOMAIN dials : i >= at => ~dials[i].blf
        /\ pc' = "del" =>
             /\ Lamp(at') /\ at' \in 1 .. MaxDials /\ at' >= at
             /\ \A i \in DOMAIN dials : (i >= at /\ i < at') => ~dials[i].blf
             /\ sub' = [sub EXCEPT ![at'] = None]
    <3> HIDE DEF TypeOK, Configured, Subscribing, Lamp
    <3> QED
      BY <1>21, DelNext
  <2>3. CASE pc' = "unsubscribe"
    BY <2>1, <2>2, <2>3
  <2>4. CASE pc' = "del"
    <3>1. \A s \in Sources \ {Mailbox} : sub'[s] # None => s >= at' /\ Lamp(s)
      <4> SUFFICES ASSUME NEW s \in Sources \ {Mailbox}, sub'[s] # None
                   PROVE  s >= at' /\ Lamp(s)
        OBVIOUS
      <4>1. sub[s] # None
        BY <2>2, <2>4
      <4>2. s \in Int /\ s >= at /\ Lamp(s)
        BY <4>1, <2>1 DEF Sources
      <4> QED
        BY <2>2, <2>4, <4>2
    <3>2. sub'[at'] = None
      BY <2>2, <2>4 DEF Sources
    <3> QED
      BY <2>1, <2>2, <2>4, <3>1, <3>2
  <2> QED
    BY <2>2, <2>3, <2>4
<1>22. ASSUME CallbackDeleted PROVE Subscribing'
  BY <1>22 DEF CallbackDeleted
<1>23. ASSUME unsubscribe_mwi PROVE Subscribing'
  BY <1>23 DEF unsubscribe_mwi
<1>24. ASSUME FreeDevice PROVE Subscribing'
  BY <1>24 DEF FreeDevice, Joined, NoDevice
<1>25. ASSUME Crash PROVE Subscribing'
  BY <1>25 DEF Crash, NoDevice
<1>26. ASSUME UNCHANGED vars PROVE Subscribing'
  BY <1>26 DEF Unsubscribed, Target, HasDevice
<1> QED
  BY <1>1, <1>2, <1>3, <1>4, <1>5, <1>6, <1>7, <1>8, <1>9, <1>10, <1>11, <1>12, <1>13, <1>14, <1>15, <1>16, <1>17, <1>18, <1>19, <1>20, <1>21, <1>22, <1>23, <1>24, <1>25, <1>26
     DEF Next, Registering, User, Callbacks, Destroying


(* Callbacks *)
LEMMA QuietStep ==
  ASSUME TypeOK, Configured, Subscribing, Quiet
  PROVE  [Next]_vars => Quiet'
<1> USE ConstantFacts DEF vars, db, settings, flags, applied, watching, history, outside, TypeOK, Quiet
<1>1. ASSUME sccp_device_create PROVE Quiet'
  BY <1>1 DEF sccp_device_create
<1>2. ASSUME RestoreSettings PROVE Quiet'
  BY <1>2 DEF RestoreSettings, init_callfwd
<1>3. ASSUME ForgetLine PROVE Quiet'
  BY <1>3 DEF ForgetLine
<1>4. ASSUME init_voicemail_lamp_state PROVE Quiet'
  <2>1. pc = "lamp" /\ pc' = "mwi" /\ UNCHANGED <<sub, events>>
    BY <1>4 DEF init_voicemail_lamp_state
  <2> QED
    BY <2>1
<1>5. ASSUME subscribe_mwi PROVE Quiet'
  <2>1. pc = "mwi" /\ pc' = "blf" /\ sub' = [sub EXCEPT ![Mailbox] = cfg.voicemail]
        /\ UNCHANGED events /\ \A s \in Sources : sub[s] = None
    BY <1>5 DEF subscribe_mwi, Subscribing
  <2> QED
    BY <2>1
<1>6. ASSUME FetchState PROVE Quiet'
  <2>1. pc = "blf" /\ UNCHANGED <<sub, events>>
    BY <1>6 DEF FetchState
  <2> QED
    BY <2>1
<1>7. ASSUME AddCallback PROVE Quiet'
  <2>1. pc = "add" /\ sub' = [sub EXCEPT ![at] = dials[at].exten] /\ UNCHANGED events
    BY <1>7 DEF AddCallback
  <2>2. \A s \in Sources : events[s] # << >> => sub[s] # None
    BY <2>1
  <2>3. at \in 1 .. MaxDials
    BY <1>7, CfgFacts DEF AddCallback, Configured, Subscribing, Lamp
  <2>4. sub[at] = None
    BY <1>7, <2>3 DEF AddCallback, Subscribing, Sources
  <2> QED
    BY <2>1, <2>2, <2>4
<1>8. ASSUME handle_softkey_dnd PROVE Quiet'
  BY <1>8 DEF handle_softkey_dnd
<1>9. ASSUME StartInput PROVE Quiet'
  BY <1>9 DEF StartInput
<1>10. ASSUME set_callforward PROVE Quiet'
  BY <1>10 DEF set_callforward
<1>11. ASSUME cancel_callforward_input PROVE Quiet'
  BY <1>11 DEF cancel_callforward_input
<1>12. ASSUME clear_callforward PROVE Quiet'
  BY <1>12 DEF clear_callforward
<1>13. ASSUME CallStarts PROVE Quiet'
  BY <1>13 DEF CallStarts
<1>14. ASSUME CallsEnd PROVE Quiet'
  BY <1>14 DEF CallsEnd
<1>15. ASSUME Reload PROVE Quiet'
  BY <1>15 DEF Reload
<1>16. ASSUME sccp_device_reload_config PROVE Quiet'
  BY <1>16 DEF sccp_device_reload_config, ResetLater, sccp_device_test_apply_config, SameDial
<1>17. ASSUME sccp_device_reset PROVE Quiet'
  BY <1>17 DEF sccp_device_reset
<1>18. ASSUME StateChanges PROVE Quiet'
  BY <1>18 DEF StateChanges
<1>19. ASSUME NEW s \in Sources, Callback(s) PROVE Quiet'
  BY <1>19 DEF Callback, Reported
<1>20. ASSUME EndSession PROVE Quiet'
  BY <1>20 DEF EndSession
<1>21. ASSUME DelCallback PROVE Quiet'
  BY <1>21 DEF DelCallback
<1>22. ASSUME CallbackDeleted PROVE Quiet'
  BY <1>22 DEF CallbackDeleted
<1>23. ASSUME unsubscribe_mwi PROVE Quiet'
  BY <1>23 DEF unsubscribe_mwi
<1>24. ASSUME FreeDevice PROVE Quiet'
  BY <1>24 DEF FreeDevice, Joined, NoDevice
<1>25. ASSUME Crash PROVE Quiet'
  BY <1>25 DEF Crash, NoDevice
<1>26. ASSUME UNCHANGED vars PROVE Quiet'
  BY <1>26 DEF Unsubscribed, Target, HasDevice
<1> QED
  BY <1>1, <1>2, <1>3, <1>4, <1>5, <1>6, <1>7, <1>8, <1>9, <1>10, <1>11, <1>12, <1>13, <1>14, <1>15, <1>16, <1>17, <1>18, <1>19, <1>20, <1>21, <1>22, <1>23, <1>24, <1>25, <1>26
     DEF Next, Registering, User, Callbacks, Destroying


(* Lamps *)
LEMMA LampsStep ==
  ASSUME TypeOK, Configured, Subscribing, Quiet, LampsFollow
  PROVE  [Next]_vars => LampsFollow'
<1> USE ConstantFacts DEF vars, db, settings, flags, applied, watching, history, outside, TypeOK, LampsFollow, Unsubscribed, Target
<1>1. ASSUME sccp_device_create PROVE LampsFollow'
  BY <1>1 DEF sccp_device_create
<1>2. ASSUME RestoreSettings PROVE LampsFollow'
  BY <1>2 DEF RestoreSettings, init_callfwd
<1>3. ASSUME ForgetLine PROVE LampsFollow'
  BY <1>3 DEF ForgetLine
<1>4. ASSUME init_voicemail_lamp_state PROVE LampsFollow'
  <2>1. /\ pc = "lamp" /\ pc' = "mwi" /\ UNCHANGED <<at, sub, events, missed, world, cfg, dials>>
        /\ \A s \in Sources : sub[s] = None
        /\ known' = IF cfg.voicemail # None THEN [known EXCEPT ![Mailbox] = world[cfg.voicemail]]
                                            ELSE known
    BY <1>4 DEF init_voicemail_lamp_state, Subscribing
  <2>2. \A s \in Sources : s \in Unsubscribed' <=> s = Mailbox
    BY <2>1
  <2>3. Target(cfg, Mailbox) # None => known'[Mailbox] = world[Target(cfg, Mailbox)]
    <3>1. Target(cfg, Mailbox) = cfg.voicemail
      BY <2>1, MailboxTarget DEF Configured
    <3> HIDE DEF Target
    <3> QED
      BY <2>1, <3>1
  <2> HIDE DEF Target, Unsubscribed
  <2> QED
    BY <2>1, <2>2, <2>3 DEF Target
<1>5. ASSUME subscribe_mwi PROVE LampsFollow'
  <2>1. /\ pc = "mwi" /\ pc' = "blf" /\ UNCHANGED <<events, missed, world, known, cfg, dials>>
        /\ sub' = [sub EXCEPT ![Mailbox] = cfg.voicemail]
        /\ \A s \in Sources : sub[s] = None /\ events[s] = << >>
    BY <1>5 DEF subscribe_mwi, Subscribing, Quiet
  <2>2. Unsubscribed' = {}
    BY <2>1
  <2>3. Mailbox \in Unsubscribed /\ Target(cfg, Mailbox) = cfg.voicemail
    <3>1. Target(cfg, Mailbox) = cfg.voicemail
      BY <2>1, MailboxTarget DEF Configured
    <3> HIDE DEF Target
    <3> QED
      BY <2>1, <3>1
  <2>4. (cfg.voicemail # None /\ Mailbox \notin missed) => known[Mailbox] = world[cfg.voicemail]
    BY <2>3
  <2> HIDE DEF Target, Unsubscribed
  <2> QED
    BY <2>1, <2>2, <2>4
<1>6. ASSUME FetchState PROVE LampsFollow'
  <2>1. /\ pc = "blf" /\ UNCHANGED <<sub, events, missed, world, cfg, dials>>
        /\ \A s \in Sources : sub[s] = IF s < at THEN Target(cfg, s) ELSE None
    BY <1>6 DEF FetchState, Subscribing
  <2>2. /\ pc' \in {"serving", "add"}
        /\ pc' = "serving" => known' = known
        /\ pc' = "add" => /\ Lamp(at') /\ at' \in 1 .. MaxDials /\ at' >= at
                          /\ known' = [known EXCEPT ![at'] = world[dials[at'].exten]]
    <3> HIDE DEF TypeOK, Configured, Subscribing, Lamp
    <3> QED
      BY <1>6, FetchNext
  <2>3. CASE pc' = "serving"
    BY <2>1, <2>2, <2>3
  <2>4. CASE pc' = "add"
    <3>1. cfg \in Cfgs /\ dials = cfg.dials
      BY <2>1 DEF Configured
    <3>2. at' \in Sources /\ sub[at'] = None
      BY <2>1, <2>2, <2>4 DEF Sources
    <3>3. Target(cfg, at') = dials[at'].exten
      BY <2>2, <2>4, <3>1 DEF Lamp, Mailbox
    <3>4. known'[at'] = world[Target(cfg, at')]
      BY <2>2, <2>4, <3>2, <3>3
    <3>5. \A s \in Sources : s \in Unsubscribed' <=> s = at'
      BY <2>4
    <3>6. \A s \in Sources : s # at' => known'[s] = known[s]
      BY <2>2, <2>4
    <3> HIDE DEF Target, Unsubscribed
    <3> QED
      BY <2>1, <3>2, <3>4, <3>5, <3>6 DEF Target
  <2> QED
    BY <2>2, <2>3, <2>4
<1>7. ASSUME AddCallback PROVE LampsFollow'
  <2>1. /\ pc = "add" /\ pc' = "blf" /\ UNCHANGED <<events, missed, world, known, cfg, dials>>
        /\ sub' = [sub EXCEPT ![at] = dials[at].exten]
        /\ Lamp(at) /\ at >= 1
    BY <1>7 DEF AddCallback, Subscribing
  <2>2. cfg \in Cfgs /\ dials = cfg.dials /\ at \in 1 .. MaxDials
    BY <2>1, CfgFacts DEF Configured, Lamp
  <2>3. at \in Sources /\ sub[at] = None
    BY <2>1, <2>2 DEF Subscribing, Sources
  <2>4. events[at] = << >>
    BY <2>1, <2>3 DEF Quiet
  <2>5. Target(cfg, at) = dials[at].exten
    BY <2>1, <2>2 DEF Lamp, Mailbox
  <2>6. at \in Unsubscribed
    BY <2>1, <2>3
  <2>7. (dials[at].exten # None /\ at \notin missed) => known[at] = world[dials[at].exten]
    BY <2>3, <2>5, <2>6
  <2>8. Unsubscribed' = {}
    BY <2>1
  <2> HIDE DEF Target, Unsubscribed
  <2> QED
    BY <2>1, <2>3, <2>4, <2>7, <2>8
<1>8. ASSUME handle_softkey_dnd PROVE LampsFollow'
  BY <1>8 DEF handle_softkey_dnd
<1>9. ASSUME StartInput PROVE LampsFollow'
  BY <1>9 DEF StartInput
<1>10. ASSUME set_callforward PROVE LampsFollow'
  BY <1>10 DEF set_callforward
<1>11. ASSUME cancel_callforward_input PROVE LampsFollow'
  BY <1>11 DEF cancel_callforward_input
<1>12. ASSUME clear_callforward PROVE LampsFollow'
  BY <1>12 DEF clear_callforward
<1>13. ASSUME CallStarts PROVE LampsFollow'
  BY <1>13 DEF CallStarts
<1>14. ASSUME CallsEnd PROVE LampsFollow'
  BY <1>14 DEF CallsEnd
<1>15. ASSUME Reload PROVE LampsFollow'
  BY <1>15 DEF Reload
<1>16. ASSUME sccp_device_reload_config PROVE LampsFollow'
  BY <1>16 DEF sccp_device_reload_config, ResetLater, sccp_device_test_apply_config, SameDial
<1>17. ASSUME sccp_device_reset PROVE LampsFollow'
  BY <1>17 DEF sccp_device_reset
<1>18. ASSUME StateChanges PROVE LampsFollow'
  <2>1. PICK w \in Watched :
          /\ world' = [world EXCEPT ![w] = 1 - @]
          /\ events' = [s \in Sources |-> IF sub[s] = w THEN Append(events[s], world'[w])
                                                       ELSE events[s]]
          /\ missed' = (missed \ {s \in Sources : sub[s] = w})
                       \cup {s \in Unsubscribed : Target(cfg, s) = w}
    <3> HIDE DEF TypeOK, LampsFollow, Unsubscribed, Target
    <3> QED
      BY <1>18 DEF StateChanges
  <2>2. UNCHANGED <<sub, known, cfg, dials, pc, at>>
    BY <1>18 DEF StateChanges
  <2>3. Unsubscribed' = Unsubscribed
    BY <2>2
  <2>4. \A s \in Sources : Target(cfg, s)' = Target(cfg, s)
    BY <2>2
  <2> SUFFICES ASSUME NEW s \in Sources
               PROVE  /\ (sub[s] # None /\ events'[s] # << >>) =>
                           events'[s][Len(events'[s])] = world'[sub[s]]
                      /\ (sub[s] # None /\ events'[s] = << >> /\ s \notin missed') =>
                           known[s] = world'[sub[s]]
                      /\ (s \in Unsubscribed /\ Target(cfg, s) # None /\ s \notin missed') =>
                           known[s] = world'[Target(cfg, s)]
    <3> HIDE DEF Target, Unsubscribed
    <3> QED
      BY <2>2, <2>3, <2>4
  <2>5. \A v : v # w => world'[v] = world[v]
    BY <2>1
  <2> HIDE DEF Target, Unsubscribed
  <2>6. CASE sub[s] = w
    <3>1. events'[s] = Append(events[s], world'[w]) /\ events[s] \in Seq(0 .. 1)
      BY <2>1, <2>6
    <3>2. world'[w] \in 0 .. 1
      BY <2>1
    <3>4. events'[s] # << >> /\ events'[s][Len(events'[s])] = world'[w]
      <4>1. Append(events[s], world'[w]) # << >>
            /\ Append(events[s], world'[w])[Len(Append(events[s], world'[w]))] = world'[w]
        <5> HIDE DEF TypeOK, LampsFollow
        <5> QED
          BY <3>1, <3>2, AppendLast
      <4> QED
        BY <3>1, <4>1, Zenon
    <3>3. s \notin Unsubscribed
      BY <2>6 DEF Unsubscribed, Subscribing, Sources
    <3> QED
      BY <2>6, <3>4, <3>3
  <2>7. CASE sub[s] # w
    <3>1. events'[s] = events[s] /\ (s \notin missed' => s \notin missed)
      BY <2>1, <2>7
    <3>2. (s \in Unsubscribed /\ s \notin missed') => Target(cfg, s) # w
      BY <2>1
    <3> QED
      BY <2>5, <2>7, <3>1, <3>2
  <2> QED
    BY <2>6, <2>7
<1>19. ASSUME NEW s \in Sources, Callback(s) PROVE LampsFollow'
  <2>1. /\ events[s] # << >> /\ events' = [events EXCEPT ![s] = Tail(@)]
        /\ known' = [known EXCEPT ![s] = Head(events[s])]
        /\ UNCHANGED <<sub, missed, world, cfg, dials, pc, at>>
    BY <1>19 DEF Callback, Reported
  <2>2. \A t \in Sources : t # s => events'[t] = events[t] /\ known'[t] = known[t]
    BY <2>1
  <2>3. s \notin Unsubscribed
    BY <2>1 DEF Quiet, Subscribing, Sources
  <2>4. /\ events'[s] # << >> => events'[s][Len(events'[s])] = events[s][Len(events[s])]
        /\ events'[s] = << >> => known'[s] = events[s][Len(events[s])]
    <3>1. events[s] \in Seq(0 .. 1) /\ events'[s] = Tail(events[s]) /\ known'[s] = Head(events[s])
      BY <2>1
    <3> QED
      BY <2>1, <3>1, TailLast
  <2>5. Unsubscribed' = Unsubscribed /\ \A t \in Sources : Target(cfg', t) = Target(cfg, t)
    BY <2>1
  <2> HIDE DEF Target, Unsubscribed
  <2>6. ASSUME NEW t \in Sources
        PROVE  /\ (sub[t] # None /\ events'[t] # << >>) =>
                    events'[t][Len(events'[t])] = world[sub[t]]
               /\ (sub[t] # None /\ events'[t] = << >> /\ t \notin missed) =>
                    known'[t] = world[sub[t]]
               /\ (t \in Unsubscribed /\ Target(cfg, t) # None /\ t \notin missed) =>
                    known'[t] = world[Target(cfg, t)]
    <3>1. CASE t = s
      BY <3>1, <2>1, <2>3, <2>4
    <3>2. CASE t # s
      BY <3>2, <2>2
    <3> QED
      BY <3>1, <3>2
  <2>7. UNCHANGED <<sub, missed, world>>
    BY <2>1
  <2> QED
    BY <2>5, <2>6, <2>7
<1>20. ASSUME EndSession PROVE LampsFollow'
  BY <1>20 DEF EndSession
<1>21. ASSUME DelCallback PROVE LampsFollow'
  BY <1>21 DEF DelCallback
<1>22. ASSUME CallbackDeleted PROVE LampsFollow'
  BY <1>22 DEF CallbackDeleted
<1>23. ASSUME unsubscribe_mwi PROVE LampsFollow'
  BY <1>23 DEF unsubscribe_mwi
<1>24. ASSUME FreeDevice PROVE LampsFollow'
  <2>1. \A s \in Sources : sub'[s] = None
    BY <1>24 DEF FreeDevice, Joined, Subscribing
  <2>2. Unsubscribed' = {}
    BY <1>24 DEF FreeDevice, NoDevice
  <2> HIDE DEF Unsubscribed
  <2> QED
    BY <2>1, <2>2
<1>25. ASSUME Crash PROVE LampsFollow'
  BY <1>25 DEF Crash, NoDevice
<1>26. ASSUME UNCHANGED vars PROVE LampsFollow'
  BY <1>26 DEF Unsubscribed, Target, HasDevice
<1> QED
  BY <1>1, <1>2, <1>3, <1>4, <1>5, <1>6, <1>7, <1>8, <1>9, <1>10, <1>11, <1>12, <1>13, <1>14, <1>15, <1>16, <1>17, <1>18, <1>19, <1>20, <1>21, <1>22, <1>23, <1>24, <1>25, <1>26
     DEF Next, Registering, User, Callbacks, Destroying

-----------------------------------------------------------------------------
(* The database, the configuration and the world may have any values that  *)
(* Init allows: nothing is known of the device before it exists.           *)
LEMMA InitSettingsInv == Init => SettingsInv
<1> SUFFICES ASSUME Init PROVE SettingsInv
  OBVIOUS
<1> USE ConstantFacts DEF Init
<1>1. TypeOK
  <2>1. chosen \in [dnd : BOOLEAN, forward : Extens \cup {None}]
    OBVIOUS
  <2> QED
    BY <2>1 DEF TypeOK
<1>2. Configured /\ Subscribing /\ Quiet
  BY DEF Configured, Subscribing, Quiet
<1>3. LampsFollow
  BY DEF LampsFollow, Unsubscribed
<1>4. SettingsKept
  BY DEF SettingsKept
<1>5. Pending
  BY DEF Pending, HasDevice
<1> QED
  BY <1>1, <1>2, <1>3, <1>4, <1>5 DEF SettingsInv

(* The parts together. *)
LEMMA SettingsInvStep == SettingsInv /\ [Next]_vars => SettingsInv'
BY TypeStep, ConfiguredStep, SubscribingStep, QuietStep, LampsStep, SettingsStep, PendingStep
   DEF SettingsInv

(* What a device is, has, watches and will be told, at any time. *)
THEOREM SettingsInvariant == Spec => []SettingsInv
BY InitSettingsInv, SettingsInvStep, PTL DEF Spec

(* A registered device treats calls as its user last chose, through any    *)
(* number of sessions, restarts and crashes (init_dnd, init_callfwd,       *)
(* handle_softkey_dnd, sccp_device_set_callforward, _clear_callforward).   *)
THEOREM DeviceSettingsAsChosen == Spec => []SettingsAsChosen
<1>1. SettingsInv => SettingsAsChosen
  BY DEF SettingsInv, SettingsKept, SettingsAsChosen
<1> QED
  BY <1>1, SettingsInvariant, PTL

(* A device is subscribed to what its configuration says, for any speed    *)
(* dials and whatever reloads, and a freed device is never called back.    *)
THEOREM DeviceSubscriptions == Spec => []DeviceIsSound
<1>1. SettingsInv => DeviceIsSound
  BY DEF SettingsInv, Subscribing, Quiet, DeviceIsSound, SubscriptionsFollowConfig
<1> QED
  BY <1>1, SettingsInvariant, PTL

(* A reload is applied, or the phone is asked to reset, at once or when    *)
(* its calls end (sccp_device_reload_config, sccp_device_on_idle).         *)
THEOREM DeviceConfigApplied == Spec => []AppliedOrReset
<1>1. SettingsInv => AppliedOrReset
  BY DEF SettingsInv, Pending, HasDevice, AppliedOrReset
<1> QED
  BY <1>1, SettingsInvariant, PTL

(* The lamps tell the truth, but for the states that were read before the  *)
(* device subscribed to them.                                              *)
THEOREM DeviceLamps == Spec => []LampsAreTrue
<1>1. SettingsInv => LampsAreTrue
  BY DEF SettingsInv, LampsFollow, LampsAreTrue
<1> QED
  BY <1>1, SettingsInvariant, PTL
=============================================================================
