------------------------------ MODULE Registry ------------------------------
(***************************************************************************)
(* The device registry (sccp_device_registry.c) among its users:           *)
(*                                                                         *)
(*   - session threads (sccp_session.c) that create a device when a phone  *)
(*     registers, add it, reload it, and in the end remove and destroy it; *)
(*   - threads of Asterisk that look up a line (sccp.c), to call it or to  *)
(*     know its state, or a device, to reset it from the CLI;              *)
(*   - the main thread, which reloads the configuration and unloads.       *)
(*                                                                         *)
(* The registry's operations run under its mutex: each is one step.        *)
(* Devices and lines are reference-counted objects; a device has one line, *)
(* so a line is known here by its device.  How a new configuration reaches *)
(* a session is the subject of Server: here it arrives late, and in order. *)
(***************************************************************************)
EXTENDS Integers, FiniteSets

CONSTANTS
  Sessions, Lookups,   \* threads
  Devices,             \* the struct sccp_device objects, each allocated once
  Names,               \* the names with which phones register
  Lines,               \* the names of lines
  None,                \* no device, no line
  LastCfg,             \* bound: configurations are numbered 0 .. LastCfg
  DeviceLine,          \* the line of each name that a configuration defines, or None
  GuestLine,           \* the line of its guest device, None if guests are refused
  MaxGuests            \* its limit of guest devices

Cfg == 0 .. LastCfg

ASSUME RegistryAssumption ==
  /\ IsFiniteSet(Devices) /\ IsFiniteSet(Lookups)
  /\ None \notin Devices \cup Lines
  /\ LastCfg \in Nat
  /\ DeviceLine \in [Cfg -> [Names -> Lines \cup {None}]]
  /\ GuestLine \in [Cfg -> Lines \cup {None}]
  /\ MaxGuests \in [Cfg -> Nat]

VARIABLES
  (* struct sccp_device_registry *)
  devices, lines, cur_guests, max_guests,
  (* the device objects: name, guest, line; state; references to a device  *)
  (* and to its line                                                       *)
  dev, state, refs, lineRefs,
  (* the session threads: where they are, session->device (or the device   *)
  (* that sccp_session_handle_msg_register is adding), ->cfg, ->stop       *)
  pc, device, cfg, stop,
  look,       \* what each looking-up thread holds a reference to
  main,       \* where the main thread is
  globalCfg,  \* the configuration sccp_config_get returns
  devstate    \* the state of each line as Asterisk was last told

registryVars == <<devices, lines, cur_guests, max_guests>>
deviceVars   == <<dev, state, refs, lineRefs>>
sessionVars  == <<pc, device, cfg, stop>>
mainVars     == <<main, globalCfg>>
vars == <<registryVars, deviceVars, sessionVars, look, mainVars, devstate>>

NoAttributes == [name |-> None, guest |-> FALSE, line |-> None]
Nothing      == [holds |-> "nothing", device |-> None]

Init ==
  /\ devices = {} /\ lines = {} /\ cur_guests = 0 /\ max_guests = MaxGuests[0]
  /\ dev = [d \in Devices |-> NoAttributes]
  /\ state = [d \in Devices |-> "unallocated"]
  /\ refs = [d \in Devices |-> 0]
  /\ lineRefs = [d \in Devices |-> 0]
  /\ pc = [s \in Sessions |-> "none"]
  /\ device = [s \in Sessions |-> None]
  /\ cfg = [s \in Sessions |-> 0]
  /\ stop = [s \in Sessions |-> FALSE]
  /\ look = [l \in Lookups |-> Nothing]
  /\ main = "loaded"
  /\ globalCfg = 0
  /\ devstate = [n \in Lines |-> "UNKNOWN"]

-----------------------------------------------------------------------------
(* Objects.                                                                *)

Count(P) == IF P THEN 1 ELSE 0

Refer(d) == refs' = [refs EXCEPT ![d] = @ + 1]

Unrefer(d) == refs' = [refs EXCEPT ![d] = @ - 1]

ReferLine(d) == lineRefs' = [lineRefs EXCEPT ![d] = @ + 1]

\* Variant for the mutation runs: the device is given back with each
\* reference to its line.
UnreferLine_Always(d, n) ==
  /\ lineRefs' = [lineRefs EXCEPT ![d] = @ - 1]
  /\ refs' = [refs EXCEPT ![d] = @ - n - 1]

(* A reference to the line is given back, and n references to the device:  *)
(* the last reference to the line takes with it the one that the line has  *)
(* to its device (sccp_line_destructor).                                   *)
UnreferLine(d, n) ==
  /\ lineRefs' = [lineRefs EXCEPT ![d] = @ - 1]
  /\ refs' = [refs EXCEPT ![d] = @ - n - Count(lineRefs[d] = 1)]

(* sccp_cfg_find_device_or_guest, and what a device takes from the result. *)
CfgFor(c, n) ==
  IF DeviceLine[c][n] # None
  THEN [name |-> n, guest |-> FALSE, line |-> DeviceLine[c][n]]
  ELSE [name |-> n, guest |-> TRUE, line |-> GuestLine[c]]

IsFound(c, n) == CfgFor(c, n).line # None

(* sccp_device_create: one reference for the session, one for the line,    *)
(* whose only reference is the device's.                                   *)
CreateDevice(d, attributes) ==
  /\ state[d] = "unallocated"
  /\ state' = [state EXCEPT ![d] = "NEW"]
  /\ dev' = [dev EXCEPT ![d] = attributes]
  /\ refs' = [refs EXCEPT ![d] = 2]
  /\ lineRefs' = [lineRefs EXCEPT ![d] = 1]

(* sccp_device_destroy, which tells Asterisk that the line is unavailable, *)
(* and the reference of the session that calls it.                         *)
DestroyDevice(d) ==
  /\ state' = [state EXCEPT ![d] = "DESTROYED"]
  /\ UnreferLine(d, 1)
  /\ devstate' = [devstate EXCEPT ![dev[d].line] = "UNAVAILABLE"]
  /\ UNCHANGED dev

-----------------------------------------------------------------------------
(* The registry, under its mutex.  A container holds a reference to what   *)
(* is linked in it.                                                        *)

\* Variant for the mutation runs: the limit is off by one.
GuestsAreFull_OffByOne == cur_guests > max_guests

\* Variant for the mutation runs: guests are not told apart by their names.
NameIsTaken_ByConfigured(n) == \E d \in devices : dev[d].name = n /\ ~dev[d].guest

(* The two reasons to refuse a device.                                     *)
GuestsAreFull  == cur_guests >= max_guests
NameIsTaken(n) == \E d \in devices : dev[d].name = n
Refused(d)     == (dev[d].guest /\ GuestsAreFull) \/ NameIsTaken(dev[d].name)

(* sccp_device_registry_add when every allocation succeeds.                *)
Add(d) ==
  /\ ~Refused(d)
  /\ devices' = devices \cup {d}
  /\ lines' = lines \cup {d}
  /\ cur_guests' = cur_guests + Count(dev[d].guest)
  /\ Refer(d)
  /\ ReferLine(d)
  /\ UNCHANGED <<max_guests, dev, state>>

(* ... when the device cannot be linked, or its line cannot: the device,   *)
(* which was linked, is then unlinked.                                     *)
AddFails(d) ==
  /\ ~Refused(d)
  /\ devices' \in {devices, (devices \cup {d}) \ {d}}
  /\ UNCHANGED <<lines, cur_guests, max_guests, deviceVars>>

(* sccp_device_registry_remove.                                            *)
Remove(d) ==
  /\ devices' = devices \ {d}
  /\ lines' = lines \ {d}
  /\ cur_guests' = IF dev[d].guest /\ cur_guests > 0 THEN cur_guests - 1 ELSE cur_guests
  /\ UnreferLine(d, 1)
  /\ UNCHANGED <<max_guests, dev, state>>

-----------------------------------------------------------------------------
(* A session thread.                                                       *)

Goes(s, from, to) ==
  /\ pc[s] = from
  /\ pc' = [pc EXCEPT ![s] = to]

(* sccp_session_transmit_msg: a message that cannot be sent stops the      *)
(* session.                                                                *)
Transmit(s) == stop' \in {stop, [stop EXCEPT ![s] = TRUE]}

(* The server accepts the phone with the configuration that it has.        *)
Accept(s) ==
  /\ main # "unloaded"
  /\ Goes(s, "none", "loop")
  /\ \E c \in 0 .. globalCfg : cfg' = [cfg EXCEPT ![s] = c]
  /\ UNCHANGED <<registryVars, deviceVars, device, stop, look, mainVars, devstate>>

(* sccp_session_handle_msg_register up to the creation of the device.  A   *)
(* phone that is not configured, or a device that cannot be created, is    *)
(* refused by a message only (and Stop when it cannot be sent).            *)
HandleRegister(s, n) ==
  /\ Goes(s, "loop", "add")
  /\ device[s] = None
  /\ IsFound(cfg[s], n)
  /\ \E d \in Devices :
       /\ CreateDevice(d, CfgFor(cfg[s], n))
       /\ device' = [device EXCEPT ![s] = d]
  /\ UNCHANGED <<registryVars, cfg, stop, look, mainVars, devstate>>

(* ... sccp_device_registry_add, whose result is 0 ...                     *)
RegistryAdd(s) ==
  /\ Goes(s, "add", "success")
  /\ Add(device[s])
  /\ UNCHANGED <<device, cfg, stop, look, mainVars, devstate>>

(* ... or not.                                                             *)
RegistryAddRefused(s) ==
  /\ Goes(s, "add", "refused")
  /\ \/ Refused(device[s]) /\ UNCHANGED <<registryVars, deviceVars>>
     \/ AddFails(device[s])
  /\ UNCHANGED <<device, cfg, stop, look, mainVars, devstate>>

(* ... The device that is refused is destroyed.                            *)
RegisterRejected(s) ==
  /\ Goes(s, "refused", "loop")
  /\ DestroyDevice(device[s])
  /\ device' = [device EXCEPT ![s] = None]
  /\ Transmit(s)
  /\ UNCHANGED <<registryVars, cfg, look, mainVars>>

(* ... sccp_device_on_registration_success.                                *)
RegistrationSuccess(s) ==
  /\ Goes(s, "success", "loop")
  /\ state' = [state EXCEPT ![device[s]] = "WORKING"]
  /\ devstate' = [devstate EXCEPT ![dev[device[s]].line] = "NOT_INUSE"]
  /\ Transmit(s)
  /\ UNCHANGED <<registryVars, dev, refs, lineRefs, device, cfg, look, mainVars>>

\* Variant for the mutation runs: a guest may become a configured device.
CanApply_AnyGuest(d, attributes) == dev[d].line = attributes.line

(* sccp_device_test_apply_config: what a device may not change.            *)
CanApply(d, attributes) ==
  dev[d].guest = attributes.guest /\ dev[d].line = attributes.line

(* process_reload_config: the session is stopped if its device is not in   *)
(* the new configuration, which is otherwise applied; a device that may    *)
(* not change is asked to restart instead, now or when it is idle          *)
(* (sccp_device_reload_config).  The attributes that are left out here may  *)
(* ask for a restart too, which changes no device, and may Stop.           *)
ApplyConfig(s, c) ==
  LET d          == device[s]
      attributes == CfgFor(c, dev[d].name)
  IN  \/ d = None /\ UNCHANGED <<dev, stop>>
      \/ /\ d # None /\ ~IsFound(c, dev[d].name)
         /\ stop' = [stop EXCEPT ![s] = TRUE]
         /\ UNCHANGED dev
      \/ /\ d # None /\ IsFound(c, dev[d].name) /\ ~CanApply(d, attributes)
         /\ Transmit(s)
         /\ UNCHANGED dev
      \/ /\ d # None /\ IsFound(c, dev[d].name) /\ CanApply(d, attributes)
         /\ dev' = [dev EXCEPT ![d] = attributes]
         /\ UNCHANGED stop

ReloadConfig(s) ==
  /\ pc[s] = "loop"
  /\ \E c \in (cfg[s] + 1) .. globalCfg :
       /\ cfg' = [cfg EXCEPT ![s] = c]
       /\ ApplyConfig(s, c)
  /\ UNCHANGED <<registryVars, state, refs, lineRefs, pc, device, look, mainVars, devstate>>

(* The phone closed the connection or is silent for too long, a message is *)
(* malformed, or sccp_session_stop was called, by the main thread too.     *)
Stop(s) ==
  /\ pc[s] \notin {"none", "ended"}
  /\ ~stop[s]
  /\ stop' = [stop EXCEPT ![s] = TRUE]
  /\ UNCHANGED <<registryVars, deviceVars, pc, device, cfg, look, mainVars, devstate>>

\* Variant for the mutation runs: the device is destroyed before it leaves
\* the registry, which then reads its line.
EndLoop_DestroysFirst(s) ==
  /\ stop[s]
  /\ Goes(s, "loop", IF device[s] = None THEN "ended" ELSE "remove")
  /\ IF device[s] = None THEN UNCHANGED state
                         ELSE state' = [state EXCEPT ![device[s]] = "DESTROYED"]
  /\ UNCHANGED <<registryVars, dev, refs, lineRefs, device, cfg, stop, look, mainVars, devstate>>

(* sccp_session_run: the end of the loop; the stop flag is not looked at   *)
(* between two messages that were read together.                           *)
EndLoop(s) ==
  /\ stop[s]
  /\ Goes(s, "loop", IF device[s] = None THEN "ended" ELSE "remove")
  /\ UNCHANGED <<registryVars, deviceVars, device, cfg, stop, look, mainVars, devstate>>

(* ... sccp_device_registry_remove ...                                     *)
RegistryRemove(s) ==
  /\ Goes(s, "remove", "destroy")
  /\ Remove(device[s])
  /\ UNCHANGED <<device, cfg, stop, look, mainVars, devstate>>

(* ... and sccp_device_destroy.                                            *)
Destroy(s) ==
  /\ Goes(s, "destroy", "ended")
  /\ DestroyDevice(device[s])
  /\ device' = [device EXCEPT ![s] = None]
  /\ UNCHANGED <<registryVars, cfg, stop, look, mainVars>>

SessionNext(s) ==
  \/ Accept(s) \/ Stop(s) \/ ReloadConfig(s)
  \/ \E n \in Names : HandleRegister(s, n)
  \/ RegistryAdd(s) \/ RegistryAddRefused(s) \/ RegisterRejected(s)
  \/ RegistrationSuccess(s) \/ EndLoop(s) \/ RegistryRemove(s) \/ Destroy(s)

-----------------------------------------------------------------------------
(* Lookups.                                                                *)

\* Variant for the mutation runs: the line is returned without a reference.
FindLine_NoRef(l, name) ==
  /\ look[l] = Nothing
  /\ main # "unloaded"
  /\ \E d \in lines :
       /\ dev[d].line = name
       /\ look' = [look EXCEPT ![l] = [holds |-> "line", device |-> d]]
  /\ UNCHANGED <<registryVars, deviceVars, sessionVars, mainVars, devstate>>

(* sccp_device_registry_find_line, for a channel request or a device       *)
(* state.  A thread keeps the line for as long as it needs; a line that is *)
(* not found changes nothing.  Every registered guest has the same line    *)
(* name, and any of them may be found.                                     *)
FindLine(l, name) ==
  /\ look[l] = Nothing
  /\ main # "unloaded"
  /\ \E d \in lines :
       /\ dev[d].line = name
       /\ ReferLine(d)
       /\ look' = [look EXCEPT ![l] = [holds |-> "line", device |-> d]]
  /\ UNCHANGED <<registryVars, dev, state, refs, sessionVars, mainVars, devstate>>

(* sccp_device_registry_find, for a reset from the CLI.                    *)
FindDevice(l, name) ==
  /\ look[l] = Nothing
  /\ main # "unloaded"
  /\ \E d \in devices :
       /\ dev[d].name = name
       /\ Refer(d)
       /\ look' = [look EXCEPT ![l] = [holds |-> "device", device |-> d]]
  /\ UNCHANGED <<registryVars, dev, state, lineRefs, sessionVars, mainVars, devstate>>

(* The reference is given back.                                            *)
Release(l) ==
  /\ \/ look[l].holds = "line" /\ UnreferLine(look[l].device, 0)
     \/ look[l].holds = "device" /\ Unrefer(look[l].device) /\ UNCHANGED lineRefs
  /\ look' = [look EXCEPT ![l] = Nothing]
  /\ UNCHANGED <<registryVars, dev, state, sessionVars, mainVars, devstate>>

LookupNext(l) ==
  \/ \E n \in Lines : FindLine(l, n)
  \/ \E n \in Names : FindDevice(l, n)
  \/ Release(l)

-----------------------------------------------------------------------------
(* The main thread.                                                        *)

(* reload: the sessions are sent the configuration first ...               *)
Reload ==
  /\ main = "loaded"
  /\ globalCfg < LastCfg
  /\ main' = "reloading"
  /\ globalCfg' = globalCfg + 1
  /\ UNCHANGED <<registryVars, deviceVars, sessionVars, look, devstate>>

(* ... and then the registry, by sccp_device_registry_reload_config.       *)
RegistryReloadConfig ==
  /\ main = "reloading"
  /\ main' = "loaded"
  /\ max_guests' = MaxGuests[globalCfg]
  /\ UNCHANGED <<devices, lines, cur_guests, deviceVars, sessionVars, look, globalCfg, devstate>>

(* unload_module: the sessions have been joined and nobody uses the module *)
(* when sccp_device_registry_destroy drops its containers, and the         *)
(* references to what is still linked in them.                             *)
Unload ==
  /\ main = "loaded"
  /\ \A s \in Sessions : pc[s] \in {"none", "ended"}
  /\ \A l \in Lookups : look[l] = Nothing
  /\ main' = "unloaded"
  /\ devices' = {} /\ lines' = {}
  /\ lineRefs' = [d \in Devices |-> lineRefs[d] - Count(d \in lines)]
  /\ refs' = [d \in Devices |->
                refs[d] - Count(d \in devices) - Count(d \in lines /\ lineRefs[d] = 1)]
  /\ UNCHANGED <<cur_guests, max_guests, dev, state, sessionVars, look, globalCfg, devstate>>

Next ==
  \/ \E s \in Sessions : SessionNext(s)
  \/ \E l \in Lookups : LookupNext(l)
  \/ Reload \/ RegistryReloadConfig \/ Unload

Spec == Init /\ [][Next]_vars

-----------------------------------------------------------------------------
TypeOK ==
  /\ devices \subseteq Devices /\ lines \subseteq Devices
  /\ cur_guests \in Nat /\ max_guests \in Nat
  /\ dev \in [Devices -> [name : Names \cup {None}, guest : BOOLEAN, line : Lines \cup {None}]]
  /\ state \in [Devices -> {"unallocated", "NEW", "WORKING", "DESTROYED"}]
  /\ refs \in [Devices -> Nat]
  /\ lineRefs \in [Devices -> Nat]
  /\ pc \in [Sessions -> {"none", "loop", "add", "refused", "success", "remove", "destroy", "ended"}]
  /\ device \in [Sessions -> Devices \cup {None}]
  /\ cfg \in [Sessions -> Cfg]
  /\ stop \in [Sessions -> BOOLEAN]
  /\ look \in [Lookups -> [holds : {"line", "device"}, device : Devices] \cup {Nothing}]
  /\ main \in {"loaded", "reloading", "unloaded"}
  /\ globalCfg \in Cfg
  /\ devstate \in [Lines -> {"UNKNOWN", "UNAVAILABLE", "NOT_INUSE"}]

(* "SCCP_DEVICE_REGISTRY_ALREADY if a device with the same name is already *)
(* in the container" (sccp_device_registry.h): a name finds one device,    *)
(* whatever sessions register with it at once.                             *)
OneDevicePerName ==
  \A d, e \in devices : dev[d].name = dev[e].name => d = e

(* Devices and their lines enter and leave together, also when the second  *)
(* of them cannot be linked: a line that is found belongs to a device that *)
(* is found.                                                               *)
LinesFollowDevices == lines = devices

(* The two containers agree. *)
ContentsAgree == OneDevicePerName /\ LinesFollowDevices

(* The count of guests is the number of guests: were it less, the limit    *)
(* would not hold; were it more, guests would be refused for ever.  This   *)
(* relies on "the guest state of a device is a constant attribute"         *)
(* (sccp_device.h), although configurations are reloaded.                  *)
Guests == {d \in devices : dev[d].guest}

GuestsAreCounted == cur_guests = Cardinality(Guests)

(* No guest enters above the limit; only a reload may leave more of them.  *)
GuestsAreLimited ==
  [][Cardinality(Guests') > Cardinality(Guests) => Cardinality(Guests') <= max_guests]_vars

(* What the registry returns is alive and has a session: a device leaves   *)
(* it before it is destroyed, as the comment at the end of                 *)
(* sccp_session_run demands.                                               *)
RegisteredIsAlive ==
  \A d \in devices :
    /\ state[d] \in {"NEW", "WORKING"}
    /\ \E s \in Sessions : device[s] = d /\ pc[s] \in {"loop", "success", "remove"}

(* The reference counts of a device and of its line are the numbers of     *)
(* their holders, so that neither is freed while a session, the registry   *)
(* or a thread that looked it up may still use it.                         *)
Holders(d, what) == {l \in Lookups : look[l] = [holds |-> what, device |-> d]}
HasSession(d)    == \E s \in Sessions : device[s] = d

RefsMatchHolders ==
  \A d \in Devices :
    /\ refs[d] = Count(HasSession(d)) + Count(d \in devices) + Count(lineRefs[d] > 0)
                 + Cardinality(Holders(d, "device"))
    /\ lineRefs[d] = Count(state[d] \in {"NEW", "WORKING"}) + Count(d \in lines)
                     + Cardinality(Holders(d, "line"))

(* Unloading leaves no device behind: each one was destroyed and freed.    *)
UnloadedIsFreed ==
  main = "unloaded" =>
    \A d \in Devices : refs[d] = 0 /\ state[d] \in {"unallocated", "DESTROYED"}

(* A line that Asterisk was told is free belongs to a device that has not  *)
(* been destroyed yet.                                                     *)
FreeLineHasDevice ==
  \A n \in Lines : devstate[n] = "NOT_INUSE" =>
    \E s \in Sessions : device[s] # None /\ dev[device[s]].line = n

(* "LINE_NOT_REGISTERED if the line exist in the config but is not         *)
(* currently registered" (sccp.c) is the one case of a known line that     *)
(* channel_tech_devicestate calls unavailable: with no registration and no *)
(* departure going on, the state that was announced last agrees with it.   *)
AnnouncedStateIsTrue ==
  (\A s \in Sessions : pc[s] \in {"none", "loop", "ended"}) =>
    \A d \in devices : devstate[dev[d].line] # "UNAVAILABLE"
=============================================================================
