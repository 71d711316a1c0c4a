-------------------------------- MODULE Config --------------------------------
(***************************************************************************)
(* The configuration (sccp_config.c): what the file says is loaded into    *)
(* containers of device, line and speed-dial configurations, by name, and  *)
(* pre_apply_config turns the names into references and drops what is not  *)
(* valid.  The result replaces the configuration in force, while sessions  *)
(* and their devices may go on with the former one.                        *)
(*                                                                         *)
(* All are reference-counted objects; an object of the configuration that  *)
(* was loaded as number g is known by g and its name.  Asterisk's          *)
(* configuration framework (reading the file, the global object) is        *)
(* external, and so is the order in which its containers are traversed.    *)
(***************************************************************************)
EXTENDS Integers, FiniteSets, Sequences, FiniteSetsExt

CONSTANTS
  Devices, Guest,      \* the names of devices; DEVICE_CFG_NAME_GUEST
  Lines, SpeedDials,   \* the names of lines, of speed dials
  None,                \* no line, no device
  Files,               \* the contents the file may have
  LastLoad,            \* bound: how many times it is loaded
  Phones,              \* the phones with a session, by the names they register with
  MaxOoms              \* bound: arrays of speed dials that cannot be allocated

Loads == 1 .. LastLoad
Names == {"cfg"} \cup Devices \cup Lines \cup SpeedDials

(* What the file defines, and to what each device refers by name.          *)
FileType ==
  [devices : SUBSET Devices, lines : SUBSET Lines, speeddials : SUBSET SpeedDials,
   line : [Devices -> Lines \cup {None}], dials : [Devices -> Seq(SpeedDials)],
   guest : BOOLEAN]

ASSUME ConfigAssumption ==
  /\ IsFiniteSet(Devices) /\ IsFiniteSet(Phones)
  /\ Guest \in Devices /\ None \notin Names
  /\ Devices \cap Lines = {} /\ Devices \cap SpeedDials = {} /\ Lines \cap SpeedDials = {}
  /\ "cfg" \notin Devices \cup Lines \cup SpeedDials
  /\ \A f \in Files : f \in FileType
  /\ LastLoad \in Nat /\ MaxOoms \in Nat

VARIABLES
  pc,         \* where the main thread is in loading
  load,       \* the number of the last configuration that was loaded
  file,       \* what it is loaded from
  todo,       \* the devices that pre_apply_devices_cfg has not come to
  associated, \* line_cfg->internal->associated
  devices, lines, speeddials,  \* the containers of each configuration
  guestCfg,   \* its general_cfg->guest_device_cfg
  line, dials,\* device_cfg->line_cfg and ->speeddials_cfg
  refs,       \* the references to each object
  global,     \* global_cfg: the configuration in force, or 0
  cfg,        \* the configuration that each phone's session holds, or 0
  made,       \* what the device of the session was made from
  ooms

built == <<devices, lines, speeddials, guestCfg, line, dials>>
loading == <<pc, load, file, todo, associated, ooms>>
vars == <<loading, built, refs, global, cfg, made>>

NoDevice == [load |-> 0, device |-> None]

Init ==
  /\ pc = "idle" /\ load = 0 /\ todo = {} /\ associated = {} /\ ooms = 0
  /\ file \in Files
  /\ devices = [g \in Loads |-> {}]
  /\ lines = [g \in Loads |-> {}]
  /\ speeddials = [g \in Loads |-> {}]
  /\ guestCfg = [g \in Loads |-> None]
  /\ line = [g \in Loads |-> [d \in Devices |-> None]]
  /\ dials = [g \in Loads |-> [d \in Devices |-> << >>]]
  /\ refs = [g \in Loads |-> [x \in Names |-> 0]]
  /\ global = 0
  /\ cfg = [p \in Phones |-> 0]
  /\ made = [p \in Phones |-> NoDevice]

-----------------------------------------------------------------------------
(* References; r is what refs has for one configuration.                   *)

Count(P) == IF P THEN 1 ELSE 0

(* Where a device with line l and speed dials s refers to x.               *)
Places(l, s, x) == {i \in 0 .. Len(s) : IF i = 0 THEN l = x ELSE s[i] = x}

Added(r, S) == [x \in Names |-> r[x] + Count(x \in S)]
Taken(r, S) == [x \in Names |-> r[x] - Count(x \in S)]

(* The same for a device configuration, and for the device made from it.   *)
PlacesOf(g, d, x)    == Places(line[g][d], dials[g][d], x)
FromDevice(g, d, x)  == Cardinality(PlacesOf(g, d, x))
FromDevices(g, S, x) == Cardinality(UNION {{d} \X PlacesOf(g, d, x) : d \in S})

(* Each device configuration of S loses a reference: with the last one     *)
(* sccp_device_cfg_destructor gives back its own.                          *)
DropDevices(g, r, S) ==
  LET dead == {d \in S : r[d] = 1}
  IN  [x \in Names |-> Taken(r, S)[x] - FromDevices(g, dead, x)]

(* sccp_cfg_destructor and sccp_general_cfg_destructor: with its last      *)
(* reference a configuration gives back what is in its containers.         *)
DropCfg(g, r) ==
  IF r["cfg"] > 1
  THEN Taken(r, {"cfg"})
  ELSE DropDevices(g, Taken(r, {"cfg"} \cup lines[g] \cup speeddials[g]),
                   devices[g] \cup ({guestCfg[g]} \ {None}))

(* sccp_device_create: the device refers to its configuration, its line to *)
(* the line's, and each of its speed dials to its own.                     *)
Make(g, d, r) == [x \in Names |-> r[x] + Count(x = d) + FromDevice(g, d, x)]

(* The device, its line and its speed dials are freed. *)
Unmake(g, d, r) ==
  DropDevices(g, [x \in Names |-> r[x] - FromDevice(g, d, x)], {d})

-----------------------------------------------------------------------------
(* The main thread loads the file: aco_process_config.                     *)

(* sccp_cfg_alloc, and an item for each section of the file.               *)
Read ==
  /\ pc = "idle" /\ load < LastLoad
  /\ \E f \in Files :
       /\ file' = f
       /\ load' = load + 1
       /\ devices' = [devices EXCEPT ![load'] = f.devices]
       /\ lines' = [lines EXCEPT ![load'] = f.lines]
       /\ speeddials' = [speeddials EXCEPT ![load'] = f.speeddials]
       /\ refs' = [refs EXCEPT ![load'] =
                     Added(@, {"cfg"} \cup f.devices \cup f.lines \cup f.speeddials)]
       /\ todo' = f.devices
  /\ associated' = {}
  /\ pc' = "devices"
  /\ UNCHANGED <<guestCfg, line, dials, global, cfg, made, ooms>>

(* The file is not valid: what was read of it is freed. *)
ReadFails ==
  /\ pc = "devices" /\ todo = file.devices
  /\ refs' = [refs EXCEPT ![load] = DropCfg(load, @)]
  /\ pc' = "idle"
  /\ UNCHANGED <<load, file, todo, associated, built, global, cfg, made, ooms>>

\* Variant for the mutation runs: an unknown speed dial ends the list.
Known_UpToUnknown(s, found) ==
  LET unknown == {i \in DOMAIN s : s[i] \notin found}
  IN  IF unknown = {} THEN s ELSE SubSeq(s, 1, Min(unknown) - 1)

(* sccp_device_cfg_build_speeddials: the list is traversed, and each speed *)
(* dial that is found enters the array.                                    *)
Known(s, found) ==
  LET upTo[i \in 0 .. Len(s)] ==
        IF i = 0 THEN << >>
        ELSE IF s[i] \in found THEN Append(upTo[i - 1], s[i]) ELSE upTo[i - 1]
  IN  upTo[Len(s)]

\* Variant for the mutation runs: whether another device has the line is not looked at.
LineIsFree_Shared(d) == file.line[d] \in lines[load]

(* sccp_device_cfg_build_line. *)
LineIsFree(d) == file.line[d] \in lines[load] \ associated

(* Without memory for the array what was found is given back, and the      *)
(* device, dropped from its container, gives back its line, which stays    *)
(* associated.                                                             *)
PreApplyDevice(d) ==
  /\ pc = "devices" /\ d \in todo
  /\ todo' = todo \ {d}
  /\ \/ /\ ~LineIsFree(d)
        /\ devices' = [devices EXCEPT ![load] = @ \ {d}]
        /\ refs' = [refs EXCEPT ![load] = DropDevices(load, @, {d})]
        /\ UNCHANGED <<associated, line, dials, ooms>>
     \/ /\ LineIsFree(d)
        /\ associated' = associated \cup {file.line[d]}
        /\ line' = [line EXCEPT ![load][d] = file.line[d]]
        /\ dials' = [dials EXCEPT ![load][d] = Known(file.dials[d], speeddials[load])]
        /\ refs' = [refs EXCEPT ![load] =
             [x \in Names |-> @[x] + Cardinality(Places(file.line[d], dials'[load][d], x))]]
        /\ UNCHANGED <<devices, ooms>>
     \/ /\ LineIsFree(d) /\ Known(file.dials[d], speeddials[load]) # << >>
        /\ ooms < MaxOoms
        /\ ooms' = ooms + 1
        /\ associated' = associated \cup {file.line[d]}
        /\ devices' = [devices EXCEPT ![load] = @ \ {d}]
        /\ refs' = [refs EXCEPT ![load] = DropDevices(load, @, {d})]
        /\ UNCHANGED <<line, dials>>
  /\ UNCHANGED <<pc, load, file, lines, speeddials, guestCfg, global, cfg, made>>

PreApplyLines ==
  /\ pc = "devices" /\ todo = {}
  /\ lines' = [lines EXCEPT ![load] = @ \cap associated]
  /\ refs' = [refs EXCEPT ![load] = Taken(@, lines[load] \ associated)]
  /\ pc' = "general"
  /\ UNCHANGED <<load, file, todo, associated, devices, speeddials, guestCfg, line, dials,
                 global, cfg, made, ooms>>

(* The guest device and its line leave their containers; the reference     *)
(* that finding it took is kept, if guests are allowed, or given back.     *)
PreApplyGeneral ==
  /\ pc = "general"
  /\ pc' = "apply"
  /\ IF Guest \in devices[load]
     THEN LET l == line[load][Guest]
              r == Taken(Added(refs[load], {Guest}), {Guest, l})
          IN  /\ devices' = [devices EXCEPT ![load] = @ \ {Guest}]
              /\ lines' = [lines EXCEPT ![load] = @ \ {l}]
              /\ guestCfg' = [guestCfg EXCEPT ![load] = IF file.guest THEN Guest ELSE None]
              /\ refs' = [refs EXCEPT ![load] =
                            IF file.guest THEN r ELSE DropDevices(load, r, {Guest})]
     ELSE UNCHANGED <<devices, lines, guestCfg, refs>>
  /\ UNCHANGED <<load, file, todo, associated, speeddials, line, dials, global, cfg, made, ooms>>

(* The reference of aco_process_config becomes that of the global object.  *)
Apply ==
  /\ pc = "apply"
  /\ pc' = "idle"
  /\ global' = load
  /\ refs' = IF global = 0 THEN refs ELSE [refs EXCEPT ![global] = DropCfg(global, @)]
  /\ UNCHANGED <<load, file, todo, associated, built, cfg, made, ooms>>

(* sccp_config_destroy, once the server has ended all sessions. *)
Destroy ==
  /\ pc = "idle" /\ global # 0
  /\ \A p \in Phones : cfg[p] = 0
  /\ pc' = "destroyed"
  /\ global' = 0
  /\ refs' = [refs EXCEPT ![global] = DropCfg(global, @)]
  /\ UNCHANGED <<load, file, todo, associated, built, cfg, made, ooms>>

-----------------------------------------------------------------------------
(* The sessions of the phones, each with at most one device at a time.     *)
(* How a new configuration reaches them is the subject of Server: here     *)
(* they take it from the global object.                                    *)

(* sccp_cfg_find_device_or_guest. *)
Found(g, p) == IF p \in devices[g] THEN p ELSE guestCfg[g]

sccp_session_create(p) ==
  /\ cfg[p] = 0 /\ made[p] = NoDevice /\ global # 0
  /\ cfg' = [cfg EXCEPT ![p] = global]
  /\ refs' = [refs EXCEPT ![global] = Added(@, {"cfg"})]
  /\ UNCHANGED <<loading, built, global, made>>

sccp_session_handle_msg_register(p) ==
  /\ cfg[p] # 0 /\ made[p] = NoDevice
  /\ Found(cfg[p], p) # None
  /\ made' = [made EXCEPT ![p] = [load |-> cfg[p], device |-> Found(cfg[p], p)]]
  /\ refs' = [refs EXCEPT ![cfg[p]] = Make(cfg[p], Found(cfg[p], p), @)]
  /\ UNCHANGED <<loading, built, global, cfg>>

\* Variant for the mutation runs: the line takes its new configuration for granted.
sccp_device_reload_config_LineBorrows(r, old, new, d) ==
  [r EXCEPT ![old.load] = Unmake(old.load, old.device, @),
            ![new] = Taken(Make(new, d, @), {line[new][d]})]

(* sccp_device_reload_config, when the new configuration can be applied.   *)
sccp_device_reload_config(r, old, new, d) ==
  [r EXCEPT ![old.load] = Unmake(old.load, old.device, @), ![new] = Make(new, d, @)]

(* process_reload_config: the message's reference becomes the session's.   *)
(* The device goes on with what it has if it has to be reset first, and    *)
(* until it is destroyed if it is not configured any more.                 *)
process_reload_config(p) ==
  LET old == cfg[p]
      new == global
      swapped == [refs EXCEPT ![new] = Added(@, {"cfg"}), ![old] = DropCfg(old, @)]
  IN  /\ old # 0 /\ new > old
      /\ cfg' = [cfg EXCEPT ![p] = new]
      /\ \/ /\ refs' = swapped
            /\ UNCHANGED made
         \/ /\ made[p] # NoDevice /\ Found(new, p) # None
            /\ made' = [made EXCEPT ![p] = [load |-> new, device |-> Found(new, p)]]
            /\ refs' = sccp_device_reload_config(swapped, made[p], new, Found(new, p))
      /\ UNCHANGED <<loading, built, global>>

EndSession(p) ==
  /\ cfg[p] # 0
  /\ cfg' = [cfg EXCEPT ![p] = 0]
  /\ refs' = [refs EXCEPT ![cfg[p]] = DropCfg(cfg[p], @)]
  /\ UNCHANGED <<loading, built, global, made>>

(* The device is freed with its session, or later, with the last channel   *)
(* that refers to its line.                                                *)
FreeDevice(p) ==
  /\ cfg[p] = 0 /\ made[p] # NoDevice
  /\ made' = [made EXCEPT ![p] = NoDevice]
  /\ refs' = [refs EXCEPT ![made[p].load] = Unmake(made[p].load, made[p].device, @)]
  /\ UNCHANGED <<loading, built, global, cfg>>

Next ==
  \/ Read \/ ReadFails \/ (\E d \in Devices : PreApplyDevice(d))
  \/ PreApplyLines \/ PreApplyGeneral \/ Apply \/ Destroy
  \/ \E p \in Phones :
       \/ sccp_session_create(p) \/ sccp_session_handle_msg_register(p)
       \/ process_reload_config(p) \/ EndSession(p) \/ FreeDevice(p)

Spec == Init /\ [][Next]_vars

-----------------------------------------------------------------------------
TypeOK ==
  /\ pc \in {"idle", "devices", "general", "apply", "destroyed"}
  /\ load \in 0 .. LastLoad /\ file \in Files /\ global \in 0 .. LastLoad
  /\ todo \subseteq Devices /\ associated \subseteq Lines
  /\ devices \in [Loads -> SUBSET Devices] /\ lines \in [Loads -> SUBSET Lines]
  /\ speeddials \in [Loads -> SUBSET SpeedDials]
  /\ guestCfg \in [Loads -> Devices \cup {None}]
  /\ line \in [Loads -> [Devices -> Lines \cup {None}]]
  /\ dials \in [Loads -> [Devices -> Seq(SpeedDials)]]
  /\ refs \in [Loads -> [Names -> Nat]]
  /\ cfg \in [Phones -> 0 .. LastLoad]
  /\ made \in [Phones -> [load : 0 .. LastLoad, device : Devices \cup {None}]]
  /\ ooms \in 0 .. MaxOoms

IsLoading(g) == load = g /\ pc \in {"devices", "general", "apply"}
IsAlive(g, x) == refs[g][x] > 0

MadeFrom(g) == {p \in Phones : made[p].load = g}

DevicesOf(g) == devices[g] \cup ({guestCfg[g]} \ {None})

Holders(g, x) ==
  IF x = "cfg"
  THEN Count(IsLoading(g)) + Count(global = g) + Cardinality({p \in Phones : cfg[p] = g})
  ELSE Count(IsAlive(g, "cfg") /\ x \in DevicesOf(g) \cup lines[g] \cup speeddials[g])
       + FromDevices(g, {d \in Devices : IsAlive(g, d)}, x)
       + Cardinality({p \in MadeFrom(g) : made[p].device = x})
       + Cardinality(UNION {{p} \X PlacesOf(g, made[p].device, x) : p \in MadeFrom(g)})

(* The references to each object are as many as its holders, through       *)
(* loads that fail, devices that are dropped half-built and reloads under  *)
(* devices that use an older configuration: nothing is freed while it is   *)
(* used, and what nobody uses is freed.                                    *)
RefsMatchHolders ==
  \A g \in Loads : \A x \in Names : refs[g][x] = Holders(g, x)

(* No count is ever negative, and each is right. *)
ReferencesAreSound == TypeOK /\ RefsMatchHolders

(* In a configuration that was applied a line belongs to one device, and   *)
(* the line of the guest device cannot be called as a line: what sccp.c    *)
(* and the registry rely on.  (Without memory for its speed dials a device *)
(* is dropped, but its line stays.)                                        *)
LinesHaveOneDevice ==
  \A g \in Loads : (IsAlive(g, "cfg") /\ ~IsLoading(g)) =>
    /\ \A d \in DevicesOf(g) : line[g][d] # None
    /\ \A d, e \in DevicesOf(g) : line[g][d] = line[g][e] => d = e
    /\ \A d \in devices[g] : line[g][d] \in lines[g]
    /\ guestCfg[g] # None => line[g][guestCfg[g]] \notin lines[g]
    /\ ooms = 0 => \A l \in lines[g] : \E d \in devices[g] : line[g][d] = l

(* t has the elements of s that are in S, in the same order.               *)
IsSelection(t, s, S) ==
  \E at \in [DOMAIN t -> DOMAIN s] :
    /\ \A i, j \in DOMAIN t : i < j => at[i] < at[j]
    /\ \A i \in DOMAIN t : t[i] = s[at[i]]
    /\ {at[i] : i \in DOMAIN t} = {j \in DOMAIN s : s[j] \in S}

(* What is applied is what the file says, in whatever order the devices    *)
(* were looked at: every line that a device names is served by one of      *)
(* those that name it (the guest device takes its line away if guests are  *)
(* refused), and a device has the speed dials that exist, in their order.  *)
AppliedAsWritten ==
  (pc = "apply" /\ ooms = 0) =>
    /\ \A l \in file.lines :
         LET named == {d \in file.devices : file.line[d] = l}
         IN  named # {} =>
               \/ \E d \in named \cap DevicesOf(load) : line[load][d] = l
               \/ Guest \in named /\ ~file.guest
    /\ \A d \in DevicesOf(load) :
         /\ d \in file.devices /\ line[load][d] = file.line[d]
         /\ IsSelection(dials[load][d], file.dials[d], file.speeddials)
=============================================================================
