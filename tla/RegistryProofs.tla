--------------------------- MODULE RegistryProofs ---------------------------
(***************************************************************************)
(* The invariants of Registry hold for every set of threads, devices and   *)
(* names, and every sequence of configurations.                            *)
(***************************************************************************)
EXTENDS Registry, FiniteSetTheorems, TLAPS

DevType  == [name : Names \cup {None}, guest : BOOLEAN, line : Lines \cup {None}]
LookType == [holds : {"line", "device"}, device : Devices] \cup {Nothing}

-----------------------------------------------------------------------------
(* Types, before anything is known of the reference counts.                *)

Base ==
  /\ devices \subseteq Devices /\ lines \subseteq Devices
  /\ cur_guests \in Nat /\ max_guests \in Nat
  /\ dev \in [Devices -> DevType]
  /\ state \in [Devices -> {"unallocated", "NEW", "WORKING", "DESTROYED"}]
  /\ refs \in [Devices -> Int]
  /\ lineRefs \in [Devices -> Int]
  /\ pc \in [Sessions -> {"none", "loop", "add", "refused", "success", "remove", "destroy", "ended"}]
  /\ device \in [Sessions -> Devices \cup {None}]
  /\ cfg \in [Sessions -> Cfg]
  /\ stop \in [Sessions -> BOOLEAN]
  /\ look \in [Lookups -> LookType]
  /\ main \in {"loaded", "reloading", "unloaded"}
  /\ globalCfg \in Cfg
  /\ devstate \in [Lines -> {"UNKNOWN", "UNAVAILABLE", "NOT_INUSE"}]

Busy == {"add", "refused", "success", "remove", "destroy"}

(* A thread that works on a device has one; a device has one session, from *)
(* its creation to its destruction, and attributes.                        *)
Ownership ==
  /\ \A s \in Sessions : pc[s] \in {"none", "ended"} => device[s] = None
  /\ \A s \in Sessions : pc[s] \in Busy => device[s] # None
  /\ \A s, t \in Sessions : device[s] # None /\ device[s] = device[t] => s = t
  /\ \A s \in Sessions : device[s] # None =>
       /\ state[device[s]] \in {"NEW", "WORKING"}
       /\ dev[device[s]].name \in Names
       /\ dev[device[s]].line \in Lines
  /\ \A d \in Devices : state[d] \in {"NEW", "WORKING"} => HasSession(d)

LEMMA BaseInit == ASSUME Init PROVE Base /\ Ownership
  BY RegistryAssumption
  DEF Init, Base, Ownership, DevType, LookType, NoAttributes, Nothing, Cfg, Busy, HasSession

LEMMA CfgForType ==
  ASSUME NEW c \in Cfg, NEW n \in Names
  PROVE  /\ CfgFor(c, n) \in DevType
         /\ CfgFor(c, n).name = n
         /\ IsFound(c, n) => CfgFor(c, n).line \in Lines
  BY RegistryAssumption DEF CfgFor, IsFound, DevType

LEMMA DestroyDeviceType ==
  ASSUME Base, NEW d \in Devices, DestroyDevice(d)
  PROVE  /\ dev' \in [Devices -> DevType]
         /\ state' \in [Devices -> {"unallocated", "NEW", "WORKING", "DESTROYED"}]
         /\ refs' \in [Devices -> Int]
         /\ lineRefs' \in [Devices -> Int]
         /\ devstate' \in [Lines -> {"UNKNOWN", "UNAVAILABLE", "NOT_INUSE"}]
<1>1. refs[d] - 1 - Count(lineRefs[d] = 1) \in Int /\ lineRefs[d] - 1 \in Int
  BY DEF Base, Count
<1>2. devstate' \in [Lines -> {"UNKNOWN", "UNAVAILABLE", "NOT_INUSE"}]
  BY DEF Base, DestroyDevice
<1> QED
  BY <1>1, <1>2 DEF Base, DestroyDevice, UnreferLine

LEMMA BaseStep == ASSUME Base, Ownership, [Next]_vars PROVE Base'
<1> USE RegistryAssumption DEF Base, Goes, registryVars, deviceVars, sessionVars, mainVars
<1>a. ASSUME NEW s \in Sessions, Accept(s) PROVE Base'
  <2>1. \A c \in 0 .. globalCfg : c \in Cfg
    BY DEF Cfg
  <2> QED BY <1>a, <2>1 DEF Accept
<1>b. ASSUME NEW s \in Sessions, NEW n \in Names, HandleRegister(s, n) PROVE Base'
  <2>1. CfgFor(cfg[s], n) \in DevType
    BY CfgForType
  <2> QED BY <1>b, <2>1 DEF HandleRegister, CreateDevice
<1>c. ASSUME NEW s \in Sessions, RegistryAdd(s) PROVE Base'
  <2>1. device[s] \in Devices
    BY <1>c DEF RegistryAdd, Ownership, Busy
  <2> QED BY <1>c, <2>1 DEF RegistryAdd, Add, Refer, ReferLine, Count
<1>d. ASSUME NEW s \in Sessions, RegistryAddRefused(s) PROVE Base'
  <2>1. device[s] \in Devices
    BY <1>d DEF RegistryAddRefused, Ownership, Busy
  <2> QED BY <1>d, <2>1 DEF RegistryAddRefused, AddFails
<1>e. ASSUME NEW s \in Sessions, RegisterRejected(s) PROVE Base'
  <2>1. device[s] \in Devices
    BY <1>e DEF RegisterRejected, Ownership, Busy
  <2> QED BY <1>e, <2>1, DestroyDeviceType DEF RegisterRejected, Transmit
<1>f. ASSUME NEW s \in Sessions, RegistrationSuccess(s) PROVE Base'
  BY <1>f DEF RegistrationSuccess, Transmit
<1>g. ASSUME NEW s \in Sessions, ReloadConfig(s) PROVE Base'
  <2>1. PICK c \in (cfg[s] + 1) .. globalCfg : cfg' = [cfg EXCEPT ![s] = c] /\ ApplyConfig(s, c)
    BY <1>g DEF ReloadConfig
  <2>2. c \in Cfg
    BY DEF Cfg
  <2>3. device[s] # None => CfgFor(c, dev[device[s]].name) \in DevType
    BY <2>2, CfgForType DEF Ownership
  <2>4. dev' \in [Devices -> DevType]
    BY <2>1, <2>3 DEF ApplyConfig
  <2>5. stop' \in [Sessions -> BOOLEAN]
    BY <2>1 DEF ApplyConfig, Transmit
  <2> QED BY <1>g, <2>1, <2>2, <2>4, <2>5 DEF ReloadConfig
<1>h. ASSUME NEW s \in Sessions, Stop(s) \/ EndLoop(s) PROVE Base'
  BY <1>h DEF Stop, EndLoop
<1>i. ASSUME NEW s \in Sessions, RegistryRemove(s) PROVE Base'
  <2>1. device[s] \in Devices
    BY <1>i DEF RegistryRemove, Ownership, Busy
  <2> QED BY <1>i, <2>1 DEF RegistryRemove, Remove, UnreferLine, Count
<1>j. ASSUME NEW s \in Sessions, Destroy(s) PROVE Base'
  <2>1. device[s] \in Devices
    BY <1>j DEF Destroy, Ownership, Busy
  <2> QED BY <1>j, <2>1, DestroyDeviceType DEF Destroy
<1>k. ASSUME NEW l \in Lookups, NEW n \in Lines, FindLine(l, n) PROVE Base'
  BY <1>k DEF FindLine, ReferLine, LookType
<1>l. ASSUME NEW l \in Lookups, NEW n \in Names, FindDevice(l, n) PROVE Base'
  BY <1>l DEF FindDevice, Refer, LookType
<1>m. ASSUME NEW l \in Lookups, Release(l) PROVE Base'
  BY <1>m DEF Release, Unrefer, UnreferLine, Count, LookType
<1>n. CASE Reload
  BY <1>n DEF Reload, Cfg
<1>o. CASE RegistryReloadConfig
  BY <1>o DEF RegistryReloadConfig
<1>p. CASE Unload
  BY <1>p DEF Unload, Count
<1>q. CASE UNCHANGED vars
  BY <1>q DEF vars
<1> QED
  BY <1>a, <1>b, <1>c, <1>d, <1>e, <1>f, <1>g, <1>h, <1>i, <1>j, <1>k, <1>l, <1>m, <1>n, <1>o,
     <1>p, <1>q
  DEF Next, SessionNext, LookupNext

LEMMA OwnershipStep == ASSUME Base, Ownership, [Next]_vars PROVE Ownership'
<1> USE RegistryAssumption DEF Base, Ownership, Goes, Busy, HasSession,
        registryVars, deviceVars, sessionVars, mainVars
<1>a. ASSUME NEW s \in Sessions, Accept(s) PROVE Ownership'
  BY <1>a DEF Accept
<1>b. ASSUME NEW s \in Sessions, NEW n \in Names, HandleRegister(s, n) PROVE Ownership'
  <2>1. /\ CfgFor(cfg[s], n) \in DevType
        /\ CfgFor(cfg[s], n).name \in Names
        /\ CfgFor(cfg[s], n).line \in Lines
    BY <1>b, CfgForType DEF HandleRegister
  <2>2. PICK d \in Devices : CreateDevice(d, CfgFor(cfg[s], n)) /\ device' = [device EXCEPT ![s] = d]
    BY <1>b DEF HandleRegister
  <2>3. d # None /\ device' = [device EXCEPT ![s] = d] /\ pc' = [pc EXCEPT ![s] = "add"]
    BY <1>b, <2>2 DEF HandleRegister
  <2>4. state' = [state EXCEPT ![d] = "NEW"] /\ dev' = [dev EXCEPT ![d] = CfgFor(cfg[s], n)]
    BY <2>2 DEF CreateDevice
  <2>5. \A t \in Sessions : device[t] # d
    BY <2>2 DEF CreateDevice
  <2>6. \A t \in Sessions : device'[t] = IF t = s THEN d ELSE device[t]
    BY <2>3
  <2>7. /\ state'[d] = "NEW" /\ dev'[d].name \in Names /\ dev'[d].line \in Lines
        /\ \A e \in Devices : e # d => state'[e] = state[e] /\ dev'[e] = dev[e]
    BY <2>1, <2>4
  <2>8. \A t \in Sessions : pc'[t] = IF t = s THEN "add" ELSE pc[t]
    BY <2>3
  <2>9. device[s] = None
    BY <1>b DEF HandleRegister
  <2>10. \A t \in Sessions : device'[t] # None =>
           /\ state'[device'[t]] \in {"NEW", "WORKING"}
           /\ dev'[device'[t]].name \in Names
           /\ dev'[device'[t]].line \in Lines
    BY <2>5, <2>6, <2>7
  <2>11. ASSUME NEW e \in Devices, state'[e] \in {"NEW", "WORKING"}
         PROVE  \E t \in Sessions : device'[t] = e
    <3>1. CASE e = d
      BY <2>6, <3>1
    <3>2. CASE e # d
      <4>1. PICK t \in Sessions : device[t] = e
        BY <2>7, <2>11, <3>2
      <4> QED BY <2>6, <2>9, <4>1
    <3> QED BY <3>1, <3>2
  <2>12. \A t, u \in Sessions : device'[t] # None /\ device'[t] = device'[u] => t = u
    BY <2>5, <2>6
  <2>13. \A t \in Sessions :
           /\ pc'[t] \in {"none", "ended"} => device'[t] = None
           /\ pc'[t] \in Busy => device'[t] # None
    BY <2>3, <2>6, <2>8
  <2> QED BY <2>10, <2>11, <2>12, <2>13
<1>c. ASSUME NEW s \in Sessions, RegistryAdd(s) PROVE Ownership'
  BY <1>c DEF RegistryAdd, Add
<1>d. ASSUME NEW s \in Sessions, RegistryAddRefused(s) PROVE Ownership'
  BY <1>d DEF RegistryAddRefused, AddFails
<1>e. ASSUME NEW s \in Sessions, RegisterRejected(s) PROVE Ownership'
  BY <1>e DEF RegisterRejected, DestroyDevice
<1>f. ASSUME NEW s \in Sessions, RegistrationSuccess(s) PROVE Ownership'
  BY <1>f DEF RegistrationSuccess
<1>g. ASSUME NEW s \in Sessions, ReloadConfig(s) PROVE Ownership'
  <2>1. PICK c \in (cfg[s] + 1) .. globalCfg : cfg' = [cfg EXCEPT ![s] = c] /\ ApplyConfig(s, c)
    BY <1>g DEF ReloadConfig
  <2>2. c \in Cfg
    BY DEF Cfg
  <2>3. device[s] # None =>
          /\ CfgFor(c, dev[device[s]].name).name = dev[device[s]].name
          /\ IsFound(c, dev[device[s]].name) => CfgFor(c, dev[device[s]].name).line \in Lines
    BY <2>2, CfgForType
  <2> QED BY <1>g, <2>1, <2>3 DEF ReloadConfig, ApplyConfig
<1>h. ASSUME NEW s \in Sessions, Stop(s) \/ EndLoop(s) PROVE Ownership'
  BY <1>h DEF Stop, EndLoop
<1>i. ASSUME NEW s \in Sessions, RegistryRemove(s) PROVE Ownership'
  BY <1>i DEF RegistryRemove, Remove
<1>j. ASSUME NEW s \in Sessions, Destroy(s) PROVE Ownership'
  BY <1>j DEF Destroy, DestroyDevice
<1>k. ASSUME NEW l \in Lookups, LookupNext(l) PROVE Ownership'
  BY <1>k DEF LookupNext, FindLine, FindDevice, Release
<1>l. CASE Reload \/ RegistryReloadConfig \/ Unload
  BY <1>l DEF Reload, RegistryReloadConfig, Unload
<1>m. CASE UNCHANGED vars
  BY <1>m DEF vars
<1> QED
  BY <1>a, <1>b, <1>c, <1>d, <1>e, <1>f, <1>g, <1>h, <1>i, <1>j, <1>k, <1>l, <1>m
  DEF Next, SessionNext

-----------------------------------------------------------------------------
(* What the actions of a session do, device by device.                     *)

LEMMA RegisterEffect ==
  ASSUME Base, Ownership, NEW s \in Sessions, NEW n \in Names, HandleRegister(s, n)
  PROVE  \E d \in Devices :
           /\ state[d] = "unallocated" /\ device[s] = None /\ pc[s] = "loop"
           /\ \A t \in Sessions : device[t] # d
           /\ \A t \in Sessions : device'[t] = IF t = s THEN d ELSE device[t]
           /\ \A t \in Sessions : pc'[t] = IF t = s THEN "add" ELSE pc[t]
           /\ state'[d] = "NEW" /\ refs'[d] = 2 /\ lineRefs'[d] = 1
           /\ \A e \in Devices : e # d =>
                /\ state'[e] = state[e] /\ dev'[e] = dev[e]
                /\ refs'[e] = refs[e] /\ lineRefs'[e] = lineRefs[e]
           /\ UNCHANGED <<devices, lines, cur_guests, max_guests, look, devstate, main>>
<1>1. PICK d \in Devices :
        CreateDevice(d, CfgFor(cfg[s], n)) /\ device' = [device EXCEPT ![s] = d]
    BY DEF HandleRegister
<1>2. /\ state[d] = "unallocated"
      /\ state' = [state EXCEPT ![d] = "NEW"] /\ dev' = [dev EXCEPT ![d] = CfgFor(cfg[s], n)]
      /\ refs' = [refs EXCEPT ![d] = 2] /\ lineRefs' = [lineRefs EXCEPT ![d] = 1]
  BY <1>1 DEF CreateDevice
<1>3. /\ device[s] = None /\ pc[s] = "loop" /\ pc' = [pc EXCEPT ![s] = "add"]
      /\ UNCHANGED <<devices, lines, cur_guests, max_guests, look, devstate, main>>
  BY DEF HandleRegister, Goes, registryVars, mainVars
<1>4. \A t \in Sessions : device[t] # d
  BY <1>2, RegistryAssumption DEF Ownership
<1>5. /\ \A t \in Sessions : device'[t] = IF t = s THEN d ELSE device[t]
      /\ \A t \in Sessions : pc'[t] = IF t = s THEN "add" ELSE pc[t]
  BY <1>1, <1>3 DEF Base
<1>6. /\ state'[d] = "NEW" /\ refs'[d] = 2 /\ lineRefs'[d] = 1
      /\ \A e \in Devices : e # d =>
           /\ state'[e] = state[e] /\ dev'[e] = dev[e]
           /\ refs'[e] = refs[e] /\ lineRefs'[e] = lineRefs[e]
  BY <1>2 DEF Base
<1> QED BY <1>2, <1>3, <1>4, <1>5, <1>6

LEMMA LeaveEffect ==
  ASSUME Base, Ownership, NEW s \in Sessions, RegisterRejected(s) \/ Destroy(s)
  PROVE  /\ device[s] \in Devices /\ device[s] # None
         /\ pc[s] \in {"refused", "destroy"}
         /\ \A t \in Sessions : device'[t] = IF t = s THEN None ELSE device[t]
         /\ \A t \in Sessions : t # s => pc'[t] = pc[t]
         /\ state'[device[s]] = "DESTROYED"
         /\ lineRefs'[device[s]] = lineRefs[device[s]] - 1
         /\ refs'[device[s]] = refs[device[s]] - 1 - Count(lineRefs[device[s]] = 1)
         /\ \A e \in Devices : e # device[s] =>
              state'[e] = state[e] /\ refs'[e] = refs[e] /\ lineRefs'[e] = lineRefs[e]
         /\ devstate' = [devstate EXCEPT ![dev[device[s]].line] = "UNAVAILABLE"]
         /\ UNCHANGED <<dev, devices, lines, cur_guests, max_guests, look, main>>
<1>1. /\ DestroyDevice(device[s]) /\ device' = [device EXCEPT ![s] = None]
      /\ pc[s] \in {"refused", "destroy"} /\ pc' \in {[pc EXCEPT ![s] = p] : p \in {"loop", "ended"}}
      /\ UNCHANGED <<devices, lines, cur_guests, max_guests, look, main>>
  BY DEF RegisterRejected, Destroy, Goes, registryVars, mainVars
<1>2. device[s] \in Devices /\ device[s] # None
  BY <1>1 DEF Base, Ownership, Busy
<1>3. /\ state' = [state EXCEPT ![device[s]] = "DESTROYED"]
      /\ lineRefs' = [lineRefs EXCEPT ![device[s]] = @ - 1]
      /\ refs' = [refs EXCEPT ![device[s]] = @ - 1 - Count(lineRefs[device[s]] = 1)]
      /\ devstate' = [devstate EXCEPT ![dev[device[s]].line] = "UNAVAILABLE"]
      /\ UNCHANGED dev
  BY <1>1 DEF DestroyDevice, UnreferLine
<1>4. /\ \A t \in Sessions : device'[t] = IF t = s THEN None ELSE device[t]
      /\ \A t \in Sessions : t # s => pc'[t] = pc[t]
  BY <1>1 DEF Base
<1>5. /\ state'[device[s]] = "DESTROYED"
      /\ lineRefs'[device[s]] = lineRefs[device[s]] - 1
      /\ refs'[device[s]] = refs[device[s]] - 1 - Count(lineRefs[device[s]] = 1)
      /\ \A e \in Devices : e # device[s] =>
           state'[e] = state[e] /\ refs'[e] = refs[e] /\ lineRefs'[e] = lineRefs[e]
  BY <1>2, <1>3 DEF Base
<1> QED BY <1>1, <1>2, <1>3, <1>4, <1>5

(* "The guest state of a device is a constant attribute": a reload changes *)
(* neither the name, nor the guest flag, nor the line of a device.         *)
LEMMA ReloadEffect ==
  ASSUME Base, Ownership, NEW s \in Sessions, ReloadConfig(s)
  PROVE  /\ \A d \in Devices : /\ dev'[d].name = dev[d].name
                               /\ dev'[d].guest = dev[d].guest
                               /\ dev'[d].line = dev[d].line
         /\ UNCHANGED <<registryVars, state, refs, lineRefs, pc, device, look, devstate, main>>
<1>1. UNCHANGED <<registryVars, state, refs, lineRefs, pc, device, look, devstate, main>>
  BY DEF ReloadConfig, mainVars
<1>2. PICK c \in (cfg[s] + 1) .. globalCfg : ApplyConfig(s, c)
  BY DEF ReloadConfig
<1>3. CASE UNCHANGED dev
  BY <1>1, <1>3
<1>4. CASE ~UNCHANGED dev
  <2> DEFINE new == CfgFor(c, dev[device[s]].name)
  <2>1. device[s] # None /\ CanApply(device[s], new) /\ dev' = [dev EXCEPT ![device[s]] = new]
    BY <1>2, <1>4 DEF ApplyConfig
  <2>2. new.name = dev[device[s]].name
    BY DEF CfgFor
  <2>3. new.guest = dev[device[s]].guest /\ new.line = dev[device[s]].line
    BY <2>1 DEF CanApply
  <2>4. \A d \in Devices : dev'[d] = IF d = device[s] THEN new ELSE dev[d]
    BY <2>1 DEF Base
  <2> HIDE DEF new
  <2> QED BY <1>1, <2>2, <2>3, <2>4
<1> QED BY <1>3, <1>4

-----------------------------------------------------------------------------
(* The registry's containers.                                              *)

Registered == {"success", "loop", "remove"}

(* The registry holds the devices of the sessions between the addition and *)
(* the removal.                                                            *)
Membership ==
  /\ \A s \in Sessions : device[s] # None => (device[s] \in devices <=> pc[s] \in Registered)
  /\ \A d \in devices : HasSession(d)
  /\ LinesFollowDevices
  /\ OneDevicePerName

LEMMA MembershipInit == ASSUME Init PROVE Membership
  BY DEF Init, Membership, LinesFollowDevices, OneDevicePerName

LEMMA MembershipStep ==
  ASSUME Base, Base', Ownership, Ownership', Membership, [Next]_vars PROVE Membership'
<1> USE RegistryAssumption DEF Base, Ownership, Membership, Registered, LinesFollowDevices,
        OneDevicePerName, HasSession, Goes, Busy, registryVars, deviceVars, sessionVars, mainVars
<1>a. ASSUME NEW s \in Sessions, Accept(s) PROVE Membership'
  BY <1>a DEF Accept
<1>b. ASSUME NEW s \in Sessions, NEW n \in Names, HandleRegister(s, n) PROVE Membership'
  <2>1. PICK d \in Devices :
          /\ state[d] = "unallocated" /\ device[s] = None
          /\ \A t \in Sessions : device[t] # d
          /\ \A t \in Sessions : device'[t] = IF t = s THEN d ELSE device[t]
          /\ \A t \in Sessions : pc'[t] = IF t = s THEN "add" ELSE pc[t]
          /\ \A e \in Devices : e # d => dev'[e] = dev[e]
          /\ UNCHANGED <<devices, lines, devstate>>
    <3> HIDE DEF Base, Ownership
    <3> QED BY <1>b, RegisterEffect
  <2>2. d \notin devices
    BY <2>1
  <2>3. \A t \in Sessions : device'[t] # None => (device'[t] \in devices' <=> pc'[t] \in Registered)
    BY <2>1, <2>2
  <2>4. \A e \in devices' : \E t \in Sessions : device'[t] = e
    BY <2>1, <2>2
  <2>5. \A e, f \in devices' : dev'[e].name = dev'[f].name => e = f
    BY <2>1, <2>2
  <2>6. lines' = devices'
    BY <2>1
  <2> QED BY <2>3, <2>4, <2>5, <2>6
<1>c. ASSUME NEW s \in Sessions, RegistryAdd(s) PROVE Membership'
  BY <1>c DEF RegistryAdd, Add, Refused, NameIsTaken
<1>d. ASSUME NEW s \in Sessions, RegistryAddRefused(s) PROVE Membership'
  <2>1. pc[s] = "add" /\ pc' = [pc EXCEPT ![s] = "refused"] /\ device' = device
    BY <1>d DEF RegistryAddRefused
  <2>2. device[s] \notin devices
    <3>1. device[s] # None
      BY <2>1 DEF Ownership
    <3>2. pc[s] \notin Registered
      BY <2>1
    <3> HIDE DEF Base, Ownership, Registered
    <3> QED
      BY <3>1, <3>2
  <2>3. (devices \cup {device[s]}) \ {device[s]} = devices
    BY <2>2
  <2>4. UNCHANGED <<dev, devices, lines>>
    <3>1. CASE UNCHANGED <<registryVars, deviceVars>>
      BY <3>1
    <3>2. CASE AddFails(device[s])
      BY <2>3, <3>2 DEF AddFails
    <3> QED BY <1>d, <3>1, <3>2 DEF RegistryAddRefused
  <2> QED BY <2>1, <2>2, <2>4
<1>e. ASSUME NEW s \in Sessions, RegisterRejected(s) \/ Destroy(s) PROVE Membership'
  <2>1. /\ device[s] \in Devices /\ device[s] # None
        /\ pc[s] \in {"refused", "destroy"}
        /\ \A t \in Sessions : device'[t] = IF t = s THEN None ELSE device[t]
        /\ \A t \in Sessions : t # s => pc'[t] = pc[t]
        /\ devstate' = [devstate EXCEPT ![dev[device[s]].line] = "UNAVAILABLE"]
        /\ UNCHANGED <<dev, devices, lines>>
    <3> HIDE DEF Base, Ownership
    <3> QED BY <1>e, LeaveEffect
  <2>2. device[s] \notin devices
    BY <2>1
  <2>3. \A t \in Sessions : device'[t] # None => (device'[t] \in devices' <=> pc'[t] \in Registered)
    BY <2>1
  <2>4. \A e \in devices' : \E t \in Sessions : device'[t] = e
    BY <2>1, <2>2
  <2> QED BY <2>1, <2>3, <2>4
<1>f. ASSUME NEW s \in Sessions, RegistrationSuccess(s) PROVE Membership'
  BY <1>f DEF RegistrationSuccess
<1>g. ASSUME NEW s \in Sessions, ReloadConfig(s) PROVE Membership'
  <2>1. /\ \A d \in Devices : /\ dev'[d].name = dev[d].name
                              /\ dev'[d].line = dev[d].line
        /\ UNCHANGED <<devices, lines, pc, device, devstate>>
    <3> HIDE DEF Base, Ownership
    <3> QED BY <1>g, ReloadEffect
  <2>2. \A d \in devices : dev'[d].name = dev[d].name
    BY <2>1
  <2> QED BY <2>1, <2>2
<1>h. ASSUME NEW s \in Sessions, Stop(s) \/ EndLoop(s) PROVE Membership'
  BY <1>h DEF Stop, EndLoop
<1>i. ASSUME NEW s \in Sessions, RegistryRemove(s) PROVE Membership'
  BY <1>i DEF RegistryRemove, Remove
<1>k. ASSUME NEW l \in Lookups, LookupNext(l) PROVE Membership'
  BY <1>k DEF LookupNext, FindLine, FindDevice, Release
<1>l. CASE Reload \/ RegistryReloadConfig
  BY <1>l DEF Reload, RegistryReloadConfig
<1>m. CASE Unload
  BY <1>m DEF Unload
<1>n. CASE UNCHANGED vars
  BY <1>n DEF vars
<1> QED
  BY <1>a, <1>b, <1>c, <1>d, <1>e, <1>f, <1>g, <1>h, <1>i, <1>k, <1>l, <1>m, <1>n
  DEF Next, SessionNext

-----------------------------------------------------------------------------
(* The lines that Asterisk was told are free.                              *)

LEMMA FreeLineInit == ASSUME Init PROVE FreeLineHasDevice
  BY DEF Init, FreeLineHasDevice

LEMMA FreeLineStep ==
  ASSUME Base, Base', Ownership, FreeLineHasDevice, [Next]_vars PROVE FreeLineHasDevice'
<1> USE RegistryAssumption DEF Base, Ownership, FreeLineHasDevice, Goes, Busy,
        registryVars, deviceVars, sessionVars, mainVars
<1>b. ASSUME NEW s \in Sessions, NEW n \in Names, HandleRegister(s, n) PROVE FreeLineHasDevice'
  <2>1. PICK d \in Devices :
          /\ state[d] = "unallocated" /\ device[s] = None
          /\ \A t \in Sessions : device[t] # d
          /\ \A t \in Sessions : device'[t] = IF t = s THEN d ELSE device[t]
          /\ \A t \in Sessions : pc'[t] = IF t = s THEN "add" ELSE pc[t]
          /\ \A e \in Devices : e # d => dev'[e] = dev[e]
          /\ UNCHANGED <<devices, lines, devstate>>
    <3> HIDE DEF Base, Ownership
    <3> QED BY <1>b, RegisterEffect
  <2>2. \A t \in Sessions : device[t] # None => device'[t] = device[t] /\ dev'[device'[t]] = dev[device[t]]
    BY <2>1
  <2>3. ASSUME NEW m \in Lines, devstate'[m] = "NOT_INUSE"
        PROVE  \E t \in Sessions : device'[t] # None /\ dev'[device'[t]].line = m
    <3>1. PICK t \in Sessions : device[t] # None /\ dev[device[t]].line = m
      BY <2>1, <2>3
    <3> QED BY <2>2, <3>1
  <2> QED BY <2>3
<1>c. ASSUME NEW s \in Sessions,
             Accept(s) \/ RegistryAdd(s) \/ RegistryAddRefused(s) \/ Stop(s) \/ EndLoop(s)
                       \/ RegistryRemove(s)
      PROVE  FreeLineHasDevice'
  <2>1. UNCHANGED <<dev, device, devstate>>
    BY <1>c DEF Accept, RegistryAdd, Add, RegistryAddRefused, AddFails, Stop, EndLoop,
                RegistryRemove, Remove
  <2> QED BY <2>1
<1>e. ASSUME NEW s \in Sessions, RegisterRejected(s) \/ Destroy(s) PROVE FreeLineHasDevice'
  <2>1. /\ device[s] \in Devices /\ device[s] # None
        /\ pc[s] \in {"refused", "destroy"}
        /\ \A t \in Sessions : device'[t] = IF t = s THEN None ELSE device[t]
        /\ \A t \in Sessions : t # s => pc'[t] = pc[t]
        /\ devstate' = [devstate EXCEPT ![dev[device[s]].line] = "UNAVAILABLE"]
        /\ UNCHANGED <<dev, devices, lines>>
    <3> HIDE DEF Base, Ownership
    <3> QED BY <1>e, LeaveEffect
  <2>2. ASSUME NEW n \in Lines, devstate'[n] = "NOT_INUSE"
        PROVE  \E t \in Sessions : device'[t] # None /\ dev'[device'[t]].line = n
    <3>1. devstate[n] = "NOT_INUSE" /\ n # dev[device[s]].line
      BY <2>1, <2>2
    <3>2. PICK t \in Sessions : device[t] # None /\ dev[device[t]].line = n
      BY <3>1
    <3>3. t # s
      BY <3>1, <3>2
    <3> QED BY <2>1, <3>2, <3>3
  <2> QED BY <2>2
<1>f. ASSUME NEW s \in Sessions, RegistrationSuccess(s) PROVE FreeLineHasDevice'
  BY <1>f DEF RegistrationSuccess
<1>g. ASSUME NEW s \in Sessions, ReloadConfig(s) PROVE FreeLineHasDevice'
  <2>1. /\ \A d \in Devices : /\ dev'[d].name = dev[d].name
                              /\ dev'[d].line = dev[d].line
        /\ UNCHANGED <<devices, lines, pc, device, devstate>>
    <3> HIDE DEF Base, Ownership
    <3> QED BY <1>g, ReloadEffect
  <2>2. \A t \in Sessions : device[t] # None => dev'[device'[t]].line = dev[device[t]].line
    BY <2>1
  <2>3. ASSUME NEW n \in Lines, devstate'[n] = "NOT_INUSE"
        PROVE  \E t \in Sessions : device'[t] # None /\ dev'[device'[t]].line = n
    <3>1. PICK t \in Sessions : device[t] # None /\ dev[device[t]].line = n
      BY <2>1, <2>3
    <3> QED BY <2>1, <2>2, <3>1
  <2> QED BY <2>3
<1>k. ASSUME NEW l \in Lookups, LookupNext(l) PROVE FreeLineHasDevice'
  <2>1. UNCHANGED <<dev, device, devstate>>
    BY <1>k DEF LookupNext, FindLine, FindDevice, Release
  <2> QED BY <2>1
<1>l. CASE Reload \/ RegistryReloadConfig \/ Unload
  BY <1>l DEF Reload, RegistryReloadConfig, Unload
<1>n. CASE UNCHANGED vars
  BY <1>n DEF vars
<1> QED
  BY <1>b, <1>c, <1>e, <1>f, <1>g, <1>k, <1>l, <1>n DEF Next, SessionNext

-----------------------------------------------------------------------------
(* The count of guests.                                                    *)

LEMMA GuestsType ==
  ASSUME Base PROVE IsFiniteSet(Guests) /\ Cardinality(Guests) \in Nat
<1>1. Guests \subseteq Devices
  BY DEF Guests, Base
<1> QED BY <1>1, RegistryAssumption, FS_Subset, FS_CardinalityType

(* What a step does to the guests: nothing, or one of them enters below    *)
(* the limit, or one of them leaves.                                       *)
GuestsStay  == Guests' = Guests /\ cur_guests' = cur_guests
GuestEnters == \E d \in Devices :
  /\ d \notin Guests /\ Guests' = Guests \cup {d}
  /\ cur_guests' = cur_guests + 1 /\ cur_guests < max_guests
GuestLeaves == \E d \in Guests :
  /\ Guests' = Guests \ {d}
  /\ cur_guests' = IF cur_guests > 0 THEN cur_guests - 1 ELSE cur_guests

LEMMA GuestsStep ==
  ASSUME Base, Ownership, Membership, [Next]_vars
  PROVE  GuestsStay \/ GuestEnters \/ GuestLeaves
<1> USE DEF Guests, Goes, registryVars, deviceVars, sessionVars, mainVars
<1>b. ASSUME NEW s \in Sessions, NEW n \in Names, HandleRegister(s, n) PROVE GuestsStay
  <2>1. PICK d \in Devices :
          /\ \A t \in Sessions : device[t] # d
          /\ \A e \in Devices : e # d => dev'[e] = dev[e]
          /\ UNCHANGED <<devices, cur_guests>>
    BY <1>b, RegisterEffect
  <2>2. \A e \in devices : dev'[e] = dev[e]
    BY <2>1 DEF Membership, HasSession, Base
  <2> QED BY <2>1, <2>2 DEF GuestsStay
<1>c. ASSUME NEW s \in Sessions, RegistryAdd(s) PROVE GuestsStay \/ GuestEnters
  <2>1. device[s] \in Devices /\ device[s] \notin devices
    BY <1>c DEF RegistryAdd, Base, Ownership, Membership, Busy, Registered
  <2>2. /\ devices' = devices \cup {device[s]} /\ dev' = dev
        /\ cur_guests' = cur_guests + Count(dev[device[s]].guest)
        /\ dev[device[s]].guest => cur_guests < max_guests
    BY <1>c DEF RegistryAdd, Add, Refused, GuestsAreFull, Base
  <2>3. CASE dev[device[s]].guest
    BY <2>1, <2>2, <2>3 DEF GuestEnters, Count, Base
  <2>4. CASE ~dev[device[s]].guest
    BY <2>1, <2>2, <2>4 DEF GuestsStay, Count, Base
  <2> QED BY <2>3, <2>4
<1>d. ASSUME NEW s \in Sessions, RegistryAddRefused(s) PROVE GuestsStay
  <2>1. device[s] \in Devices /\ device[s] \notin devices
    BY <1>d DEF RegistryAddRefused, Base, Ownership, Membership, Busy, Registered
  <2>2. (devices \cup {device[s]}) \ {device[s]} = devices
    BY <2>1
  <2>3. CASE UNCHANGED <<registryVars, deviceVars>>
    BY <2>3 DEF GuestsStay
  <2>4. CASE AddFails(device[s])
    BY <2>2, <2>4 DEF AddFails, GuestsStay
  <2> QED BY <1>d, <2>3, <2>4 DEF RegistryAddRefused
<1>e. ASSUME NEW s \in Sessions, RegisterRejected(s) \/ Destroy(s) PROVE GuestsStay
  BY <1>e, LeaveEffect DEF GuestsStay
<1>f. ASSUME NEW s \in Sessions, Accept(s) \/ RegistrationSuccess(s) \/ Stop(s) \/ EndLoop(s)
      PROVE  GuestsStay
  BY <1>f DEF Accept, RegistrationSuccess, Stop, EndLoop, GuestsStay
<1>g. ASSUME NEW s \in Sessions, ReloadConfig(s) PROVE GuestsStay
  <2>1. /\ \A d \in Devices : dev'[d].guest = dev[d].guest
        /\ UNCHANGED <<devices, cur_guests>>
    BY <1>g, ReloadEffect
  <2> QED BY <2>1 DEF GuestsStay, Base
<1>i. ASSUME NEW s \in Sessions, RegistryRemove(s) PROVE GuestsStay \/ GuestLeaves
  <2>1. device[s] \in devices
    BY <1>i DEF RegistryRemove, Base, Ownership, Membership, Busy, Registered
  <2>2. /\ devices' = devices \ {device[s]} /\ dev' = dev
        /\ cur_guests' = IF dev[device[s]].guest /\ cur_guests > 0
                         THEN cur_guests - 1 ELSE cur_guests
    BY <1>i DEF RegistryRemove, Remove
  <2>3. CASE dev[device[s]].guest
    BY <2>1, <2>2, <2>3 DEF GuestLeaves
  <2>4. CASE ~dev[device[s]].guest
    BY <2>1, <2>2, <2>4 DEF GuestsStay
  <2> QED BY <2>3, <2>4
<1>k. ASSUME NEW l \in Lookups, LookupNext(l) PROVE GuestsStay
  BY <1>k DEF LookupNext, FindLine, FindDevice, Release, GuestsStay
<1>l. CASE Reload \/ RegistryReloadConfig
  BY <1>l DEF Reload, RegistryReloadConfig, GuestsStay
<1>m. CASE Unload
  <2>1. devices = {}
    <3>1. \A s \in Sessions : device[s] = None
      BY <1>m DEF Unload, Ownership
    <3>2. \A d \in devices : d # None
      BY RegistryAssumption DEF Base
    <3> QED BY <3>1, <3>2 DEF Membership, HasSession
  <2> QED BY <1>m, <2>1 DEF Unload, GuestsStay
<1>n. CASE UNCHANGED vars
  BY <1>n DEF vars, GuestsStay
<1> QED
  BY <1>b, <1>c, <1>d, <1>e, <1>f, <1>g, <1>i, <1>k, <1>l, <1>m, <1>n DEF Next, SessionNext

LEMMA CountedInit == ASSUME Init PROVE GuestsAreCounted
<1>1. Guests = {}
  BY DEF Init, Guests
<1> QED BY <1>1, FS_EmptySet DEF Init, GuestsAreCounted

LEMMA CountedStep ==
  ASSUME Base, Ownership, Membership, GuestsAreCounted, [Next]_vars
  PROVE  /\ GuestsAreCounted'
         /\ Cardinality(Guests') > Cardinality(Guests) => Cardinality(Guests') <= max_guests
<1>1. IsFiniteSet(Guests) /\ Cardinality(Guests) \in Nat /\ max_guests \in Nat
  BY GuestsType DEF Base
<1>2. CASE GuestsStay
  BY <1>1, <1>2 DEF GuestsStay, GuestsAreCounted
<1>3. CASE GuestEnters
  <2>1. PICK d \in Devices :
          /\ d \notin Guests /\ Guests' = Guests \cup {d}
          /\ cur_guests' = cur_guests + 1 /\ cur_guests < max_guests
    BY <1>3 DEF GuestEnters
  <2>2. Cardinality(Guests') = Cardinality(Guests) + 1
    BY <1>1, <2>1, FS_AddElement
  <2> QED BY <1>1, <2>1, <2>2 DEF GuestsAreCounted
<1>4. CASE GuestLeaves
  <2>1. PICK d \in Guests :
          /\ Guests' = Guests \ {d}
          /\ cur_guests' = IF cur_guests > 0 THEN cur_guests - 1 ELSE cur_guests
    BY <1>4 DEF GuestLeaves
  <2>2. Cardinality(Guests') = Cardinality(Guests) - 1
    BY <1>1, <2>1, FS_RemoveElement
  <2>3. Cardinality(Guests) > 0
    BY <1>1, <2>1, FS_EmptySet
  <2> QED BY <1>1, <2>1, <2>2, <2>3 DEF GuestsAreCounted
<1> QED BY <1>2, <1>3, <1>4, GuestsStep

-----------------------------------------------------------------------------
(* The reference counts.                                                   *)

Whats == {"line", "device"}

LEMMA HoldersFinite ==
  ASSUME NEW d, NEW w
  PROVE  /\ IsFiniteSet(Holders(d, w)) /\ Cardinality(Holders(d, w)) \in Nat
         /\ IsFiniteSet(Holders(d, w)') /\ Cardinality(Holders(d, w)') \in Nat
<1>1. Holders(d, w) \subseteq Lookups /\ Holders(d, w)' \subseteq Lookups
  BY DEF Holders
<1> QED BY <1>1, RegistryAssumption, FS_Subset, FS_CardinalityType

LEMMA HoldersGrow ==
  ASSUME look \in [Lookups -> LookType], NEW l \in Lookups, look[l] = Nothing,
         NEW d \in Devices, NEW w \in Whats,
         look' = [look EXCEPT ![l] = [holds |-> w, device |-> d]],
         NEW e \in Devices, NEW v \in Whats
  PROVE  Cardinality(Holders(e, v)') = Cardinality(Holders(e, v)) + Count(e = d /\ v = w)
<1>1. \A k \in Lookups : look'[k] = IF k = l THEN [holds |-> w, device |-> d] ELSE look[k]
  OBVIOUS
<1>2. [holds |-> v, device |-> e] = [holds |-> w, device |-> d] <=> e = d /\ v = w
  <2>1. /\ [holds |-> v, device |-> e].holds = v /\ [holds |-> v, device |-> e].device = e
        /\ [holds |-> w, device |-> d].holds = w /\ [holds |-> w, device |-> d].device = d
    OBVIOUS
  <2> QED BY <2>1
<1>3. l \notin Holders(e, v)
  BY DEF Holders, Nothing, Whats
<1>4. CASE e = d /\ v = w
  <2>1. Holders(e, v)' = Holders(e, v) \cup {l}
    BY <1>1, <1>4 DEF Holders
  <2>2. Cardinality(Holders(e, v) \cup {l}) = Cardinality(Holders(e, v)) + 1
    BY <1>3, HoldersFinite, FS_AddElement
  <2> QED BY <1>4, <2>1, <2>2 DEF Count
<1>5. CASE ~(e = d /\ v = w)
  <2>1. Holders(e, v)' = Holders(e, v)
    BY <1>1, <1>2, <1>3, <1>5 DEF Holders
  <2> QED BY <1>5, <2>1, HoldersFinite DEF Count
<1> QED BY <1>4, <1>5

LEMMA HoldersShrink ==
  ASSUME look \in [Lookups -> LookType], NEW l \in Lookups,
         look' = [look EXCEPT ![l] = Nothing],
         NEW e \in Devices, NEW v \in Whats
  PROVE  Cardinality(Holders(e, v)') =
           Cardinality(Holders(e, v)) - Count(look[l] = [holds |-> v, device |-> e])
<1>1. \A k \in Lookups : look'[k] = IF k = l THEN Nothing ELSE look[k]
  OBVIOUS
<1>2. Nothing # [holds |-> v, device |-> e]
  BY DEF Nothing, Whats
<1>3. CASE look[l] = [holds |-> v, device |-> e]
  <2>1. Holders(e, v)' = Holders(e, v) \ {l} /\ l \in Holders(e, v)
    BY <1>1, <1>2, <1>3 DEF Holders
  <2>2. Cardinality(Holders(e, v) \ {l}) = Cardinality(Holders(e, v)) - 1
    BY <2>1, HoldersFinite, FS_RemoveElement
  <2> QED BY <1>3, <2>1, <2>2 DEF Count
<1>4. CASE look[l] # [holds |-> v, device |-> e]
  <2>1. Holders(e, v)' = Holders(e, v)
    BY <1>1, <1>2, <1>4 DEF Holders
  <2> QED BY <1>4, <2>1, HoldersFinite DEF Count
<1> QED BY <1>3, <1>4

(* What was looked up had been registered.                                 *)
LookedUp ==
  \A l \in Lookups : look[l] # Nothing => state[look[l].device] # "unallocated"

LEMMA LookedUpInit == ASSUME Init PROVE LookedUp
  BY DEF Init, LookedUp

LEMMA LookedUpStep ==
  ASSUME Base, Ownership, Membership, LookedUp, [Next]_vars PROVE LookedUp'
<1> USE DEF Goes, registryVars, deviceVars, sessionVars, mainVars
<1>0. ASSUME NEW l \in Lookups, look[l] # Nothing PROVE look[l].device \in Devices
  BY <1>0 DEF Base, LookType
<1>b. ASSUME NEW s \in Sessions, NEW n \in Names, HandleRegister(s, n) PROVE LookedUp'
  <2>1. PICK d \in Devices :
          /\ state'[d] = "NEW" /\ \A e \in Devices : e # d => state'[e] = state[e]
          /\ look' = look
    BY <1>b, RegisterEffect
  <2> QED BY <1>0, <2>1 DEF LookedUp
<1>c. ASSUME NEW s \in Sessions,
             Accept(s) \/ RegistryAdd(s) \/ RegistryAddRefused(s) \/ Stop(s) \/ EndLoop(s)
                       \/ RegistryRemove(s) \/ ReloadConfig(s)
      PROVE  LookedUp'
  <2>1. UNCHANGED <<state, look>>
    BY <1>c DEF Accept, RegistryAdd, Add, RegistryAddRefused, AddFails, Stop, EndLoop,
                RegistryRemove, Remove, ReloadConfig
  <2> QED BY <2>1 DEF LookedUp
<1>e. ASSUME NEW s \in Sessions, RegisterRejected(s) \/ Destroy(s) PROVE LookedUp'
  <2>1. /\ state'[device[s]] = "DESTROYED" /\ look' = look
        /\ \A e \in Devices : e # device[s] => state'[e] = state[e]
    BY <1>e, LeaveEffect
  <2> QED BY <1>0, <2>1 DEF LookedUp
<1>f. ASSUME NEW s \in Sessions, RegistrationSuccess(s) PROVE LookedUp'
  BY <1>0, <1>f DEF RegistrationSuccess, LookedUp, Base
<1>k. ASSUME NEW l \in Lookups, LookupNext(l) PROVE LookedUp'
  <2>1. \A d \in devices \cup lines : state[d] \in {"NEW", "WORKING"}
    BY RegistryAssumption DEF Membership, LinesFollowDevices, HasSession, Ownership, Base
  <2>2. PICK x : /\ look' = [look EXCEPT ![l] = x] /\ state' = state
                 /\ x # Nothing => x.device \in devices \cup lines
    BY <1>k DEF LookupNext, FindLine, FindDevice, Release
  <2> QED BY <2>1, <2>2 DEF LookedUp, Base
<1>l. CASE Reload \/ RegistryReloadConfig \/ Unload
  BY <1>l DEF Reload, RegistryReloadConfig, Unload, LookedUp
<1>n. CASE UNCHANGED vars
  BY <1>n DEF vars, LookedUp
<1> QED
  BY <1>b, <1>c, <1>e, <1>f, <1>k, <1>l, <1>n DEF Next, SessionNext

LEMMA RefsInit == ASSUME Init PROVE RefsMatchHolders
<1>1. \A d \in Devices : ~HasSession(d)
  BY RegistryAssumption DEF Init, HasSession
<1>2. ASSUME NEW d, NEW w \in Whats PROVE Cardinality(Holders(d, w)) = 0
  <2>1. Holders(d, w) = {}
    BY DEF Init, Holders, Nothing, Whats
  <2> QED BY <2>1, FS_EmptySet
<1> QED BY <1>1, <1>2 DEF Init, RefsMatchHolders, Count, Whats

(* The sums that the two counts are.                                       *)
DeviceSum(d) == Count(HasSession(d)) + Count(d \in devices) + Count(lineRefs[d] > 0)
                + Cardinality(Holders(d, "device"))
LineSum(d)   == Count(state[d] \in {"NEW", "WORKING"}) + Count(d \in lines)
                + Cardinality(Holders(d, "line"))

RefsMatch(d) == refs[d] = DeviceSum(d) /\ lineRefs[d] = LineSum(d)

LEMMA RefsStep ==
  ASSUME Base, Base', Ownership, Ownership', Membership, Membership', LookedUp,
         RefsMatchHolders, [Next]_vars, NEW e \in Devices
  PROVE  RefsMatch(e)'
<1> DEFINE onDevice == Cardinality(Holders(e, "device"))
           onLine   == Cardinality(Holders(e, "line"))
<1> USE DEF Goes, registryVars, deviceVars, sessionVars, mainVars
<1>1. onDevice \in Nat /\ onLine \in Nat
  BY HoldersFinite
<1>2. RefsMatch(e)
  BY DEF RefsMatchHolders, RefsMatch, DeviceSum, LineSum
<1>3. look' = look => onDevice' = onDevice /\ onLine' = onLine
  BY DEF Holders
<1>4. refs[e] \in Int /\ lineRefs[e] \in Int
  BY DEF Base
<1>5. e \in lines <=> e \in devices
  BY DEF Membership, LinesFollowDevices
<1>6. e \in lines' <=> e \in devices'
  BY DEF Membership, LinesFollowDevices
<1>7. ASSUME UNCHANGED <<device, devices, look>>,
             refs'[e] = refs[e], lineRefs'[e] = lineRefs[e],
             state'[e] \in {"NEW", "WORKING"} <=> state[e] \in {"NEW", "WORKING"}
      PROVE  RefsMatch(e)'
  <2>1. HasSession(e)' <=> HasSession(e)
    BY <1>7 DEF HasSession
  <2> HIDE DEF onDevice, onLine
  <2>2. DeviceSum(e)' = DeviceSum(e)
    BY <1>3, <1>7, <2>1 DEF DeviceSum, Count, onDevice
  <2>3. LineSum(e)' = LineSum(e)
    BY <1>3, <1>5, <1>6, <1>7 DEF LineSum, Count, onLine
  <2> QED BY <1>2, <1>7, <2>2, <2>3 DEF RefsMatch
<1> HIDE DEF onDevice, onLine
<1>b. ASSUME NEW s \in Sessions, NEW n \in Names, HandleRegister(s, n) PROVE RefsMatch(e)'
  <2>1. PICK d \in Devices :
          /\ state[d] = "unallocated" /\ device[s] = None
          /\ \A t \in Sessions : device[t] # d
          /\ \A t \in Sessions : device'[t] = IF t = s THEN d ELSE device[t]
          /\ state'[d] = "NEW" /\ refs'[d] = 2 /\ lineRefs'[d] = 1
          /\ \A f \in Devices : f # d =>
               state'[f] = state[f] /\ refs'[f] = refs[f] /\ lineRefs'[f] = lineRefs[f]
          /\ UNCHANGED <<devices, lines, look>>
    BY <1>b, RegisterEffect
  <2>2. CASE e = d
    <3>1. onDevice = 0 /\ onLine = 0
      <4>1. Holders(e, "device") = {} /\ Holders(e, "line") = {}
        BY <2>1, <2>2 DEF Holders, LookedUp, Nothing
      <4> QED BY <4>1, FS_EmptySet DEF onDevice, onLine
    <3>2. e \notin devices /\ e \notin devices' /\ e \notin lines'
      BY <1>6, <2>1, <2>2 DEF Membership, HasSession
    <3>3. HasSession(e)'
      BY <2>1, <2>2 DEF HasSession
    <3>4. DeviceSum(e)' = 2
      BY <1>3, <2>1, <2>2, <3>1, <3>2, <3>3 DEF DeviceSum, Count, onDevice
    <3>5. LineSum(e)' = 1
      BY <1>3, <2>1, <2>2, <3>1, <3>2 DEF LineSum, Count, onLine
    <3> QED BY <2>1, <2>2, <3>4, <3>5 DEF RefsMatch
  <2>3. CASE e # d
    <3>1. HasSession(e)' <=> HasSession(e)
      <4>1. \A t \in Sessions : device'[t] = e <=> device[t] = e
        BY <2>1, <2>3, RegistryAssumption
      <4> QED BY <4>1 DEF HasSession
    <3>2. DeviceSum(e)' = DeviceSum(e)
      BY <1>3, <2>1, <2>3, <3>1 DEF DeviceSum, Count, onDevice
    <3>3. LineSum(e)' = LineSum(e)
      BY <1>3, <2>1, <2>3 DEF LineSum, Count, onLine
    <3> QED BY <1>2, <2>1, <2>3, <3>2, <3>3 DEF RefsMatch
  <2> QED BY <2>2, <2>3
<1>c. ASSUME NEW s \in Sessions, RegistryAdd(s) PROVE RefsMatch(e)'
  <2>1. device[s] \in Devices /\ device[s] \notin devices
    BY <1>c DEF RegistryAdd, Base, Ownership, Membership, Busy, Registered
  <2>2. /\ devices' = devices \cup {device[s]} /\ lines' = lines \cup {device[s]}
        /\ refs' = [refs EXCEPT ![device[s]] = @ + 1]
        /\ lineRefs' = [lineRefs EXCEPT ![device[s]] = @ + 1]
        /\ UNCHANGED <<state, device, look>>
    BY <1>c DEF RegistryAdd, Add, Refer, ReferLine
  <2>3. CASE e = device[s]
    <3>1. refs'[e] = refs[e] + 1 /\ lineRefs'[e] = lineRefs[e] + 1
      BY <2>2, <2>3 DEF Base
    <3>2. lineRefs[e] > 0
      <4>1. state[e] \in {"NEW", "WORKING"}
        BY <2>1, <2>3, RegistryAssumption DEF Ownership
      <4> QED BY <1>1, <1>2, <1>4, <4>1 DEF RefsMatch, LineSum, Count, onLine
    <3>3. HasSession(e)' <=> HasSession(e)
      BY <2>2 DEF HasSession
    <3> QED
      BY <1>1, <1>2, <1>3, <1>4, <1>5, <2>1, <2>2, <2>3, <3>1, <3>2, <3>3
      DEF RefsMatch, DeviceSum, LineSum, Count, onDevice, onLine
  <2>4. CASE e # device[s]
    <3>1. refs'[e] = refs[e] /\ lineRefs'[e] = lineRefs[e]
      BY <2>2, <2>4 DEF Base
    <3>2. HasSession(e)' <=> HasSession(e)
      BY <2>2 DEF HasSession
    <3> QED
      BY <1>2, <1>3, <2>2, <2>4, <3>1, <3>2
      DEF RefsMatch, DeviceSum, LineSum, Count, onDevice, onLine
  <2> QED BY <2>3, <2>4
<1>d. ASSUME NEW s \in Sessions, RegistryAddRefused(s) PROVE RefsMatch(e)'
  <2>1. device[s] \notin devices
    BY <1>d DEF RegistryAddRefused, Base, Ownership, Membership, Busy, Registered
  <2>2. (devices \cup {device[s]}) \ {device[s]} = devices
    BY <2>1
  <2>3. UNCHANGED <<device, devices, state, refs, lineRefs, look>>
    <3>1. CASE UNCHANGED <<registryVars, deviceVars>>
      BY <1>d, <3>1 DEF RegistryAddRefused
    <3>2. CASE AddFails(device[s])
      BY <1>d, <2>2, <3>2 DEF RegistryAddRefused, AddFails
    <3> QED BY <1>d, <3>1, <3>2 DEF RegistryAddRefused
  <2> QED BY <1>7, <2>3
<1>e. ASSUME NEW s \in Sessions, RegisterRejected(s) \/ Destroy(s) PROVE RefsMatch(e)'
  <2>1. /\ device[s] \in Devices /\ device[s] # None
        /\ pc[s] \in {"refused", "destroy"}
        /\ \A t \in Sessions : device'[t] = IF t = s THEN None ELSE device[t]
        /\ state'[device[s]] = "DESTROYED"
        /\ lineRefs'[device[s]] = lineRefs[device[s]] - 1
        /\ refs'[device[s]] = refs[device[s]] - 1 - Count(lineRefs[device[s]] = 1)
        /\ \A f \in Devices : f # device[s] =>
             state'[f] = state[f] /\ refs'[f] = refs[f] /\ lineRefs'[f] = lineRefs[f]
        /\ UNCHANGED <<devices, lines, look>>
    BY <1>e, LeaveEffect
  <2>2. device[s] \notin devices
    BY <2>1 DEF Membership, Registered
  <2>3. CASE e = device[s]
    <3>1. HasSession(e) /\ state[e] \in {"NEW", "WORKING"}
      BY <2>1, <2>3 DEF HasSession, Ownership
    <3>2. ~HasSession(e)'
      BY <2>1, <2>3 DEF HasSession, Ownership
    <3>3. e \notin devices /\ e \notin devices' /\ e \notin lines /\ e \notin lines'
      BY <1>5, <1>6, <2>1, <2>2, <2>3
    <3>4. lineRefs[e] = 1 + onLine /\ refs[e] = 2 + onDevice
      BY <1>1, <1>2, <1>4, <3>1, <3>3 DEF RefsMatch, DeviceSum, LineSum, Count, onDevice, onLine
    <3>5. lineRefs'[e] = onLine /\ refs'[e] = onDevice + Count(onLine > 0)
      BY <1>1, <2>1, <2>3, <3>4 DEF Count
    <3>6. LineSum(e)' = onLine
      BY <1>1, <1>3, <2>1, <2>3, <3>3 DEF LineSum, Count, onLine
    <3>7. DeviceSum(e)' = onDevice + Count(onLine > 0)
      BY <1>1, <1>3, <2>1, <3>2, <3>3, <3>5 DEF DeviceSum, Count, onDevice
    <3> QED BY <3>5, <3>6, <3>7 DEF RefsMatch
  <2>4. CASE e # device[s]
    <3>1. HasSession(e)' <=> HasSession(e)
      <4>1. \A t \in Sessions : device'[t] = e <=> device[t] = e
        BY <2>1, <2>4, RegistryAssumption
      <4> QED BY <4>1 DEF HasSession
    <3> QED
      BY <1>2, <1>3, <2>1, <2>4, <3>1
      DEF RefsMatch, DeviceSum, LineSum, Count, onDevice, onLine
  <2> QED BY <2>3, <2>4
<1>f. ASSUME NEW s \in Sessions, RegistrationSuccess(s) PROVE RefsMatch(e)'
  <2>1. device[s] # None
    BY <1>f DEF RegistrationSuccess, Ownership, Busy
  <2>2. state[device[s]] \in {"NEW", "WORKING"}
    BY <2>1 DEF Ownership
  <2> QED BY <1>f, <1>7, <2>2 DEF RegistrationSuccess, Base
<1>g. ASSUME NEW s \in Sessions, ReloadConfig(s) \/ Accept(s) \/ Stop(s) \/ EndLoop(s)
      PROVE  RefsMatch(e)'
  BY <1>g, <1>7 DEF ReloadConfig, Accept, Stop, EndLoop
<1>i. ASSUME NEW s \in Sessions, RegistryRemove(s) PROVE RefsMatch(e)'
  <2>1. device[s] \in Devices /\ device[s] \in devices /\ device[s] # None
    BY <1>i DEF RegistryRemove, Base, Ownership, Membership, Busy, Registered
  <2>2. /\ devices' = devices \ {device[s]} /\ lines' = lines \ {device[s]}
        /\ refs' = [refs EXCEPT ![device[s]] = @ - 1 - Count(lineRefs[device[s]] = 1)]
        /\ lineRefs' = [lineRefs EXCEPT ![device[s]] = @ - 1]
        /\ UNCHANGED <<state, device, look>>
    BY <1>i DEF RegistryRemove, Remove, UnreferLine
  <2>3. HasSession(e)' <=> HasSession(e)
    BY <2>2 DEF HasSession
  <2>4. CASE e = device[s]
    <3>1. state[e] \in {"NEW", "WORKING"} /\ e \in lines
      BY <1>5, <2>1, <2>4 DEF Ownership
    <3>2. lineRefs[e] = 2 + onLine
      BY <1>1, <1>2, <1>4, <3>1 DEF RefsMatch, LineSum, Count, onLine
    <3>3. lineRefs'[e] = 1 + onLine /\ refs'[e] = refs[e] - 1
      BY <1>1, <1>4, <2>2, <2>4, <3>2 DEF Base, Count
    <3> QED
      BY <1>1, <1>2, <1>3, <1>4, <2>1, <2>2, <2>3, <2>4, <3>1, <3>2, <3>3
      DEF RefsMatch, DeviceSum, LineSum, Count, onDevice, onLine
  <2>5. CASE e # device[s]
    <3>1. refs'[e] = refs[e] /\ lineRefs'[e] = lineRefs[e]
      BY <2>2, <2>5 DEF Base
    <3> QED
      BY <1>2, <1>3, <2>2, <2>3, <2>5, <3>1
      DEF RefsMatch, DeviceSum, LineSum, Count, onDevice, onLine
  <2> QED BY <2>4, <2>5
<1>j. ASSUME NEW l \in Lookups, NEW n \in Lines, FindLine(l, n) PROVE RefsMatch(e)'
  <2>1. PICK d \in devices :
          /\ look[l] = Nothing /\ look' = [look EXCEPT ![l] = [holds |-> "line", device |-> d]]
          /\ lineRefs' = [lineRefs EXCEPT ![d] = @ + 1]
          /\ UNCHANGED <<devices, lines, state, refs, device>>
    BY <1>j DEF FindLine, ReferLine, Membership, LinesFollowDevices
  <2>2. onLine' = onLine + Count(e = d) /\ onDevice' = onDevice
    <3>1. look \in [Lookups -> LookType] /\ d \in Devices
      BY DEF Base
    <3>2. ASSUME NEW v \in Whats
          PROVE  Cardinality(Holders(e, v)') = Cardinality(Holders(e, v)) + Count(e = d /\ v = "line")
      BY <2>1, <3>1, HoldersGrow, ZenonT(60) DEF Whats
    <3> QED BY <1>1, <3>2 DEF Whats, Count, onLine, onDevice
  <2>3. lineRefs'[e] = lineRefs[e] + Count(e = d)
    BY <1>4, <2>1 DEF Base, Count
  <2>4. e = d => lineRefs[e] > 0
    BY <1>1, <1>2, <1>4, <1>5, <2>1 DEF RefsMatch, LineSum, Count, onLine
  <2>5. HasSession(e)' <=> HasSession(e)
    BY <2>1 DEF HasSession
  <2> QED
    BY <1>1, <1>2, <1>4, <2>1, <2>2, <2>3, <2>4, <2>5
    DEF RefsMatch, DeviceSum, LineSum, Count, onDevice, onLine
<1>k. ASSUME NEW l \in Lookups, NEW n \in Names, FindDevice(l, n) PROVE RefsMatch(e)'
  <2>1. PICK d \in devices :
          /\ look[l] = Nothing /\ look' = [look EXCEPT ![l] = [holds |-> "device", device |-> d]]
          /\ refs' = [refs EXCEPT ![d] = @ + 1]
          /\ UNCHANGED <<devices, lines, state, lineRefs, device>>
    BY <1>k DEF FindDevice, Refer
  <2>2. onDevice' = onDevice + Count(e = d) /\ onLine' = onLine
    <3>1. look \in [Lookups -> LookType] /\ d \in Devices
      BY DEF Base
    <3>2. ASSUME NEW v \in Whats
          PROVE  Cardinality(Holders(e, v)') = Cardinality(Holders(e, v)) + Count(e = d /\ v = "device")
      BY <2>1, <3>1, HoldersGrow, ZenonT(60) DEF Whats
    <3> QED BY <1>1, <3>2 DEF Whats, Count, onLine, onDevice
  <2>3. refs'[e] = refs[e] + Count(e = d)
    BY <1>4, <2>1 DEF Base, Count
  <2>4. HasSession(e)' <=> HasSession(e)
    BY <2>1 DEF HasSession
  <2> QED
    BY <1>1, <1>2, <1>4, <2>1, <2>2, <2>3, <2>4
    DEF RefsMatch, DeviceSum, LineSum, Count, onDevice, onLine
<1>l. ASSUME NEW l \in Lookups, Release(l) PROVE RefsMatch(e)'
  <2> DEFINE d == look[l].device
  <2>0. UNCHANGED <<devices, lines, state, device>> /\ look' = [look EXCEPT ![l] = Nothing]
    BY <1>l DEF Release
  <2>1. HasSession(e)' <=> HasSession(e)
    BY <2>0 DEF HasSession
  <2>2. look[l].holds \in Whats => /\ look[l] = [holds |-> look[l].holds, device |-> d]
                                   /\ d \in Devices
    BY DEF Base, LookType, Nothing, Whats
  <2>3. ASSUME NEW w \in Whats, look[l].holds = w
        PROVE  /\ onLine' = onLine - Count(e = d /\ w = "line")
               /\ onDevice' = onDevice - Count(e = d /\ w = "device")
    <3>1. look[l] = [holds |-> w, device |-> d] /\ d \in Devices
      BY <2>2, <2>3
    <3>2. look \in [Lookups -> LookType]
      BY DEF Base
    <3> HIDE DEF d
    <3>3. ASSUME NEW v \in Whats
          PROVE  look[l] = [holds |-> v, device |-> e] <=> e = d /\ v = w
      <4>1. /\ look[l].holds = w /\ look[l].device = d
            /\ [holds |-> v, device |-> e].holds = v /\ [holds |-> v, device |-> e].device = e
        BY <3>1
      <4> QED BY <3>1, <4>1
    <3>4. ASSUME NEW v \in Whats
          PROVE  Cardinality(Holders(e, v)') =
                   Cardinality(Holders(e, v)) - Count(look[l] = [holds |-> v, device |-> e])
      BY <2>0, <3>2, HoldersShrink
    <3> QED BY <1>1, <3>3, <3>4 DEF Whats, Count, onLine, onDevice
  <2>4. onLine' \in Nat /\ onDevice' \in Nat
    BY HoldersFinite DEF onLine, onDevice
  <2>5. CASE look[l].holds = "line"
    <3>1. /\ lineRefs' = [lineRefs EXCEPT ![d] = @ - 1]
          /\ refs' = [refs EXCEPT ![d] = @ - Count(lineRefs[d] = 1)]
      BY <1>l, <2>5 DEF Release, UnreferLine, Base
    <3>2. /\ lineRefs'[e] = lineRefs[e] - Count(e = d)
          /\ refs'[e] = refs[e] - Count(e = d /\ lineRefs[e] = 1)
      BY <1>4, <3>1 DEF Base, Count
    <3>3. onLine' = onLine - Count(e = d) /\ onDevice' = onDevice
      BY <1>1, <2>3, <2>5 DEF Whats, Count
    <3>4. e = d => lineRefs[e] > 0
      BY <1>1, <1>2, <1>4, <2>4, <2>5, <3>3 DEF RefsMatch, LineSum, Count, onLine, Whats
    <3> HIDE DEF d
    <3> QED
      BY <1>1, <1>2, <1>4, <2>0, <2>1, <3>2, <3>3, <3>4
      DEF RefsMatch, DeviceSum, LineSum, Count, onDevice, onLine
  <2>6. CASE look[l].holds = "device"
    <3>1. refs' = [refs EXCEPT ![d] = @ - 1] /\ lineRefs' = lineRefs
      BY <1>l, <2>6 DEF Release, Unrefer
    <3>2. refs'[e] = refs[e] - Count(e = d)
      BY <1>4, <3>1 DEF Base, Count
    <3>3. onDevice' = onDevice - Count(e = d) /\ onLine' = onLine
      BY <1>1, <2>3, <2>6 DEF Whats, Count
    <3> HIDE DEF d
    <3> QED
      BY <1>1, <1>2, <1>4, <2>0, <2>1, <3>1, <3>2, <3>3
      DEF RefsMatch, DeviceSum, LineSum, Count, onDevice, onLine
  <2> QED BY <1>l, <2>5, <2>6 DEF Release
<1>m. CASE Reload \/ RegistryReloadConfig
  BY <1>m, <1>7 DEF Reload, RegistryReloadConfig
<1>n. CASE Unload
  <2>1. \A s \in Sessions : device[s] = None
    BY <1>n DEF Unload, Ownership
  <2>2. e \notin devices /\ devices = {}
    BY <2>1, RegistryAssumption DEF Membership, HasSession, Base
  <2>3. lineRefs'[e] = lineRefs[e] /\ refs'[e] = refs[e]
    BY <1>n, <1>4, <1>5, <2>2 DEF Unload, Count
  <2>4. devices' = devices /\ UNCHANGED <<device, state, look>>
    BY <1>n, <2>2 DEF Unload
  <2> QED BY <1>7, <2>3, <2>4
<1>o. CASE UNCHANGED vars
  BY <1>o, <1>7 DEF vars
<1> QED
  BY <1>b, <1>c, <1>d, <1>e, <1>f, <1>g, <1>i, <1>j, <1>k, <1>l, <1>m, <1>n, <1>o
  DEF Next, SessionNext, LookupNext

-----------------------------------------------------------------------------
(* After the module was unloaded.                                          *)

Quiet ==
  main = "unloaded" =>
    /\ \A s \in Sessions : pc[s] \in {"none", "ended"}
    /\ \A l \in Lookups : look[l] = Nothing

LEMMA QuietStep == ASSUME Base, Quiet, [Next]_vars PROVE Quiet'
<1> USE DEF Base, Quiet, Goes, registryVars, deviceVars, sessionVars, mainVars
<1>a. ASSUME NEW s \in Sessions, SessionNext(s) PROVE Quiet'
  <2>1. main' = main /\ look' = look
    BY <1>a DEF SessionNext, Accept, Stop, ReloadConfig, HandleRegister, RegistryAdd,
      RegistryAddRefused, RegisterRejected, RegistrationSuccess, EndLoop, RegistryRemove, Destroy
  <2>2. main = "unloaded" => pc' = pc
    BY <1>a DEF SessionNext, Accept, Stop, ReloadConfig, HandleRegister, RegistryAdd,
      RegistryAddRefused, RegisterRejected, RegistrationSuccess, EndLoop, RegistryRemove, Destroy
  <2> QED BY <2>1, <2>2
<1>b. ASSUME NEW l \in Lookups, LookupNext(l) PROVE Quiet'
  <2>1. main' = main /\ pc' = pc
    BY <1>b DEF LookupNext, FindLine, FindDevice, Release
  <2>2. main = "unloaded" => look' = look
    BY <1>b DEF LookupNext, FindLine, FindDevice, Release, Nothing
  <2> QED BY <2>1, <2>2
<1>c. CASE Reload \/ RegistryReloadConfig \/ Unload
  BY <1>c DEF Reload, RegistryReloadConfig, Unload
<1>d. CASE UNCHANGED vars
  BY <1>d DEF vars
<1> QED
  BY <1>a, <1>b, <1>c, <1>d DEF Next

-----------------------------------------------------------------------------
(* The theorems.                                                           *)

RegistryInv ==
  /\ Base /\ Ownership /\ Membership /\ FreeLineHasDevice /\ GuestsAreCounted
  /\ LookedUp /\ RefsMatchHolders /\ Quiet

LEMMA RegistryInvStep == ASSUME RegistryInv, [Next]_vars PROVE RegistryInv'
<1> USE DEF RegistryInv
<1>1. Base' /\ Ownership'
  BY BaseStep, OwnershipStep
<1>2. Membership'
  BY <1>1, MembershipStep
<1>3. FreeLineHasDevice' /\ GuestsAreCounted' /\ LookedUp' /\ Quiet'
  BY <1>1, FreeLineStep, CountedStep, LookedUpStep, QuietStep
<1>4. RefsMatchHolders'
  <2>1. ASSUME NEW e \in Devices PROVE RefsMatch(e)'
    BY <1>1, <1>2, RefsStep
  <2> QED BY <2>1 DEF RefsMatchHolders, RefsMatch, DeviceSum, LineSum
<1> QED BY <1>1, <1>2, <1>3, <1>4

(* The inductive invariant: who owns a device, what the registry holds,    *)
(* what is counted, and what remains after the module was unloaded.        *)
THEOREM RegistryInvariant == Spec => []RegistryInv
<1>1. Init => RegistryInv
  BY BaseInit, MembershipInit, FreeLineInit, CountedInit, LookedUpInit, RefsInit
  DEF RegistryInv, Quiet, Init
<1>2. RegistryInv /\ [Next]_vars => RegistryInv'
  BY RegistryInvStep
<1> QED BY <1>1, <1>2, PTL DEF Spec

(* The registry's state is well typed; in particular no reference is given *)
(* back that was not taken (the counts of sccp_device.c's objects stay     *)
(* natural).                                                               *)
THEOREM RegistryTypeOK == Spec => []TypeOK
<1>1. RegistryInv => TypeOK
  <2> SUFFICES ASSUME RegistryInv PROVE TypeOK
    OBVIOUS
  <2>1. ASSUME NEW d \in Devices PROVE refs[d] \in Nat /\ lineRefs[d] \in Nat
    <3>1. /\ Cardinality(Holders(d, "device")) \in Nat
          /\ Cardinality(Holders(d, "line")) \in Nat
      BY HoldersFinite
    <3> QED BY <3>1 DEF RegistryInv, RefsMatchHolders, Count
  <2>2. refs \in [Devices -> Nat] /\ lineRefs \in [Devices -> Nat]
    BY <2>1 DEF RegistryInv, Base
  <2> QED BY <2>2 DEF RegistryInv, Base, TypeOK, DevType, LookType
<1> QED BY <1>1, RegistryInvariant, PTL

(* Whatever sessions register at once, a name finds one device and a line  *)
(* is in the registry exactly while its device is.                         *)
THEOREM RegistryContents == Spec => []ContentsAgree
<1>1. RegistryInv => ContentsAgree
  BY DEF RegistryInv, Membership, ContentsAgree
<1> QED BY <1>1, RegistryInvariant, PTL

(* What sccp_device_registry_find and find_line return has a session and   *)
(* was not destroyed.                                                      *)
THEOREM RegistryAlive == Spec => []RegisteredIsAlive
<1>1. RegistryInv => RegisteredIsAlive
  <2> SUFFICES ASSUME RegistryInv, NEW d \in devices
               PROVE  /\ state[d] \in {"NEW", "WORKING"}
                      /\ \E s \in Sessions : device[s] = d /\ pc[s] \in {"loop", "success", "remove"}
    BY DEF RegisteredIsAlive
  <2>1. PICK s \in Sessions : device[s] = d
    BY DEF RegistryInv, Membership, HasSession
  <2>2. d # None
    BY RegistryAssumption DEF RegistryInv, Base
  <2> QED BY <2>1, <2>2 DEF RegistryInv, Membership, Ownership, Registered
<1> QED BY <1>1, RegistryInvariant, PTL

(* cur_guests is the number of registered guests, through every            *)
(* registration, reload and departure.                                     *)
THEOREM RegistryCountsGuests == Spec => []GuestsAreCounted
<1>1. RegistryInv => GuestsAreCounted
  BY DEF RegistryInv
<1> QED BY <1>1, RegistryInvariant, PTL

(* No guest is added above the limit in force.                             *)
THEOREM RegistryLimitsGuests == Spec => GuestsAreLimited
<1>1. RegistryInv /\ [Next]_vars =>
        [Cardinality(Guests') > Cardinality(Guests) => Cardinality(Guests') <= max_guests]_vars
  BY CountedStep DEF RegistryInv
<1> QED BY <1>1, RegistryInvariant, PTL DEF Spec, GuestsAreLimited

(* The reference counts are the numbers of holders: nothing is freed that  *)
(* a thread may still use, and nothing is kept for ever.                   *)
THEOREM RegistryRefs == Spec => []RefsMatchHolders
<1>1. RegistryInv => RefsMatchHolders
  BY DEF RegistryInv
<1> QED BY <1>1, RegistryInvariant, PTL

(* After unload_module no device is left.                                  *)
THEOREM RegistryUnloads == Spec => []UnloadedIsFreed
<1>1. RegistryInv => UnloadedIsFreed
  <2> SUFFICES ASSUME RegistryInv, main = "unloaded", NEW d \in Devices
               PROVE  refs[d] = 0 /\ state[d] \in {"unallocated", "DESTROYED"}
    BY DEF UnloadedIsFreed
  <2>1. ~HasSession(d) /\ d \notin devices /\ d \notin lines
    <3>1. \A s \in Sessions : device[s] = None
      BY DEF RegistryInv, Quiet, Ownership
    <3>2. ~HasSession(d)
      BY <3>1, RegistryAssumption DEF HasSession
    <3> QED BY <3>2 DEF RegistryInv, Membership, LinesFollowDevices
  <2>2. state[d] \in {"unallocated", "DESTROYED"}
    BY <2>1 DEF RegistryInv, Ownership, Base
  <2>3. ASSUME NEW w \in Whats PROVE Cardinality(Holders(d, w)) = 0
    <3>1. Holders(d, w) = {}
      BY DEF RegistryInv, Quiet, Holders, Nothing, Whats
    <3> QED BY <3>1, FS_EmptySet
  <2>4. lineRefs[d] = 0
    BY <2>1, <2>2, <2>3 DEF RegistryInv, RefsMatchHolders, Count, Whats
  <2>5. refs[d] = 0
    <3>1. refs[d] = Count(HasSession(d)) + Count(d \in devices) + Count(lineRefs[d] > 0)
                    + Cardinality(Holders(d, "device"))
      BY DEF RegistryInv, RefsMatchHolders
    <3>2. Cardinality(Holders(d, "device")) = 0
      BY <2>3 DEF Whats
    <3>3. Count(HasSession(d)) = 0 /\ Count(d \in devices) = 0 /\ Count(lineRefs[d] > 0) = 0
      BY <2>1, <2>4 DEF Count
    <3> QED BY <3>1, <3>2, <3>3
  <2> QED BY <2>2, <2>5
<1> QED BY <1>1, RegistryInvariant, PTL

(* A line that was announced as free has a device that was not destroyed.  *)
THEOREM RegistryFreeLine == Spec => []FreeLineHasDevice
<1>1. RegistryInv => FreeLineHasDevice
  BY DEF RegistryInv
<1> QED BY <1>1, RegistryInvariant, PTL
=============================================================================
