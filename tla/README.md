# TLA+ models of wazo-libsccp

wazo-libsccp is an Asterisk channel driver for phones that speak SCCP. This
directory models its threads, the queues they talk through, its server and
sessions with their timers and buffers, the calls and the settings of a device,
the registry of devices and the configuration. TLC checks the models on small
instances; TLAPS proves what the checks suggest for every instance: all the invariants
and action properties of the passing runs, in one module of proofs per component.

    tlc -workers 2 -config MCServer.cfg MCServer.tla     # a run
    tlapm RegistryProofs.tla                             # a component's proofs

`PROJECT.json` lists the runs, the source lines behind each definition, the
known hazards of the code, and for every property a mutation of the model that
breaks it (the definitions whose name ends in `_Something`, commented
"Variant for the mutation runs", exist for that only).

## 1. Inventory of the system

| Component | State | Operations | Hard behaviour | What makes it correct |
|---|---|---|---|---|
| `sccp_queue.c` | list of items, eventfd, closed flag, mutex | put, get, get_all, close, empty | threads that put race the owner that polls, empties and closes; failed eventfd writes and allocations | no lost wake-up, FIFO, nothing left behind after the close |
| `sccp_server.c` | state, stop flag, list of sessions, configuration, queue | start, destroy, reload, reload debug; the loop of the server thread | three kinds of threads, shutdown while sessions come and go, messages that hold bare pointers or references | each session joined and freed once; reloads reach everybody in order; shutdown terminates |
| `sccp_session.c` | socket, device, task runner, queue, stop flag, configuration | run, stop, reload, transmit, device tasks | stop flag without a lock, timers against messages, end at any time | ends when told to; nothing left in its queue |
| `sccp_task.c` | list of tasks with their due times | add, remove, run, next_ms | used by callbacks it runs; must be used by one thread only | a set of alarms: each rings once, when it is due |
| `sccp_device.c` | list of subchannels, active one, receive channel, call forwarding, timers, nolock tasks, mutex | messages of the phone, timers, channel technology callbacks, destruction | session thread against one thread per channel; mutex released in the middle of `start_the_call`; bare pointers | references match holders, no dangling pointer, everything is freed |
| `sccp_device_registry.c` | devices, lines, guest count, configuration | add, remove, find, snapshots, reload | lookups from any thread while sessions register and leave; limit of guests | one device per name; a device is removed before it is destroyed |
| `sccp_config.c` | reference-counted configuration objects | load, reload, find | replaced under its users | references match holders across reloads; a line belongs to one device; what is applied is what the file says |
| `sccp_msg.c` | deserializer buffer | read, pop; builders | messages split or joined by TCP, lengths at the limits or that wrap around, a buffer that is never compacted | the stream is cut where it was joined; nothing waits in the buffer |
| `sccp.c` | the module's globals | load, reload, unload, CLI, channel requests | order of construction and destruction | nothing is used after it was freed |
| `sccp_debug.c`, `sccp_utils.c`, build and packaging files | - | - | - | not modelled |

How they interact: the *main thread* (module loading, the CLI, reloads) puts
messages in the server's queue; the *server thread* accepts connections, starts
one *session thread* per phone, forwards reloads to the sessions' queues and
joins the sessions that end; a session thread reads its phone's messages and
calls its device; *channel threads* of Asterisk call the device through
`sccp_channel_tech_*`. A device is protected by its mutex; what must not be
called with the mutex held is queued (`nolock_tasks`) and executed by the
thread that unlocks.

## 2. What is modelled

### The queue: `SyncQueueOps`, `SyncQueue`, `ItemChannel`, `SyncQueueProofs`

Every operation on a synchronized queue runs under the queue's mutex, so
`SyncQueueOps` gives each one as an operator on a record (items, counter of
the eventfd, closed flag): an operation is one step of the thread that calls it.
`PutOutcomes` is a set because a put may fail in two places, before anything
changed (eventfd) or after the eventfd was written (allocation).

`SyncQueue` puts producers against the consumer that the code has twice, the
poll loop of the server and of a session: poll, move everything out (or get
one), handle, and at the end close the queue, then empty it. `ItemChannel` is
what they promise: a FIFO channel closed for good. `ImplementsChannel` is the
refinement; its `pending` is the consumer's batch followed by the queue.

### The server: `Server`, `ServerProofs`

One variable per struct or thread: `srv` and `srvQ`, `sess` and `sessQ`, `main`,
and `srvBatch`, the messages that the server thread has moved out and not yet
handled. Each handler is one action; the traversals of the session list and
`sccp_session_stop` (flag, then message) are cut where another thread may come
in between. `refs` holds the reference count of each configuration, changed
where the code changes it. What a phone's data does to a session is left out
here: a socket event or a timer stops the session or does not.

`missed` is a history variable: the receivers whose queue refused the last
reload. Nothing else in the model depends on it.

### The device: `DeviceOps`, `Device`, `DeviceProofs`

`DeviceOps` is the struct behind the mutex as a record, and the `do_*` functions
as operators on it, with the source's names. `Device` has one action per message
handler, timer and channel technology callback: lock, apply the operators,
unlock. `start_the_call` is two steps with the mutex free in between. The tasks
that a thread takes when it unlocks are in `todo` and executed one by one
without the mutex. `refs` of a subchannel counts the list of the line and the
`tech_pvt` of a channel, changed where the code changes it.

What a phone displays is left out, and the media itself: what remains is the
state of the receive channel, whether there is an RTP instance, and how many
`OpenReceiveChannel` messages the phone has yet to acknowledge. A task without
lasting effect on its channel (hold, unhold, answer, DTMF) is kept only as an
allocation that may fail.

### The device's settings: `DeviceSettings`, `DeviceSettingsProofs`

The part of `sccp_device.c` that is not about calls, which are reduced to
`busy`: registration and what it restores from Asterisk's database (do-not-disturb,
call forwarding, and the entry that former versions kept under the line's name),
the reload that is applied at once or by a reset, now or when the calls end, the
busy lamps of speed dials, the mailbox, and the destruction. `pc` is where the
session thread is; registration is cut wherever the device's mutex is free,
and `init_callfwd` between its two writes to the database as well, since a crash
may come in between. `Crash` keeps the database and nothing else.

Callbacks come from threads of Asterisk: `events[s]` are the changes on their way
to the callback of source `s` (the mailbox, or a speed dial by its position), and
`Callback` takes the device's mutex. Two external facts are assumed, which is
what the two functions are for: `ast_extension_state_del` and
`stasis_unsubscribe_and_join` return after the callbacks under way. Subscriptions that fail are
only logged by the code and are not modelled.

`chosen` (what the user last chose), `missed` and `cut` are history variables.
`missed` and `cut` name the two histories that the code does not handle: a change
between reading a state and subscribing to it, and a crash between the two
writes of `init_callfwd`.

### The session: `DeserializerOps`, `TaskRunnerOps`, `Alarms`, `Session`, `SessionProofs`

`DeserializerOps` is the buffer that cuts the phone's stream into messages: where
its content starts, and its bytes, each known by the length that its message
claims and its position in it, so that a wrong cut shows. Lengths are in abstract
units, but taken modulo `Width` as the code's `uint32_t` is. `TaskRunnerOps` is
the task runner: the list of tasks, the heap of those that are due, and the time
left of each. `Alarms` is what it promises.

`Session` is one session thread with both, its queue and its stop flag. `pc`
follows the loop of `sccp_session_run`: poll, then the queue, then the socket, and
the tasks only when poll returned no event. Around it are the phone, which sends
whole messages that arrive in pieces and may close anywhere, a clock, and the
threads that stop the session, fail to transmit, or send it a reload. A message's
meaning is open: registration is accepted or refused, and a device arms or removes a
timer or stops the session. Three timers stand for all: authentication,
keep-alive, one of the device's own. `quiet` and `ran` are history variables.

`Server` has many sessions with their queues and configurations and nothing of
what a phone sends; `Session` has one, with what its phone sends.

### The configuration: `Config`, `ConfigProofs`

Configurations as reference-counted objects: the containers of each load, the
references of devices to lines and speed dials, those of the devices made from
them, and of the module and the sessions. Loading is cut as
`pre_apply_config` is: each device, in any order (the order of a container is
Asterisk's), then lines, then the guest device, then the replacement of the
global object. `DropDevices` and `DropCfg` are the destructors; `Make` and
`Unmake` are what `sccp_device_create` and the destruction of a device do to
these counts. A device that is reloaded moves each of its references to the new
objects; one that must be reset first, or that is not configured any more, keeps
the old ones. Only one reload is on its way at a time here: order and failures of
the messages are in `Server`.

### The registry: `Registry`, `RegistryProofs`

The registry's containers and counters, the device objects with their reference
counts, and everybody who uses them: session threads (`pc` says where each one
is between `sccp_session_handle_msg_register` and the end of `sccp_session_run`),
threads that look up a line or a device and keep it for a while (`look`), and
the main thread. Each operation runs under the registry's mutex and is one step;
the steps between them (creation, addition, registration, removal, destruction)
are separate, since nothing else excludes other threads there. A refusal and a
failure to link are steps of their own.

A device has one line, so the line is known by its device; `refs` and `lineRefs`
are the two reference counts, changed where the code changes them
(`UnreferLine`: the last reference to a line takes its reference to the device
with it). A configuration says which names are configured, what line each one
has, what line the guests have, and how many guests are accepted. How it reaches
a session is the subject of `Server`: here it arrives late and in order.
`devstate` is the state of each line as it was last announced to Asterisk; only
the announcements of registration and destruction are kept, not those of calls.

### Asterisk

Modelled from how the driver uses it, and marked external: a channel is hung
up at any time by its own thread, or because it was asked to; it is answered at
most once and never after it was asked to hang up; a transfer that succeeds
hangs both channels up.

## 3. The runs

| Run | Question | Instance |
|---|---|---|
| `sync_queue` | is a wake-up or an item ever lost? is the queue the channel it promises? | 2 producers with 2 puts each, 2 failed puts |
| `server` | are sessions and configurations freed once, when nobody needs them? does everybody end with the newest configuration? | 2 sessions, 2 reloads, 1 debug change, 2 of these three together (`MaxCalls`), any 1 put failing |
| `server_live` | does unloading end? does a reload arrive? are ended sessions reaped? | 2 sessions, 1 reload, 1 failed put (not of a stop or session-end message) |
| `device_calls` | are subchannels freed once, and every bare pointer valid? | 3 subchannels, 2 channels; incoming calls, dialling, hold, transfer |
| `device_other` | the same for the other uses, and is a destroyed device freed completely? | 2 subchannels, 2 channels, memory runs out once |
| `registry` | does the registry hold each name once, count its guests, and return only what is alive? | 3 sessions, 3 devices, 2 names, 2 lines, 1 lookup, 1 reload that swaps who is a guest and lowers the limit |
| `session` | is the stream cut right? does each phone have the right timer, and is it dropped only for a reason? does a session end? is the task runner a set of alarms? | messages of the least, the greatest and a wrapped length, a buffer of two of the least, delays of 1 and 2 ticks, 1 timer that cannot be allocated |
| `config` | are references right through reloads, and is what is applied what the file says? | 3 loads of any of several files: 2 devices and the guest device that compete for 2 lines, 2 phones, 1 failed allocation |
| `settings` | do the user's choices survive? are lamps and subscriptions right? does a configuration arrive? does destruction end? | 3 configurations, 2 speed dials, a mailbox, 1 extension to forward to, 2 state changes, 1 reload on its way, 1 crash |
| `device_reuse` | is an incoming subchannel ever taken for another call? (yes) | 2 subchannels, 2 channels |
| `registry_state` | is the announced state of a registered line right? (no) | 2 sessions, 2 devices |
| `session_full` | is a full buffer a sign of a bad message? (no) | one session, a burst of messages |

**Bounds.** Two sessions are enough for a session to be accepted, or to end,
while the server traverses the list at another; two reloads for a reload to be
overtaken by the next; one failed put at a time because every put that fails is
followed by the same code whatever failed before (two in `sync_queue`, where a
failure leaves a trace in the eventfd). Three subchannels are a call, the one
related to it or put on hold for it, and one more that rings; two channels give
two concurrent channel threads, and each channel and subchannel is used once, so
that an action on a freed one would be seen. `MaxAcks = 1` keeps the
acknowledgements prompt: with two, `start_rtp` may replace a live RTP instance
(listed under the hazards). Three sessions on two names let a phone register
again while its old session leaves and another one is at the guest limit; each
device object is allocated once, so that a freed one that is used would be seen,
and one reload is enough to change who is a guest while sessions with the old and
with the new configuration are there together.

In `session` the buffer holds one message and part of the next, so every cut
of a message by a read, and every place of its end in the buffer, occurs; a delay
of two ticks is the least that data can interrupt half way. Three loads in
`config` are the configuration in force, the one a device still uses, and the one
that is loaded; its files let two devices name the same line, a device name a line
or a speed dial that does not exist, and the same speed dial twice. In `settings`
two changes are one that is missed and one that is reported after it; the three configurations
differ in what a reload applies at once and in what needs a reset.

**`RingIsPrompt`.** The passing runs of the device assume that the session thread
handles nothing between the request for a channel and the call on it, nor while
a forwarded call waits to be hung up (`NotRinging`). The code does not ensure
this; `device_reuse` drops the assumption and shows what happens.

**Deadlock checking** is off in every run: the module is unloaded, the queue
emptied, or the device destroyed in the end, and a phone may do nothing for ever.

**Fairness.** A thread that can run does run (`WF` on its steps), and nothing
else: poll need not report an error; in `Server` it need not report a socket or a
timer either; the user, the phone and the remote party need not do anything. A
mutex is held for one step only, so weak fairness is what the scheduler gives. For
the device, Asterisk hangs up a channel that was asked to, which
`ast_queue_hangup` is for. In `Session` time passes (`WF` on `Tick`), without which
no timer is ever due, and poll returns when there is something to report; the
phone may go on sending for ever, and `SilentPhoneIsDropped` is therefore about
phones that stop. In `DeviceSettings` Asterisk's threads run the callbacks that
are due, which is what the two blocking functions wait for.

## 4. What the checks found

Three runs end with a violation, on purpose: each checks one claim that the
repository makes and the code does not keep (see `findings` in `PROJECT.json`).

1. `device_reuse`: an incoming subchannel looks like one about to be dialled until
   it rings: a new call takes it, clears it under its channel, and its reference is
   dropped twice. With call forwarding active the window lasts until the call is
   hung up.
2. `registry_state`: destroying any device announces its lines as unavailable, also
   when the registry had refused it, or when its phone has registered again
   meanwhile: a registered line is cached as unavailable until its next call.
3. `session_full`: the deserializer's buffer is not compacted, so a burst of legal
   messages may leave no room for the rest of the last one: the session ends, and
   the log says that the message was invalid or too big.

Other things the modelling showed, without a run of their own:

- `sccp_server_destroy` blocks for ever if its stop message cannot be queued
  (`DestroyTerminates` with a failing put).
- A call answered while on hold opens the receive channel for nobody; the device,
  once idle, is taken for faulty and restarted (`IdleIsClosed` in `Device`).
- An automatically answered call makes a channel thread use the session's task
  runner, which only the session thread may use (`RunnerInSessionThread`).
- A crash between the two writes of `init_callfwd` brings a forwarding back that
  the user has cancelled since (`cut` in `SettingsAsChosen`).
- A lamp misses a change that comes between reading the state and subscribing
  (`missed` in `LampsAreTrue`).
- Without memory for a timer a session never drops its silent phone (`ooms` in
  `SilentPhoneIsDropped`).

## 5. What is proved

`SyncQueueProofs` proves, for every set of producers and every bound:

- `SyncQueueTypeOK`, `FdIsRight` and `ItemsAreHandledOnce`, the invariants of
  `sync_queue` (`FdFollowsQueue`: no wake-up is lost, and one without cause needs a
  failed put; `ItemsOnce`: every item once and in order, none after the emptying);
- `QueueImplementsChannel`: the initial state maps to an initial state of
  `ItemChannel`, and every step to one of its steps or to a stuttering step.

The only assumption is `SyncQueueAssumption` on the constants. The argument is
one inductive invariant, `IInv`: the type invariant, the four properties, and
`ConsumerInv`, which ties the consumer's place to its batch, to what was
discarded and to the closed flag. It is needed because "nothing after emptying"
and "every item once" hold only since a queue whose owner is done is closed, and
since the batch is empty whenever the owner polls or closes.

`RegistryProofs` proves every property of `registry` for any sets of sessions,
names and lines, any finite sets of devices and lookups, and any sequence of
configurations. It assumes `RegistryAssumption`, which types the constants and
makes `Devices` and `Lookups` finite (guests and holders are counted). The
inductive invariant is `RegistryInv`:

- `Base`, the types, with integers for reference counts; that these never
  become negative (`RegistryTypeOK`) is a consequence of `RefsMatchHolders`;
- `Ownership`: a device has exactly one session from its creation to its
  destruction, and the session's place says whether it has one;
- `Membership`: the registry holds the devices of exactly the sessions that are
  between the addition and the removal, each name once, lines as devices;
- `LookedUp`: what a thread looked up had been allocated, so that a new device
  has no holders; `Quiet`: nothing moves after the module was unloaded;
- `GuestsAreCounted`, `FreeLineHasDevice`, `RefsMatchHolders`.

`GuestsStep` is the heart of the guest theorems: a step leaves the guests alone,
adds one below the limit, or removes one; `ReloadEffect` (a reload never changes
a device's guest flag) is what makes it true. `HoldersGrow` and `HoldersShrink`
say the same of the holders of a reference.

`SessionProofs` proves every invariant of `session` and that the session
implements `Alarms`, for any delays, any lengths a message may claim, any sizes
of the header, of the buffer and of the bounds. It assumes `SessionAssumption`,
`TaskRunnerAssumption` and `DeserializerAssumption`, which give the constants
their types and order (the least message is longer than its header and the
greatest fits the buffer). Lemmas say what the operators of the task runner and of the
deserializer do; the inductive invariant is `SessionInv`:

- `TimerInv`: the list and the heap of the task runner hold the same tasks; a
  session has only the timer of its state (`OnlyItsTimer`) and, as long as it
  goes on and no allocation failed, has it (`HasItsTimer`). `KeepAliveCovers` is
  why no phone is dropped too early: when nothing is on its way that would re-arm
  the timer, what is left of it and the silence so far make the whole delay. A
  tick keeps the sum, data ends the silence and re-arms the timer, and tasks
  are only run when poll has found nothing (`DropIsJustified` is then the case
  of a timer with nothing left);
- `StreamType` and `BufferInv`: the buffer does not run over, and holds no whole
  message anywhere but between a read and the last pop;
- `StreamInv`: buffer and socket together are whole messages. "Each byte follows
  its predecessor" (`CutWhereJoined`) says too little to be kept by taking a message
  off the front, whose length is read from one byte: `Whole` says that each byte
  belongs to a message whose first byte is in the stream, and that each first byte
  is followed by its message.

`ServerProofs` proves every property of `server` for any finite set of sessions,
any number of reloads and debug changes, and whichever puts may fail. It assumes
`ServerAssumption`: sessions are finitely many (they are counted as holders) and
none of them is the server, the bounds are naturals, and the puts that may fail
are puts. The inductive invariant is `ServerInv`:

- `Base`, the types, with integers for reference counts;
- `Control`: which places of the main, server and session threads go together
  and what the server has in hand then (`Threads`), and what a queue may hold by
  the place of its owner (`SessionQueues`);
- `EndsOnce` and `ListIsComplete`: a session says once, from its own end, that
  it ended, and the list holds every session that was not joined, so that the
  server joins and frees each once;
- `Ordered`: configurations are in order from the module to the server
  (`InOrder`) and from the server to its sessions (`Behind`), where what is being
  forwarded is what the server has (`Forwarding`). `ConfigOnlyAdvances` follows;
- `Newest`: the last configuration that the server, or a session, will have is the
  newest (`Latest` of what is pending). While the server forwards a reload this
  holds only of the sessions that it has told already: `Untold` is why
  `NewestIsPending` alone is not inductive;
- `RefsMatchHolders`: each configuration has as many references as holders, the
  module, the server, the sessions, and the messages in the queues and in the
  server's hands.

The lemmas about `Latest` say what storing, moving and taking messages does to
it, those about `Held` to the references that messages hold; `FamilyChange` says
that a sum over the sessions' queues changes with the one queue that changed.

`DeviceSettingsProofs` proves the four properties of `settings` for any set of
configurations, any extensions and mailboxes, and any number of changes, reloads
and crashes. It assumes `DeviceSettingsAssumption`, which types the constants and
says that `None` is neither an extension nor something that is watched. The
inductive invariant is `SettingsInv`: the types; `Configured` (the device is
what its configuration says); `Subscribing` and `Quiet` (how far the session
thread is with its subscriptions, and that a callback outlives its
subscription only where the thread waits for it); `LampsFollow` (the last
event on its way to a callback is the state of what it watches); `SettingsKept`
(what the database has, at each place where a crash may come, against what was
chosen); `Pending` (the last reload message on its way is the configuration in
force). `LampsAreTrue` speaks of the present state only: `LampsFollow` is what a
callback needs to keep it, and a reload, which changes speed dials without
subscribing again, needs `Subscribing`.

`ConfigProofs` proves every property of `config` for any contents of the file,
any number of loads and phones, and any number of failed allocations. It assumes
`ConfigAssumption`: devices and phones are finitely many, `Guest` is a
device, names of devices, lines and speed dials differ (they are objects of
different containers), and files have the type that the parser gives them. The
inductive invariant is `ConfigInv`:

- `Base`, the types, with integers for reference counts; `Order`: what was not
  loaded is empty, and nobody has a configuration that was not applied;
- `Building`: what `pre_apply_devices_cfg` has made of the file so far, for any
  order of the devices. It holds between the traversal's steps, where the
  properties, which are about the result, say nothing;
- `Served`: the lines of every configuration in use, or about to be;
- `AppliedAsWritten` and `RefsMatchHolders`.

References are the hard part: a destructor gives back what its object held, so
one step may change the count of any name. `Balanced` says, of one configuration
by itself, that each name has as many references as `B` plus those of the device
configurations that are alive; `DropKeeps`, `MakeKeeps` and `UnmakeKeeps` say how
the operations of the model change `B`, and `HoldersAre` that `RefsMatchHolders`
is this for the `B` of the holders. `KnownSelects` (the speed dials that exist, in
their order) is by an induction over sets of numbers, done by hand.

`DeviceProofs` proves every invariant of `device_calls` and `device_other` for any
finite sets of subchannels and channels, any features, and any number of
unanswered acknowledgements and of failed allocations. It assumes
`DeviceAssumption` (finite sets, the types of the bounds) and
`DeviceOpsAssumption` (`NULL` is neither a subchannel nor a channel, and the session
thread is not the thread of a channel). `DeviceFwdTimer`, and the part of
`DeviceInvariant` about types, the list and the threads, need nothing else. The
other theorems have the hypothesis `RingIsPrompt`: without it they are false, as
`device_reuse` shows, since a call that does not ring yet is then taken for one
about to be dialled. With it they hold of the whole specification: they fail only
where the session thread handles something while an incoming call does not ring.

First come lemmas on the operators of `DeviceOps`: `Calm` is what each of them
keeps whatever the calls are, `Kept` that it takes no channel from a subchannel
and makes none look as if it were about to be dialled, and `Good` that the calls
are in order. Then there is one lemma per action. The inductive invariant is
`DeviceInv`:

- `TypeOK`, `Quiet` (nobody has the mutex between two steps), `Sound` (the list has
  each subchannel once, and only what was created) and `FwdTimerInInput`;
- `Staged`, `Starting`, `Allocating`, `Ended`: where the threads are. `Starting` says
  that the session thread starts a channel right after it placed the call, as the
  only task it has, so that the channel is where the call left it;
- `Good(device, a)`, where `a` is what `start_the_call` works for: `Counted` (a
  reference for the channel, one for the list) and `Held` say what the counts mean,
  `InList` and `Paired` what is pointed to, and `Fresh` what a dial timer and
  `start_the_call` rely on: no call, and the state of one about to be dialled.
  `TimersAreSafe` and `CallBeingPlacedIsListed` are not inductive without a third
  fact, that no timer is armed with `a`: it is why `start_the_call` removes the
  timer before it unlocks the device;
- `LinksAgree`, and `Ringing`: a subchannel that has a channel and still looks as
  if it were about to be dialled is an incoming one that does not ring yet.
  `RingIsPrompt` excludes exactly these while the session thread is handling
  something, so whatever the session thread finds in that state is `Fresh`.

`RefsMatchHolders` follows since, by `LinksAgree`, at most one channel has a given
subchannel as its `tech_pvt`; `NothingLeftInDestructor` from `Counted` and `Held`.
After the destruction the list is empty, and only `Counted`, `Held` and `LinksAgree`
are left to hold: they are what a late hangup needs.

Only model-checked: liveness (the fair part of `ImplementsChannel`,
`DestroyTerminates`, `EndedIsReaped`, `ReloadIsApplied`, `DestroyedIsFreed`,
`StopEndsSession`, `SilentPhoneIsDropped`, `DestroyEnds`), which is out of the
prover's reach. The three claims of section 4 that the code does not keep are
refuted by their runs.

## 6. Plan

1. **Lock order** of channels, devices and the registry, as a module of its own.
2. **Device**: masquerades (`fixup`), call pickup and direct media.
3. **Registry**: devices with several lines, and the announcements of calls in
   `devstate`.

## 7. Not modelled

- Masquerades and call pickup (two channels exchange their subchannels, which needs
  Asterisk's channel locks in the model), direct media and codecs, acknowledgements
  with port 0, and whatever a phone only displays.
- The builders and the dump of messages (`sccp_msg.c`): they lay out bytes and
  keep no state; the same for `sccp_debug.c`, `sccp_utils.c` and the displays of the CLI.
- A push on the task runner's heap that fails: only the allocation of a task does.
- The order of the locks: an action that holds a mutex is one step.
- Options of the configuration that are only values (contexts, groups, codecs).
- Build, packaging and phone configuration files: not part of the running program.
