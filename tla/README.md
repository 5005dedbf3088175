# Verification of the FFB interceptor

This directory holds TLA+ models of the FFB interceptor and visualizer, the TLC
configurations that check them, and TLAPS proofs about them. Paths such as
`src/telemetry.cpp` are relative to the repository. `PROJECT.json` lists every component,
run, mutant and theorem, the lines each definition stands for, the hazards of the code and
the disagreements between code and documentation that the runs show.

1. [The system](#1-the-system)
2. [The modules](#2-the-modules)
3. [The runs](#3-the-runs)
4. [The proofs](#4-the-proofs)
5. [Disagreements found](#5-disagreements-found)
6. [Abstractions and what is not modelled](#6-abstractions-and-what-is-not-modelled)
7. [Plan](#7-plan)

## 1. The system

A game calls DirectInput. A proxy DLL (or a hook injected by a launcher) wraps the
DirectInput objects, forwards every call to the driver and reports what concerns force
feedback as frames on two named pipes: one for a diagnostic viewer, one for a plug-in of
SimHub, which rebuilds the playback state of the game and tells when the force clips.

```
 game threads ──► wrappers ──► driver            SimHub process
                     │                     ┌──────────────────────────────┐
                     ▼                     │ SecurePipeServer             │
                 Telemetry.emit            │   acceptor, client threads   │
                 ┌────┴────┐   named pipe  │      │ Connect/ProcessFrame/ │
              sink 0    sink 1 ───────────►│      ▼ Disconnect            │
              (viewer) (SimHub)            │ ClippingEngine ◄─ Tick 60 Hz │
              worker    worker             │      │ snapshot, transitions │
                                           │ FFBInterceptorPlugin         │
                                           └──────────────────────────────┘
```

The components, what each keeps, and what makes it correct:

| component | state | operations | hard behaviour | correct when |
|---|---|---|---|---|
| **Telemetry sender** `src/telemetry.cpp` | per sink: node array, free and pending lists (lock-free), drop counter, worker; one sequence counter | `start`, `emit`, worker loop `run` | game threads, two workers, failures of threads, pipes and writes | no node leaks; every event is queued, written or counted; frames in order; a DropNotice is exact; `emit` never waits |
| **Pipe server** `simhub/FFBInterceptor.Core/SecurePipeServer.cs` | `_running`, stop signal, descriptor, acceptor, listener, client sets | `Start`, `Stop`, accept loop, client threads | Stop during accept and during a chunk; waits that time out; ends of connections in any order | nothing outlives a Stop that returned; the descriptor outlives its users; the engine forgets gone clients; the acceptor goes on |
| **Clipping engine** `ClippingEngine.cs` | sources by session, connections, transition queue and its atomic counter | `Connect`, `ProcessFrame`, `Disconnect`, `Tick`, `TryDequeueTransition` | overlapping connections of a session, capacity limits, eviction, a queue drained without the lock | what is called reliable is true; episodes of clipping open and close once; limits hold |
| **Schedules** in the engine (`EffectState`) | three points of time per effect, pause time per device | `Begin`, `RefreshSchedule`, `ResumeAfterPause`, `ExpireIfFinished` | changes of the plan and starts during a pause; expiry found out late | an effect plays exactly as a clock that stands still during pauses says |
| **Monitor service** `MonitorService.cs` | timer, engine, server | `Start`, `Tick`, `Dispose` | overlapping ticks, restart of SimHub | no call after disposal |
| **DirectInput wrappers** `src/wrapper_*.cpp` | reference counts, registries of devices and effects, `playback_invalidated` | COM methods, `publish_or_add_ref`, `find_and_add_ref`, `invalidate_playback` | the same device handed to several threads, last Release against enumeration, loss of the device against Acquire | counts exact on both sides; one wrapper per device; nothing heard after Release; one StopAll per acquisition |
| **Hook and import patching** `src/hook_dll.cpp`, `iat_hook.cpp` | one-shot state, import slots, page protection, references that pin a module | `FFBHookInitialize`, module monitor, `patch_module_import_address` | modules loaded and unloaded while imports are patched; another component that patches too; two callers | only mapped modules are touched; "ready" means patched; nobody else's import is taken |
| **Launcher** `launcher/injector.cpp` | debuggee, breakpoint, list of modules, deadline, remote thread | `launch_offline_game` and its debug loops | debug events of other threads, modules that come and go, failing calls, time-outs, a killed launcher | the program begins hooked and with its own code, or is ended; a launch ends |
| **Manager: operations** `launcher/manager_main.cpp` | plan of a click, package lock, child process, doubt | install, remove, launch; the elevated helper; the script's verification and lease | files edited and processes killed at any point, waits that fail | what runs is what was verified; one operation at a time; success is earned |
| **Manager: profiles** `launcher/manager_model.cpp`, `manager_main.cpp` | registry keys, active profile; list, combo box, form | load, save, erase, set active; the window's handlers | every write of a value fails or is the last before the end | the window and the registry agree; no edit reaches another profile, but for the SimHub folder that New hands on |
| **Installing scripts** `simhub/launcher-portable/*.ps1` | plug-in files, back-ups, files moved aside, state file | install, roll back, remove | failure of any operation on a file, in the roll-back too; a kill between two | all or nothing where the script ends by itself; no file of the user is lost |
| **Game installers** `simhub/portable/*.ps1` | proxy and back-up beside each game, count of users | install, remove | the same | – |
| **Detector** in the engine (`SourceState.Tick`) | window of intervals, runs at the limit and below it, hysteresis | `Tick`, `UpdateSettings`, resets | irregular ticks, settings changed in between | episodes begin and end for what was seen |
| **Frame accumulator** `Protocol.cs` | buffer of two frames | `Feed`, `Complete` | a stream that is cut anywhere | frames arrive whole and once |
| **Viewer** `viewer/src/ffb_visualizer` | acceptor, readers, queue, bounded event store, count of drops, trace | receive, refresh, `stop`, save | reader against window, bounds, stop at any moment | events in order; drops are real; a stop ends every thread |
| **Plug-in, dashboards, packaging, CI** | – | registration with SimHub, layout, build scripts | – | – |

How they interact: the wrappers call `Telemetry::emit` on the thread of the game, after the
driver has answered. The sender owns one worker per sink, which alone writes to its pipe. On
the other end one client thread of the server reads one connection and calls the engine,
which serialises everything under `_gate`; the timer calls `Tick` under the same lock; only
the queue of transitions is read outside. A broken pipe is noticed by the next write of the
sender and by the next read of the server; the two ends need not agree on what was
delivered. The receiver relies on two things only: frames of a connection increase in
sequence, and a DropNotice (or the count in Hello) tells how many events were lost.

How all this gets to its place: the manager verifies its package and has an elevated helper,
which is the same program, start PowerShell on the installing script; the script verifies the
package again, takes the lease of SimHub's folder and exchanges the plug-in's files. To play,
the manager starts the launcher, which creates the game as its debuggee and loads the hook into
it before the program begins; the hook turns the game's imports of `DirectInput8Create` to the
proxy, and the wrappers follow from there.

## 2. The modules

| module | models | state and actions |
|---|---|---|
| `Telemetry` | class `Telemetry` | `at`, `cursor`, `hand`, `seq` are the program counters and locals of game threads in `start()` (`StartCheck` … `StartDone`) and `emit()` (`EmitCheck` … `EmitUnlock`); `free`, `pending`, `batch`, `dropped`, `running` are the fields of a `Sink`; `wpc` with `WorkerConnect` … `WorkerNotify` is the loop `run()` |
| `LossyLog` | abstract: what a sink promises its receiver | events are offered in order, then delivered in order or lost; a notice is issued when nothing is open and states the exact loss |
| `TelemetryProofs` | theorems about `Telemetry` | see section 4 |
| `ClippingEngine` | sources, reliability, limits, eviction, transition queue | one action for each of `Connect`, `ProcessFrame` (every frame type through `Apply…`), `Disconnect`, `Tick`; then one step per transition: `EnqueueCount`, `EnqueueInsert`/`EnqueueShed`; `DequeueTake`, `DequeueCount` for the thread without the lock; `order` is the order of activity, as pairs of tracked sessions |
| `SecurePipeServer` | the server | `accept[a]`, `thread[p]`, `control` are the program counters of acceptors, client threads and `Stop`; `pipe`, `listener`, `clients`, `descriptor` the fields; `peer` is the other end |
| `EndToEnd` | one sink, its successive pipes, the readers, the engine | EXTENDS `ClippingEngine` with the sink of `LossyLog` (a queue, a count, a notice), buffers of pipes, `RunClient`, faults (read, write, Stop, restart of SimHub) and the truth in the game |
| `EffectPlayback` | `EffectState`, `DeviceState`, the `Apply…` methods that change schedules | `effect[e]` holds `requested`, `from`, `until` as the code does; `pausedAt` per device; `Pass` is time |
| `EngineProofs` | theorems about `EffectPlayback`, `Detector` and the run that puts them beside the sources | see section 4 |
| `PlaybackClock` | abstract: one clock per effect that runs while its device is not paused | `Start`, `Change`, `Halt`, `Command`, `Pass` |
| `DeviceWrappers` | control blocks of devices | `block[b]` is a `WrapperDevice8State`, `real[d]` the references to the driver's object; `Obtain`, `Construct`, `Publish`, `DropCandidate`, `DiscardCandidate` are `CreateDevice`/`semantics_callback` with `publish_or_add_ref`; `Release`, `Delete` the end of a block |
| `EffectWrappers` | `WrapperEffect`, `CreateEffect`, `EnumCreatedEffectObjects` | `refs`, `registered`, `driver` are the counts on both sides; `heard` what telemetry has said |
| `PlaybackGate` | `Acquire`, `Unacquire`, polling, `invalidate_playback` | the driver's call, the exchange of the flag and the emission are three steps |
| `Launcher` | `launch_offline_game` | `pc`, `left` (deadline), `known`, `armed` are the launcher's; `game`, `at`, `byte`, `begun`, `hook`, `loaded`, `event` the debuggee's: its main thread, the first byte of its program, its modules and the event it waits on. `CheckRequest`, `CreateGame`, `StartingEvent` (with `ArmEntry`, `LeaveEntryHeld`), `LoadHook`, `InitialiseHook`, `RemoteEvent`, `DetachGame`, `ResumeGame`, `AbandonGame` … are the steps of the launcher, each with its failures; `LoadModule`, `LoaderBreaks`, `ReachEntry`, `RemoteReturns`, `GameExits` … those of the game |
| `ImportHook` | the hook in the game | per patcher (callers of `FFBHookInitialize`, module monitor): where it is in the walk over its snapshot; per module: references, import slot, protection. The game loads and unloads; another component patches as well |
| `LauncherProofs` | theorems about `Launcher` and `ImportHook` | see section 4 |
| `PluginOperation` | manager, elevated helpers, scripts, launcher | `locks` are the files held without write sharing, `plan` what the click still asks for, `mine` what the manager tracks, `event` and `lease` the named objects of the scripts |
| `PluginFiles` | the file transaction of both scripts | `dest`, `backups`, `staged`, `state` are on disk; `pc`, `changes`, `slot`, `hand`, `aside`, `restored` the script's; one action per operation on a file and one for its failure |
| `ProfileStore` | profiles in registry and window | `store`, `active` are registry keys; `profiles`, `current`, `combo`, `form` the window; one action per handler, whose writes stop at any value |
| `Detector` | detector of one source | `detector` holds the fields of `SourceState` that `Tick` keeps for it, `samples` the record against which they are checked; `TickReliable`, `TickUnreliable`, `Invalidate`, `UpdateSettings` |
| `FrameStream` | `FrameAccumulator` in `RunClient` | `buffer` is `_buffer` up to `_count`; a byte is its place in the stream; `ReadChunk`, `CutFrame`, `Deliver`, `PeerIsGone` |
| `Viewer` | `PipeServer`, `_enqueue`, `_refresh`, `EventStore.add`, `closeEvent` | `acceptor`, `reader[c]`, `window`, `closing` are the program counters of the threads `_run`, `_read_client`, the window and of `stop()` in it; `listener`, `handle`, `queue`, `events`, `dropped` the shared state; `loaded` is the half of an update of `dropped` |
| `WrappersProofs`, `ServersProofs`, `ManagerProofs` | theorems about the three modules of wrappers, about `SecurePipeServer` and the end of `Viewer`, about `PluginOperation`, `PluginFiles` and `ProfileStore` | see section 4 |
| `ClippingEngineProofs` | theorems about `ClippingEngine`, used by the next and by `EngineProofs` | see section 4 |
| `ReceiversProofs` | theorems about `EndToEnd`, `Viewer` and `FrameStream` | see section 4 |
| `MC…` | instances for TLC | `MCFrames`, `MCEffectPlayback` and `MCEndToEnd` hold the inputs, the others put instances together |

Components that share no variable are put into one run: `MCTelemetry` (`size`: a deep and a
wide instance of the sender), `MCEngine`, `MCServers`, `MCReceivers`, `MCWrappers`, `MCLauncher`
and `MCManager` (`part`). The named variable chooses once which instance takes steps; the others
keep an initial state. This loses nothing, as no instance reads another's variables, and it makes
the run check each property of each instance in that instance's own behaviours. The properties of
these modules are conjunctions of the invariants, type invariants included, that the instances'
modules state and comment.

Refinements: `Telemetry` implements `LossyLog` (checked and proved: `ImplementsLossyLog`),
`EndToEnd` builds on that log instead of the threads and nodes, and `EffectPlayback`
implements `PlaybackClock` except for one step that is named (`FollowsTheClock`, checked and
proved).

What is one step: a critical section, an interlocked or SLIST operation, a call of the
operating system or of the driver, a frame written. Everything between interleaves.

## 3. The runs

| run | module, cfg | checks | bounds, and why they are enough |
|---|---|---|---|
| `telemetry` | `MCTelemetry` | `OneWorker`, `NodesConserved`, `LossAccounted`, `NoticeExact`, `ImplementsLossyLog`, `EmitsReturn`, `AllLossesDisclosed` | deep: two threads, one sink of two nodes, 3 emits, 2 starts, 2 faults, so that two threads contend for each lock, the pool runs empty, a batch has two frames of which the first or second fails, a notice is overtaken and saturates (at 2). Wide: one thread, two sinks of one node, a fault: one sink is behind or never started while the other is served. More sinks repeat the same worker; the proofs cover them |
| `engine` | `MCEngine` | `ReliableIsTrue`, `CountsTheProducing`, `FollowsTheClock`, `DetectsTheTruth`, `EpisodesAreEarned` | frames: every kind, one session on two connections, room for one device, two effects and one transition, so that each limit is reached. Schedules: two effects of one device, durations 0, 1 and 3, delay 0 and 1, repetition, four units of time, the effects interchangeable (symmetry): start, pause, change, continue and end all fall before, on and after each other. Detector: six units of time, at most one tick in each, gaps up to and beyond the three that still connect, two settings between which the user changes at will: with one the window is full first, with the other the run is long enough first |
| `engine_sources` | `MCClippingEngine`, `…Sources.cfg` | `ReliableIsTrue`, `QueueCountExact`, `EdgesTellClipping` | three sessions and four connections for two sources: refusal, eviction and reconnection while a third party is tracked, with transitions of several sources in a queue that is shed |
| `engine_eviction` | `MCClippingEngine`, `…Evict.cfg` | violation of `UnreliableUntilNewSession` | two sessions, one source |
| `servers` | `MCServers` | `StopsAreSound`, `GoneAreForgotten`, `AcceptsAgain`, `StopEndsThreads` | plug-in: two pipes, two acceptors (one more than may live), at most two clients; Starts and Stops without bound. Viewer: one reader at a time out of two proxies, one frame, two attempts to wake: stop() meets the acceptor and a reader in each of their places |
| `receivers` | `MCReceivers` | `FailClosed`, `NoFalseAlarm`, `FramesAreWhole`, `WindowTellsTheTruth` | end to end: three calls, a queue of two, three successive pipes, two faults: a loss, its notice, and a second break of the pipe before the notice is read. Frames: three, of 2 (the header alone), 3 or 5 bytes (the maximum), the second one possibly faulty, chunks of 1 to 5 bytes: every cut, and the fullest buffer there can be. Viewer: two readers, three frames, room for one in the queue and two in the store: two readers, or a reader and the window, are in the middle of an update of the count at once; no stop |
| `end_to_end_late_sink` | `MCEndToEnd`, `…Late.cfg` | violation of `AlwaysFailClosed` | as above, without faults |
| `playback_paused` | `MCEffectPlayback`, `…Paused.cfg` | violation of `NeverResurrected` | the schedules of `engine` |
| `wrappers` | `MCWrappers` | `DeviceRefsExact`, `OneIdentity`, `EffectRefsExact`, `StopsAreExact` | three threads, one device, three control blocks (each thread can hold a candidate), one effect; three acquisitions. References to different objects do not interact |
| `playback_gate_race` | `PlaybackGate`, `MCPlaybackGate.cfg` | violation of `NoStaleOutput` | two threads, two acquisitions |
| `launcher` | `MCLauncher` | `ProgramBeginsHooked`, `NoGameLeftBehind`, `NothingIsTakenBack`, `LaunchEnds`, `HookIsSound` | launcher: one module besides kernel32 and the hook, which comes and goes any number of times; two ticks per deadline, so that each wait ends in time, late and not at all. Hook: two modules, two callers, one turn of the monitor: a module leaves and another comes while each patcher is in its walk |
| `manager` | `MCManager` | `RunsTheVerified`, `StartsOneAtATime`, `OneMutator`, `SuccessIsEarned`, `EditsStayHome`, `StoreFollowsTheList`, `NothingLost`, `AllOrNothing` | operations: three, over two openings, so that scripts left alone by an earlier manager meet a later one. Profiles: three identifiers for room for two, one text for each profile (what matters is whose it is; the theorem covers any versions). Files: three runs of a script (install, install over it or fail, remove), two versions of the package, one edit of the user |

What they show, in words:

- **Sender.** Whatever two threads, the worker and failing system calls do, a node is in
  exactly one place, an event is queued, written or counted, and a notice counts exactly the
  events before it, although the count is read before the lock is taken. The reason is that
  an event is dropped only while the pool is empty, that is, while nodes are pending that
  only the worker can take out: a drop between the read and the lock leaves the queue not
  empty, and the notice is put off. Where the worker goes on, losses are disclosed in the end
  (`AllLossesDisclosed`), by a sink that was started late as well.
- **Engine.** The atomic counter of the transition queue never drifts, although it is changed
  before an insertion and after a removal by threads that share no lock. The bounded state
  of the engine agrees with the whole history of frames for each session shown as reliable.
- **Server.** A Stop that returned leaves no thread that could call the engine; one that
  timed out keeps the descriptor and the client list, and a later Stop finishes the work. Nobody
  is waited for in vain (`NobodyIsStranded`): a running server has a live acceptor and every registered
  connection a live thread, and after a Stop, a timed-out one included, the signal stays set until
  the last thread has seen it.
- **End to end.** When nothing is on its way, a session shown as reliable is shown as the
  game left it, across broken pipes, unread data, Stop and a restart of SimHub, provided the
  sink ran from the first call; and no session is called unreliable without a cause.
- **Schedules.** Points of time that are shifted by pauses are equivalent to clocks, for
  starts and changes during a pause too, apart from one case (section 5).
- **Wrappers.** Any number of racing creations and releases leaves one reachable wrapper per
  device, and no reference to a driver object is leaked or dropped twice on any of the
  paths (twin, no alias, no memory).

- **Launcher.** Whichever thread raises whichever event while the breakpoint is in place, and
  whichever call fails, the program's first instruction is executed once, whole, with the hook
  ready; or the game is terminated. If the launcher is killed, Windows kills its debuggee,
  up to the moment when the hook is ready and the launcher lets go. Every launch ends, though
  the game may hang or produce events for ever, as deadlines belong to a wait and not to an event:
  the launcher waits three times at most, and nothing takes it back or renews a deadline
  (`NeverWaitsAnew`).
- **Hook.** A module that is unmapped between the snapshot and its turn is skipped; one that is
  being patched cannot leave. An import that another component has taken stays with it, even when
  it is taken between the hook's comparison and its exchange, or by a component that found the page
  writable because the hook had just made it so. The monitor may begin before the call that created
  it has answered.
- **Operations.** The locks of manager, helper and script overlap, so that no file is altered
  between verification and use while the next holder waits for it. There is one gap: if the helper
  is killed before its script has the lock, PowerShell may read altered files
  (`script = "foreign"`), which a verification inside those same files cannot repair.
  A manager that cannot tell how an operation ended keeps its lock and starts nothing beside it.
- **Files.** A script that ends by itself and whose roll-back did not fail has installed both
  files or none. After a failed roll-back or a kill, files of two versions may stand side by side,
  and after a kill in the middle of an uninstallation both scripts refuse to touch the folder
  until the user has sorted it out; but no file of the user is ever lost.
- **Profiles.** A write that fails half way leaves a key with some values old; the window keeps
  what was typed and never saves it to another profile. New copies the SimHub folder of the form into
  the new profile, which keeps it until another one is typed there, also when the older profile
  changes its own. A key that was begun and never finished
  is not listed but counts towards the 64 that `load` accepts, which is why `LoadsAgain` excludes
  profiles whose writing failed.
- **Detector.** The times that the detector adds up as it goes are those that can be read off the
  record of its ticks, whatever the delays and the user's changes, except for a window that was
  made longer, which lacks what the shorter one let go. An episode that is over never feeds
  the next one.
- **Frames.** Two frames of buffer suffice, as a chunk is not larger than a frame and less than one
  frame is left over; the overflow that `Feed` guards against does not happen.
- **Viewer.** The count of drops is written by threads that overwrite each other; it may fall
  behind but never exceeds what was lost, and it is not 0 when the viewer has dropped a frame.
  `stop()` may come when there is no listener to wake and may miss the handle of a client that is just
  being registered; the tests of `_stop` in `_run` and `_read_client` catch both, so that from its
  first attempt to wake the acceptor on it waits for nobody who sleeps (`NobodySleeps`).

Each property has a mutant: a definition changed the way a plausible bug would change it
(a dropped guard, a lost decrement, a missing reset), under which TLC finds the property
violated.

**Fairness.** `ThreadFairness` of `Telemetry` is weakly fair to game threads inside `start()`
and `emit()` only: a thread in the middle of a function of the proxy is scheduled by Windows and
waits for nothing but `m_emit_lock`, which no one keeps across a blocking call. The workers get
no fairness in the specification, which is the point of `EmitsReturn`. `AllLossesDisclosed`
states theirs as its premise (`WorkerFairness`): a worker's waits are timed (50 or 250 ms), so
it goes on; a sink whose worker does not is not promised anything. Calls of the game and
failures are never fair, and the bounds let them end. `SecurePipeServer` is weakly fair to its
own threads; clients, Start and the beginning of Stop are not, and a waiting acceptor needs a
client to go on. `Launcher` is weakly fair to the launcher's own steps and to the clock; the
game gets no fairness and may stop for ever at any point. `Viewer` is weakly fair to the
acceptor, the readers and `stop()`, which are threads of a process that is still running: the
waits of `stop()` have time limits, and a read or an accept that waits for a proxy is not
enabled. Proxies and the user are not fair, nor is the window before it is closed. `ImportHook`,
the manager's modules, the engine, the wrappers and the receivers are checked for safety only.
The runs with deadlock checking off are those whose bounds let the system come to rest; in `servers`
it is on for the plug-in's server, and the viewer's may come to rest.

## 4. The proofs

`TelemetryProofs` proves for any number of threads, sinks and nodes and for any bounds, from
`ConstantsAssumption` alone (the node array is finite and not empty, the counts are natural
numbers, the null values are not among the threads and nodes):

| theorem | statement |
|---|---|
| `TypeCorrect` | `Spec => []TypeOK` |
| `AtMostOneWorker` | `Spec => []OneWorker` |
| `NodesAreConserved` | `Spec => []NodesConserved` |
| `LossIsAccounted` | `Spec => []LossAccounted` |
| `FramesAreInOrder` | `Spec => FramesInOrder` |
| `NoticesAreExact` | `Spec => []NoticeExact` |
| `RefinesLossyLog` | `Spec => ImplementsLossyLog` |

None of these properties is inductive alone. The invariant `IInv` is built in layers, and
each layer uses the ones before it:

1. `Control` and `InBody`: the thread in `pop` or `push` is the one that holds `emitLock`; one
   thread at a time is in the loop of `start()`; a sink has a worker only if it is running or
   about to be. This gives `OneWorker`.
2. `Ownership`: a batch is empty outside the loops that work it off. With `Control` it makes
   `NodesConserved` inductive: a node in a hand is nobody else's.
3. `Newest`, `Numbers`: the event in the hand of the lock's holder has the highest number,
   pending events are newer than the batch, both newer than anything written or noticed. This
   gives `FramesInOrder` and keeps `LossAccounted` disjoint.
4. `NoticeInv`: between the commit of a notice and its writing every event with a lower
   number is written or lost and the claim counts the lost ones; and between the reading of
   the counter and the commit, the count read is exact or the queue is not empty, for a drop
   needs an empty pool. It is kept after the commit because events published later have
   higher numbers.

`RefinesLossyLog` then maps each action to a step of the log or a stutter under `IInv`.

`EngineProofs` proves for any devices, effects, plans, changes and counts and for any
horizon, from `PlaybackConstants` alone (durations and delays are not negative, as the
decoder lets them be, durations may be infinite, `Forever` is not a number):

| theorem | statement |
|---|---|
| `ScheduleHolds` | `Spec => []Schedule` |
| `PlaybackTypes` | `Spec => []TypeOK` |
| `PlaybackCounts` | `Spec => []CountsTheProducing` |
| `PlaybackFollowsTheClock` | `Spec => FollowsTheClock` |

`CountsTheProducing` is not inductive: it says nothing of the points of time of an effect on a
paused device, which count after Continue. `Schedule` adds that the begin and the end of every
active effect are its request plus delay and length, and that no request is later than now;
without the second part `Continue` could move a request into the future. Each operation on one
effect has a lemma (`RefreshFacts`, `BeginFacts`, `ResumeFacts`, ...). For the refinement,
`Settles` reduces a step of the clocks to what happens to each effect by itself; an effect is
left alone, begun, halted or moved by a pause, and `EndFacts` shows that the stored end says the
same as the clock unless the device is paused. That gap is the step `Resurrected`, finding 3
below.

It also proves of the detector, for any settings that are natural numbers, any gap that still
connects two ticks and any horizon (`DetectorConstants`):

| theorem | statement |
|---|---|
| `DetectorTellsTheTruth` | `EngineSpec => []DetectsTheTruth` |
| `EpisodesAlwaysEarned` | `EngineSpec => EpisodesAreEarned` |

Both properties speak of a tick that has just happened and of the record of all ticks; the detector
knows a few sums. `DetectorHolds` adds that the detector follows the record (`Follows`): its
intervals are those between the samples from one of them on, which lies where the last episode
ended or where a window let go (`Held`), and its two runs go back to the sample after the last one
outside of them (`Runs`; after an episode the run at the limit is 0, which is true only while the
level is below the exit threshold). A tick is then three lemmas. It adds one sample to what is followed
(`ConnectedFollows`, `DisconnectedFollows`). `CalculateRatio` lets go of what is behind the window
(`VisibleIs`) and sums up the rest: that this sum is the number of moments at the limit
(`ClippedTimeIs`) is an induction along the intervals, made by the least counterexample, in which one
more sample adds what `CountsAdd` says. And the verdict (`VerdictAnswers`) compares these numbers with
the settings; it begins and ends episodes for no other reason, which is `EpisodesAreEarned`.

Of the run `engine` as a whole, for any sessions, connections and limits (`FramesConstants`):

| theorem | statement |
|---|---|
| `EngineStaysReliable` | `EngineSpec => []ReliableIsTrue` |

The run drives `ClippingEngine` with three effects and the frames of `MCFrames`, for which
`EngineProofs` instantiates `ClippingEngineProofs` (`FP`). Its theorems hold of this instance because
these effects are finite and these frames are such as the decoder gives (`FramesFit`, which is the
assumption that they make), and because the run's own instance and `FP` define the same steps
(`SameInit`, `SameStep`); steps of the other parts leave its variables alone.

`LauncherProofs` proves for any set of modules, any patience and any finite number of callers and
turns of the monitor (`LauncherConstants`, `HookConstants`: numbers are natural, and no caller is the
monitor):

| theorem | statement |
|---|---|
| `LaunchTypes` | `Spec => []TypeOK` |
| `BeginsHooked` | `Spec => []ProgramBeginsHooked` |
| `NoneLeftBehind` | `Spec => []NoGameLeftBehind` |
| `HookStaysSound` | `LaunchingSpec => []HookIsSound` |
| `NothingIsEverTakenBack` | `LaunchingSpec => NothingIsTakenBack` |

`ProgramBeginsHooked` and `NoGameLeftBehind` are not inductive: both speak of moments at which the
launcher no longer looks. The invariant `Phases` says, for each place of the launcher, what byte is
at the entry, where the main thread is, whether it is suspended, what the hook has done and which
events may be pending: that the trap is in the code exactly between `ArmEntry` and the event of the
main thread (`Unarmed`, `Armed`, `AtEntry`), that a remote thread lives only while it is waited for,
and that the debuggee dies with the launcher until the hook is ready. The proof goes through the
steps of the launcher and of the game one by one. `NothingIsTakenBack` is two
action properties. Of the launcher, `NeverWaitsAnew` compares the phases by their place in
`launch_offline_game` (`Ahead`): a step takes it to a later phase, or keeps the phase and does not put
off the deadline (`Onward`). That the steps are taken, so that a launch ends, is `LaunchEnds`, which
TLC checks. Of the hook, `LeavesOthersImports` follows from the types of its variables.

That a patcher works on mapped modules only needs the count of references as a cardinality
(`RefsAreHeld`: the game's reference and one for each patcher that has pinned the module). That 1 is
answered only once the imports lead to the hook needs to know that one patcher is at work
(`OneScans`) and that a module which is mapped, could be patched and is not yet patched is still in
its snapshot or in its hand (`ScanCovers`).

`ManagerProofs` proves of `PluginOperation`, for any number of operations and of openings (`PluginConstants`:
both are natural numbers):

| theorem | statement |
|---|---|
| `OperationTypesHold` | `Spec => []TypeOK` |
| `VerifiedRuns` | `Spec => []RunsTheVerified` |
| `OneIsStarted` | `Spec => []StartsOneAtATime` |
| `OneMutates` | `Spec => []OneMutator` |
| `SuccessEarned` | `Spec => []SuccessIsEarned` |

They follow from two invariants. `Tracked`: what the manager has verified stays locked until it
has seen the end of what it started, so the package is intact as long as it tracks anything, and it
tracks one thing. `Handed`: the same from helper to script, operation by operation: the helper's
lock lasts until the script has its own, a script that changes files is the only holder of the
lease, and exit code 0 comes from a script that finished. `EditPackage` is harmless to both as it
needs the absence of every lock.

`WrappersProofs` proves for any finite sets of threads and control blocks, any devices and effects
and any bound on the references (`WrapperConstants`: no block is the null block, the bound is a
natural number):

| theorem | statement |
|---|---|
| `DeviceRefsAreExact` | `Spec => []DeviceRefsExact` |
| `DevicesHaveOneIdentity` | `Spec => []OneIdentity` |
| `EffectRefsAreExact` | `E!Spec => []EffectRefsExact` (`EffectWrappers`) |
| `StopsAreAlwaysExact` | `G!Spec => []StopsAreExact` (`PlaybackGate`) |

A count alone cannot be shown to stay right: whether it does depends on who may still give a
reference back. `DevicesInv` therefore says of each count whose references it counts, the game's and
those of calls under way (`RefsAreOwned`, `DeviceRefsBalanced`, with the cardinality of the set of
such calls), and of each call what it knows (`CallsKnow`): a candidate is a live block that its
builder alone knows, a block about to be deleted has no reference and one call deletes it. Identity
follows as no registered block is without a reference (`KeptAreFound`, `OneWrapper`). `EffectsInv` is
the same for effects (`EffectCounts`), and adds what telemetry has said at each moment of a life
(`EffectLife`). `GateInv` says, for acquisitions and losses that have not overlapped (`Serial`), how
the gate, the device and what was heard agree between the three steps of a call; once they overlap it
promises only that a StopAll is earned, which is why finding 4 is possible.

`ServersProofs` proves for any acceptors, pipes and clients (`ServerConstants`: acceptors, pipes
and `None` are different, the pipes are finite, `MaximumClients` is positive) and for any proxies:

| theorem | statement |
|---|---|
| `StopsAreAlwaysSound` | `ServersSpec => []StopsAreSound` |

`ServerInv` ties every pipe to one owner (`HandsMatch`), the list of clients to the threads that will
leave it (`ClientsAreServing`) and, while Stop runs, everything that is still alive to the set that
Stop waits for (`StopWaits`); the acceptor under way is the one the server knows (`AcceptorIsOwned`),
and a Stop that returned has given up everything (`QuietIsEmpty`). `ViewerInv` needs less: who is
waited for, and that a reader's handle is closed before it ends.

That nobody is waited for in vain (`NobodyIsStranded`, `NobodySleeps`) needs more. `Lively` adds that the
acceptor's loop ends only when the server is stopped, and that only a Start clears the signal, which
it does when nothing is owned any more. `Sleepless` adds that the viewer's `stop()` sets its event
before it looks for anybody to wake, that an acceptor which waits has set the listener before, so the
attempt to connect reaches it, and that a reader which reads while the handles are gone through is
one of those still to be disconnected. Without the second test of the event, between listener and
wait, the invariant fails (the mutant of `CheckBeforeWait`).

`ClippingEngineProofs` (the first four) and `ReceiversProofs` prove for any sessions, connections,
devices, effects, frames and limits (`EngineConstants`: `Keys` and `Effects` are finite, limits are
natural numbers; `PathConstants`: the session is one of the keys, and the game sends no DropNotice
itself):

| theorem | statement |
|---|---|
| `EngineTypes` | `Spec => []TypeOK` |
| `CounterStaysExact` | `Spec => []QueueCountExact` |
| `EdgesAlwaysTell` | `Spec => EdgesTellClipping` |
| `ReliableStaysTrue` | `Spec => []ReliableIsTrue` |
| `FailsClosed` | `E2ESpec => []FailClosed` |
| `NoFalseAlarms` | `Roomy => (E2ESpec => []NoFalseAlarm)` |

- **The engine.** `EngineInv` says of each source that it holds what all its frames have said unless it
  has an issue (`SourceSound`, `Undisturbed`), that only the connections of living readers keep it
  connected (`AllHeard`), that it clips if and only if that was announced last (`EdgeTells`), and
  that the ticket drawn from the counter is above the length of the queue until it is used
  (`QueueFits`). `OrderIsTotal` makes the eviction choose a source. What a frame may do to a source is
  said once (`Grows`, `Tells`) and shown for each kind of frame (`ApplyTells`).
- **The way.** `FailClosed` speaks of moments at which nothing is on its way. `WayInv` says for all
  others what is missing: without a loss the frames in the sink and in the pipe lead from what the
  engine has heard to the truth in the game (`OnItsWay`, `Leads`: there is a sequence of states of
  playback, each of which the next frame turns into the one after it); a loss that was reported is
  known to the engine or its notice is still in the pipe (`LossIsKnown`); and a second connection is
  reached only by a loss (`OnlyWire`), because the write that tells the sink of the end of the first
  loses what it wrote.
- **No false alarm.** `Roomy` is the hypothesis that the game keeps within the limits of the engine
  and that no call uses a trigger button, of whose effects the engine cannot know when they play: these
  are the causes, besides losses and failures, for which the engine calls a session unreliable. The
  run's instance satisfies it. `Untroubled` adds to `WayInv` that no reader has ended and no notice is
  in a pipe.

`ReceiversProofs` also proves for any number of the viewer's readers and any bounds
(`ViewerConstants`: the store has room for a frame, and no reader is the window), and for any streams
of frames and sizes (`StreamConstants`: a header is not empty, a frame has at least the size of a
header and at most the maximum, and a read is no longer than the largest frame; in the code they are
8192 and 65536):

| theorem | statement |
|---|---|
| `WindowAlwaysTells` | `ReceiversSpec => []WindowTellsTheTruth` |
| `FramesStayWhole` | `ReceiversSpec => []FramesAreWhole` |

- **The viewer.** `ViewerHolds` says that the pipe, the batch, the queue and the window each hold a
  proxy's frames in order and all that is in one is older than all that is in those after it
  (`LineInOrder`), that a frame admits no loss that did not happen (`LineIsMade`), and that the value
  with which a thread is about to overwrite the count of drops was not too high when it was read, while
  real losses only grow (`CountsAreReal`).
- **The frames.** `FramesHold` says that what was cut out of the bytes is the first frames of the
  stream (`FirstFramesCut`), that the buffer is exactly what was read after them (`RestIsHeld`), that
  this is less than a frame whenever the pipe is read (`InFrame`, hence the bound on the buffer: the
  rest of a frame and one read), and that a refusal is that of the next frame (`FailureIsEarned`).
  `End` and `Bytes` are `FlattenSeq` of the community modules, whose definition is recursive. What it
  computes for one more sequence (`FlattenAppends`) is shown with the least counterexample
  (`LeastNumber`, from the well-foundedness of the numbers), because the library's theorems about
  inductive definitions take an operator, which the installed provers do not accept.

`ManagerProofs` also proves for any packages, any number of runs of the scripts and of edits
(`FilesConstants`: numbers are natural) and for any identifiers and limit of profiles
(`ProfilesConstants`: identifiers are positive numbers, the limit is positive):

| theorem | statement |
|---|---|
| `NoFileIsLost` | `ManagerSpec => []NothingLost` |
| `ScriptsDoAllOrNothing` | `ManagerSpec => []AllOrNothing` |
| `EditsAlwaysStayHome` | `ManagerSpec => []EditsStayHome` |
| `StoreAlwaysFollows` | `ManagerSpec => []StoreFollowsTheList` |

`FilesInv` says how far a script has come with each file: installed or untouched on the way out
(`InstallInv`), taken out, back in place or untouched in an uninstallation and its roll-back
(`RecordKept`, `TakingOut`, `TakingBack`); and what a recorded installation promises of the backups
after any edit of the user (`Recorded`). Backups have no gaps (`InOrder`), so the path that
`Get-BackupPath` finds is free and above all others. `ProfilesInv` compares list and registry key by
key (`Matches`) except for keys whose writing failed, and says that list, combo box and form agree
(`WindowSound`) and that the registry can be loaded again after any end of the program
(`LoadsAgain`), which the properties need when the window is opened. `EditsStayHome` is an action
property, as the folder that a profile inherits can be told from a leak only in the step that makes
the profile: `FoldersInv` says that the folder in the registry, in the list and in the form of a
profile that is not unsure is its own or the one it was made with, and `SavesShown` that a save
writes the profile that is shown and no other.

Only model-checked are the six liveness properties: `EmitsReturn` and `AllLossesDisclosed` of the
sender, `GoneAreForgotten` and `AcceptsAgain` of the server, `StopEndsThreads` of the viewer and
`LaunchEnds` of the launcher. Liveness under fairness and ENABLED are out of the prover's reach. What
they rest on is proved where it is a matter of safety: that whoever is waited for can go on
(`StopsAreSound`) and that the launcher never waits anew (`NeverWaitsAnew`). Every invariant and every
other action property of a passing run is proved.

## 5. Disagreements found

Each is the counterexample of a run; `PROJECT.json` quotes the contradicted text.

1. `engine_eviction`: a session that lost frames or reconnected becomes reliable again, without
   being new, when its source was evicted in between (`ClippingEngine.cs:308`, README.md:101).
2. `end_to_end_late_sink`: a call made before the sink runs is neither sent nor counted, and
   the session is shown as reliable (`telemetry.cpp:126`, README.md:97).
3. `playback_paused`: an effect that ended just before a pause, unseen by `Tick`, is brought
   back by a longer duration that arrives during the pause (`ClippingEngine.cs:621`, test
   "expired effect cannot be resurrected by duration update").
4. `playback_gate_race`: the event of a Start can be emitted after the StopAll of a thread that
   gave the device up, and with the gate closed no later poll corrects it
   (`wrapper_effect.cpp:138`, comment at `wrapper_device8.cpp:357`).

## 6. Abstractions and what is not modelled

- **Telemetry.** Counting a dropped frame and freeing its node are one step; the wake event
  only shortens a timed wait and is left out; the retry when a DropNotice would overflow the
  sequence is unreachable within 2^64 events and left out; frames that were written and never
  read are not the sender's business (they are in `EndToEnd`). The encoding of frames is pure
  data.
- **Engine.** "Started" ignores the end of a duration (that is `EffectPlayback`); levels,
  gains, envelopes, waveforms, peaks and the choice of the source to display are real-number
  data; the detector, which is `Detector`, may find any reliable source clipping there.
  Activity times are the order in which calls get `_gate`, kept as a relation on the tracked
  sessions. The engine's test of the process id of a frame is left out as the server makes the same
  test first.
- **Schedules.** Time is an integer in one unit; a frame is applied at the time that its reader
  has read before it waited for `_gate`; `Stop` also resets points of time that are not read
  again; actuators and capacity are in `ClippingEngine`; Reset and StopAll are the same here.
- **Server.** One thread calls Start and Stop, as `MonitorService` does; two at once
  (`SecurePipeServer.cs:63`) are not modelled. Security descriptors,
  identities and frame contents are abstracted: a rejected frame ends its connection. `peer`
  is true while the other end is open or has data that was not read.
- **Wrappers.** Device and effect identifiers, names and the other telemetry of devices are
  left out; so are methods that only forward and report, and `WrapperDirectInput8`, which has a
  count but no registry. A driver keeps an object alive while it lends it to an enumeration,
  and the game follows COM: it uses only what it holds a reference to. `EffectWrappers` has the
  step that hands a bare effect to a callback while its wrapper is being built or torn down.
- **Launcher.** One launch. If the launcher is killed, or two of its calls fail, between letting go of
  the game and resuming it, the game stays behind hooked but suspended: nothing in the code undoes
  this, and `NoGameLeftBehind` only promises the hook. The command line, the parsing of PE headers and the comparison of
  hashes are the `Facts` among which
  `CheckRequest` chooses. Events of threads that neither are the main thread nor
  run a remote function are one kind of event; a deadline is counted in a few ticks.
- **Hook.** A module is one import slot, its page protection and its reference count; the walk over
  descriptors and thunks is data. The monitor's 720 turns are a bound.
- **Operations.** Whether the package is intact is one value (hashes, manifest and signatures are
  data), and edits are of files the manifest lists. Errors and time limits of a wait are one
  step, `LoseTrack`. There is one manager at a time, by its mutex; a launcher that an earlier one left
  running is forgotten when the next is started. An uninstaller that finds no state file succeeds
  without the lease; whether there is one is a choice. A killed helper has an exit code other than 0. What the script does to the files is
  `PluginFiles`, which assumes the lease that `OneMutator` is about.
- **Files.** An operation on a file is atomic, the copy through a temporary name included. Only the
  user writes to the folder besides the scripts, and not while a script runs. Paths, access
  rights and the identities of directories are data; the two scripts' refusals are their tests of
  files, back-ups and state.
- **Profiles.** A profile is its name, its SimHub folder and one value for the game's path and
  arguments; the preference to start SimHub is left out. The deletion of a key is all or nothing. Other programs do not write to these keys.
- **Detector.** Time is an integer, the level one of three: at the entry threshold, below the one
  of exit, or between, which stands for the comparison of real numbers with thresholds. Ticks
  do not overlap and have different times (the clock is much finer than the timer).
- **Frames.** A header or a payload is sound or faulty; what `Decode` looks at is data. The tests
  that `RunClient` makes of a decoded frame are in `SecurePipeServer` and `EndToEnd`.
- **Viewer.** Frames have a number and a count of drops; a chunk holds whole frames (the cut is
  that of `FrameStream`), and a frame that is refused ends its connection. Whether the display is
  paused is chosen at each frame. The failure of `CreateNamedPipe` goes round the acceptor's
  loop. Graphs, filters, export and traces read the store on its own thread.
- **Not modelled.** The installers beside a game (`simhub/portable`): planned, see
  below. The readiness report, dialogs, clipboard and
  layout of the manager's window: reading and showing, no state of their own. The exports of
  `dinput8.dll`: a table that is filled once. Plug-in registration with SimHub, dashboards,
  packaging, CI: layout, interfaces of SimHub, or generated at build time.

## 7. Plan

Done, in this order: the sender with its abstract log and proofs; the engine; the server; the
composition end to end; the schedules with the abstract clock and proofs; the wrappers; the
launcher with proofs, and the hook; the manager's operations with proofs, its profiles, and the
file transaction of the installing scripts; the detector, the frame accumulator and the viewer; the
proofs about the engine, its detector, the way end to end, the servers, the wrappers, the hook, the
profiles, the file transaction, the viewer and the frame accumulator; the engine's truth in the run
that drives all its parts; what the waits of servers and launcher rest on.

Left, most important first:

1. The hazards that no property covers: a Tick with a later time before an earlier frame
   (`ClippingEngine.cs:80`), and the window between a driver effect and the registration of its
   wrapper (`wrapper_device8.cpp:394`): `EffectWrappers` has the step, but nothing in the
   repository says whether a game may get the bare effect there.
2. The installers beside a game, against the same two properties as the scripts here.
3. `WrapperDirectInput8` and the overlap guard of the monitor's timer.
