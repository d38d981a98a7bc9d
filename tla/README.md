# NeuroPace RDNA: TLA+ models and proofs

NeuroPace RDNA watches a game's latency telemetry, predicts frame drops and
reacts by raising the GPU's power limit and the game's thread priorities for a
few seconds. What can go wrong is mostly in the reacting: state of the GPU and of
foreign processes is changed by a service that may be late, refused, flooded,
stopped or killed. The other half of the difficulty is in the dashboard, which starts
and ends the services, follows their pipes and shows both to pages that come and go:
callbacks of one event loop, arriving late and in any order. These modules model both
parts step by step, check them with TLC on small instances, and prove their central
invariants with TLAPS for all values of the constants.

Paths below are relative to the repository (`src/` in PROJECT.json).

## The system

    telemetry (C++)  --telemetry pipe-->  ai-engine (Python)  --action pipe-->  actuator (C++)
          |                                     |
          +---------dashboard pipe---------+    +--prediction pipe--+
                                           v                        v
                                        dashboard (Node): bridges, process manager, page

All pipes are byte streams of NDJSON. The dashboard starts and stops the other
three as child processes.

| Component | State | Operations | Interaction | What is hard | What makes it correct |
|---|---|---|---|---|---|
| safety guard (`actuator/src/safety_guard.cpp`) | stamps of the last approvals, two counters, audit file | ValidateAction, LogAction | called by the main loop before anything is elevated | window boundary, pruning, order of the checks | never more than the limit in a window; never refuses below it; one audit entry for each command, when the file has opened |
| process scheduler (`process_scheduler.cpp`) | target pid and handle, snapshot, modified flag, deadline | AttachToProcess, RebalanceThreads, RestoreOriginalState, ShouldRollback, Detach | main loop; the operating system's threads | threads start, exit and reuse ids between any two steps; rights may be missing; renewals | what the snapshot covers is put back; nobody else's threads are touched |
| GPU power (`adlx_actuator.cpp`) | TgpState, and the limit in the GPU | ApplyBoost, RevertToDefault, CheckAndRevertTimeout | main loop; driver | driver refuses; renewals; the limit survives the process | record = GPU; caps; ends in time |
| actuator service (`main.cpp`) | place in the loop, last scan, shutdown flag | the loop, the shutdown sequence, the control handler | owns the three above; queue filled by the reader | shutdown at any place; kill; late passes | elevation only with a target; everything on a lease; release on Ctrl+C |
| action subscriber (`ipc_action_subscriber.cpp`) | running, connected, handle, line buffer, queue | ReadLoop, Connect, Disconnect, Stop, TryPopCommand | reader thread and main thread share the handle without a lock; pipe of the AI engine | cut lines, lost connections, Stop racing Connect and ReadFile | commands whole and in order; no handle lost while it runs; Stop returns |
| telemetry publisher (`telemetry/src/ipc_publisher.cpp`) | client list, running flag | Start, Publish, AcceptLoop, DisconnectClient, Stop | publishing threads, clients | blocking writes and flushes under one mutex | Publish and Stop finish; a dead client is dropped |
| ETW collector, ADLX sensor, aggregator | session handles, locked metrics, sequence number | Start, Stop, callbacks, BuildFrame | event thread, two publishing threads | restart, teardown order, shared counter | metrics of the last window; sequence increasing on each pipe |
| AI engine pipe servers (`ipc_action_publisher.py`) | handle, connected, events | start, publish, accept loop, stop | main thread and accept thread; the actuator at the other end | writes cut by their timeout, a dead client holding the only instance, stop during accept, kill | publish and stop end; no instance is forgotten; what a client gets are whole messages |
| AI engine loop, predictor, trainer (`main.py`, `predictor.py`, `online_trainer.py`, `feature_engineer.py`) | window, session, sample buffer, model file, flags | process, predict, observe, retrain, load_model | watcher, trainer and main thread share the session and the file | hot reload, shutdown without frames, stale windows | no prediction by a rejected model; shutdown ends |
| process manager (`dashboard/server/process-manager.js`) | one record for each module, its log | start, stop, startAll, stopAll, shutdown; close, error and timer callbacks | child processes; every change is broadcast | late events of an old child, the two second timer, startAll sleeping while others stop, a kill that is refused | a record has the child that runs; a stop ends it; no child outlives the server |
| dashboard server (`dashboard/server/index.js`) | listening or closing, sockets, frame counter | HTTP commands, `init` for a new socket, broadcasts, downsampling, SIGINT, exit | pages, process manager, three bridges | Ctrl+C in the middle of everything; pages that stay | pages see the records as they are; Ctrl+C ends it |
| pipe bridge (`dashboard/server/pipe-bridge.js`) | socket, connected, timer, buffer | start, stop, data, close, error, end, reconnect | event loop; the other end of a pipe | late events of old sockets, chunks that end anywhere | one live socket, connects again while running, messages whole and in order |
| page (`dashboard/public/js/app.js`) | statuses, values, lists, socket | mount, connect, handleMessage, reconnect | fetch, then messages | what happens between the fetch and the socket, or while it is lost | shows the newest, in order |
| charts (`dashboard/public/js/chart-engine.js`) | ring of values | push, render | handleMessage | a flat line, very different values, one value | points and grid lie in the plot |
| Discord presence, scripts, training, contracts, vendored Vue | | | | | not modelled, see below |

PROJECT.json lists every part with what is modelled of it, and every hazard with
the line where it bites and the properties that answer it.

## The modules

| Module | Models | Composes |
|---|---|---|
| `Clock` | the steady clock, in ticks, bounded by `MaxTime` | |
| `ActionTypes` | `actuator/include/action_types.h`: command types and decoding with defaults | |
| `SafetyGuard` | the guard's state and the operators `ValidateAction`, `LogAction` | Clock, ActionTypes |
| `RateLimiter` | abstract: what a rate limiter promises, over the whole past | Clock |
| `SafetyGuardHistory` | the guard under any caller, with the history of all approvals; its properties | SafetyGuard; refines RateLimiter |
| `AdlxActuator` | the power actuator and the GPU's own limit | Clock |
| `Lease` | abstract: an elevation ends only when its timeout has passed since its last renewal, or after the holder has closed | Clock |
| `ProcessScheduler` | the scheduler and the operating system's processes and threads | Clock |
| `SchedulerUse` | the scheduler as main() uses it, with all else left out; its properties and invariants | ProcessScheduler |
| `Actuator` | the service: main loop, shutdown, reader (abstractly), control handler, kill and restart | all of the above; refines Lease twice |
| `ActionSubscriber` | the reader thread and Stop in detail, over a byte stream cut anywhere, under an AI engine that may do anything | |
| `ActionPipe` | `PipeServer` of `ai-engine/src/ipc_action_publisher.py`: accept thread, publish, stop, kill and restart, in the place of that AI engine | ActionSubscriber; refines it with what is not written yet counted as written |
| `StatusFeed` | pages: fetch, socket, what they are sent and what they show (`app.js`, and `broadcast` and the `connection` handler of `index.js`) | |
| `ProcessManager` | the records, the children, startAll, stop, the timers and the children's late events | StatusFeed |
| `ControlCenter` | the server: commands, listening, pages, Ctrl+C and the exit; the properties of the three | ProcessManager |
| `PipeBridge` | the bridge, Node's sockets and the other end of the pipe; its properties of state | |
| `LineChart` | pure: ring, range of the axis, grid, places of the points | |
| `DataPath` | one stream from its source to the page: bridge, downsampling, handleMessage; or the log of a module | PipeBridge, LineChart; refines MessageChannel |
| `MessageChannel` | abstract: what arrives is a sequence of messages sent, whole, in order, none twice | |
| `MC*` | instances for TLC | |
| `*Proofs` | theorems | |

How state and actions correspond to the code:

* Variables keep the source's names (`m_actionTimestamps`, `m_snapshot`, `m_state`,
  `m_commandQueue`, `g_shutdown`...). `process`, `thread`, `gpuLimit`, and the
  pipe variables of `ActionSubscriber` are the world outside.
* One action is one stretch of a thread between two points where something else
  can be seen to happen. A loop over thread ids takes one step per thread, in any
  order. `pc` of `Actuator` is the place in main(). `pc` of `ActionSubscriber` is
  the place of each thread; Disconnect, which both run, is five steps.
* The reader's loop tests `m_running` and then `m_connected` (lines 48 and 49): these
  are two steps, `ReadLoop` and `TestConnected`, and Stop may come between them.
* `m_pipeHandle` is a plain variable that two threads use without a lock. Where one line
  stores or tests it and a later one uses it (100 and 109, 125 and 126), a build may read
  it again or not. Both outcomes are there: `CloseHandle` closes the handle tested (`tested`) or
  the one that `m_pipeHandle` holds by then, and Connect goes on after its test or,
  with `ConnectionGone`, finds that Stop has invalidated the handle meanwhile.
* The vector of stamps is a function whose keys are the numbers of the approvals,
  so that equal times stay apart; erasing restricts it. A confidence is in thousandths.
* The audit file is the number of the entries handed to its stream. `auditing` says that
  the log is enabled and the file has opened: the constructor goes on without it
  (`safety_guard.cpp:12`), and `WriteAuditEntry` then returns at once (line 131). The
  runs `actuator` and `safety_guard` begin with either.
* A thread carries two history fields: `covered`, the snapshot holds this very
  thread and no restore failed to open it, and `recycled`, its id belonged to a
  game's thread before. They occur in no guard.
* An affinity mask is a set of processors. The mask that no initializer sets is any
  member of `UninitializedMasks`.
* A driver call is an action with a Boolean result chosen by the environment.
* In the dashboard an action is a callback of the event loop, from its start to its
  return: nothing can happen inside it. What the code schedules for later (the timers
  of stop and of the bridge, the next start of startAll, an event of a child or a
  socket) is an action of its own that may come at any later moment, in any order but
  for the order Node guarantees.
* A child is numbered in the order of the spawns; its pid may be that of a child that
  is gone. `erred` remembers the modules of which a child has emitted `error`: after
  that the code has lost hold of the child, and the properties say so.
* A message on a pipe is a head, a tail and, when it is long, a part between them; the
  last part holds the newline. What a chunk brings is any number of them.
* `instances`, `created`, `server` and `wire` of `ActionPipe` are the operating system's;
  `handle` is the code's `_handle`, and `_connected` says that there is one. All that is
  done under `_lock` is one step, but for publish, which holds it while it writes.
* The axis of a chart is in thousandths. The code's 0.8, 1.15 and division by five leave
  whole numbers of these.
* Thread snapshots that cannot be taken (`EnumerateProcessThreads` returning
  nothing) are covered by threads that cannot be opened.

## What the runs check

| Run | Question | Bounds | Result |
|---|---|---|---|
| `safety_guard` | Is deciding from the pruned vector the same as deciding from the whole past? Does the guard implement the abstract limiter? | 6 calls, 7 ticks, window 2, limit 2; one command for every way through ValidateAction; 52,062 states | holds |
| `no_action_rejected` | Does NO_ACTION always pass, as a test's name says? | same | it does not: the rate is tested first |
| `scheduler` | Is what was covered put back, whatever threads and games do? | 3 thread ids, one game, one other process, 6 processors, every set of rights with which OpenProcess may return, OpenThread may fail | holds |
| `elevation_left_behind` | Is the elevation temporary for all the game's threads? | same | it is not for threads created after the attach |
| `actuator` | Does the composed service keep record and GPU together, audit everything when the file has opened and nothing when it has not, elevate only with a target, and hold both elevations on leases? | 4 ticks, timeouts of 2, scan interval 1, queue 1, two commands out of four kinds; 1,454,660 states | holds |
| `actuator_liveness` | Do elevations end, and does Ctrl+C release the game? | same, one kind of command, ADLX present | holds |
| `crash_leaves_boost` | Is the headroom momentary across a kill and restart? | same as `actuator` | it is not |
| `action_subscriber` | Over both ends of the action pipe: are commands whole and in order, handles and instances kept, losses counted once? Is `PipeServer` the AI engine that the subscriber supposes? Does the actuator's Stop hang only on a silent peer, does it reconnect, and do publish and stop of the engine end? | 2 messages, 2 instances of the pipe, queue 1, both behaviours of CloseHandle, the engine killed at any step; 324,076 states | holds |
| `stop_hangs` | Does Stop return? | 2 messages, one of them no command, 1 connection | it need not |
| `control_center` | Do records, children and pages agree, does a stop take effect, does the exit leave no child behind, does the two second timer spare what it should? | 2 modules, 2 spawns, one startAll under way, one page; 376,598 states | holds |
| `ctrl_c_hangs` | Does Ctrl+C stop the server? | 1 module, 1 spawn, 1 page | not while a page is open |
| `data_path` | Does what arrives consist of whole messages in order, does the page show the newest, is the chart readable, and does the bridge settle down? | 2 sockets, 6 messages, one of them long, 2 pieces in the pipe, buffer of 1 piece, every 2nd frame, charts and lists of 2, page log of 3; 273,598 states | holds |

Why the bounds are enough. The guard's decisions compare stamps with one window:
seven ticks hold three windows of two, so stamps expire, sit exactly on the boundary
and pile up. Three thread ids let one thread be in the snapshot, one be created after
it, and one belong to another process, with any of the three reused. In `actuator`
one tick is two seconds: the timeouts of five seconds are two ticks, the scan
interval one, the rate window less than one; two commands are enough for a boost and
its renewal, an approval and a rejection, or one queued and one dropped; a single
thread id lets the game and another process compete for it, and the longer loops over
threads are the business of `scheduler`. The absolute maximum is set to 340 W rather
than 400 W, so that it is lower than default plus boost and the cap matters.

In `action_subscriber` two instances let a message be cut on one, by the timeout, a
lost client or a kill, and the next arrive on the other while either end stops; a
third message takes TLC beyond five minutes, and is left to the proofs of the safety
properties. That a message is no command occurs in `stop_hangs` and in the proofs. In `control_center` two modules are
what startAll needs to sleep in between, and two spawns let an old child of a module
close after the new one runs, with its pid used again; with both spawns of one module
used, a startAll has none left, and what a startAll does to a module spawned twice
before is left to the proofs. In `data_path` a long message overflows the buffer of one
piece, two sockets let the close of the old one come after the connection of the new,
and six messages fill the chart, both lists and the page's log beyond their limits.
The two sockets are numbers used again after their close; with both of them closing at
once the timer waits, which a third would not change but for the number.

`MaxValue` bounds what a chart shows to 4,000,000 milliseconds, more than an hour for one
frame: the nine `Magnitudes` are those that a fifth of such a range, in
thousandths, can have. It bounds the proofs as well as the run.

`CHECK_DEADLOCK FALSE` is set where the clock's bound, the bounded calls or the exit
of the service end a behaviour.

### Fairness

`Actuator`: the main thread is scheduled (weak fairness of `Main`), time passes (weak
fairness of the clock up to its bound), and a driver asked to put the default back
again and again does not refuse for ever (strong fairness of the successful revert;
the code asks once per pass of the loop, every 10 ms). Nothing is assumed of the
reader, of the player or of Ctrl+C. The drain loop ends because a run receives a
bounded number of commands. In the service this rests on the loop popping faster than
the AI engine writes, which sends at most one command per frame.

`ActionSubscriber`: both threads are scheduled. Nothing is assumed of the AI engine,
which may stay silent for ever; and once main() has called Stop, the destructor does.

`ActionPipe`: in addition both threads of the engine run, and a write that does not end
fails after its timeout. What is published, how fast a write goes, when the engine
stops and when it is killed is left open. stop joins for three seconds, longer than
any sleep of the accept thread, so that join waits for the thread.

`ControlCenter`: the event loop runs, so that sleeping startAlls go on, children that
have ended are closed and pages handle what they were sent. Nothing is assumed of users,
of the sockets of pages, or of children that nobody has killed.

`DataPath`: the event loop runs, the operating system answers a connect and closes a
destroyed socket, and the other end notices a client that has gone. For `SettlesDown`
the property itself supposes that the other end stays and that closes are prompt.

That a server which has been closed accepts no new request is an assumption: Node 19 and
later also close idle connections then, as `NoSocket` supposes of those that are no
WebSocket.

## Where the code and its documents differ

Each has a run that finds the behaviour and is listed under "findings".

1. `safety_guard.cpp:27`: the rate limit comes before the NO_ACTION test. (main() itself
   drops NO_ACTION before the guard sees it.)
2. `process_scheduler.cpp:205`: threads the game creates after the attach are raised by
   the next rebalance and never put back.
3. `adlx_actuator.cpp:67`: after a kill during a boost the GPU stays raised, and the
   service started next takes the configured default for the limit in force.
4. `ipc_action_subscriber.cpp:60`: Stop waits for a reader blocked in a synchronous
   ReadFile. It may even connect after Stop closed the handle, having tested `m_running`
   before. By then main() has already let go of the game (`ShutdownRestores`) and asked
   the driver for the GPU's default once, which the driver may have refused.
5. `dashboard/server/index.js:195`: `wss.close()` and `server.close()` wait for the pages
   that are open; "Press Ctrl+C to stop" (line 178) holds only once they are gone. A
   second Ctrl+C does not help.

The audit is a sixth, without a run of its own: the README of the repository says that
every decision is logged (`README.md:173`), but when the audit file does not open,
commands are decided and executed with no entry at all. `AuditComplete` states both
halves, and holds of the code.

Seen in the models and in no document: the scheduler stays attached to a game that has
exited; the line buffer is reset by Stop while the reader may be feeding it. During Stop
the handle may be closed twice, and one may be lost: the reader has tested `m_running`
while it was connected, Stop takes `m_connected` and tests the handle, and the reader,
which now finds itself not connected, stores the result of CreateFile over the handle
that Stop is about to close. Stop then closes one of the two and invalidates
`m_pipeHandle`, and nobody closes the other; or CreateFile fails, and the old one is left
open. `OneHandle` says that no more than one is lost, and none while the service runs. In
the dashboard:

* The timer two seconds after a stop can reach only a process that has taken the pid of
  the one it was meant for (`ForcedKillOnlyByReusedPid`): the close of the child has
  long erased the record's process. A child that ignores the first kill is not reached.
* A kill that is refused emits `error`, which erases the record while the child lives.
  A module started again then has two children, and the late close of the first erases
  the record of the second. `OneChild` and `ExitLeavesNoChild` except such modules.
* A startAll that sleeps goes on after stopAll and after Ctrl+C; the children it starts
  are killed once more when the process exits.
* A killed child ends with a code that is not 0, so that a module stopped by its button
  shows `error`.
* restartModule of the page starts 1.5 seconds after the stop, and is refused when the
  close of the child comes later.
* "RESTART ALL" (`public/index.html:183`) sends the module name `all`, which no module has.
* The charts of the page's second tab stand under a `v-if`, so that onMounted
  (`app.js:195`) finds only the overview's canvas.
* The selection of log modules (`public/index.html:223`) sets what `app.js:47` compares with
  a level.
* A frame rate derived once from a frame time (`app.js:111`) stays until a sensor has one.
* `config.ws.maxClients` is read nowhere.

## What is proved

TLAPS proves these for every value of the constants that satisfies the named
assumptions (`MaxTimeAssumption`, `GuardAssumption`,
`HistoryAssumption`, `SchedulerAssumption`, `UseAssumption`, `TgpAssumption`,
`ActuatorAssumption`, `SubscriberAssumption`, `ManagerAssumption`, `BridgeAssumption`,
`PathAssumption`, `ChartAssumption`): they say that limits are naturals,
that the default is not above the absolute maximum, that the parts get the
configuration main() gives them, that pids and the like are of their kind and that a
frame time is at most `MaxValue`, and no more. TLC evaluates them in every run.

* `SafetyGuardProofs`. The inductive invariant, `HistoryInvariant`, adds to the types
  that the guard remembers exactly those approvals of the history that are not older
  than its last pruning, and that stamps grow with their numbers. From it follow
  `LimiterIsExact`, and `RateIsBounded`: an approval is granted when fewer than the
  limit are in the window that ends with it, and later ones do not enter that window.
  `GuardImplementsLimiter` maps every step to a grant, a tick or a stutter.
* `ProcessSchedulerProofs`, `SchedulerUseProofs`. `CoveredInv` says where a covered
  thread's own priority is at each place of the loops: in the snapshot always, in force
  outside an elevation and, while restoring, for the threads the loop has passed. The
  property alone is not inductive, since it is silent during the loops. `AffinityInv`
  does the same for the mask and `ForeignInv` for the ids being walked.
* `ActuatorProofs`. `ControlInv` ties the place in main() to the scheduler's loop and
  to the command in hand; `PowerInv` ties the record to the GPU. The service's use of
  the scheduler is covered by the lemmas of `ProcessSchedulerProofs`. `PowerIsLeased`
  and `ThreadsHeldOnLease` show the two refinements of `Lease`, step by step.
* `ActionSubscriberProofs`. `HandleInv` has three parts for `OneHandle`. While the service
  runs only the reader uses the handle, which is open from Connect to the reader's close
  (`RunningInv`). A reader that is past the loop's first test when Stop comes connects
  once more and never again; until then no handle is lost, and when two are open one of
  them is `m_pipeHandle`, which the Disconnects still to come close (`StoppingInv`). When
  the first Stop has returned the reader is gone (`StoppedInv`), which leaves the second
  alone with the handle.
  `LossesAreCounted` accounts for each connection at every place of either thread. The
  one it excepts was closed by Stop before Connect had taken note of it.
  `CommandsAreWhole` rests on `CommandInv`: the pieces in the pipe are consecutive and
  begin where the buffer ends or in the middle of a message whose head is lost; the
  buffer holds at most one head, and is empty where a new connection may begin; what
  is queued is older than what is in the buffer or the pipe. Without the part about
  the buffer, Stop, which empties it under the reader, could not be told from a cut.
* `ActionPipeProofs`. `ServerInv` ties the place of the accept thread to the handle, the
  instances and the state of the pipe. From it follow `InstancesAreKept`, and, step by
  step, `ServerIsAiEngine`: with what is not written yet counted as written, each step
  of the engine is a step of the AI engine of `ActionSubscriber` or a stutter. A write
  that is cut is a connection lost with what it held. So the proofs of the subscriber
  are used as they are, for the stream with the unwritten pieces, and give
  `PublishedCommandsAreWhole` and `PublishedHandleIsKept` from one end to the other.
  `ActionPipeTypeCorrect` adds that the engine's main thread has pieces left to write
  only while it publishes.
* `ControlCenterProofs`. `CoreInv` has four parts: the types; `RecordsOK`, that a running
  record has a child that has not closed and, but for modules in `erred`, every such
  child is its module's record; `KilledOK`, that a killed child has ended; and
  `PidsOK`, that a pid comes again only when its first child is dead, and that no
  timer remembers the pid with which a record's living child was born. `OneChild` is
  the second part; `ForcedKillOnlyByReusedPid` needs the fourth, and `ExitLeavesNoChild` the
  third. `FeedInv` says that what a page shows, after all it is still to be told, are
  the records as they are; a page between its fetch and its socket is the case that
  needs `init`.
* `DataPathProofs`, in four parts.
  The sockets: `BridgeInv` adds `PromptInv` to the three properties: when closes
  are prompt, no socket but the client's is still closing, and the timer runs only
  when the client is closing or closed. A late close, whichever socket it is of, is the
  one thing that makes the `connected` flag wrong, and `ConnectedIsTrue` says no more.
  The stream: `StreamInv` says that the pieces in the pipe are consecutive, that the buffer
  holds the beginning of a line which, if it is of a message, is that message's own, and
  that what has been received is older than both. `ReadUpTo` is the same with the first
  pieces of the pipe already fed; `FeedKeeps` is its step for one piece, and `FedKeeps`
  carries it over the loop of `_onData`. With it each callback maps to one step of
  `MessageChannel` or to a stutter: `BridgeIsChannel`.
  The page: `PageInv` says that the page has been sent only what the bridge has emitted, that
  the frames received are those counted, and that chart, list and log are the newest of
  what it was sent. `Stage` is that in the middle of a callback: each handler keeps it
  (`HandleKeeps`), so the handlers of one callback do, however many it calls
  (`HandledKeeps`). From it follow `PageIsRecent` and `DataPathTypeCorrect`.
  The chart: the axis holds every value and is at least 1000 long (`AxisHolds`), which puts
  the points in the plot; the step is at least a fifth of the range and at most two and a
  half times that (`StepFits`), so that between two and six multiples of it lie on the
  axis (`GridFits`). `ChartAlwaysReadable` combines them for any chart of values up to
  `MaxValue`.

The loops over the pieces of a chunk and over the lines of a callback are recursive
functions (`Fed`, `Handled`). The theorem about induction in the library takes an operator
as a parameter, which these provers cannot instantiate. What the proofs need of it is
that a set of naturals which has 0, and has n + 1 with each n below a bound, is all of
the numbers up to the bound. This is `InductionUpTo`, proved from the least number of the
complement, and the invariant of a loop is stated as such a set.

Only model-checked: the liveness properties and those that state fairness
(`StopTakesEffect`, `CtrlCWaitsOnlyForPages`, `SettlesDown`, `StopWaitsOnlyForSilence`,
`Reconnects`, `PublishAndStopEnd`, `StopReturns` and `CtrlCStops` of the runs that refute
them, `BoostEnds`, `RebalanceEnds`, `ShutdownRestores`), which are out of reach of these
provers. Every other property that a passing run checks is the statement of a
theorem, or part of one: the types of the guard, of the scheduler and of the subscriber
are conjuncts of `ActuatorTypeOK` and of `ActionPipeTypeOK`.

## What is not modelled, and why

* `RebalanceThreadsToCores` (never called), attach by configured name or pid (never
  configured by main()), `ValidateProcessHandle` (a null test).
* The pid of a game being used again between ScanForKnownGames and OpenProcess
  (`process_scheduler.cpp:64`): the look-up and the open are one step of `BeginAttach`.
  Nor does the model have games that change the priorities of their own threads.
* A write to the audit file that fails once it has opened, as on a full disk.
* Texts of log lines and status output; statistics other than those named.
* Of the dashboard: the gate that refuses some commands (it keeps no state), the serving
  of files, the periodic status and the bridges' statistics, `getLogs`, the resolution of
  paths when the program is loaded, an exception thrown by net.connect itself, the
  filter of the log, the buttons (their commands come at any moment in
  `ControlCenter`), colours, texts, strokes, the size of the canvas, and what rounding of
  fractions does to the grid. `rpc.js` sends a fixed text to Discord that nothing reads.
* Of `PipeServer`: CreateNamedPipe failing, which is tried again a second later, and a
  second start in the same process, which the engine does not do.
* The telemetry service and the rest of the AI engine: see the plan.
* Model training: sequential scripts. `vue.global.prod.js` is vendored, `gh_cli` holds a
  licence.

## Plan

1. Done: guard, power, scheduler, service, action subscriber; abstract limiter and lease.
2. Done: process manager, server, pages, bridge, data path, charts; abstract channel.
3. Done: the engine's `PipeServer` and its composition with the subscriber.
4. `AiEngine`: frame loop, shutdown flag, cooldown, hot reload and trainer over one
   model file and one session.
5. `IpcPublisher` and the telemetry service: clients, mutex, flush, stop order.
6. A pure module: rolling statistics, the predictor's decision, percentile of the
   session analyzer, each against a reference definition.
7. Proofs: the safety properties of 4 and 5. Those of the present modules are proved.
