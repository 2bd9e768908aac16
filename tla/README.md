# A verification project for supervisord

TLA+ models of the parts of supervisord that keep state and run concurrently,
TLC runs that check them on small instances, and TLAPS proofs of the main
results for every instance. `PROJECT.json` lists components, runs, mutants, the
map from definitions to source lines, findings, hazards and theorems.

## The system

supervisord reads an INI configuration and keeps a set of programs running. Its
parts, what they keep and how they interact:

| part | state | operations | talks to |
|---|---|---|---|
| program lifecycle, `process/process.go` | per program: state, `inStart`, `stopByUser`, `retryTimes`, `p.cmd`, loggers; `p.lock` | `Start`, `Stop`, `Signal`, `run`, monitor, `waitForExit` | emits events, signals children, is called by every interface |
| events, `events/events.go` | maps of listeners without a lock, a queue per listener, serial counters | register, unregister, emit, deliver | listener programs over pipes |
| start order, `config/process_sort.go` | none beyond one call | `SortProgram` | called by the process manager under its lock |
| signals, `signals/signal.go` | none | `Kill` with a wait for SIGCHLD | the operating system |
| process manager, `process/process_manager.go` | maps of programs and listeners, one lock | create, remove, find, for-each, stop all, liveness ticker | programs |
| supervisor, `supervisor.go`, `main.go` | configuration, restart flag, lock | reload, start/stop of programs and groups, shutdown, wait for exit | manager, configuration |
| liveness checks, `process/process.go`, `script_executor.go` | counters, thresholds, next check time | check, act on success and failure | `Stop(true)`, `Start(true)` |
| logs, `logger/log.go` | current file, size, backups, ring buffers | write, rotate, clear, read, tail, close | written by children, read by clients, closed by the lifecycle |
| configuration, `config/` | entries, groups | load, remove program, compare groups | supervisor |
| interfaces: XML-RPC, REST, web, `ctl` | none | requests | supervisor, programs |
| file monitors, cron, zombie reaper | external libraries | callbacks | `Stop`/`Start`; steals exit statuses |

### What is hard

- One program is touched by many goroutines: each client, the goroutine of
  `Start`, the goroutine of `Stop`, and three goroutines per attempt. `p.state`
  and `p.stopByUser` are atomics that are read, and the state also written,
  outside `p.lock`, so a decision may rest on a value that is no longer true.
- Goroutines of one attempt outlive it and meet the next one.
- `Kill` returns for the SIGCHLD of any child, and holds the read lock while it waits.
- The event manager's maps have no lock; a listener that dies stays registered.
- Go visits maps in any order; sorting depends on it, and a dependency cycle never ends.
- A log's handle and size are shared by the writer, which may rotate, clients that
  clear and read, and two goroutines that close; `p.lock` and the log's lock are
  taken in both orders.
- A reload goes through entries, processes and programs in many steps while clients
  start, stop and shut down, with process pointers they looked up earlier, and while
  cron schedules, file monitors and liveness checks act with pointers they keep for ever.
- A liveness check is over before its action is: checks overlap with restarts.

### What makes each part correct

- lifecycle: never two children; a live child is always reported and supervised, and
  its descendants go before its successor; retries are counted exactly; a stop ends the child and nothing starts after it; starts
  and stops return.
- events: bounded queues; the event acknowledged is the one that was sent; none is
  lost or reordered, whatever the listener does; no lost wake-up.
- start order: dependencies first, every program once, an end if there is no cycle.
- manager and supervisor: reload leaves exactly the file's programs and tells all
  others to stop, so that only an old pointer can start one again; shutdown leaves none of
  those it listed that was not started afterwards.
- logs: the files hold the newest output without a gap, the current one below the
  limit; no output is refused but after a clear or for an earlier attempt's
  goroutines; a read answers exactly what was asked; a tail never
  repeats; loggers are closed.
- liveness checks: an action needs that many failures in a row, old failures are not
  held against a program the checker restarted, and the checker never falls silent
  unless one of its own actions hangs.

## Modules

| module | models |
|---|---|
| `Program` | abstract: what a program promises to those who start and stop it |
| `Process` | one program: `process.go` from `Start` to `waitForExit`, with its clients, `signals.Kill` and the children; implements `Program` |
| `ProcessProofs` | inductive invariant, theorems, refinement of `Program` |
| `Supervisor` | reload, process manager, requests and callbacks, above programs as `Program` describes them |
| `SupervisorProofs` | inductive invariant; reload, removal and shutdown for any files, clients and callbacks |
| `LivenessChecker` | the liveness checks of one program, above `Program` |
| `LivenessCheckerProofs` | inductive invariants and theorems about the counters |
| `ProgramLog` | `FileLogger` and `CompositeLogger`, with the goroutines of `process.go` that use them, over several attempts |
| `ProgramLogProofs` | exact reads for every size, offset and length; the file bound; whose close may refuse output; rotation keeps the newest output |
| `BoundedFifo` | abstract: what listener queues promise |
| `EventListener` | `events.go`: the manager's maps, emitters, queues and delivery goroutines of one pool; implements `BoundedFifo` |
| `EventListenerProofs` | inductive invariant, theorems, refinement of `BoundedFifo` |
| `ProcessSort` | `process_sort.go` with the map iteration left open |
| `ProcessSortProofs` | inductive invariants and theorems: order, completeness, progress of each pass |
| `Induction` | induction over positions, and functions defined by recursion, for the proofs about files, backups and sequences |
| `MCProcess`, `MCSupervisor`, `MCLivenessChecker`, `MCProgramLog`, `MCEventListener`, `MCProcessSort` | model values, small instances and symmetry for the runs |

How they fit together. `Supervisor` and `LivenessChecker` do not repeat the goroutines
of `process.go`: they use the actions of `Program` (a Start that takes effect,
Stop, a child born, a child's end, the end of Start's goroutine, a state left at
Stopping). `Process` implements `Program` (`ImplementsProgram`, checked and proved).
`LivenessChecker` calls the actions by name; `Supervisor` writes five of them out for
each process object, to keep its ghosts beside them, and leaves out the sixth, which only
takes from what the others allow. That their use of `Program` is right is therefore to be
read off the modules; it is not a property.

### Process

`caller`, `runner` and `stopper` are the control points, per client, of the
calling goroutine, of the goroutine of its last effective `Start`, and of the
signalling goroutine of its `Stop`. `monitor`, `waiter` and `closer` are those of
the three goroutines of an attempt. `state`, `inStart`, `stopByUser`,
`retryTimes` are the fields; `cmd` says whether `p.cmd` and `p.cmd.Process` are
nil; `attempt` numbers the commands built, and stands for the identity of `p.cmd`
and of the loggers.

`p.lock` is not a variable. A thread holds it exactly when its control point is
in a critical section (`WriteLocked`, `ReadLocked`), and a step that takes it has
`LockFree` or `RLockFree` as its guard. A section of code under the lock is
several steps where it stores or loads an atomic that is also used without the lock.

A child may end at any time, with an expected or an unexpected exit code or with
its status lost to the zombie reaper. A descendant may keep the output pipe open
(`piped`), which delays `cmd.Wait`. A nil dereference in `changeStateTo(Stopping)`
or `sendSignals` sets `panicked`, after which nothing happens.

Abstractions: time is left out (a sleep or a timeout ends at some moment);
a list of stop signals is one signal; events emitted by `changeStateTo` belong to
`EventListener`; a Start that is refused, and a Signal that finds no process,
change nothing and are not steps; the 5 s pause against quick restarts is part of
`RunAgain`. Cron, liveness checks and file monitors are clients.

### Program

`inStart`, `stopByUser`, `live`, whether there is a child, and `stuck`, whether a Stop has
left the state at Stopping after the program had ended (finding 2). A child is born only
in a Start that took effect, never beside another, never once `stuck` and, without a
restart pause, never after a Stop; the goroutine of Start never leaves a child behind. Nothing
is promised about when, so that a retry, a restart and a refusal to start all fit. In
`Process`, `stuck` is `Stuck`: IsRunning, and no run() left that could store another state.

### Supervisor

`entries` is the configuration, `procs` the manager's maps, and a process object is a
number, because requests keep pointers to objects that lose their name. `reload` is the
control point of the one goroutine that `s.lock` lets into `Reload`; `req[c]` is what
client c's request has still to do. A request looks its programs up in one step
(under `pm.lock`) and reaches them in any order. Where `ForEachProcess` calls back
under `pm.lock` in several steps (`StartAutoStartPrograms`, group signals) the lock
is `Locked`; `SignalProcess`, which does without it, changes nothing here.
`Callbacks` are the objects with a cron schedule, a file monitor or a liveness check: a
closure starts and stops its object at any time, removed or not (`CallbackStarts`,
`CallbackStops`). A reload may find a resource limit too low and end supervisord
(`ReloadFails`); `exited` tells that end from a shutdown's. With a restart pause a child
may be born after a Stop, as `Program` allows.
`late` and `stale` only record which starts, and births after a pause, came after a
shutdown's list, and which starts after a removal. Left out: groups (a request names any set of programs), HTTP servers, the pid file,
`WaitForExit`, whose return only ends a goroutine (`service.go:41`).

### LivenessChecker

`poll` is the manager's ticker inside `DoLivenessCheck`, `at[k]` the goroutine of a
check, `before[k]` what it read before the check. The program may be started and
stopped by others at any time. The script's result is free and may take any time.
The action's Stop(true) may hang, once the program is `stuck`, and so may its Start(true),
after a Stop of another client (`ActStopHangs`, `ActStartHangs`); polls go on
while the program starts, runs or is `stuck`. `due` abstracts `nextCheckTime`. `streak` and `outdated` count failures for the properties.

### ProgramLog

The log of a program (`NullLocker`, a child per attempt) or of supervisord (`Mutex`, a
writer that never ends). A byte is its number in the
order of output, so that files can be compared with what was written. `Found` gives the files
that are there at the start, of any size. `Write` is five
steps (write, event, count, backup, reopen), because reads, clears and closes may come
between under a `NullLocker`. Each attempt opens the log anew (`RunRetries`) and has a
`waiter` and a `closer`, but these close the logger the program has when they get to it, as
the code does; `intruded` records that one of an earlier attempt closed the current
logger. A descendant may keep the pipe (`piped`), and then the copying does not end. An attempt
whose command cannot be started has no writer and is left out. `CompositeLogger`'s lock is held at those points, and
`p.lock` at `setPid` and `closing`. `ReadLog` is an operator over int64 arithmetic (`Wrap`).

Left out: the inode behind a handle (a clear between backup and reopen of a program's
log makes two goroutines write to two files; the properties stop at such a clear),
`ClearCurLogFile`, which nothing calls, disk errors, and the other kinds of logger.

### EventListener

One listener pool. Every start of the listener program registers a new instance
with its own queue and pump, and the instance of the dead program stays in the
maps (`run()` never unregisters). `Emit`, `Encode` and `Enqueue` are the steps of
`EmitEvent` between which others may run: the lookup, the pool serial taken
before the queue's lock, and the critical section. Because the maps are not
locked, a loop over a map may or may not see an instance that is added or
deleted meanwhile, or the runtime aborts (`MapRaceCrashes`). `Dies` is the end of
the program's pipes, which `cmd.Wait` closes. The encoded event is its header's
serial and pool serial.

### ProcessSort

The sorter's two loops over maps are sets of unvisited keys from which any is
taken next. `AppendRest` takes any order of the remaining programs that respects
their priorities, because `sort.Sort` is not stable.

## Runs

| run | instance | distinct states | shows |
|---|---|---|---|
| ProcessRaces | event listener program, 2 clients, 2 attempts, startsecs > 0, autorestart unexpected | 912 k | the invariants and action properties of `Process`, RetriesAreExact among them, and that it implements `Program` |
| ProcessPause | program, 1 client with Signal, startsecs 0, restart pause, lost statuses, descendants | 664 k | DescendantsGoFirst |
| ProcessLive | 1 client, 2 attempts, fairness | 26 k | StartReturns, ExitIsNoticed, StopEndsChild, StopperEnds |
| Supervisor | 2 programs (one auto-started), 1 listener, 2 files, 3 process objects, a client that starts and signals, one that stops and shuts down, a callback, a restart pause | 3420 k | ReloadConverges, RemovedIsStopped, ShutdownStopsAll |
| LivenessChecker | thresholds 1 and 2, the three kinds of failure action, 3 goroutines, hanging Stop(true) and Start(true), fairness | 1011 k | FailuresAreFresh, FailedIsActedOn, ActionNeedsFailures, KeepsActing |
| ProgramLog | both kinds of log, 2 attempts, descendants, a found file above the limit and one below with a full backup, 2 bytes per file, 2 backups, 6 bytes, int64 as 4 bits, fairness | 187 k | NewestDataKept, CurrentBounded, TailNeverRepeats, OutputAccepted, ReadsAreExact, LoggerCloses |
| EventEmitters | 2 emitters, 2 instances, buffer_size 1 | 1462 k | HeadIsInFlight, NoLostWakeup, SerialsDistinct, and QueuesAreFifo, which includes the bound |
| EventRestarts | 1 emitter, 2 instances, fairness | 62 k | EventsAreAcknowledged, StoppedPumpEnds |
| ProcessSort | 3 programs, 1 unknown name, all 4096 graphs, fairness | 53 k | order, completeness, termination |
| ProcessRetryAfterRunning, ProcessStalePid, ProgramLogDeadlock | small | | violations, see Findings |

Bounds. `MaxAttempts` bounds the commands of a behaviour: two attempts are what it
takes for a goroutine of one attempt to meet the next, and a run() is only entered
if all the attempts it may need are left, so no run() is cut short. Two clients
are enough for a Start against a Start and a Stop, and for two Stops; a client's
goroutines of an earlier call run on while it makes the next. `MaxEvents` = 3 or 4 with
`BufferSize` = 1 overflows a queue; two instances are one restart. `MaxProcesses` = 3
process objects are two programs and a listener, or a program that is removed and
comes back; reloads are not bounded otherwise. Three `Slots` are a check that runs while
two earlier ones are in their actions. Six bytes, three of them found, still fill every file of
two bytes and drop the oldest backup; a found backup is full (`FoundAssumption`), as one that a
rotation under the same limit left; one clear comes at any point of the first attempt, and no
log is both cleared and opened anew. `IntLimit` = 8 wraps where 2^63 would. One callback, of the
first object that is created (a program or the listener), restarts it before and after its removal.

What two attempts cannot show. That `retryTimes` is reset when run() is entered, and startretries 0,
need more attempts than ProcessRaces has: the theorem `RetriesCounted` covers both.

ProcessRaces takes an event listener program because a program would panic in many
of these interleavings (see hazards); what is skipped, the panic and the loggers,
is in the other runs.

Deadlock is not checked: a program that nobody starts, a panic and a sorter that
has returned are ends of the behaviour, and so are a log whose bytes are used up and
a supervisord that has exited.

Fairness. `Process`: Go runs every runnable goroutine and sleeps end, hence weak
fairness of every step that waits for nothing or polls; `sync.RWMutex` starves
neither readers nor writers, hence strong fairness of the steps that take
`p.lock`; a child that was sent SIGKILL ends, no other child has to; no client has
to call anything. `EventListener`: goroutines proceed; a listener program that
lives on follows the protocol, says READY, answers, and does not refuse every
time (strong fairness of `ResultOK`): this is an assumption about the listener
program, not about supervisord. `ProcessSort`: the sorter runs on. `ProgramLog`: goroutines proceed
and `sync.Mutex` and `sync.RWMutex` starve nobody; no child has to end, no client to
call. Nothing below depends on the closing goroutines, and no descendant has to let the pipe go: that
is a condition of `LoggerCloses`. `LivenessChecker`: the poller, the goroutines of checks and their
scripts proceed and time passes; nothing is assumed of the program. That checks go on and that
every Stop(true) and Start(true) of an action returns are conditions of `KeepsActing`. The
second is not the code's to promise: a program that ends between 1260 and 1266 leaves
Stop(true) spinning, and a Stop of another client before 769 leaves Start(true) unanswered. When
that happens the action never ends, Reset never comes, and no later check acts.
`Supervisor` is checked for safety only.

## Proofs

For every number of clients, attempts, processes, emitters, instances, events,
programs, files, thresholds, sizes and backups; the constants' assumptions are the `ASSUME`s of the modules.

- `ProcessProofs`. The properties are not inductive: that a live child is unique
  rests on who may be at which control point. `IInv` adds which threads exclude
  one another (one runner; the lock's holders), that attempts beyond `attempt` are
  untouched, that the state is one of Starting, Running, Stopping while the
  current child lives, that a monitor in its promote section belongs to the
  current attempt, and that `retryTimes` is bounded at every point of the loop.
  One lemma per group of threads shows each action keeps it. `StopIsHeeded` is
  proved under `RestartPause = 0`; with a pause `NoStartAfterStop` is false.
  `StartsAreAnswered` and `KillsWhatLives` are the safety halves of liveness
  properties. `RetriesCounted` needs `Counted`: inside run() `retryTimes` is the number of commands it has
  built, whatever earlier calls left in it. For `PipeHoldsBack` the proof shows that `waitForExit` still waits for a command
  whose pipe is held (`Held`), and `IInv` that nobody else stores a state in which the program does not run. For `OnlyStopSilencesStart` the proof
  follows the finishCb of a Start(true) from run() to the monitor of the first attempt
  whose command is started: each hands it on or calls it, except where run() leaves its loop for a
  Stop. `KillReachesChild` needs `OneStopper`: who is in Stop has no signalling goroutine left.
  `KeepsPromise` maps `CallStart` to `Start`, `CallStop` to `Stop`, `RunExec` to `Spawn`,
  `ChildExits` to `End`, `RunLeave` to `Leave`, a step that makes `Stuck` true to `Stick`, and shows that every other step is
  invisible; that `Spawn` is enabled then needs `IInv` once more, whose last part
  says that without a restart pause run() keeps the lock from its look at
  `stopByUser` until the command is started.
- `SupervisorProofs`. `IInv` says, for each phase of a reload, which programs have an
  entry and a process: those of `prev` and the file until `createPrograms` is done, those
  to be removed besides the file's in the last loop. It says of a shutdown that every
  program it has listed is still to be stopped, is being waited for, or has no child and
  gets none without a Start, or a restart pause, that `late` remembers (`Covered`); names never share a
  process (`Distinct`), so a listener's start is no program's. A callback's Start and Stop are those of a
  request (`StartStep`, `StopStep`), whether the manager knows the process or not. `Inductive` holds
  without the runs' bound on process objects. That `Processes` is large enough
  (`TypeCorrect`) rests on `Reserved`: the names that a reload has still to create fit
  into what is left, which the load's bound provides and each creation uses up by one.
- `LivenessCheckerProofs`. `IInv` says that `inChecking` admits one check between the
  start of its script and its end, that only a check whose script still runs may be older
  than the last Reset, and that the failure counter never exceeds the failures since the
  last success. `FailureIsActedOn` adds `StaleOrReset`: a check that began when the program was
  failed finds it failed or the counters reset, so with a threshold above 1 it is never
  the one whose failure makes it failed. Neither
  needs that an action's Stop(true) or Start(true) returns.
- `ProgramLogProofs`. `IInv` says that the bytes of the current file are in the order of
  output and newer, beyond a tailing client's offset, than all it has seen (`Ordered`); that
  `fileSize` is never less than the file (`Counted`); and who may still use or close
  the handle at which point (`Phases`, `Usable`): an attempt's waiter and closer act on a
  usable handle only after its last write, and those of earlier attempts, which may act at any
  time, leave `intruded`. `CurrentBounded` starts from files of any size: one that
  is found beyond the limit is rotated by the first write. `ReadsExact` rests on `ReadExact`, about
  `ReadLog` for every size, offset and length, with 64-bit addition (`WrapIsExact`).
  `KeepsNewest` joins the current file and any number of backups. Its invariant `KInv` is local:
  each file is a run of consecutive bytes, each backup ends where the next newer one
  begins, a rotated file is full, and only a file that holds the oldest output has no older
  backup. That such neighbours join to one gapless run is an induction over the
  backups (`Induction`).
- `EventListenerProofs`. `IInv` adds that an emitter past the lookup carries an
  event and one past `encodeEvent` a header. `ImplementsFifo` shows that
  `Enqueue` is `Accept`, `ResultOK` is `Complete`, and everything else stutters.
  `NoSerialTwice` needs `SInv`: a pool serial is owned by the one emitter that carries it or
  the one queue it was put into, whatever came first (`Owned`); an instance that an emitter
  has still to visit was not given its event (`Spent`); instances are registered once.
- `ProcessSortProofs`. `IInv` relates the finished set to the order and the
  unvisited keys to the map, and says that passes end only when every name is
  placed (by cardinality of finite sets). `CycleMeansNoOrder` takes the first
  position held by a program of the cycle: its dependency in the cycle would be earlier.
  `SortedOnceAfterDependencies` is about the result: `Configured` keeps of the sorted names those
  that are configured, in their order and each once (an induction over the names,
  `ConfiguredKeeps`), and the rest is appended once. `SortNeverStuck` is the safety half of
  `SortEnds`: without a cycle, as long as a program is missing, some missing one depends on placed
  ones only.

`Induction` proves, from the library's well-foundedness of the natural numbers, that a set
with 0 and each successor contains every number up to n, and that functions defined by
recursion on 0..n exist; the proofs name sets, because the prover cannot instantiate the
library's induction theorems with a predicate.

All invariants and safety properties of the passing runs are proved; `NoStartAfterStop` and
`KillReachesChild` are stated by a theorem and by no run. Only model-checked: the
liveness properties (fairness and ENABLED are outside the prover), that is `StartReturns`,
`ExitIsNoticed`, `StopEndsChild`, `StopperEnds`, `EventsAreAcknowledged`, `StoppedPumpEnds`,
`SortEnds`, `LoggerCloses` and `KeepsActing`. Of some the safety core is proved: `DescendantsGoFirst`,
`OnlyStopSilencesStart`, `KillReachesChild`, `NoLostWakeup`, `SortNeverStuck`, `FailedIsActedOn`.

## Findings

Each is a run TLC refutes; `PROJECT.json` quotes the line it contradicts.

1. A program that reached Running and exited is retried in the same run(), because
   waitForExit stores Stopped before run() looks at the state.
2. Stop's test and store of the state are not one step: a program that ends in
   between stays Stopping, with the pid of a dead process.
3. With log events enabled, run() (`p.lock`, then the log's lock in `SetPid`) and the
   writer of the log (the log's lock, then `p.lock` in `GetPid`) can wait for each other for
   ever, and the logger of a program without descendants is then not closed when it exits.

## Known limits of the code

Seen while modelling; the properties are stated around them and the hazards say where.

- A Stop during the restart pause does not keep run() from starting the program
  (`process.go:776`): `Program` allows it when there is a pause.
- Start(true) is never answered if another client's Stop comes before run()'s loop
  (`process.go:769`): `StartReturns` is checked with one client, and
  `OnlyStopSilencesStart` says that nothing else leaves a Start unanswered.
- Goroutines of an old attempt close the loggers p has by then, those of the next
  attempt (`process.go:706`, `822`); `OutputAccepted` has that one exception (`intruded`).
- The logger-closing goroutine waits for a state that only waitForExit stores
  (`process.go:817`), so it cannot end the copying that waitForExit waits for. The comment at
  809-811 has a descendant that keeps the descriptor in mind; with one, neither the
  loggers are closed nor the program's end is noticed until the descendant goes
  (`DescendantsGoFirst`).
- The comment at `process.go:894-896` does not count the first start as a retry; the code does
  (780, 895): a program that keeps failing is started `startretries` times in all, and once with 0 or 1
  (`RetriesAreExact` states what the code does).
- Cron schedules, file monitors and liveness restarts keep the process object and act on it after a
  reload has removed the program, and after a shutdown has stopped it (`process.go:273-285`,
  `656-657`, `683-684`, `299-300`). `RemovedIsStopped` and `ShutdownStopsAll` except what they start.
- A reload that finds a resource limit too low ends supervisord with every program
  running (`supervisor.go:469-472`).
- During a restart pause Stop returns at once, and the program that run() then starts
  outlives a shutdown that has counted it as stopped.
- A program left at Stopping (finding 2) keeps Stop(true) waiting (`process.go:1294-1298`): Shutdown never
  exits, and a failure action of the liveness checks never gets to its Reset.
  `KeepsActing` is promised unless an action hangs so, or in its Start(true).
- The events in the queue of a listener that died stay in its queue: the restarted listener
  has a new one (`events.go:238`).
- A liveness restart, and any Start soon after Stop(true), is refused while the
  goroutine of the last Start has not left (`process.go:318`): the program stays stopped.
- A success action that takes long can let a second goroutine start its failure
  action before the first has reset the counters (`process.go:205-213`).
- Reload starts auto-start programs a user has stopped; it never removes event
  listeners; an unreadable file counts as an empty one (`config.go:125`).
- A program removed and added again has two process objects, and the old one may still
  be stopping. Shutdown does not wait for it, nor for event listeners, nor for what is
  started after it has listed the programs.
- A client's clear of a program's log races the writer (`NullLocker`): the write meets
  a closed handle and the child's output is not read any more.
- With 0 backups a rotation still keeps `.1`, and a clear does not remove it (`log.go:221-226`):
  it stays, older than what was cleared (`ClearsRemoveAll` in `NewestDataKept`). Offset + length
  beyond int64 wraps (`log.go:289`).
- With a failure threshold of 1, a check that begins while the failure action runs and fails
  after its Reset makes the program failed although it found it failed: it does not
  act, no later check does, and the failure action is not taken again until a check
  succeeds (`process.go:191-217`). `FailedIsActedOn` holds for every greater threshold.

## Plan

Done: lifecycle, events, start order, logs, liveness checks, supervisor with process
manager and reload, the contract between them. What could follow:

1. Liveness of `Supervisor`: requests and shutdown end, which needs the fairness of
   `Process` stated for `Program`.
2. The composition of `Process` and `ProgramLog`: `ProgramLog` follows several attempts, but
   its run() is an outline of that of `Process`.
3. `ProcCommEventCapture` and the tick timer in `EventListener`'s neighbourhood.
4. Proofs of the safety cores that are left: without log events nobody waits for two locks
   (`LoggerCloses`), and a queued event is always on its way to some goroutine (`EventsAreAcknowledged`).

Not modelled: INI and expression parsing, command parsing, XML-RPC and REST
encoding, the `ctl` client, the content checker, pidproxy, daemon and limits, metrics,
file monitors' library, web assets: text processing and I/O without shared state of their own.
