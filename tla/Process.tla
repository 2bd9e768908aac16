------------------------------ MODULE Process ------------------------------
(***************************************************************************)
(* One supervised program: process/process.go.  Every goroutine that       *)
(* touches a Process value is a thread of the model:                       *)
(*                                                                         *)
(*   caller[c]   a goroutine calling Start, Stop or Signal (XML-RPC and    *)
(*               REST handlers, cron, liveness checks, file monitors);     *)
(*   runner[c]   the goroutine spawned by c's last effective Start, which  *)
(*               executes run() in a loop;                                 *)
(*   stopper[c]  the goroutine spawned by c's Stop, which sends signals;   *)
(*   monitor[a], waiter[a], closer[a]   the three goroutines run() spawns  *)
(*               for the a-th command it starts.                           *)
(*                                                                         *)
(* A thread is one control point.  p.state and p.stopByUser are atomics    *)
(* that are read, and p.state also written, without p.lock, so each access *)
(* that another thread could come between is a step of its own.  p.lock is *)
(* not a variable: it is held exactly by the threads whose control point   *)
(* is inside a critical section (WriteLocked, ReadLocked).                 *)
(***************************************************************************)
EXTENDS Naturals, FiniteSets

CONSTANTS
  IsProgram,     \* a [program:x] section, as opposed to an [eventlistener:x] one
  Clients,       \* goroutines that call Start, Stop and Signal
  NoClient,      \* "nobody waits for this start"
  Operations,    \* the operations the clients call
  StartRetries,  \* startretries
  StartSecs,     \* startsecs, only compared with 0
  RestartPause,  \* restartpause, only compared with 0
  AutoRestart,   \* autorestart
  Outcomes,      \* how a child may end
  Descendants,   \* may a descendant outlive the child and keep its output pipe?
  MaxAttempts    \* bound: commands started over a whole behaviour

ASSUME IsProgramAssumption == IsProgram \in BOOLEAN
ASSUME ClientsAssumption == NoClient \notin Clients
ASSUME OperationsAssumption == Operations \subseteq {"Start", "Stop", "Signal"}
ASSUME StartRetriesAssumption == StartRetries \in Nat
ASSUME StartSecsAssumption == StartSecs \in Nat
ASSUME RestartPauseAssumption == RestartPause \in Nat
ASSUME AutoRestartAssumption == AutoRestart \in {"true", "false", "unexpected"}
ASSUME OutcomesAssumption == Outcomes \subseteq {"expected", "unexpected", "lost"}
ASSUME DescendantsAssumption == Descendants \in BOOLEAN
ASSUME MaxAttemptsAssumption == MaxAttempts \in Nat

VARIABLES
  state,          \* p.state
  inStart,        \* p.inStart
  stopByUser,     \* p.stopByUser
  retryTimes,     \* p.retryTimes
  entered,        \* ghost: the attempts made before the current run() was entered
  cmd,            \* p.cmd: "nil", "new" (p.cmd.Process is nil) or "started"
  attempt,        \* number of the last command built, the one p.cmd and the logs belong to
  panicked,       \* supervisord died on a nil p.cmd or p.cmd.Process
  caller, runner, stopper,
  child,          \* child[a]: "none", "alive", or how it ended
  killed,         \* attempts whose child was sent SIGKILL
  piped,          \* attempts whose output pipe a descendant may keep open
  monitor,        \* control point of monitorProgramIsRunning
  programExited,  \* attempts whose programExited flag run() has set
  notify,         \* notify[a]: the client the monitor's finishCb wakes
  waiter,         \* control point of waitForExit
  closer,         \* control point of the goroutine that closes the loggers
  logClosed       \* attempts whose loggers have been closed

flagVars   == <<inStart, stopByUser, retryTimes, entered>>
cmdVars    == <<cmd, attempt>>
threadVars == <<caller, runner, stopper>>
osVars     == <<child, killed, piped>>
monVars    == <<monitor, programExited, notify>>
exitVars   == <<waiter, closer, logClosed>>
vars == <<state, flagVars, cmdVars, panicked, threadVars, osVars, monVars, exitVars>>

Attempts == 1..MaxAttempts
States == {"Stopped", "Starting", "Running", "Backoff", "Stopping", "Exited", "Fatal"}
Exits == {"expected", "unexpected", "lost"}

\* The control points of run() at which its goroutine holds p.lock.
RunnerHolds == {"loop", "starting", "create", "exec", "started", "finished", "backoff", "giveup"}

RunnerPoints  == RunnerHolds \cup {"idle", "run", "pause", "watch", "join", "after", "leave"}
CallerPoints  == {"idle", "startWait", "stopCheck", "stopMark", "stopWait", "signal"}
StopperPoints == {"idle", "term", "termSent", "check", "kill", "killSent"}
MonitorPoints == {"none", "timing", "exited", "promote", "answer", "running", "failed"}
WaiterPoints  == {"none", "waiting", "stored", "done"}
CloserPoints  == {"none", "polling", "closing", "done"}

\* The commands one call of run() may start: startretries, but always one.
MaxRetries == IF StartRetries = 0 THEN 1 ELSE StartRetries

-----------------------------------------------------------------------------
\* p.lock, a sync.RWMutex.

WriteLocked == \/ \E c \in Clients : runner[c] \in RunnerHolds
               \/ \E a \in Attempts : monitor[a] = "promote"
ReadLocked == \E c \in Clients : \/ stopper[c] \in {"termSent", "killSent"}
                                 \/ caller[c] = "signal"

LockFree_IgnoresReaders == ~WriteLocked
LockFree == ~WriteLocked /\ ~ReadLocked
RLockFree == ~WriteLocked

\* IsRunning: what every lock-free reader takes for "there is a process".
IsRunning_NotStopping == state \in {"Starting", "Running"}
IsRunning_NotStarting == state \in {"Running", "Stopping"}
IsRunning == state \in {"Starting", "Running", "Stopping"}

\* isAutoRestart: "lost" is an exit status the zombie reaper collected first,
\* for which p.cmd.ProcessState stays nil.
isAutoRestart ==
  \/ AutoRestart = "true"
  \/ AutoRestart = "unexpected" /\ cmd = "started" /\ child[attempt] = "unexpected"

\* finishCb: wake client c if it waits in Start, whatever monitor it was left to.
Wake_Lost(c) == UNCHANGED <<caller, notify>>
Wake(c) ==
  /\ caller' = IF c \in Clients /\ caller[c] = "startWait"
               THEN [caller EXCEPT ![c] = "idle"] ELSE caller
  /\ notify' = [a \in Attempts |-> IF notify[a] = c THEN NoClient ELSE notify[a]]

\* Bound: a run() is entered only if the attempts it may need are left.
Budget == attempt + MaxRetries <= MaxAttempts

-----------------------------------------------------------------------------
\* NewProcess: nothing has been started.

Init ==
  /\ state = "Stopped" /\ inStart = FALSE /\ stopByUser = FALSE /\ retryTimes = 0 /\ entered = 0
  /\ cmd = "nil" /\ attempt = 0 /\ panicked = FALSE
  /\ caller = [c \in Clients |-> "idle"]
  /\ runner = [c \in Clients |-> "idle"]
  /\ stopper = [c \in Clients |-> "idle"]
  /\ child = [a \in Attempts |-> "none"] /\ killed = {} /\ piped = {}
  /\ monitor = [a \in Attempts |-> "none"] /\ programExited = {}
  /\ notify = [a \in Attempts |-> NoClient]
  /\ waiter = [a \in Attempts |-> "none"]
  /\ closer = [a \in Attempts |-> "none"] /\ logClosed = {}

-----------------------------------------------------------------------------
\* Clients.

\* A caller's own control point.
CallerAt(c, from, to) == caller[c] = from /\ caller' = [caller EXCEPT ![c] = to]

\* Start refuses while an earlier Start's goroutine is still there.
AlreadyStarted_Never == FALSE
AlreadyStarted == inStart

\* Start(wait).  The refused call changes nothing and is not a step.
CallStart(c, wait) ==
  /\ "Start" \in Operations /\ Budget
  /\ LockFree /\ ~AlreadyStarted
  /\ CallerAt(c, "idle", IF wait THEN "startWait" ELSE "idle")
  /\ inStart' = TRUE /\ stopByUser' = FALSE
  /\ runner' = [runner EXCEPT ![c] = "run"]
  /\ UNCHANGED <<state, retryTimes, entered, cmdVars, panicked, stopper, osVars, monVars, exitVars>>

\* Stop: the critical section.  Bound: c's previous stopper has ended.
CallStop(c) ==
  /\ "Stop" \in Operations /\ stopper[c] = "idle"
  /\ LockFree
  /\ CallerAt(c, "idle", "stopCheck")
  /\ stopByUser' = TRUE
  /\ UNCHANGED <<state, inStart, retryTimes, entered, cmdVars, panicked, runner, stopper, osVars, monVars, exitVars>>

\* Stop: the lock-free look at the state after the unlock.
StopCheck(c) ==
  /\ CallerAt(c, "stopCheck", IF IsRunning THEN "stopMark" ELSE "idle")
  /\ UNCHANGED <<state, flagVars, cmdVars, panicked, runner, stopper, osVars, monVars, exitVars>>

\* Stop: changeStateTo(Stopping), which reads p.cmd.Process.Pid for the event
\* that only a program emits; the pre-stop hook; the goroutine that signals; the wait, if it was asked for.
StopMark(c, wait) ==
  /\ CallerAt(c, "stopMark", IF wait THEN "stopWait" ELSE "idle")
  /\ IsProgram => cmd = "started"
  /\ state' = "Stopping"
  /\ stopper' = [stopper EXCEPT ![c] = "term"]
  /\ UNCHANGED <<flagVars, cmdVars, panicked, runner, osVars, monVars, exitVars>>

StopMarkPanics(c) ==
  /\ caller[c] = "stopMark"
  /\ IsProgram /\ cmd # "started"
  /\ panicked' = TRUE
  /\ UNCHANGED <<state, flagVars, cmdVars, threadVars, osVars, monVars, exitVars>>

StopWaitEnds(c) ==
  /\ CallerAt(c, "stopWait", "idle")
  /\ ~IsRunning
  /\ UNCHANGED <<state, flagVars, cmdVars, panicked, runner, stopper, osVars, monVars, exitVars>>

\* Signal(sig): the read lock is kept until a SIGCHLD or the timeout ends Kill.
CallSignal(c) ==
  /\ "Signal" \in Operations
  /\ RLockFree /\ cmd = "started"
  /\ CallerAt(c, "idle", "signal")
  /\ UNCHANGED <<state, flagVars, cmdVars, panicked, runner, stopper, osVars, monVars, exitVars>>

SignalReturns(c) ==
  /\ CallerAt(c, "signal", "idle")
  /\ UNCHANGED <<state, flagVars, cmdVars, panicked, runner, stopper, osVars, monVars, exitVars>>

Client(c) ==
  \/ \E wait \in BOOLEAN : CallStart(c, wait) \/ StopMark(c, wait)
  \/ CallStop(c) \/ StopCheck(c) \/ StopMarkPanics(c) \/ StopWaitEnds(c)
  \/ CallSignal(c) \/ SignalReturns(c)

-----------------------------------------------------------------------------
\* The goroutine of Stop: sendSignals(stopsignal), then sendSignals(KILL) if
\* the state still says there is a process.

StopperAt(c, from, to) == stopper[c] = from /\ stopper' = [stopper EXCEPT ![c] = to]

\* sendSignals passes p.cmd.Process to Kill, which reads its Pid.
SendTerm(c) ==
  /\ RLockFree /\ cmd = "started"
  /\ StopperAt(c, "term", "termSent")
  /\ UNCHANGED <<state, flagVars, cmdVars, panicked, caller, runner, osVars, monVars, exitVars>>

SendPanics(c) ==
  /\ stopper[c] \in {"term", "kill"}
  /\ RLockFree /\ cmd # "started"
  /\ panicked' = TRUE
  /\ UNCHANGED <<state, flagVars, cmdVars, threadVars, osVars, monVars, exitVars>>

\* Kill returns on any SIGCHLD of the supervisor or after stopwaitsecs.
TermReturns_NoTimeout(c) ==
  /\ StopperAt(c, "termSent", "check")
  /\ child[attempt] \in Exits
  /\ UNCHANGED <<state, flagVars, cmdVars, panicked, caller, runner, osVars, monVars, exitVars>>
TermReturns(c) ==
  /\ StopperAt(c, "termSent", "check")
  /\ UNCHANGED <<state, flagVars, cmdVars, panicked, caller, runner, osVars, monVars, exitVars>>

CheckStopped_NeverKills(c) ==
  /\ StopperAt(c, "check", "idle")
  /\ UNCHANGED <<state, flagVars, cmdVars, panicked, caller, runner, osVars, monVars, exitVars>>
CheckStopped(c) ==
  /\ StopperAt(c, "check", IF IsRunning THEN "kill" ELSE "idle")
  /\ UNCHANGED <<state, flagVars, cmdVars, panicked, caller, runner, osVars, monVars, exitVars>>

SendKill(c) ==
  /\ RLockFree /\ cmd = "started"
  /\ StopperAt(c, "kill", "killSent")
  /\ killed' = IF child[attempt] = "alive" THEN killed \cup {attempt} ELSE killed
  /\ UNCHANGED <<state, flagVars, cmdVars, panicked, caller, runner, child, piped, monVars, exitVars>>

KillReturns(c) ==
  /\ StopperAt(c, "killSent", "idle")
  /\ UNCHANGED <<state, flagVars, cmdVars, panicked, caller, runner, osVars, monVars, exitVars>>

Stopper(c) ==
  SendTerm(c) \/ SendPanics(c) \/ TermReturns(c) \/ CheckStopped(c) \/ SendKill(c) \/ KillReturns(c)

-----------------------------------------------------------------------------
\* The goroutine of Start: run(), then again while the program is to be
\* restarted.

RunnerAt(r, from, to) == runner[r] = from /\ runner' = [runner EXCEPT ![r] = to]

\* run: take the lock; leave at once if the state says there is a process.
RunRefused(r) ==
  /\ LockFree /\ IsRunning
  /\ RunnerAt(r, "run", "after")
  /\ Wake(r)
  /\ UNCHANGED <<state, flagVars, cmdVars, panicked, stopper, osVars, monitor, programExited, exitVars>>

RunEnter(r) ==
  /\ LockFree /\ ~IsRunning
  /\ RunnerAt(r, "run", "loop")
  /\ retryTimes' = 0 /\ entered' = attempt
  /\ UNCHANGED <<state, inStart, stopByUser, cmdVars, panicked, caller, stopper, osVars, monVars, exitVars>>

\* for !p.stopByUser.Load(): leaving here calls no finishCb.
StopRequested == stopByUser

RunLoop(r) ==
  /\ RunnerAt(r, "loop", IF StopRequested THEN "after"
                         ELSE IF RestartPause > 0 /\ retryTimes # 0 THEN "pause"
                         ELSE "starting")
  /\ UNCHANGED <<state, flagVars, cmdVars, panicked, caller, stopper, osVars, monVars, exitVars>>

\* The restart pause runs without the lock.
RunPauseEnds(r) ==
  /\ LockFree
  /\ RunnerAt(r, "pause", "starting")
  /\ UNCHANGED <<state, flagVars, cmdVars, panicked, caller, stopper, osVars, monVars, exitVars>>

RunStarting(r) ==
  /\ RunnerAt(r, "starting", "create")
  /\ state' = "Starting" /\ retryTimes' = retryTimes + 1
  /\ UNCHANGED <<inStart, stopByUser, entered, cmdVars, panicked, caller, stopper, osVars, monVars, exitVars>>

\* createProgramCommand replaces p.cmd and, in setLog, the loggers.
RunCreate(r) ==
  /\ RunnerAt(r, "create", "exec")
  /\ attempt' = attempt + 1 /\ cmd' = "new"
  /\ UNCHANGED <<state, flagVars, panicked, caller, stopper, osVars, monVars, exitVars>>

\* It fails before, while or after it assigns p.cmd (parse, empty command, user).
RunCreateFails(r) ==
  /\ RunnerAt(r, "create", "after")
  /\ cmd' \in {cmd, "nil", "new"}
  /\ state' = "Fatal" /\ Wake(r)
  /\ UNCHANGED <<flagVars, attempt, panicked, stopper, osVars, monitor, programExited, exitVars>>

\* The pre-start hook and p.cmd.Start; the logger-closing goroutine, which has
\* no effect for an event listener: it has no loggers.
RunExec(r) ==
  /\ RunnerAt(r, "exec", "started")
  /\ cmd' = "started"
  /\ child' = [child EXCEPT ![attempt] = "alive"]
  /\ piped' \in {piped} \cup (IF Descendants THEN {piped \cup {attempt}} ELSE {})
  /\ closer' = [closer EXCEPT ![attempt] = IF IsProgram THEN "polling" ELSE "none"]
  /\ UNCHANGED <<state, flagVars, attempt, panicked, caller, stopper, killed, monVars, waiter, logClosed>>

RetriesExhausted_OneFewer == retryTimes + 1 >= StartRetries
RetriesExhausted_Never == FALSE
RetriesExhausted == retryTimes >= StartRetries

RunExecFails(r) ==
  /\ ~RetriesExhausted
  /\ RunnerAt(r, "exec", "loop")
  /\ state' = "Backoff"
  /\ UNCHANGED <<flagVars, cmdVars, panicked, caller, stopper, osVars, monVars, exitVars>>

RunExecGivesUp(r) ==
  /\ RetriesExhausted
  /\ RunnerAt(r, "exec", "after")
  /\ state' = "Fatal" /\ Wake(r)
  /\ UNCHANGED <<flagVars, cmdVars, panicked, stopper, osVars, monitor, programExited, exitVars>>

\* run() hands the finishCb it still has to another goroutine of this attempt.
HandsOver(r, point) ==
  /\ monitor' = [monitor EXCEPT ![attempt] = point]
  /\ notify' = [notify EXCEPT ![attempt] = IF caller[r] = "startWait" THEN r ELSE NoClient]

\* startsecs <= 0: Running at once, and a goroutine that calls the finishCb.  Then
\* unlock and spawn waitForExit.
RunStartedAtOnce(r) ==
  /\ StartSecs = 0
  /\ RunnerAt(r, "started", "watch")
  /\ state' = "Running" /\ HandsOver(r, "answer")
  /\ waiter' = [waiter EXCEPT ![attempt] = "waiting"]
  /\ UNCHANGED <<flagVars, cmdVars, panicked, caller, stopper, osVars, programExited, closer, logClosed>>

\* Otherwise monitorProgramIsRunning is spawned, and takes over the finishCb.
RunMonitored(r) ==
  /\ StartSecs > 0
  /\ RunnerAt(r, "started", "watch")
  /\ HandsOver(r, "timing")
  /\ waiter' = [waiter EXCEPT ![attempt] = "waiting"]
  /\ UNCHANGED <<state, flagVars, cmdVars, panicked, caller, stopper, osVars, programExited, closer, logClosed>>

\* LOOP: until waitForExit has returned or the state says there is no process.
RunWatch(r) ==
  /\ RunnerAt(r, "watch", "join")
  /\ waiter[attempt] = "done" \/ ~IsRunning
  /\ programExited' = programExited \cup {attempt}
  /\ UNCHANGED <<state, flagVars, cmdVars, panicked, caller, stopper, osVars, monitor, notify, exitVars>>

\* Wait for monitorExited, take the lock and load the state once.
RunJoin(r) ==
  /\ runner[r] = "join" /\ monitor[attempt] # "timing"
  /\ LockFree
  /\ RunnerAt(r, "join", IF state \in {"Running", "Stopping"} THEN "finished" ELSE "backoff")
  /\ UNCHANGED <<state, flagVars, cmdVars, panicked, caller, stopper, osVars, monVars, exitVars>>

RunFinished(r) ==
  /\ RunnerAt(r, "finished", "after")
  /\ state' = IF stopByUser THEN "Stopped" ELSE "Exited"
  /\ UNCHANGED <<flagVars, cmdVars, panicked, caller, stopper, osVars, monVars, exitVars>>

RunBackoff(r) ==
  /\ RunnerAt(r, "backoff", IF RetriesExhausted THEN "giveup" ELSE "loop")
  /\ state' = "Backoff"
  /\ UNCHANGED <<flagVars, cmdVars, panicked, caller, stopper, osVars, monVars, exitVars>>

\* failToStartProgram after the last retry.
RunGiveUp(r) ==
  /\ RunnerAt(r, "giveup", "after")
  /\ state' = "Fatal" /\ Wake(r)
  /\ UNCHANGED <<flagVars, cmdVars, panicked, stopper, osVars, monitor, programExited, exitVars>>

\* After run() has returned: restart, unless stopped by the user.
RestartWanted == ~stopByUser /\ isAutoRestart

RunAgain(r) ==
  /\ RestartWanted /\ Budget
  /\ RunnerAt(r, "after", "run")
  /\ UNCHANGED <<state, flagVars, cmdVars, panicked, caller, stopper, osVars, monVars, exitVars>>

RunNoMore(r) ==
  /\ ~RestartWanted
  /\ RunnerAt(r, "after", "leave")
  /\ UNCHANGED <<state, flagVars, cmdVars, panicked, caller, stopper, osVars, monVars, exitVars>>

RunLeave(r) ==
  /\ LockFree
  /\ RunnerAt(r, "leave", "idle")
  /\ inStart' = FALSE
  /\ UNCHANGED <<state, stopByUser, retryTimes, entered, cmdVars, panicked, caller, stopper, osVars, monVars, exitVars>>

Runner(r) ==
  \/ RunRefused(r) \/ RunEnter(r) \/ RunLoop(r) \/ RunPauseEnds(r) \/ RunStarting(r)
  \/ RunCreate(r) \/ RunCreateFails(r) \/ RunExec(r) \/ RunExecFails(r) \/ RunExecGivesUp(r)
  \/ RunStartedAtOnce(r) \/ RunMonitored(r) \/ RunWatch(r) \/ RunJoin(r) \/ RunFinished(r)
  \/ RunBackoff(r) \/ RunGiveUp(r) \/ RunAgain(r) \/ RunNoMore(r) \/ RunLeave(r)

-----------------------------------------------------------------------------
\* The goroutines of one attempt.

MonitorAt(a, from, to) == monitor[a] = from /\ monitor' = [monitor EXCEPT ![a] = to]

\* startsecs have passed, or run() has set programExited: store monitorExited.
MonitorExits(a) ==
  /\ MonitorAt(a, "timing", "exited")
  /\ UNCHANGED <<state, flagVars, cmdVars, panicked, threadVars, osVars, programExited, notify, exitVars>>

\* Under the lock: the program has not exited and the state is still Starting.
StillStarting_StateOnly(a) == state = "Starting"
StillStarting(a) == a \notin programExited /\ state = "Starting"

MonitorLock(a) ==
  /\ LockFree /\ StillStarting(a)
  /\ MonitorAt(a, "exited", "promote")
  /\ UNCHANGED <<state, flagVars, cmdVars, panicked, threadVars, osVars, programExited, notify, exitVars>>

MonitorGivesUp(a) ==
  /\ LockFree /\ ~StillStarting(a)
  /\ MonitorAt(a, "exited", "failed")
  /\ Wake(notify[a])
  /\ UNCHANGED <<state, flagVars, cmdVars, panicked, runner, stopper, osVars, programExited, exitVars>>

\* changeStateTo(Running): waitForExit may have stored Stopped meanwhile.
MonitorPromotes(a) ==
  /\ MonitorAt(a, "promote", "running")
  /\ state' = "Running"
  /\ Wake(notify[a])
  /\ UNCHANGED <<flagVars, cmdVars, panicked, runner, stopper, osVars, programExited, exitVars>>

\* The goroutine of a command that was Running at once.
MonitorAnswers(a) ==
  /\ MonitorAt(a, "answer", "running")
  /\ Wake(notify[a])
  /\ UNCHANGED <<state, flagVars, cmdVars, panicked, runner, stopper, osVars, programExited, exitVars>>

\* waitForExit: p.cmd.Wait returns when the child has ended and its output
\* pipe is closed; the state is stored without the lock.
WaiterStores(a) ==
  /\ waiter[a] = "waiting" /\ child[a] \in Exits /\ a \notin piped
  /\ waiter' = [waiter EXCEPT ![a] = "stored"]
  /\ state' = "Stopped"
  /\ UNCHANGED <<flagVars, cmdVars, panicked, threadVars, osVars, monVars, closer, logClosed>>

\* waitForExit: with the lock, close what are now the loggers; procExitC.
WaiterCloses_ChannelLeftOpen(a) ==
  /\ waiter[a] = "stored" /\ LockFree
  /\ logClosed' = logClosed \cup {attempt}
  /\ UNCHANGED <<state, flagVars, cmdVars, panicked, threadVars, osVars, monVars, waiter, closer>>
WaiterCloses(a) ==
  /\ waiter[a] = "stored" /\ LockFree
  /\ waiter' = [waiter EXCEPT ![a] = "done"]
  /\ logClosed' = IF IsProgram THEN logClosed \cup {attempt} ELSE logClosed
  /\ UNCHANGED <<state, flagVars, cmdVars, panicked, threadVars, osVars, monVars, closer>>

\* The logger-closing goroutine: poll IsRunning, then close what are now the loggers.
CloserSees(a) ==
  /\ closer[a] = "polling" /\ ~IsRunning
  /\ closer' = [closer EXCEPT ![a] = "closing"]
  /\ UNCHANGED <<state, flagVars, cmdVars, panicked, threadVars, osVars, monVars, waiter, logClosed>>

CloserCloses(a) ==
  /\ closer[a] = "closing"
  /\ closer' = [closer EXCEPT ![a] = "done"]
  /\ logClosed' = logClosed \cup {attempt}
  /\ UNCHANGED <<state, flagVars, cmdVars, panicked, threadVars, osVars, monVars, waiter>>

Monitor(a) ==
  MonitorExits(a) \/ MonitorLock(a) \/ MonitorGivesUp(a) \/ MonitorPromotes(a) \/ MonitorAnswers(a)
Waiter(a) == WaiterStores(a) \/ WaiterCloses(a)
Closer(a) == CloserSees(a) \/ CloserCloses(a)

-----------------------------------------------------------------------------
\* The operating system: a child may end at any time, a descendant that kept
\* the output pipe later than the child.

ChildExits(a) ==
  /\ child[a] = "alive"
  /\ \E o \in Outcomes : child' = [child EXCEPT ![a] = o]
  /\ UNCHANGED <<state, flagVars, cmdVars, panicked, threadVars, killed, piped, monVars, exitVars>>

PipeCloses(a) ==
  /\ a \in piped /\ child[a] \in Exits
  /\ piped' = piped \ {a}
  /\ UNCHANGED <<state, flagVars, cmdVars, panicked, threadVars, child, killed, monVars, exitVars>>

Attempt(a) == Monitor(a) \/ Waiter(a) \/ Closer(a) \/ ChildExits(a) \/ PipeCloses(a)

Next ==
  /\ ~panicked
  /\ \/ \E c \in Clients : Client(c) \/ Stopper(c) \/ Runner(c)
     \/ \E a \in Attempts : Attempt(a)

Spec == Init /\ [][Next]_vars

-----------------------------------------------------------------------------
(* Fairness.  Go runs every runnable goroutine, sleeps and Kill's timeouts   *)
(* end: weak fairness for every step that waits for nothing, or for a        *)
(* condition it polls.  sync.RWMutex starves nobody: strong fairness for the *)
(* steps that take p.lock.  SIGKILL ends a child; nothing else has to, and   *)
(* no client has to call anything.                                           *)

RunTakesLock(c) == RunRefused(c) \/ RunEnter(c) \/ RunPauseEnds(c) \/ RunJoin(c) \/ RunLeave(c)

SendsSignal(c) == SendTerm(c) \/ SendPanics(c) \/ SendKill(c)

Proceeds(c) ==
  \/ RunLoop(c) \/ RunStarting(c) \/ RunCreate(c) \/ RunCreateFails(c)
  \/ RunExec(c) \/ RunExecFails(c) \/ RunExecGivesUp(c) \/ RunStartedAtOnce(c) \/ RunMonitored(c)
  \/ RunWatch(c) \/ RunFinished(c) \/ RunBackoff(c) \/ RunGiveUp(c) \/ RunAgain(c) \/ RunNoMore(c)

Returns(c) ==
  \/ StopCheck(c) \/ (\E wait \in BOOLEAN : StopMark(c, wait)) \/ StopMarkPanics(c)
  \/ StopWaitEnds(c) \/ SignalReturns(c)

KillCallReturns(c) == TermReturns(c) \/ CheckStopped(c) \/ KillReturns(c)

Fairness ==
  /\ \A c \in Clients :
       /\ SF_vars(~panicked /\ RunTakesLock(c))
       /\ SF_vars(~panicked /\ SendsSignal(c))
       /\ WF_vars(~panicked /\ Proceeds(c))
       /\ WF_vars(~panicked /\ Returns(c))
       /\ WF_vars(~panicked /\ KillCallReturns(c))
  /\ \A a \in Attempts :
       /\ SF_vars(~panicked /\ (MonitorLock(a) \/ MonitorGivesUp(a)))
       /\ SF_vars(~panicked /\ WaiterCloses(a))
       /\ WF_vars(~panicked /\ (MonitorExits(a) \/ MonitorPromotes(a) \/ MonitorAnswers(a)))
       /\ WF_vars(~panicked /\ WaiterStores(a))
       /\ WF_vars(~panicked /\ Closer(a))
       /\ WF_vars(~panicked /\ a \in killed /\ ChildExits(a))

FairSpec == Spec /\ Fairness

-----------------------------------------------------------------------------
(* Invariants.                                                               *)

TypeOK ==
  /\ state \in States
  /\ inStart \in BOOLEAN /\ stopByUser \in BOOLEAN /\ retryTimes \in Nat
  /\ entered \in 0..MaxAttempts
  /\ cmd \in {"nil", "new", "started"} /\ attempt \in 0..MaxAttempts /\ panicked \in BOOLEAN
  /\ caller \in [Clients -> CallerPoints]
  /\ runner \in [Clients -> RunnerPoints]
  /\ stopper \in [Clients -> StopperPoints]
  /\ child \in [Attempts -> {"none", "alive"} \cup Exits]
  /\ killed \subseteq Attempts /\ piped \subseteq Attempts
  /\ monitor \in [Attempts -> MonitorPoints] /\ programExited \subseteq Attempts
  /\ notify \in [Attempts -> Clients \cup {NoClient}]
  /\ waiter \in [Attempts -> WaiterPoints]
  /\ closer \in [Attempts -> CloserPoints] /\ logClosed \subseteq Attempts

Active(r) == runner[r] # "idle"

\* inStart keeps a second Start from running the program's start loop twice:
\* two clients never have a run() goroutine each.
AtMostOneRunner == \A r, s \in Clients : Active(r) /\ Active(s) => r = s

\* A program never has two live children: run() builds the next command only
\* when the last child has ended, however Stop, the monitor and waitForExit
\* rewrite the state in between.
AtMostOneChild == \A a, b \in Attempts : child[a] = "alive" /\ child[b] = "alive" => a = b

\* While the child lives IsRunning is true, so no Stop returns early and no
\* Start begins a second command, although waitForExit and Stop store the
\* state without the lock.
LiveChildIsReported ==
  (\E a \in Attempts : child[a] = "alive") => state \in {"Starting", "Running", "Stopping"}

\* A live child is never abandoned: run() has not left its LOOP and, once
\* run() has given up the lock, waitForExit is waiting for this very child.
LiveChildIsSupervised ==
  \A a \in Attempts : child[a] = "alive" =>
    \/ \E r \in Clients : runner[r] = "started" /\ attempt = a
    \/ \E r \in Clients : runner[r] = "watch" /\ attempt = a /\ waiter[a] = "waiting"

\* While a descendant of an ended command keeps its output pipe the program is
\* held back: waitForExit cannot store its end, so the state still says that it
\* runs, and no retry, restart or new Start builds another command beside it,
\* although Stop stores states and run() polls them without a lock.
DescendantsGoFirst ==
  \A a \in Attempts : a \in piped /\ child[a] \in Exits => attempt = a /\ IsRunning

-----------------------------------------------------------------------------
(* Action properties.                                                        *)

\* The monitor of an earlier attempt, late to take the lock, never promotes a
\* later attempt to Running.
MonitorPromotesItsOwn ==
  [][\A a \in Attempts : (monitor[a] = "promote" /\ monitor'[a] = "running") => a = attempt]_vars

\* One call of run() builds at most startretries commands, one if startretries is
\* 0, and it gives up only when it has built that many: whichever way they failed,
\* and whatever the calls before it left in retryTimes.  So the first start counts
\* as one of the startretries: the comment on the test, "first start time is not
\* the retry time", says otherwise.
RetriesAreExact ==
  [][/\ attempt' # attempt => attempt' - entered <= MaxRetries
     /\ \A r \in Clients :
          runner[r] \in {"exec", "giveup"} /\ runner'[r] = "after" => attempt - entered = MaxRetries]_vars

\* While a stop signal is being delivered p.cmd is not replaced: a signal is
\* never sent to a command other than the one whose pid was looked up.
CommandFixedWhileSignalling ==
  [][attempt' # attempt => \A c \in Clients : stopper[c] \notin {"termSent", "killSent"}]_vars

\* After Stop has set stopByUser, run() starts no command until the next Start.
NoStartAfterStop ==
  [][\A r \in Clients : (runner[r] = "starting" /\ runner'[r] = "create") => ~stopByUser]_vars

\* Somebody will call the finishCb of the Start that client c waits for: run(),
\* or the monitor of an attempt to which run() has handed it.
Answering == {"run", "loop", "pause", "starting", "create", "exec", "started", "giveup"}
Owing == {"timing", "exited", "promote", "answer"}
AnswerDue(c) ==
  \/ runner[c] \in Answering
  \/ \E a \in Attempts : notify[a] = c /\ monitor[a] \in Owing

\* A client in Start(true) is never forgotten, over retries, late monitors and the
\* other clients' calls, but in one place: run() leaves its loop for a Stop.
OnlyStopSilencesStart ==
  [][\A c \in Clients : caller'[c] = "startWait" /\ ~AnswerDue(c)' =>
       /\ caller[c] = "startWait"
       /\ AnswerDue(c) => runner[c] = "loop" /\ stopByUser]_vars

-----------------------------------------------------------------------------
(* What the callers of Start and Stop rely on.                               *)

\* The state says that there is a process, and no run() is left that could store
\* another one, or come to build a command: see NoPidWhenIdle.
Stuck == IsRunning /\ \A r \in Clients : runner[r] \in {"idle", "run", "after", "leave"}

Promise == INSTANCE Program WITH live <- (\E a \in Attempts : child[a] = "alive"), stuck <- Stuck

\* All the goroutines of process.go together behave as one program: a child is
\* only born inside a Start that took effect, never beside another one and never
\* after a Stop unless there is a restart pause, and the goroutine of Start never
\* leaves while there is a child.  A program whose state was left at Stopping is
\* never started again.
ImplementsProgram == Promise!Spec

-----------------------------------------------------------------------------
(* Liveness.                                                                 *)

\* Start(true) returns, when no other client's Stop comes between it and
\* run()'s loop: finishCb is not called then.
StartReturns == \A c \in Clients : caller[c] = "startWait" ~> (caller[c] # "startWait" \/ panicked)

\* The end of a child is noticed: waitForExit returns and run() leaves its LOOP.
ExitIsNoticed ==
  \A a \in Attempts : child[a] \in Exits ~> (panicked \/ (waiter[a] = "done" /\ a \in programExited))

\* Stop's signalling goroutine ends and the child it found alive is dead by
\* then or dies: TERM may be ignored and Kill may return early on a foreign
\* SIGCHLD, but the KILL that follows reaches the same child.
StopEndsChild ==
  \A c \in Clients, a \in Attempts :
    (stopper[c] = "term" /\ child[a] = "alive") ~> (child[a] # "alive" \/ panicked)

\* The signalling goroutine never waits for ever, although it needs p.lock.
StopperEnds == \A c \in Clients : stopper[c] # "idle" ~> (stopper[c] = "idle" \/ panicked)

-----------------------------------------------------------------------------
(* What comments and documents say, and the code does not do (see README).   *)

\* "we break the restartRetry loop if: 1. process still in running after
\* startSecs (although it's exited right now)": run() does not start another
\* command after one that reached Running.
NoRetryAfterRunning ==
  [][\A r \in Clients :
       (runner[r] = "create" /\ runner'[r] = "exec" /\ retryTimes > 1) => monitor[attempt] \notin {"answer", "running"}]_vars

\* "GetPid returns pid of running process or 0 it is not in running status":
\* once no goroutine runs or stops the program, GetPid answers 0.
NoPidWhenIdle ==
  (\A c \in Clients : runner[c] = "idle" /\ stopper[c] = "idle" /\ caller[c] # "stopMark") => ~IsRunning
=============================================================================
