--------------------------- MODULE ProcessProofs ---------------------------
(***************************************************************************)
(* Proofs about Process, for any number of clients, attempts, retries, and *)
(* every setting of the program's options.                                 *)
(***************************************************************************)
EXTENDS Process, TLAPS

-----------------------------------------------------------------------------
(* The inductive invariant: who may still write what, at each control point. *)

\* A run() goroutine lives only under inStart, and there is one at most.
Exclusive == AtMostOneRunner /\ \A r \in Clients : Active(r) => inStart

\* Nothing has happened yet to the attempts to come.
Fresh ==
  \A a \in Attempts : a > attempt =>
    /\ child[a] = "none" /\ waiter[a] = "none" /\ monitor[a] = "none" /\ closer[a] = "none"
    /\ a \notin programExited

\* The command p.cmd points to, where run() or a signal uses it.
Built ==
  /\ cmd = "started" => attempt \in Attempts
  /\ \A r \in Clients :
       /\ runner[r] \in {"exec", "started", "watch", "join"} => attempt \in Attempts
       /\ runner[r] = "exec" =>
            /\ child[attempt] = "none" /\ waiter[attempt] = "none" /\ monitor[attempt] = "none"
            /\ closer[attempt] = "none" /\ attempt \notin programExited
       /\ runner[r] = "started" => waiter[attempt] = "none" /\ monitor[attempt] = "none"
                                   /\ attempt \notin programExited

\* waitForExit, the only thread that stores a state that is not IsRunning
\* without the lock, waits for the last attempt only, and run() waits for it.
Waiting ==
  \A a \in Attempts : waiter[a] = "waiting" =>
    /\ a = attempt /\ IsRunning
    /\ \E r \in Clients : runner[r] = "watch"

\* From changeStateTo(Starting) until the child is handed to waitForExit the
\* state says there is a process.
StartingUp == \A r \in Clients : runner[r] \in {"create", "exec", "started"} => IsRunning

\* A monitor whose programExited flag is not set belongs to the last attempt;
\* so does one that has decided to promote.
Monitors ==
  \A a \in Attempts :
    /\ monitor[a] # "none" /\ a \notin programExited =>
         a = attempt /\ \E r \in Clients : runner[r] = "watch"
    /\ monitor[a] = "promote" => a = attempt /\ \E r \in Clients : runner[r] \in {"watch", "join"}

\* Attempts started in this call of run(), against retries and the bound.
Counting ==
  /\ retryTimes <= MaxRetries
  /\ \A r \in Clients :
       /\ runner[r] = "run" => attempt + MaxRetries <= MaxAttempts
       /\ runner[r] \in {"loop", "pause", "starting"} =>
            retryTimes < MaxRetries /\ attempt + MaxRetries <= MaxAttempts + retryTimes
       /\ runner[r] = "create" => attempt + MaxRetries + 1 <= MaxAttempts + retryTimes
       /\ runner[r] \in {"exec", "started", "watch", "join", "backoff"} =>
            attempt + MaxRetries <= MaxAttempts + retryTimes

\* A writer of p.lock excludes the readers.
Locking == \A r \in Clients : runner[r] \in RunnerHolds => ~ReadLocked

\* Without a restart pause run() keeps the lock from its look at stopByUser.
Heeding ==
  RestartPause = 0 =>
    \A r \in Clients : /\ runner[r] # "pause"
                       /\ runner[r] \in {"starting", "create", "exec"} => ~stopByUser

IInv ==
  /\ TypeOK /\ Exclusive /\ Fresh /\ Built /\ LiveChildIsSupervised /\ Waiting
  /\ StartingUp /\ Monitors /\ Counting /\ Locking /\ Heeding

USE StartRetriesAssumption, MaxAttemptsAssumption
    DEF Attempts, States, Exits, RunnerHolds, RunnerPoints, CallerPoints, StopperPoints,
        MonitorPoints, WaiterPoints, CloserPoints,
        flagVars, cmdVars, threadVars, osVars, monVars, exitVars,
        IsRunning, LockFree, RLockFree, WriteLocked, ReadLocked, MaxRetries

-----------------------------------------------------------------------------
(* Initially nothing runs.                                                   *)

\* The state NewProcess builds satisfies the inductive invariant.
LEMMA InitIInv == Init => IInv
  <1> SUFFICES ASSUME Init PROVE IInv
    OBVIOUS
  <1>1. TypeOK
    <2>1. /\ state \in States /\ retryTimes \in Nat /\ entered \in 0..MaxAttempts
          /\ cmd \in {"nil", "new", "started"} /\ attempt \in 0..MaxAttempts
      BY DEF Init
    <2>6. inStart \in BOOLEAN /\ stopByUser \in BOOLEAN /\ panicked \in BOOLEAN
      BY Zenon DEF Init
    <2>2. /\ caller \in [Clients -> CallerPoints] /\ runner \in [Clients -> RunnerPoints]
          /\ stopper \in [Clients -> StopperPoints]
      BY DEF Init
    <2>3. /\ child \in [Attempts -> {"none", "alive"} \cup Exits]
          /\ monitor \in [Attempts -> MonitorPoints]
          /\ notify \in [Attempts -> Clients \cup {NoClient}]
      BY DEF Init
    <2>4. waiter \in [Attempts -> WaiterPoints] /\ closer \in [Attempts -> CloserPoints]
      BY DEF Init
    <2>5. /\ killed \subseteq Attempts /\ piped \subseteq Attempts
          /\ programExited \subseteq Attempts /\ logClosed \subseteq Attempts
      BY DEF Init
    <2> QED  BY <2>1, <2>2, <2>3, <2>4, <2>5, <2>6 DEF TypeOK
  <1>2. Exclusive /\ LiveChildIsSupervised /\ Waiting /\ StartingUp
    BY DEF Init, Exclusive, AtMostOneRunner, Active, LiveChildIsSupervised, Waiting, StartingUp
  <1>3. Fresh /\ Built /\ Monitors  BY DEF Init, Fresh, Built, Monitors
  <1>4. Counting /\ Locking /\ Heeding  BY DEF Init, Counting, Locking, Heeding
  <1> QED  BY <1>1, <1>2, <1>3, <1>4 DEF IInv

-----------------------------------------------------------------------------
\* A step of a caller of Start, Stop or Signal keeps the invariant.
LEMMA ClientStep == ASSUME IInv, NEW c \in Clients, Client(c) PROVE IInv'
  <1> USE DEF CallerAt
  \* ~inStart: no other run() goroutine, hence no live child and no waiter.
  <1>1. ASSUME NEW wait \in BOOLEAN, CallStart(c, wait) PROVE IInv'
    <2> USE <1>1 DEF CallStart, Budget, AlreadyStarted, IInv
    <2>1. TypeOK'  BY DEF TypeOK, Built, Fresh, Counting
    <2>2. Exclusive'  BY DEF Exclusive, AtMostOneRunner, Active, TypeOK
    <2>3. Fresh'  BY DEF Fresh, Built, TypeOK
    <2>4. Built'  BY DEF Built, Fresh, TypeOK, Exclusive, AtMostOneRunner, Active, Counting
    <2>5. LiveChildIsSupervised'  BY DEF LiveChildIsSupervised, TypeOK, Exclusive, AtMostOneRunner, Active, Fresh, Built, Waiting
    <2>6. Waiting'  BY DEF Waiting, TypeOK, Exclusive, AtMostOneRunner, Active, Built
    <2>7. StartingUp'  BY DEF StartingUp, Waiting, TypeOK, Exclusive, AtMostOneRunner, Active
    <2>8. Monitors'  BY DEF Monitors, TypeOK, Exclusive, AtMostOneRunner, Active, Built
    <2>9. Counting'  BY DEF Counting, TypeOK, Exclusive, AtMostOneRunner, Active
    <2>10. Locking'  BY DEF Locking, TypeOK, Exclusive, AtMostOneRunner, Active
    <2>11. Heeding'  BY DEF Heeding, TypeOK, Exclusive, AtMostOneRunner, Active
    <2> QED  BY <2>1, <2>2, <2>3, <2>4, <2>5, <2>6, <2>7, <2>8, <2>9, <2>10, <2>11
  <1>2. ASSUME NEW wait \in BOOLEAN, StopMark(c, wait) PROVE IInv'
    BY <1>2
    DEF StopMark, IInv, TypeOK, Exclusive, AtMostOneRunner, Active, Fresh, Built, LiveChildIsSupervised,
        Waiting, StartingUp, Monitors, Counting, Locking, Heeding
  <1>3. CASE CallStop(c)
    BY <1>3
    DEF CallStop, IInv, TypeOK, Exclusive, AtMostOneRunner, Active, Fresh, Built, LiveChildIsSupervised,
        Waiting, StartingUp, Monitors, Counting, Locking, Heeding
  <1>4. CASE StopCheck(c)
    BY <1>4
    DEF StopCheck, IInv, TypeOK, Exclusive, AtMostOneRunner, Active, Fresh, Built, LiveChildIsSupervised,
        Waiting, StartingUp, Monitors, Counting, Locking, Heeding
  <1>5. CASE StopMarkPanics(c)
    BY <1>5
    DEF StopMarkPanics, IInv, TypeOK, Exclusive, AtMostOneRunner, Active, Fresh, Built, LiveChildIsSupervised,
        Waiting, StartingUp, Monitors, Counting, Locking, Heeding
  <1>6. CASE StopWaitEnds(c)
    BY <1>6
    DEF StopWaitEnds, IInv, TypeOK, Exclusive, AtMostOneRunner, Active, Fresh, Built, LiveChildIsSupervised,
        Waiting, StartingUp, Monitors, Counting, Locking, Heeding
  <1>7. CASE CallSignal(c)
    BY <1>7
    DEF CallSignal, IInv, TypeOK, Exclusive, AtMostOneRunner, Active, Fresh, Built, LiveChildIsSupervised,
        Waiting, StartingUp, Monitors, Counting, Locking, Heeding
  <1>8. CASE SignalReturns(c)
    BY <1>8
    DEF SignalReturns, IInv, TypeOK, Exclusive, AtMostOneRunner, Active, Fresh, Built, LiveChildIsSupervised,
        Waiting, StartingUp, Monitors, Counting, Locking, Heeding
  <1> QED  BY <1>1, <1>2, <1>3, <1>4, <1>5, <1>6, <1>7, <1>8 DEF Client

-----------------------------------------------------------------------------
\* A step of Stop's signalling goroutine keeps the invariant.
LEMMA StopperStep == ASSUME IInv, NEW c \in Clients, Stopper(c) PROVE IInv'
  <1> USE DEF StopperAt
  <1>1. CASE SendTerm(c)
    BY <1>1
    DEF SendTerm, IInv, TypeOK, Exclusive, AtMostOneRunner, Active, Fresh, Built, LiveChildIsSupervised,
        Waiting, StartingUp, Monitors, Counting, Locking, Heeding
  <1>2. CASE SendPanics(c)
    BY <1>2
    DEF SendPanics, IInv, TypeOK, Exclusive, AtMostOneRunner, Active, Fresh, Built, LiveChildIsSupervised,
        Waiting, StartingUp, Monitors, Counting, Locking, Heeding
  <1>3. CASE TermReturns(c)
    BY <1>3
    DEF TermReturns, IInv, TypeOK, Exclusive, AtMostOneRunner, Active, Fresh, Built, LiveChildIsSupervised,
        Waiting, StartingUp, Monitors, Counting, Locking, Heeding
  <1>4. CASE CheckStopped(c)
    BY <1>4
    DEF CheckStopped, IInv, TypeOK, Exclusive, AtMostOneRunner, Active, Fresh, Built, LiveChildIsSupervised,
        Waiting, StartingUp, Monitors, Counting, Locking, Heeding
  <1>5. CASE SendKill(c)
    BY <1>5
    DEF SendKill, IInv, TypeOK, Exclusive, AtMostOneRunner, Active, Fresh, Built, LiveChildIsSupervised,
        Waiting, StartingUp, Monitors, Counting, Locking, Heeding
  <1>6. CASE KillReturns(c)
    BY <1>6
    DEF KillReturns, IInv, TypeOK, Exclusive, AtMostOneRunner, Active, Fresh, Built, LiveChildIsSupervised,
        Waiting, StartingUp, Monitors, Counting, Locking, Heeding
  <1> QED  BY <1>1, <1>2, <1>3, <1>4, <1>5, <1>6 DEF Stopper

-----------------------------------------------------------------------------
\* A step of Start's goroutine, that is of run(), keeps the invariant.
LEMMA RunnerStep == ASSUME IInv, NEW r \in Clients, Runner(r) PROVE IInv'
  <1> USE DEF RunnerAt
  <1>1. CASE RunRefused(r)
    <2> USE <1>1 DEF RunRefused, Wake, IInv
    <2>1. TypeOK'  BY DEF TypeOK, Built, Fresh, Counting
    <2>2. Exclusive'  BY DEF Exclusive, AtMostOneRunner, Active, TypeOK
    <2>3. Fresh'  BY DEF Fresh, Built, TypeOK
    <2>4. Built'  BY DEF Built, Fresh, TypeOK, Exclusive, AtMostOneRunner, Active, Counting
    <2>5. LiveChildIsSupervised'  BY DEF LiveChildIsSupervised, TypeOK, Exclusive, AtMostOneRunner, Active, Fresh, Built, Waiting
    <2>6. Waiting'  BY DEF Waiting, TypeOK, Exclusive, AtMostOneRunner, Active, Built
    <2>7. StartingUp'
      <3>1. \A s \in Clients : s # r => runner'[s] = "idle"
        BY DEF TypeOK, Exclusive, AtMostOneRunner, Active
      <3>2. runner'[r] \notin {"create", "exec", "started"}
        BY DEF TypeOK
      <3> QED  BY <3>1, <3>2 DEF StartingUp
    <2>8. Monitors'  BY DEF Monitors, TypeOK, Exclusive, AtMostOneRunner, Active, Built
    <2>9. Counting'  BY DEF Counting, TypeOK, Exclusive, AtMostOneRunner, Active
    <2>10. Locking'  BY DEF Locking, TypeOK, Exclusive, AtMostOneRunner, Active
    <2>11. Heeding'  BY DEF Heeding, TypeOK, Exclusive, AtMostOneRunner, Active
    <2> QED  BY <2>1, <2>2, <2>3, <2>4, <2>5, <2>6, <2>7, <2>8, <2>9, <2>10, <2>11
  <1>2. CASE RunEnter(r)
    BY <1>2
    DEF RunEnter, IInv, TypeOK, Exclusive, AtMostOneRunner, Active, Fresh, Built, LiveChildIsSupervised,
        Waiting, StartingUp, Monitors, Counting, Locking, Heeding
  <1>3. CASE RunLoop(r)
    <2> USE <1>3, RestartPauseAssumption DEF RunLoop, StopRequested, IInv
    <2>1. TypeOK'  BY DEF TypeOK, Built, Fresh, Counting
    <2>2. Exclusive'  BY DEF Exclusive, AtMostOneRunner, Active, TypeOK
    <2>3. Fresh'  BY DEF Fresh, Built, TypeOK
    <2>4. Built'  BY DEF Built, Fresh, TypeOK, Exclusive, AtMostOneRunner, Active, Counting
    <2>5. LiveChildIsSupervised'  BY DEF LiveChildIsSupervised, TypeOK, Exclusive, AtMostOneRunner, Active, Fresh, Built, Waiting
    <2>6. Waiting'  BY DEF Waiting, TypeOK, Exclusive, AtMostOneRunner, Active, Built
    <2>7. StartingUp'  BY DEF StartingUp, Waiting, TypeOK, Exclusive, AtMostOneRunner, Active
    <2>8. Monitors'  BY DEF Monitors, TypeOK, Exclusive, AtMostOneRunner, Active, Built
    <2>9. Counting'  BY DEF Counting, TypeOK, Exclusive, AtMostOneRunner, Active
    <2>10. Locking'  BY DEF Locking, TypeOK, Exclusive, AtMostOneRunner, Active
    <2>11. Heeding'  BY DEF Heeding, TypeOK, Exclusive, AtMostOneRunner, Active
    <2> QED  BY <2>1, <2>2, <2>3, <2>4, <2>5, <2>6, <2>7, <2>8, <2>9, <2>10, <2>11
  <1>4. CASE RunPauseEnds(r)
    BY <1>4, RestartPauseAssumption
    DEF RunPauseEnds, IInv, TypeOK, Exclusive, AtMostOneRunner, Active, Fresh, Built, LiveChildIsSupervised,
        Waiting, StartingUp, Monitors, Counting, Locking, Heeding
  <1>5. CASE RunStarting(r)
    <2> USE <1>5 DEF RunStarting, IInv
    <2>1. TypeOK'  BY DEF TypeOK, Built, Fresh, Counting
    <2>2. Exclusive'  BY DEF Exclusive, AtMostOneRunner, Active, TypeOK
    <2>3. Fresh'  BY DEF Fresh, Built, TypeOK
    <2>4. Built'  BY DEF Built, Fresh, TypeOK, Exclusive, AtMostOneRunner, Active, Counting
    <2>5. LiveChildIsSupervised'  BY DEF LiveChildIsSupervised, TypeOK, Exclusive, AtMostOneRunner, Active, Fresh, Built, Waiting
    <2>6. Waiting'  BY DEF Waiting, TypeOK, Exclusive, AtMostOneRunner, Active, Built
    <2>7. StartingUp'  BY DEF StartingUp, Waiting, TypeOK, Exclusive, AtMostOneRunner, Active
    <2>8. Monitors'  BY DEF Monitors, TypeOK, Exclusive, AtMostOneRunner, Active, Built
    <2>9. Counting'
      <3>1. retryTimes < MaxRetries /\ attempt + MaxRetries <= MaxAttempts + retryTimes
        BY DEF Counting
      <3>2. retryTimes' = retryTimes + 1 /\ attempt' = attempt /\ runner'[r] = "create"
        BY DEF TypeOK
      <3>3. \A s \in Clients : s # r => runner'[s] = "idle"
        BY DEF TypeOK, Exclusive, AtMostOneRunner, Active
      <3> QED  BY <3>1, <3>2, <3>3 DEF Counting, TypeOK
    <2>10. Locking'  BY DEF Locking, TypeOK, Exclusive, AtMostOneRunner, Active
    <2>11. Heeding'  BY DEF Heeding, TypeOK, Exclusive, AtMostOneRunner, Active
    <2> QED  BY <2>1, <2>2, <2>3, <2>4, <2>5, <2>6, <2>7, <2>8, <2>9, <2>10, <2>11
  \* A new attempt: its child, waiter and monitor are fresh, and the old ones settled.
  <1>6. CASE RunCreate(r)
    <2> USE <1>6 DEF RunCreate, IInv
    <2>1. TypeOK'  BY DEF TypeOK, Built, Fresh, Counting
    <2>2. Exclusive'  BY DEF Exclusive, AtMostOneRunner, Active, TypeOK
    <2>3. Fresh'  BY DEF Fresh, Built, TypeOK
    <2>4. Built'  BY DEF Built, Fresh, TypeOK, Exclusive, AtMostOneRunner, Active, Counting
    <2>5. LiveChildIsSupervised'  BY DEF LiveChildIsSupervised, TypeOK, Exclusive, AtMostOneRunner, Active, Fresh, Built, Waiting
    <2>6. Waiting'  BY DEF Waiting, TypeOK, Exclusive, AtMostOneRunner, Active, Built
    <2>7. StartingUp'  BY DEF StartingUp, Waiting, TypeOK, Exclusive, AtMostOneRunner, Active
    <2>8. Monitors'  BY DEF Monitors, TypeOK, Exclusive, AtMostOneRunner, Active, Built
    <2>9. Counting'  BY DEF Counting, TypeOK, Exclusive, AtMostOneRunner, Active
    <2>10. Locking'  BY DEF Locking, TypeOK, Exclusive, AtMostOneRunner, Active
    <2>11. Heeding'  BY DEF Heeding, TypeOK, Exclusive, AtMostOneRunner, Active
    <2> QED  BY <2>1, <2>2, <2>3, <2>4, <2>5, <2>6, <2>7, <2>8, <2>9, <2>10, <2>11
  <1>7. CASE RunCreateFails(r)
    <2> USE <1>7 DEF RunCreateFails, Wake, IInv
    <2>1. TypeOK'  BY DEF TypeOK, Built, Fresh, Counting
    <2>2. Exclusive'  BY DEF Exclusive, AtMostOneRunner, Active, TypeOK
    <2>3. Fresh'  BY DEF Fresh, Built, TypeOK
    <2>4. Built'  BY DEF Built, Fresh, TypeOK, Exclusive, AtMostOneRunner, Active, Counting
    <2>5. LiveChildIsSupervised'  BY DEF LiveChildIsSupervised, TypeOK, Exclusive, AtMostOneRunner, Active, Fresh, Built, Waiting
    <2>6. Waiting'  BY DEF Waiting, TypeOK, Exclusive, AtMostOneRunner, Active, Built
    <2>7. StartingUp'
      <3>1. \A s \in Clients : s # r => runner'[s] = "idle"
        BY DEF TypeOK, Exclusive, AtMostOneRunner, Active
      <3>2. runner'[r] \notin {"create", "exec", "started"}
        BY DEF TypeOK
      <3> QED  BY <3>1, <3>2 DEF StartingUp
    <2>8. Monitors'  BY DEF Monitors, TypeOK, Exclusive, AtMostOneRunner, Active, Built
    <2>9. Counting'  BY DEF Counting, TypeOK, Exclusive, AtMostOneRunner, Active
    <2>10. Locking'  BY DEF Locking, TypeOK, Exclusive, AtMostOneRunner, Active
    <2>11. Heeding'  BY DEF Heeding, TypeOK, Exclusive, AtMostOneRunner, Active
    <2> QED  BY <2>1, <2>2, <2>3, <2>4, <2>5, <2>6, <2>7, <2>8, <2>9, <2>10, <2>11
  \* The new child is the only one: any other would have its own run() goroutine.
  <1>8. CASE RunExec(r)
    <2> USE <1>8 DEF RunExec, IInv
    <2>1. TypeOK'  BY DEF TypeOK, Built, Fresh, Counting
    <2>2. Exclusive'  BY DEF Exclusive, AtMostOneRunner, Active, TypeOK
    <2>3. Fresh'  BY DEF Fresh, Built, TypeOK
    <2>4. Built'
      <3>1. attempt \in Attempts /\ waiter[attempt] = "none" /\ monitor[attempt] = "none"
            /\ attempt \notin programExited
        BY DEF Built
      <3>2. \A s \in Clients : s # r => runner'[s] = "idle"
        BY DEF TypeOK, Exclusive, AtMostOneRunner, Active
      <3> QED  BY <3>1, <3>2 DEF Built, TypeOK
    <2>5. LiveChildIsSupervised'  BY DEF LiveChildIsSupervised, TypeOK, Exclusive, AtMostOneRunner, Active, Fresh, Built, Waiting
    <2>6. Waiting'  BY DEF Waiting, TypeOK, Exclusive, AtMostOneRunner, Active, Built
    <2>7. StartingUp'  BY DEF StartingUp, Waiting, TypeOK, Exclusive, AtMostOneRunner, Active
    <2>8. Monitors'  BY DEF Monitors, TypeOK, Exclusive, AtMostOneRunner, Active, Built
    <2>9. Counting'  BY DEF Counting, TypeOK, Exclusive, AtMostOneRunner, Active
    <2>10. Locking'  BY DEF Locking, TypeOK, Exclusive, AtMostOneRunner, Active
    <2>11. Heeding'  BY DEF Heeding, TypeOK, Exclusive, AtMostOneRunner, Active
    <2> QED  BY <2>1, <2>2, <2>3, <2>4, <2>5, <2>6, <2>7, <2>8, <2>9, <2>10, <2>11
  <1>9. CASE RunExecFails(r)
    BY <1>9
    DEF RunExecFails, RetriesExhausted, IInv, TypeOK, Exclusive, AtMostOneRunner, Active, Fresh, Built, LiveChildIsSupervised,
        Waiting, StartingUp, Monitors, Counting, Locking, Heeding
  <1>10. CASE RunExecGivesUp(r)
    BY <1>10
    DEF RunExecGivesUp, RetriesExhausted, Wake, IInv, TypeOK, Exclusive, AtMostOneRunner, Active, Fresh, Built, LiveChildIsSupervised,
        Waiting, StartingUp, Monitors, Counting, Locking, Heeding
  <1>11. CASE RunStartedAtOnce(r)
    BY <1>11
    DEF RunStartedAtOnce, HandsOver, IInv, TypeOK, Exclusive, AtMostOneRunner, Active, Fresh, Built, LiveChildIsSupervised,
        Waiting, StartingUp, Monitors, Counting, Locking, Heeding
  <1>12. CASE RunMonitored(r)
    BY <1>12
    DEF RunMonitored, HandsOver, IInv, TypeOK, Exclusive, AtMostOneRunner, Active, Fresh, Built, LiveChildIsSupervised,
        Waiting, StartingUp, Monitors, Counting, Locking, Heeding
  \* run() leaves LOOP only after waitForExit has stored Stopped, so the child is dead.
  <1>13. CASE RunWatch(r)
    <2> USE <1>13 DEF RunWatch, IInv
    <2>1. TypeOK'  BY DEF TypeOK, Built, Fresh, Counting
    <2>2. Exclusive'  BY DEF Exclusive, AtMostOneRunner, Active, TypeOK
    <2>3. Fresh'  BY DEF Fresh, Built, TypeOK
    <2>4. Built'  BY DEF Built, Fresh, TypeOK, Exclusive, AtMostOneRunner, Active, Counting
    <2>5. LiveChildIsSupervised'  BY DEF LiveChildIsSupervised, TypeOK, Exclusive, AtMostOneRunner, Active, Fresh, Built, Waiting
    <2>6. Waiting'  BY DEF Waiting, TypeOK, Exclusive, AtMostOneRunner, Active, Built
    <2>7. StartingUp'  BY DEF StartingUp, Waiting, TypeOK, Exclusive, AtMostOneRunner, Active
    <2>8. Monitors'  BY DEF Monitors, TypeOK, Exclusive, AtMostOneRunner, Active, Built
    <2>9. Counting'  BY DEF Counting, TypeOK, Exclusive, AtMostOneRunner, Active
    <2>10. Locking'  BY DEF Locking, TypeOK, Exclusive, AtMostOneRunner, Active
    <2>11. Heeding'  BY DEF Heeding, TypeOK, Exclusive, AtMostOneRunner, Active
    <2> QED  BY <2>1, <2>2, <2>3, <2>4, <2>5, <2>6, <2>7, <2>8, <2>9, <2>10, <2>11
  <1>14. CASE RunJoin(r)
    BY <1>14
    DEF RunJoin, IInv, TypeOK, Exclusive, AtMostOneRunner, Active, Fresh, Built, LiveChildIsSupervised,
        Waiting, StartingUp, Monitors, Counting, Locking, Heeding
  <1>15. CASE RunFinished(r)
    <2> USE <1>15 DEF RunFinished, IInv
    <2>1. TypeOK'  BY DEF TypeOK, Built, Fresh, Counting
    <2>2. Exclusive'  BY DEF Exclusive, AtMostOneRunner, Active, TypeOK
    <2>3. Fresh'  BY DEF Fresh, Built, TypeOK
    <2>4. Built'  BY DEF Built, Fresh, TypeOK, Exclusive, AtMostOneRunner, Active, Counting
    <2>5. LiveChildIsSupervised'  BY DEF LiveChildIsSupervised, TypeOK, Exclusive, AtMostOneRunner, Active, Fresh, Built, Waiting
    <2>6. Waiting'  BY DEF Waiting, TypeOK, Exclusive, AtMostOneRunner, Active, Built
    <2>7. StartingUp'  BY SMTT(30) DEF StartingUp, Waiting, TypeOK, Exclusive, AtMostOneRunner, Active
    <2>8. Monitors'  BY DEF Monitors, TypeOK, Exclusive, AtMostOneRunner, Active, Built
    <2>9. Counting'  BY DEF Counting, TypeOK, Exclusive, AtMostOneRunner, Active
    <2>10. Locking'  BY DEF Locking, TypeOK, Exclusive, AtMostOneRunner, Active
    <2>11. Heeding'  BY DEF Heeding, TypeOK, Exclusive, AtMostOneRunner, Active
    <2> QED  BY <2>1, <2>2, <2>3, <2>4, <2>5, <2>6, <2>7, <2>8, <2>9, <2>10, <2>11
  <1>16. CASE RunBackoff(r)
    <2> USE <1>16 DEF RunBackoff, RetriesExhausted, IInv
    <2>1. TypeOK'  BY DEF TypeOK, Built, Fresh, Counting
    <2>2. Exclusive'  BY DEF Exclusive, AtMostOneRunner, Active, TypeOK
    <2>3. Fresh'  BY DEF Fresh, Built, TypeOK
    <2>4. Built'  BY DEF Built, Fresh, TypeOK, Exclusive, AtMostOneRunner, Active, Counting
    <2>5. LiveChildIsSupervised'  BY DEF LiveChildIsSupervised, TypeOK, Exclusive, AtMostOneRunner, Active, Fresh, Built, Waiting
    <2>6. Waiting'  BY DEF Waiting, TypeOK, Exclusive, AtMostOneRunner, Active, Built
    <2>7. StartingUp'
      <3>1. \A s \in Clients : s # r => runner'[s] = "idle"
        BY DEF TypeOK, Exclusive, AtMostOneRunner, Active
      <3>2. runner'[r] \notin {"create", "exec", "started"}
        BY DEF TypeOK
      <3> QED  BY <3>1, <3>2 DEF StartingUp
    <2>8. Monitors'  BY DEF Monitors, TypeOK, Exclusive, AtMostOneRunner, Active, Built
    <2>9. Counting'  BY DEF Counting, TypeOK, Exclusive, AtMostOneRunner, Active
    <2>10. Locking'  BY DEF Locking, TypeOK, Exclusive, AtMostOneRunner, Active
    <2>11. Heeding'  BY DEF Heeding, TypeOK, Exclusive, AtMostOneRunner, Active
    <2> QED  BY <2>1, <2>2, <2>3, <2>4, <2>5, <2>6, <2>7, <2>8, <2>9, <2>10, <2>11
  <1>17. CASE RunGiveUp(r)
    <2> USE <1>17 DEF RunGiveUp, Wake, IInv
    <2>1. TypeOK'  BY DEF TypeOK, Built, Fresh, Counting
    <2>2. Exclusive'  BY DEF Exclusive, AtMostOneRunner, Active, TypeOK
    <2>3. Fresh'  BY DEF Fresh, Built, TypeOK
    <2>4. Built'  BY DEF Built, Fresh, TypeOK, Exclusive, AtMostOneRunner, Active, Counting
    <2>5. LiveChildIsSupervised'  BY DEF LiveChildIsSupervised, TypeOK, Exclusive, AtMostOneRunner, Active, Fresh, Built, Waiting
    <2>6. Waiting'  BY DEF Waiting, TypeOK, Exclusive, AtMostOneRunner, Active, Built
    <2>7. StartingUp'  BY DEF StartingUp, Waiting, TypeOK, Exclusive, AtMostOneRunner, Active
    <2>8. Monitors'  BY DEF Monitors, TypeOK, Exclusive, AtMostOneRunner, Active, Built
    <2>9. Counting'  BY DEF Counting, TypeOK, Exclusive, AtMostOneRunner, Active
    <2>10. Locking'  BY DEF Locking, TypeOK, Exclusive, AtMostOneRunner, Active
    <2>11. Heeding'  BY DEF Heeding, TypeOK, Exclusive, AtMostOneRunner, Active
    <2> QED  BY <2>1, <2>2, <2>3, <2>4, <2>5, <2>6, <2>7, <2>8, <2>9, <2>10, <2>11
  <1>18. CASE RunAgain(r)
    <2> USE <1>18 DEF RunAgain, Budget, IInv
    <2>1. TypeOK'  BY DEF TypeOK, Built, Fresh, Counting
    <2>2. Exclusive'  BY DEF Exclusive, AtMostOneRunner, Active, TypeOK
    <2>3. Fresh'  BY DEF Fresh, Built, TypeOK
    <2>4. Built'  BY DEF Built, Fresh, TypeOK, Exclusive, AtMostOneRunner, Active, Counting
    <2>5. LiveChildIsSupervised'  BY DEF LiveChildIsSupervised, TypeOK, Exclusive, AtMostOneRunner, Active, Fresh, Built, Waiting
    <2>6. Waiting'  BY DEF Waiting, TypeOK, Exclusive, AtMostOneRunner, Active, Built
    <2>7. StartingUp'  BY DEF StartingUp, Waiting, TypeOK, Exclusive, AtMostOneRunner, Active
    <2>8. Monitors'  BY DEF Monitors, TypeOK, Exclusive, AtMostOneRunner, Active, Built
    <2>9. Counting'  BY DEF Counting, TypeOK, Exclusive, AtMostOneRunner, Active
    <2>10. Locking'  BY DEF Locking, TypeOK, Exclusive, AtMostOneRunner, Active
    <2>11. Heeding'  BY DEF Heeding, TypeOK, Exclusive, AtMostOneRunner, Active
    <2> QED  BY <2>1, <2>2, <2>3, <2>4, <2>5, <2>6, <2>7, <2>8, <2>9, <2>10, <2>11
  <1>19. CASE RunNoMore(r)
    <2> USE <1>19 DEF RunNoMore, IInv
    <2>1. TypeOK'  BY DEF TypeOK, Built, Fresh, Counting
    <2>2. Exclusive'  BY DEF Exclusive, AtMostOneRunner, Active, TypeOK
    <2>3. Fresh'  BY DEF Fresh, Built, TypeOK
    <2>4. Built'  BY DEF Built, Fresh, TypeOK, Exclusive, AtMostOneRunner, Active, Counting
    <2>5. LiveChildIsSupervised'  BY DEF LiveChildIsSupervised, TypeOK, Exclusive, AtMostOneRunner, Active, Fresh, Built, Waiting
    <2>6. Waiting'  BY DEF Waiting, TypeOK, Exclusive, AtMostOneRunner, Active, Built
    <2>7. StartingUp'  BY DEF StartingUp, Waiting, TypeOK, Exclusive, AtMostOneRunner, Active
    <2>8. Monitors'  BY DEF Monitors, TypeOK, Exclusive, AtMostOneRunner, Active, Built
    <2>9. Counting'  BY DEF Counting, TypeOK, Exclusive, AtMostOneRunner, Active
    <2>10. Locking'  BY DEF Locking, TypeOK, Exclusive, AtMostOneRunner, Active
    <2>11. Heeding'  BY DEF Heeding, TypeOK, Exclusive, AtMostOneRunner, Active
    <2> QED  BY <2>1, <2>2, <2>3, <2>4, <2>5, <2>6, <2>7, <2>8, <2>9, <2>10, <2>11
  <1>20. CASE RunLeave(r)
    <2> USE <1>20 DEF RunLeave, IInv
    <2>1. TypeOK'  BY DEF TypeOK, Built, Fresh, Counting
    <2>2. Exclusive'  BY DEF Exclusive, AtMostOneRunner, Active, TypeOK
    <2>3. Fresh'  BY DEF Fresh, Built, TypeOK
    <2>4. Built'  BY DEF Built, Fresh, TypeOK, Exclusive, AtMostOneRunner, Active, Counting
    <2>5. LiveChildIsSupervised'  BY DEF LiveChildIsSupervised, TypeOK, Exclusive, AtMostOneRunner, Active, Fresh, Built, Waiting
    <2>6. Waiting'  BY DEF Waiting, TypeOK, Exclusive, AtMostOneRunner, Active, Built
    <2>7. StartingUp'  BY DEF StartingUp, Waiting, TypeOK, Exclusive, AtMostOneRunner, Active
    <2>8. Monitors'  BY DEF Monitors, TypeOK, Exclusive, AtMostOneRunner, Active, Built
    <2>9. Counting'  BY DEF Counting, TypeOK, Exclusive, AtMostOneRunner, Active
    <2>10. Locking'  BY DEF Locking, TypeOK, Exclusive, AtMostOneRunner, Active
    <2>11. Heeding'  BY DEF Heeding, TypeOK, Exclusive, AtMostOneRunner, Active
    <2> QED  BY <2>1, <2>2, <2>3, <2>4, <2>5, <2>6, <2>7, <2>8, <2>9, <2>10, <2>11
  <1> QED  BY <1>1, <1>2, <1>3, <1>4, <1>5, <1>6, <1>7, <1>8, <1>9, <1>10, <1>11, <1>12, <1>13, <1>14, <1>15, <1>16, <1>17, <1>18, <1>19, <1>20 DEF Runner

-----------------------------------------------------------------------------
\* A step of the monitor, of waitForExit, of the logger-closing goroutine or of
\* the operating system keeps the invariant.
LEMMA AttemptStep == ASSUME IInv, NEW a \in Attempts, Attempt(a) PROVE IInv'
  <1> USE DEF MonitorAt
  <1>1. CASE MonitorExits(a)
    BY <1>1
    DEF MonitorExits, IInv, TypeOK, Exclusive, AtMostOneRunner, Active, Fresh, Built, LiveChildIsSupervised,
        Waiting, StartingUp, Monitors, Counting, Locking, Heeding
  \* programExited is not set: this monitor's attempt is the last one.
  <1>2. CASE MonitorLock(a)
    <2> USE <1>2 DEF MonitorLock, StillStarting, IInv
    <2>1. TypeOK'  BY DEF TypeOK, Built, Fresh, Counting
    <2>2. Exclusive'  BY DEF Exclusive, AtMostOneRunner, Active, TypeOK
    <2>3. Fresh'  BY DEF Fresh, Built, TypeOK
    <2>4. Built'  BY DEF Built, Fresh, TypeOK, Exclusive, AtMostOneRunner, Active, Counting
    <2>5. LiveChildIsSupervised'  BY DEF LiveChildIsSupervised, TypeOK, Exclusive, AtMostOneRunner, Active, Fresh, Built, Waiting
    <2>6. Waiting'  BY DEF Waiting, TypeOK, Exclusive, AtMostOneRunner, Active, Built
    <2>7. StartingUp'  BY DEF StartingUp, Waiting, TypeOK, Exclusive, AtMostOneRunner, Active
    <2>8. Monitors'  BY DEF Monitors, TypeOK, Exclusive, AtMostOneRunner, Active, Built
    <2>9. Counting'  BY DEF Counting, TypeOK, Exclusive, AtMostOneRunner, Active
    <2>10. Locking'  BY DEF Locking, TypeOK, Exclusive, AtMostOneRunner, Active
    <2>11. Heeding'  BY DEF Heeding, TypeOK, Exclusive, AtMostOneRunner, Active
    <2> QED  BY <2>1, <2>2, <2>3, <2>4, <2>5, <2>6, <2>7, <2>8, <2>9, <2>10, <2>11
  <1>3. CASE MonitorGivesUp(a)
    BY <1>3
    DEF MonitorGivesUp, StillStarting, Wake, IInv, TypeOK, Exclusive, AtMostOneRunner, Active, Fresh, Built, LiveChildIsSupervised,
        Waiting, StartingUp, Monitors, Counting, Locking, Heeding
  <1>4. CASE MonitorPromotes(a)
    BY <1>4
    DEF MonitorPromotes, Wake, IInv, TypeOK, Exclusive, AtMostOneRunner, Active, Fresh, Built, LiveChildIsSupervised,
        Waiting, StartingUp, Monitors, Counting, Locking, Heeding
  \* The lock-free store of Stopped happens after this child's end, before any other's start.
  <1>5. CASE WaiterStores(a)
    <2> USE <1>5 DEF WaiterStores, IInv
    <2>1. TypeOK'  BY DEF TypeOK, Built, Fresh, Counting
    <2>2. Exclusive'  BY DEF Exclusive, AtMostOneRunner, Active, TypeOK
    <2>3. Fresh'  BY DEF Fresh, Built, TypeOK
    <2>4. Built'  BY DEF Built, Fresh, TypeOK, Exclusive, AtMostOneRunner, Active, Counting
    <2>5. LiveChildIsSupervised'  BY DEF LiveChildIsSupervised, TypeOK, Exclusive, AtMostOneRunner, Active, Fresh, Built, Waiting
    <2>6. Waiting'  BY DEF Waiting, TypeOK, Exclusive, AtMostOneRunner, Active, Built
    <2>7. StartingUp'  BY DEF StartingUp, Waiting, TypeOK, Exclusive, AtMostOneRunner, Active
    <2>8. Monitors'  BY DEF Monitors, TypeOK, Exclusive, AtMostOneRunner, Active, Built
    <2>9. Counting'  BY DEF Counting, TypeOK, Exclusive, AtMostOneRunner, Active
    <2>10. Locking'  BY DEF Locking, TypeOK, Exclusive, AtMostOneRunner, Active
    <2>11. Heeding'  BY DEF Heeding, TypeOK, Exclusive, AtMostOneRunner, Active
    <2> QED  BY <2>1, <2>2, <2>3, <2>4, <2>5, <2>6, <2>7, <2>8, <2>9, <2>10, <2>11
  <1>6. CASE WaiterCloses(a)
    BY <1>6
    DEF WaiterCloses, IInv, TypeOK, Exclusive, AtMostOneRunner, Active, Fresh, Built, LiveChildIsSupervised,
        Waiting, StartingUp, Monitors, Counting, Locking, Heeding
  <1>7. CASE CloserSees(a)
    BY <1>7
    DEF CloserSees, IInv, TypeOK, Exclusive, AtMostOneRunner, Active, Fresh, Built, LiveChildIsSupervised,
        Waiting, StartingUp, Monitors, Counting, Locking, Heeding
  <1>8. CASE CloserCloses(a)
    BY <1>8
    DEF CloserCloses, IInv, TypeOK, Exclusive, AtMostOneRunner, Active, Fresh, Built, LiveChildIsSupervised,
        Waiting, StartingUp, Monitors, Counting, Locking, Heeding
  <1>9. CASE ChildExits(a)
    <2> USE <1>9 DEF ChildExits, IInv
    <2>1. PICK o \in Exits : child' = [child EXCEPT ![a] = o]  BY OutcomesAssumption
    <2>2. UNCHANGED <<state, flagVars, cmdVars, panicked, threadVars, killed, piped, monVars, exitVars>>
      OBVIOUS
    <2>3. TypeOK'  BY <2>1, <2>2 DEF TypeOK
    <2>4. \A b \in Attempts : child[b] = "none" => child'[b] = "none" \/ b = a
      BY <2>1 DEF TypeOK
    <2>5. LiveChildIsSupervised'  BY <2>1, <2>2 DEF TypeOK, LiveChildIsSupervised
    <2>6. Fresh' /\ Built'
      <3>1. child[a] # "none"  OBVIOUS
      <3> QED  BY <2>2, <2>4, <3>1 DEF Fresh, Built
    <2>7. Exclusive' /\ Waiting' /\ StartingUp' /\ Monitors'
      BY <2>2 DEF Exclusive, AtMostOneRunner, Active, Waiting, StartingUp, Monitors
    <2>8. Counting' /\ Locking' /\ Heeding'
      BY <2>2 DEF Counting, Locking, Heeding
    <2> QED  BY <2>3, <2>5, <2>6, <2>7, <2>8
  <1>10. CASE PipeCloses(a)
    <2>1. /\ piped' = piped \ {a}
          /\ UNCHANGED <<state, flagVars, cmdVars, panicked, threadVars, child, killed, monVars, exitVars>>
      BY <1>10 DEF PipeCloses
    <2>2. TypeOK'  BY <2>1 DEF IInv, TypeOK
    <2>3. (Fresh /\ Built /\ LiveChildIsSupervised)'
      BY <2>1 DEF IInv, TypeOK, Fresh, Built, LiveChildIsSupervised
    <2>4. (Exclusive /\ Waiting /\ StartingUp /\ Monitors)'
      BY <2>1 DEF IInv, Exclusive, AtMostOneRunner, Active, Waiting, StartingUp, Monitors
    <2>5. (Counting /\ Locking /\ Heeding)'
      BY <2>1 DEF IInv, Counting, Locking, Heeding
    <2> QED  BY <2>2, <2>3, <2>4, <2>5 DEF IInv
  <1>11. CASE MonitorAnswers(a)
    BY <1>11
    DEF MonitorAnswers, Wake, IInv, TypeOK, Exclusive, AtMostOneRunner, Active, Fresh, Built, LiveChildIsSupervised,
        Waiting, StartingUp, Monitors, Counting, Locking, Heeding
  <1> QED  BY <1>1, <1>2, <1>3, <1>4, <1>5, <1>6, <1>7, <1>8, <1>9, <1>10, <1>11 DEF Attempt, Monitor, Waiter, Closer

-----------------------------------------------------------------------------
\* Every step, stuttering included, keeps the invariant.
LEMMA StepIInv == IInv /\ [Next]_vars => IInv'
  <1> SUFFICES ASSUME IInv, [Next]_vars PROVE IInv'
    OBVIOUS
  <1>1. CASE Next
    BY <1>1, ClientStep, StopperStep, RunnerStep, AttemptStep DEF Next
  <1>2. CASE UNCHANGED vars
    BY <1>2 DEF vars, IInv, TypeOK, Exclusive, AtMostOneRunner, Active, Fresh, Built,
        LiveChildIsSupervised, Waiting, StartingUp, Monitors, Counting, Locking, Heeding
  <1> QED  BY <1>1, <1>2

\* The inductive invariant holds in every reachable state.
LEMMA Inductive == Spec => []IInv
  BY InitIInv, StepIInv, PTL DEF Spec

-----------------------------------------------------------------------------
(* The theorems.                                                             *)

\* Every variable keeps its type; in particular run() never needs an attempt
\* beyond the bound.
THEOREM TypeCorrect == Spec => []TypeOK
  <1>1. IInv => TypeOK  BY DEF IInv
  <1> QED  BY <1>1, Inductive, PTL

\* inStart lets one run() goroutine exist at a time.
THEOREM OneRunner == Spec => []AtMostOneRunner
  <1>1. IInv => AtMostOneRunner  BY DEF IInv, Exclusive
  <1> QED  BY <1>1, Inductive, PTL

\* No interleaving of Start, Stop, the monitor and waitForExit gives a program
\* two live children.
THEOREM OneChild == Spec => []AtMostOneChild
  <1>1. IInv => AtMostOneChild  BY DEF IInv, LiveChildIsSupervised, AtMostOneChild
  <1> QED  BY <1>1, Inductive, PTL

\* IsRunning is true while a child lives.
THEOREM ChildReported == Spec => []LiveChildIsReported
  <1>1. IInv => LiveChildIsReported
    BY DEF IInv, LiveChildIsSupervised, Waiting, StartingUp, LiveChildIsReported
  <1> QED  BY <1>1, Inductive, PTL

\* A live child has a run() goroutine in LOOP and a waitForExit of its own.
THEOREM ChildSupervised == Spec => []LiveChildIsSupervised
  <1>1. IInv => LiveChildIsSupervised  BY DEF IInv
  <1> QED  BY <1>1, Inductive, PTL

\* A late monitor promotes no attempt but its own.
THEOREM LateMonitorIsHarmless == Spec => MonitorPromotesItsOwn
  <1>1. IInv /\ [Next]_vars =>
          [\A a \in Attempts : (monitor[a] = "promote" /\ monitor'[a] = "running") => a = attempt]_vars
    BY DEF IInv, Monitors
  <1> QED  BY <1>1, Inductive, PTL DEF Spec, MonitorPromotesItsOwn

\* p.cmd is not replaced while Stop's goroutine delivers a signal: the read
\* lock keeps run() out of createProgramCommand.
THEOREM SignalsReachOneCommand == Spec => CommandFixedWhileSignalling
  <1>1. ASSUME IInv, Next, attempt' # attempt
        PROVE  \A c \in Clients : stopper[c] \notin {"termSent", "killSent"}
    <2>1. \A c \in Clients : ~Client(c) /\ ~Stopper(c)
      BY <1>1 DEF Client, Stopper, CallStart, StopMark, CallStop, StopCheck, StopMarkPanics,
        StopWaitEnds, CallSignal, SignalReturns, SendTerm, SendPanics, TermReturns, CheckStopped,
        SendKill, KillReturns
    <2>2. \A a \in Attempts : ~Attempt(a)
      BY <1>1 DEF Attempt, Monitor, Waiter, Closer, MonitorExits, MonitorLock, MonitorGivesUp,
        MonitorPromotes, MonitorAnswers, WaiterStores, WaiterCloses, CloserSees, CloserCloses, ChildExits, PipeCloses
    <2>3. \A r \in Clients : Runner(r) => RunCreate(r)
      BY <1>1 DEF Runner, RunRefused, RunEnter, RunLoop, RunPauseEnds, RunStarting, RunCreateFails,
        RunExec, RunExecFails, RunExecGivesUp, RunStartedAtOnce, RunMonitored, RunWatch, RunJoin,
        RunFinished, RunBackoff, RunGiveUp, RunAgain, RunNoMore, RunLeave
    <2>4. PICK r \in Clients : RunCreate(r)
      BY <1>1, <2>1, <2>2, <2>3 DEF Next
    <2> QED  BY <1>1, <2>4 DEF IInv, Locking, RunCreate, RunnerAt
  <1>2. IInv /\ [Next]_vars =>
          [attempt' # attempt => \A c \in Clients : stopper[c] \notin {"termSent", "killSent"}]_vars
    BY <1>1
  <1> QED  BY <1>2, Inductive, PTL DEF Spec, CommandFixedWhileSignalling

\* Without a restart pause no command is started after a Stop and before the
\* next Start.
THEOREM StopIsHeeded == ASSUME RestartPause = 0 PROVE Spec => NoStartAfterStop
  <1>1. IInv /\ [Next]_vars =>
          [\A r \in Clients : (runner[r] = "starting" /\ runner'[r] = "create") => ~stopByUser]_vars
    BY DEF IInv, Heeding
  <1> QED  BY <1>1, Inductive, PTL DEF Spec, NoStartAfterStop

\* Each attempt of a run() is counted once, and none of the calls before it.
Counted ==
  \A r \in Clients :
    /\ runner[r] \in {"loop", "pause", "starting"} => attempt = entered + retryTimes
    /\ runner[r] = "create" => attempt + 1 = entered + retryTimes /\ retryTimes >= 1
    /\ runner[r] \in {"exec", "started", "watch", "join", "backoff"} =>
         attempt = entered + retryTimes /\ retryTimes >= 1
    /\ runner[r] = "giveup" => attempt = entered + MaxRetries

\* Only run() counts, and only one run() is there.
LEMMA CountedStep ==
  ASSUME IInv, Counted, [Next]_vars
  PROVE  Counted'
  <1>1. ASSUME NEW c \in Clients, Client(c) PROVE Counted'
    <2>1. /\ UNCHANGED <<attempt, entered, retryTimes>>
          /\ \A r \in Clients : runner'[r] \in {runner[r], "run"}
      BY <1>1 DEF Client, CallStart, StopMark, CallStop, StopCheck, StopMarkPanics, StopWaitEnds,
        CallSignal, SignalReturns, IInv, TypeOK
    <2> QED  BY <2>1 DEF Counted
  <1>2. ASSUME NEW c \in Clients, Stopper(c) PROVE UNCHANGED <<runner, attempt, entered, retryTimes>>
    BY <1>2 DEF Stopper, SendTerm, SendPanics, TermReturns, CheckStopped, SendKill, KillReturns
  <1>3. ASSUME NEW a \in Attempts, Attempt(a) PROVE UNCHANGED <<runner, attempt, entered, retryTimes>>
    BY <1>3 DEF Attempt, Monitor, Waiter, Closer, MonitorExits, MonitorLock, MonitorGivesUp,
      MonitorPromotes, MonitorAnswers, WaiterStores, WaiterCloses, CloserSees, CloserCloses, ChildExits, PipeCloses
  <1>4. ASSUME NEW r \in Clients, Runner(r) PROVE Counted'
    <2>1. \A s \in Clients \ {r} : runner'[s] = "idle"
      <3>1. runner[r] # "idle" /\ \A s \in Clients \ {r} : runner'[s] = runner[s]
        BY <1>4 DEF Runner, RunRefused, RunEnter, RunLoop, RunPauseEnds, RunStarting, RunCreate,
          RunCreateFails, RunExec, RunExecFails, RunExecGivesUp, RunStartedAtOnce, RunMonitored, RunWatch,
          RunJoin, RunFinished, RunBackoff, RunGiveUp, RunAgain, RunNoMore, RunLeave, RunnerAt, IInv, TypeOK
      <3> QED  BY <3>1 DEF IInv, Exclusive, AtMostOneRunner, Active
    <2>2. attempt \in Nat /\ entered \in Nat /\ retryTimes \in Nat /\ retryTimes <= MaxRetries
      BY DEF IInv, TypeOK, Counting
    <2>3. runner'[r] \in {"after", "run", "leave", "idle", "finished"} => Counted'
      BY <2>1 DEF Counted
    <2>4. CASE RunEnter(r)
      BY <2>1, <2>2, <2>4 DEF RunEnter, RunnerAt, IInv, TypeOK, Counted
    <2>5. CASE RunStarting(r) \/ RunCreate(r)
      <3>1. \/ /\ runner[r] = "starting" /\ runner'[r] = "create"
               /\ retryTimes' = retryTimes + 1 /\ UNCHANGED <<attempt, entered>>
            \/ /\ runner[r] = "create" /\ runner'[r] = "exec"
               /\ attempt' = attempt + 1 /\ UNCHANGED <<retryTimes, entered>>
        BY <2>5 DEF RunStarting, RunCreate, RunnerAt, IInv, TypeOK
      <3>2. runner[r] = "create" => retryTimes >= 1
        BY DEF Counted
      <3> QED  BY <2>1, <2>2, <3>1, <3>2 DEF Counted
    <2>6. CASE RunBackoff(r)
      BY <2>1, <2>2, <2>6 DEF RunBackoff, RetriesExhausted, RunnerAt, IInv, TypeOK, Counted
    <2>7. CASE RunLoop(r) \/ RunPauseEnds(r) \/ RunExec(r) \/ RunExecFails(r) \/ RunWatch(r) \/ RunJoin(r)
               \/ RunStartedAtOnce(r) \/ RunMonitored(r)
      <3>1. UNCHANGED <<attempt, entered, retryTimes>>
        BY <2>7 DEF RunLoop, RunPauseEnds, RunExec, RunExecFails, RunWatch, RunJoin, RunStartedAtOnce, RunMonitored
      <3>2. \/ /\ runner[r] \in {"loop", "pause"}
               /\ runner'[r] \in {"pause", "starting", "after"}
            \/ /\ runner[r] \in {"exec", "started", "watch", "join"}
               /\ runner'[r] \in {"started", "watch", "join", "backoff", "loop", "finished"}
        BY <2>7 DEF RunLoop, RunPauseEnds, RunExec, RunExecFails, RunWatch, RunJoin, RunStartedAtOnce,
          RunMonitored, RunnerAt, IInv, TypeOK
      <3> QED  BY <2>1, <2>2, <3>1, <3>2 DEF Counted
    <2>8. CASE RunRefused(r) \/ RunCreateFails(r) \/ RunExecGivesUp(r) \/ RunFinished(r) \/ RunGiveUp(r)
               \/ RunAgain(r) \/ RunNoMore(r) \/ RunLeave(r)
      <3>1. runner'[r] \in {"after", "run", "leave", "idle"}
        BY <2>8 DEF RunRefused, RunCreateFails, RunExecGivesUp, RunFinished, RunGiveUp, RunAgain,
          RunNoMore, RunLeave, RunnerAt, IInv, TypeOK
      <3> QED  BY <2>3, <3>1
    <2> QED  BY <1>4, <2>4, <2>5, <2>6, <2>7, <2>8 DEF Runner
  <1>5. CASE UNCHANGED vars  BY <1>5 DEF vars, Counted
  <1> QED  BY <1>1, <1>2, <1>3, <1>4, <1>5 DEF Next, Counted

\* A run() builds at most max(1, startretries) commands, and when it gives up it has
\* built exactly so many, for every startretries and every history.
THEOREM RetriesCounted == Spec => RetriesAreExact
  <1>1. ASSUME IInv, Counted, Next
        PROVE  /\ attempt' # attempt => attempt' - entered <= MaxRetries
               /\ \A r \in Clients :
                    runner[r] \in {"exec", "giveup"} /\ runner'[r] = "after" => attempt - entered = MaxRetries
    <2>1. attempt \in Nat /\ entered \in Nat /\ retryTimes \in Nat /\ retryTimes <= MaxRetries
      BY <1>1 DEF IInv, TypeOK, Counting
    <2>2. ASSUME NEW r \in Clients, Runner(r)
          PROVE  /\ attempt' # attempt => attempt' - entered <= MaxRetries
                 /\ \A s \in Clients :
                      runner[s] \in {"exec", "giveup"} /\ runner'[s] = "after" => attempt - entered = MaxRetries
      <3>1. RunCreate(r) => attempt' = entered + retryTimes
        BY <1>1, <2>1 DEF RunCreate, RunnerAt, Counted
      <3>2. ~RunCreate(r) => attempt' = attempt
        BY <2>2 DEF Runner, RunRefused, RunEnter, RunLoop, RunPauseEnds, RunStarting,
          RunCreateFails, RunExec, RunExecFails, RunExecGivesUp, RunStartedAtOnce, RunMonitored, RunWatch,
          RunJoin, RunFinished, RunBackoff, RunGiveUp, RunAgain, RunNoMore, RunLeave
      <3>3. RunExecGivesUp(r) => attempt - entered = MaxRetries
        BY <1>1, <2>1 DEF RunExecGivesUp, RetriesExhausted, RunnerAt, Counted
      <3>4. runner[r] = "giveup" => attempt - entered = MaxRetries
        BY <1>1, <2>1 DEF Counted
      <3>5. \A s \in Clients : s # r => runner'[s] = runner[s]
        BY <1>1, <2>2 DEF Runner, RunRefused, RunEnter, RunLoop, RunPauseEnds, RunStarting, RunCreate,
          RunCreateFails, RunExec, RunExecFails, RunExecGivesUp, RunStartedAtOnce, RunMonitored, RunWatch,
          RunJoin, RunFinished, RunBackoff, RunGiveUp, RunAgain, RunNoMore, RunLeave, RunnerAt, IInv, TypeOK
      <3>6. runner[r] = "exec" /\ runner'[r] = "after" => RunExecGivesUp(r)
        BY <1>1, <2>2 DEF Runner, RunRefused, RunEnter, RunLoop, RunPauseEnds, RunStarting, RunCreate,
          RunCreateFails, RunExec, RunExecFails, RunStartedAtOnce, RunMonitored, RunWatch,
          RunJoin, RunFinished, RunBackoff, RunGiveUp, RunAgain, RunNoMore, RunLeave, RunnerAt, IInv, TypeOK
      <3> QED  BY <2>1, <3>1, <3>2, <3>3, <3>4, <3>5, <3>6
    <2>3. ASSUME NEW c \in Clients, Client(c)
          PROVE  attempt' = attempt /\ \A r \in Clients : runner'[r] \in {runner[r], "run"}
      BY <1>1, <2>3 DEF Client, CallStart, StopMark, CallStop, StopCheck, StopMarkPanics, StopWaitEnds,
        CallSignal, SignalReturns, IInv, TypeOK
    <2>4. ASSUME NEW c \in Clients, Stopper(c) PROVE UNCHANGED <<runner, attempt>>
      BY <2>4 DEF Stopper, SendTerm, SendPanics, TermReturns, CheckStopped, SendKill, KillReturns
    <2>5. ASSUME NEW a \in Attempts, Attempt(a) PROVE UNCHANGED <<runner, attempt>>
      BY <2>5 DEF Attempt, Monitor, Waiter, Closer, MonitorExits, MonitorLock, MonitorGivesUp,
        MonitorPromotes, MonitorAnswers, WaiterStores, WaiterCloses, CloserSees, CloserCloses, ChildExits, PipeCloses
    <2> QED  BY <1>1, <2>2, <2>3, <2>4, <2>5 DEF Next
  <1>2. IInv /\ Counted /\ [Next]_vars =>
          [/\ attempt' # attempt => attempt' - entered <= MaxRetries
           /\ \A r \in Clients :
                runner[r] \in {"exec", "giveup"} /\ runner'[r] = "after" => attempt - entered = MaxRetries]_vars
    BY <1>1
  <1>3. Init => Counted  BY DEF Init, Counted
  <1> QED  BY <1>2, <1>3, CountedStep, Inductive, PTL DEF Spec, RetriesAreExact

\* The pipe of a command is kept only while waitForExit waits for it, or before.
Held ==
  \A a \in Attempts : a \in piped =>
    waiter[a] = "waiting" \/ (a = attempt /\ \E r \in Clients : runner[r] = "started")

\* waitForExit does not return while the pipe is kept.
LEMMA HeldStep ==
  ASSUME IInv, Held, [Next]_vars
  PROVE  Held'
  <1>1. ASSUME NEW c \in Clients, Client(c) PROVE Held'
    <2>1. UNCHANGED <<piped, waiter, attempt>> /\ \A r \in Clients : runner'[r] \in {runner[r], "run"}
      BY <1>1 DEF Client, CallStart, StopMark, CallStop, StopCheck, StopMarkPanics, StopWaitEnds,
        CallSignal, SignalReturns, IInv, TypeOK
    <2>2. \A r \in Clients : runner[r] = "started" => runner'[r] = "started"
      BY <1>1 DEF Client, CallStart, AlreadyStarted, StopMark, CallStop, StopCheck, StopMarkPanics,
        StopWaitEnds, CallSignal, SignalReturns, IInv, TypeOK, Exclusive, Active
    <2> QED  BY <2>1, <2>2 DEF Held
  <1>2. ASSUME NEW c \in Clients, Stopper(c) PROVE Held'
    BY <1>2 DEF Stopper, SendTerm, SendPanics, TermReturns, CheckStopped, SendKill, KillReturns, Held
  <1>3. ASSUME NEW a \in Attempts, Attempt(a) PROVE Held'
    <2>1. UNCHANGED <<runner, attempt>> /\ piped' \subseteq piped
      BY <1>3 DEF Attempt, Monitor, Waiter, Closer, MonitorExits, MonitorLock, MonitorGivesUp,
        MonitorPromotes, MonitorAnswers, WaiterStores, WaiterCloses, CloserSees, CloserCloses, ChildExits, PipeCloses
    <2>2. \A b \in Attempts : b \in piped /\ waiter[b] = "waiting" => waiter'[b] = "waiting"
      BY <1>3 DEF Attempt, Monitor, Waiter, Closer, MonitorExits, MonitorLock, MonitorGivesUp,
        MonitorPromotes, MonitorAnswers, WaiterStores, WaiterCloses, CloserSees, CloserCloses, ChildExits,
        PipeCloses, IInv, TypeOK
    <2> QED  BY <2>1, <2>2 DEF Held
  <1>4. ASSUME NEW r \in Clients, Runner(r) PROVE Held'
    <2>1. \A s \in Clients : runner[s] # "idle" => s = r
      <3>1. runner[r] # "idle"
        BY <1>4 DEF Runner, RunRefused, RunEnter, RunLoop, RunPauseEnds, RunStarting, RunCreate,
          RunCreateFails, RunExec, RunExecFails, RunExecGivesUp, RunStartedAtOnce, RunMonitored, RunWatch,
          RunJoin, RunFinished, RunBackoff, RunGiveUp, RunAgain, RunNoMore, RunLeave, RunnerAt
      <3> QED  BY <3>1 DEF IInv, Exclusive, AtMostOneRunner, Active
    <2>2. CASE RunExec(r)
      BY <2>1, <2>2 DEF RunExec, RunnerAt, IInv, TypeOK, Held
    <2>3. CASE RunStartedAtOnce(r) \/ RunMonitored(r)
      BY <2>1, <2>3 DEF RunStartedAtOnce, RunMonitored, HandsOver, RunnerAt, IInv, TypeOK, Built, Held
    <2>4. ASSUME ~RunExec(r), ~RunStartedAtOnce(r), ~RunMonitored(r)
          PROVE  UNCHANGED <<piped, waiter>> /\ runner[r] # "started"
      BY <1>4, <2>4 DEF Runner, RunRefused, RunEnter, RunLoop, RunPauseEnds, RunStarting, RunCreate,
        RunCreateFails, RunExecFails, RunExecGivesUp, RunWatch, RunJoin, RunFinished, RunBackoff, RunGiveUp,
        RunAgain, RunNoMore, RunLeave, RunnerAt
    <2> QED  BY <2>1, <2>2, <2>3, <2>4 DEF Held
  <1>5. CASE UNCHANGED vars  BY <1>5 DEF vars, Held
  <1> QED  BY <1>1, <1>2, <1>3, <1>4, <1>5 DEF Next

\* No command is built, and the state says that the program runs, while a
\* descendant of the last command keeps the pipe it left.
THEOREM PipeHoldsBack == Spec => []DescendantsGoFirst
  <1>1. IInv /\ Held => DescendantsGoFirst
    BY DEF IInv, Waiting, StartingUp, Held, DescendantsGoFirst
  <1>2. Init => Held  BY DEF Init, Held
  <1> QED  BY <1>1, <1>2, HeldStep, Inductive, PTL DEF Spec

\* Stop's goroutine misses no living child: if one lives when it looks at the
\* state it sends KILL, and then to that child.
KillReachesChild ==
  [][\A c \in Clients, a \in Attempts : child[a] = "alive" =>
       /\ stopper[c] = "check" /\ stopper'[c] # "check" => stopper'[c] = "kill"
       /\ stopper[c] = "kill" /\ stopper'[c] # "kill" => a \in killed']_vars

\* A client in Stop has no signalling goroutine of an earlier Stop.
OneStopper == \A c \in Clients : caller[c] \in {"stopCheck", "stopMark"} => stopper[c] = "idle"

\* Only c's own Stop starts c's signalling goroutine.
LEMMA OneStopperStep ==
  ASSUME IInv, OneStopper, [Next]_vars
  PROVE  OneStopper'
  <1>1. ASSUME NEW c \in Clients, Client(c) PROVE OneStopper'
    BY <1>1 DEF Client, CallStart, StopMark, CallStop, StopCheck, StopMarkPanics, StopWaitEnds,
      CallSignal, SignalReturns, CallerAt, IInv, TypeOK, OneStopper
  <1>2. ASSUME NEW c \in Clients, Stopper(c) PROVE OneStopper'
    BY <1>2 DEF Stopper, SendTerm, SendPanics, TermReturns, CheckStopped, SendKill, KillReturns,
      StopperAt, IInv, TypeOK, OneStopper
  <1>3. ASSUME NEW r \in Clients, Runner(r) PROVE OneStopper'
    BY <1>3 DEF Runner, RunRefused, RunEnter, RunLoop, RunPauseEnds, RunStarting, RunCreate,
      RunCreateFails, RunExec, RunExecFails, RunExecGivesUp, RunStartedAtOnce, RunMonitored, RunWatch,
      RunJoin, RunFinished, RunBackoff, RunGiveUp, RunAgain, RunNoMore, RunLeave, Wake, IInv, TypeOK, OneStopper
  <1>4. ASSUME NEW a \in Attempts, Attempt(a) PROVE OneStopper'
    BY <1>4 DEF Attempt, Monitor, Waiter, Closer, MonitorExits, MonitorLock, MonitorGivesUp,
      MonitorPromotes, MonitorAnswers, WaiterStores, WaiterCloses, CloserSees, CloserCloses, ChildExits, PipeCloses,
      Wake, IInv, TypeOK, OneStopper
  <1>5. CASE UNCHANGED vars  BY <1>5 DEF vars, OneStopper
  <1> QED  BY <1>1, <1>2, <1>3, <1>4, <1>5 DEF Next

\* The KILL of a Stop reaches the child that lives when the signalling goroutine
\* looks at the state: the look is without the lock, but IsRunning is true of a
\* living child, and p.cmd is its command.
THEOREM KillsWhatLives == Spec => KillReachesChild
  <1>1. ASSUME IInv, OneStopper, Next, NEW c \in Clients, NEW a \in Attempts, child[a] = "alive"
        PROVE  /\ stopper[c] = "check" /\ stopper'[c] # "check" => stopper'[c] = "kill"
               /\ stopper[c] = "kill" /\ stopper'[c] # "kill" => a \in killed'
    <2>1. IsRunning /\ a = attempt
      BY <1>1 DEF IInv, LiveChildIsSupervised, Waiting, StartingUp
    <2>2. ASSUME NEW d \in Clients, Stopper(d)
          PROVE  /\ stopper[c] = "check" /\ stopper'[c] # "check" => stopper'[c] = "kill"
                 /\ stopper[c] = "kill" /\ stopper'[c] # "kill" => a \in killed'
      BY <1>1, <2>1, <2>2 DEF Stopper, SendTerm, SendPanics, TermReturns, CheckStopped, SendKill,
        KillReturns, StopperAt, IInv, TypeOK
    <2>3. ASSUME NEW d \in Clients, Client(d) PROVE stopper[c] \in {"check", "kill"} => stopper'[c] = stopper[c]
      BY <1>1, <2>3 DEF Client, CallStart, StopMark, CallStop, StopCheck, StopMarkPanics, StopWaitEnds,
        CallSignal, SignalReturns, CallerAt, OneStopper, IInv, TypeOK
    <2>4. ASSUME NEW r \in Clients, Runner(r) PROVE stopper' = stopper
      BY <2>4 DEF Runner, RunRefused, RunEnter, RunLoop, RunPauseEnds, RunStarting, RunCreate,
        RunCreateFails, RunExec, RunExecFails, RunExecGivesUp, RunStartedAtOnce, RunMonitored, RunWatch,
        RunJoin, RunFinished, RunBackoff, RunGiveUp, RunAgain, RunNoMore, RunLeave
    <2>5. ASSUME NEW b \in Attempts, Attempt(b) PROVE stopper' = stopper
      BY <2>5 DEF Attempt, Monitor, Waiter, Closer, MonitorExits, MonitorLock, MonitorGivesUp,
        MonitorPromotes, MonitorAnswers, WaiterStores, WaiterCloses, CloserSees, CloserCloses, ChildExits, PipeCloses
    <2> QED  BY <1>1, <2>2, <2>3, <2>4, <2>5 DEF Next
  <1>2. IInv /\ OneStopper /\ [Next]_vars =>
          [\A c \in Clients, a \in Attempts : child[a] = "alive" =>
             /\ stopper[c] = "check" /\ stopper'[c] # "check" => stopper'[c] = "kill"
             /\ stopper[c] = "kill" /\ stopper'[c] # "kill" => a \in killed']_vars
    BY <1>1
  <1>3. Init => OneStopper  BY DEF Init, OneStopper
  <1> QED  BY <1>2, <1>3, OneStopperStep, Inductive, PTL DEF Spec, KillReachesChild

\* finishCb wakes its client, and takes no other client's finishCb away.
LEMMA WakesOneOnly ==
  ASSUME TypeOK, NEW w \in Clients \cup {NoClient}, Wake(w),
         NEW c \in Clients, caller'[c] = "startWait"
  PROVE  w # c /\ caller[c] = "startWait" /\ \A a \in Attempts : notify[a] = c => notify'[a] = c
  BY DEF Wake, TypeOK

\* Whoever is to answer, or has a finishCb, and keeps it, will still answer.
LEMMA StillDue ==
  ASSUME NEW c \in Clients, ~AnswerDue(c)', runner[c] \in Answering => runner'[c] \in Answering,
         \A a \in Attempts : notify[a] = c /\ monitor[a] \in Owing => notify'[a] = c /\ monitor'[a] \in Owing
  PROVE  ~AnswerDue(c)
  BY Zenon DEF AnswerDue

\* Whoever waits for a Start's answer keeps the one who is to answer it: a step of
\* run() that does not answer passes the finishCb on to a monitor, goes on itself,
\* or leaves the loop for a Stop.
LEMMA RunnerAnswers ==
  ASSUME IInv, NEW r \in Clients, Runner(r),
         NEW c \in Clients, caller'[c] = "startWait", ~AnswerDue(c)'
  PROVE  caller[c] = "startWait" /\ (AnswerDue(c) => runner[c] = "loop" /\ stopByUser)
  <1> USE DEF RunnerAt, IInv
  <1>1. CASE RunRefused(r) \/ RunCreateFails(r) \/ RunExecGivesUp(r) \/ RunGiveUp(r)
    <2>1. Wake(r) /\ monitor' = monitor /\ runner' = [runner EXCEPT ![r] = "after"]
      BY <1>1 DEF RunRefused, RunCreateFails, RunExecGivesUp, RunGiveUp
    <2>2. r # c /\ caller[c] = "startWait" /\ \A a \in Attempts : notify[a] = c => notify'[a] = c
      BY <2>1, WakesOneOnly
    <2>3. runner'[c] = runner[c]  BY <2>1, <2>2 DEF TypeOK
    <2> QED  BY <2>1, <2>2, <2>3, StillDue
  <1>2. CASE RunStartedAtOnce(r) \/ RunMonitored(r)
    <2>1. PICK point \in {"timing", "answer"} : HandsOver(r, point)
      BY <1>2 DEF RunStartedAtOnce, RunMonitored
    <2>2. caller' = caller /\ attempt \in Attempts /\ monitor[attempt] = "none"
      BY <1>2 DEF RunStartedAtOnce, RunMonitored, Built
    <2>3. r # c
      BY <2>1, <2>2 DEF HandsOver, TypeOK, AnswerDue, Owing
    <2>4. runner'[c] = runner[c]  BY <1>2, <2>3 DEF RunStartedAtOnce, RunMonitored, TypeOK
    <2>5. \A a \in Attempts : monitor[a] # "none" => notify'[a] = notify[a] /\ monitor'[a] = monitor[a]
      BY <2>1, <2>2 DEF HandsOver, TypeOK
    <2>6. \A a \in Attempts : monitor[a] \in Owing => monitor[a] # "none"  BY DEF Owing
    <2> QED  BY <2>2, <2>4, <2>5, <2>6, StillDue
  <1>4. CASE RunLoop(r)
    <2>1. UNCHANGED <<caller, notify, monitor>>  BY <1>4 DEF RunLoop
    <2>2. runner[c] \in Answering => runner'[c] \in Answering \/ (runner[c] = "loop" /\ stopByUser)
      BY <1>4 DEF RunLoop, StopRequested, TypeOK, Answering
    <2> QED  BY <2>1, <2>2, StillDue
  <1>5. CASE \/ RunEnter(r) \/ RunPauseEnds(r) \/ RunStarting(r) \/ RunCreate(r) \/ RunExec(r)
             \/ RunExecFails(r) \/ RunWatch(r) \/ RunJoin(r) \/ RunFinished(r) \/ RunBackoff(r)
             \/ RunAgain(r) \/ RunNoMore(r) \/ RunLeave(r)
    <2>1. UNCHANGED <<caller, notify, monitor>>
      BY <1>5 DEF RunEnter, RunPauseEnds, RunStarting, RunCreate, RunExec, RunExecFails, RunWatch, RunJoin,
        RunFinished, RunBackoff, RunAgain, RunNoMore, RunLeave
    <2>2. runner[c] \in Answering => runner'[c] \in Answering
      BY <1>5 DEF RunEnter, RunPauseEnds, RunStarting, RunCreate, RunExec, RunExecFails, RunWatch, RunJoin,
        RunFinished, RunBackoff, RunAgain, RunNoMore, RunLeave, TypeOK, Answering
    <2> QED  BY <2>1, <2>2, StillDue
  <1> QED  BY <1>1, <1>2, <1>4, <1>5 DEF Runner

\* A monitor answers when it ends, and nobody else drops its finishCb.
LEMMA AttemptAnswers ==
  ASSUME IInv, NEW a \in Attempts, Attempt(a),
         NEW c \in Clients, caller'[c] = "startWait", ~AnswerDue(c)'
  PROVE  caller[c] = "startWait" /\ ~AnswerDue(c)
  <1> USE DEF IInv
  <1>1. CASE MonitorGivesUp(a) \/ MonitorPromotes(a) \/ MonitorAnswers(a)
    <2>1. Wake(notify[a]) /\ runner' = runner
      BY <1>1 DEF MonitorGivesUp, MonitorPromotes, MonitorAnswers
    <2>2. /\ notify[a] # c /\ caller[c] = "startWait"
          /\ \A b \in Attempts : notify[b] = c => notify'[b] = c
      <3>1. notify[a] \in Clients \cup {NoClient}  BY DEF TypeOK
      <3> QED  BY <2>1, <3>1, WakesOneOnly
    <2>3. \A b \in Attempts : b # a => monitor'[b] = monitor[b]
      BY <1>1 DEF MonitorGivesUp, MonitorPromotes, MonitorAnswers, MonitorAt, TypeOK
    <2> QED  BY <2>1, <2>2, <2>3, StillDue
  <1>2. CASE MonitorExits(a) \/ MonitorLock(a)
    <2>1. UNCHANGED <<caller, runner, notify>>
      BY <1>2 DEF MonitorExits, MonitorLock
    <2>2. \A b \in Attempts : monitor[b] \in Owing => monitor'[b] \in Owing
      BY <1>2 DEF MonitorExits, MonitorLock, MonitorAt, TypeOK, Owing
    <2> QED  BY <2>1, <2>2, StillDue
  <1>3. CASE Waiter(a) \/ Closer(a) \/ ChildExits(a) \/ PipeCloses(a)
    <2>1. UNCHANGED <<caller, runner, notify, monitor>>
      BY <1>3 DEF Waiter, Closer, WaiterStores, WaiterCloses, CloserSees, CloserCloses, ChildExits, PipeCloses
    <2> QED  BY <2>1, StillDue
  <1> QED  BY <1>1, <1>2, <1>3 DEF Attempt, Monitor

\* Start(true) has somebody to answer it until it is answered, for any number of
\* clients, unless a Stop comes before run() has begun an attempt: the safety half
\* of "Start returns", with its only exception.
THEOREM StartsAreAnswered == Spec => OnlyStopSilencesStart
  <1>1. ASSUME IInv, Next, NEW c \in Clients, caller'[c] = "startWait", ~AnswerDue(c)'
        PROVE  caller[c] = "startWait" /\ (AnswerDue(c) => runner[c] = "loop" /\ stopByUser)
    <2>1. ASSUME NEW d \in Clients, Client(d) PROVE caller[c] = "startWait" /\ ~AnswerDue(c)
      <3>1. ASSUME NEW wait \in BOOLEAN, CallStart(d, wait) PROVE caller[c] = "startWait" /\ ~AnswerDue(c)
        BY <1>1, <3>1 DEF CallStart, CallerAt, AlreadyStarted, IInv, TypeOK, Exclusive, Active, AnswerDue, Answering
      <3>2. ASSUME \A wait \in BOOLEAN : ~CallStart(d, wait) PROVE caller[c] = "startWait" /\ ~AnswerDue(c)
        <4>1. UNCHANGED <<runner, notify, monitor>>
          BY <2>1, <3>2 DEF Client, StopMark, CallStop, StopCheck, StopMarkPanics, StopWaitEnds,
            CallSignal, SignalReturns
        <4>2. caller[c] = "startWait"
          BY <1>1, <2>1, <3>2 DEF Client, StopMark, CallStop, StopCheck, StopMarkPanics, StopWaitEnds,
            CallSignal, SignalReturns, CallerAt, IInv, TypeOK
        <4> QED  BY <1>1, <4>1, <4>2, StillDue
      <3> QED  BY <3>1, <3>2
    <2>2. ASSUME NEW d \in Clients, Stopper(d) PROVE caller[c] = "startWait" /\ ~AnswerDue(c)
      BY <1>1, <2>2 DEF Stopper, SendTerm, SendPanics, TermReturns, CheckStopped, SendKill, KillReturns,
        AnswerDue
    <2> QED  BY <1>1, <2>1, <2>2, RunnerAnswers, AttemptAnswers DEF Next
  <1>2. IInv /\ [Next]_vars =>
          [\A c \in Clients : caller'[c] = "startWait" /\ ~AnswerDue(c)' =>
             /\ caller[c] = "startWait"
             /\ AnswerDue(c) => runner[c] = "loop" /\ stopByUser]_vars
    BY <1>1
  <1> QED  BY <1>2, Inductive, PTL DEF Spec, OnlyStopSilencesStart

-----------------------------------------------------------------------------
(* process.go implements Program.                                            *)

Live == \E a \in Attempts : child[a] = "alive"

\* A program that is stuck has no child: a child has its run() in the LOOP.
LEMMA StuckHasNoChild == IInv /\ Live => ~Stuck
  BY DEF IInv, LiveChildIsSupervised, Live, Stuck

\* Nobody is left to change the state: neither waitForExit nor a monitor that has
\* decided to promote outlives run()'s LOOP.
LEMMA StuckForGood == ASSUME IInv, Stuck, [Next]_vars PROVE Stuck'
  <1>1. ASSUME NEW c \in Clients, Client(c) PROVE Stuck'
    <2>1. state' \in {state, "Stopping"} /\ \A r \in Clients : runner'[r] \in {runner[r], "run"}
      BY <1>1 DEF Client, CallStart, StopMark, CallStop, StopCheck, StopMarkPanics, StopWaitEnds,
        CallSignal, SignalReturns, IInv, TypeOK
    <2> QED  BY <2>1 DEF Stuck
  <1>2. ASSUME NEW c \in Clients, Stopper(c) PROVE Stuck'
    BY <1>2 DEF Stopper, SendTerm, SendPanics, TermReturns, CheckStopped, SendKill, KillReturns, Stuck
  <1>3. ASSUME NEW r \in Clients, Runner(r) PROVE Stuck'
    <2>1. RunRefused(r) \/ RunAgain(r) \/ RunNoMore(r) \/ RunLeave(r)
      BY <1>3 DEF Stuck, Runner, RunnerAt, RunEnter, RunLoop, RunPauseEnds, RunStarting, RunCreate,
        RunCreateFails, RunExec, RunExecFails, RunExecGivesUp, RunStartedAtOnce, RunMonitored, RunWatch,
        RunJoin, RunFinished, RunBackoff, RunGiveUp
    <2>2. /\ state' = state
          /\ runner' = [runner EXCEPT ![r] = runner'[r]]
          /\ runner'[r] \in {"after", "run", "leave", "idle"}
      BY <2>1 DEF RunRefused, RunAgain, RunNoMore, RunLeave, RunnerAt, IInv, TypeOK
    <2>3. \A s \in Clients : runner'[s] \in {runner[s], "after", "run", "leave", "idle"}
      BY <2>2 DEF IInv, TypeOK
    <2> QED  BY <2>2, <2>3 DEF Stuck
  <1>4. ASSUME NEW a \in Attempts, Attempt(a) PROVE Stuck'
    <2>1. ~WaiterStores(a) /\ ~MonitorPromotes(a)
      BY DEF Stuck, IInv, Waiting, Monitors, WaiterStores, MonitorPromotes, MonitorAt
    <2> QED  BY <1>4, <2>1 DEF Attempt, Monitor, Waiter, Closer, MonitorExits, MonitorLock, MonitorGivesUp,
      MonitorAnswers, WaiterCloses, CloserSees, CloserCloses, ChildExits, PipeCloses, Stuck
  <1>5. CASE UNCHANGED vars  BY <1>5 DEF vars, Stuck
  <1> QED  BY <1>1, <1>2, <1>3, <1>4, <1>5 DEF Next

\* A step that changes neither flag nor child is invisible, or leaves the program stuck.
LEMMA Invisible ==
  ASSUME IInv, IInv', Stuck => Stuck', UNCHANGED <<inStart, stopByUser, child>>
  PROVE  [Promise!Next]_(Promise!vars)
  <1>1. Live' <=> Live  BY DEF Live
  <1>2. Live' => ~Stuck'  BY StuckHasNoChild DEF Live, Stuck, IInv, LiveChildIsSupervised
  <1>3. CASE Stuck
    <2>1. Stuck' = Stuck  BY <1>3
    <2> QED  BY <1>1, <2>1 DEF Promise!vars, Live
  <1>4. CASE ~Stuck /\ ~Stuck'
    <2>1. Stuck' = Stuck
      <3>1. Stuck \in BOOLEAN /\ Stuck' \in BOOLEAN  BY Zenon DEF Stuck
      <3> QED  BY <1>4, <3>1
    <2> QED  BY <1>1, <2>1 DEF Promise!vars, Live
  <1>5. CASE ~Stuck /\ Stuck'
    <2>1. Promise!Stick  BY <1>1, <1>2, <1>5 DEF Promise!Stick, Live
    <2> QED  BY <2>1 DEF Promise!Next
  <1> QED  BY <1>3, <1>4, <1>5

\* Callers: an effective Start is Program's Start, a Stop its Stop, and the rest changes
\* at most the state.
LEMMA ClientIsProgram ==
  ASSUME IInv, IInv', Stuck => Stuck', NEW c \in Clients, Client(c)
  PROVE  [Promise!Next]_(Promise!vars)
  <1>1. ASSUME NEW wait \in BOOLEAN, CallStart(c, wait) PROVE [Promise!Next]_(Promise!vars)
    <2>1. ~inStart /\ inStart' = TRUE /\ stopByUser' = FALSE /\ UNCHANGED <<child, state>>
      BY <1>1 DEF CallStart, AlreadyStarted
    <2>2. Stuck' = Stuck
      <3>1. \A r \in Clients : runner[r] = "idle"  BY <2>1 DEF IInv, Exclusive, Active
      <3>2. \A r \in Clients : runner'[r] \in {"idle", "run"}
        BY <1>1, <3>1 DEF CallStart, IInv, TypeOK
      <3>3. (Stuck <=> IsRunning) /\ (Stuck' <=> IsRunning')  BY <3>1, <3>2 DEF Stuck
      <3>4. IsRunning' <=> IsRunning  BY <2>1
      <3>5. Stuck \in BOOLEAN /\ Stuck' \in BOOLEAN  BY Zenon DEF Stuck
      <3> QED  BY <3>3, <3>4, <3>5
    <2>3. Promise!Start  BY <2>1, <2>2 DEF Promise!Start
    <2> QED  BY <2>3 DEF Promise!Next
  <1>2. CASE CallStop(c)
    <2>1. Promise!Stop  BY <1>2 DEF CallStop, Promise!Stop, Stuck
    <2> QED  BY <2>1 DEF Promise!Next
  <1>3. ASSUME ~CallStop(c), \A wait \in BOOLEAN : ~CallStart(c, wait)
        PROVE  [Promise!Next]_(Promise!vars)
    <2>1. UNCHANGED <<inStart, stopByUser, child>>
      BY <1>3 DEF Client, StopMark, StopCheck, StopMarkPanics, StopWaitEnds, CallSignal, SignalReturns
    <2> QED  BY <2>1, Invisible
  <1> QED  BY <1>1, <1>2, <1>3

\* run(): p.cmd.Start and the end of Start's goroutine are visible; leaving the loop may
\* leave the program stuck.
LEMMA RunnerIsProgram ==
  ASSUME IInv, IInv', Stuck => Stuck', NEW r \in Clients, Runner(r)
  PROVE  [Promise!Next]_(Promise!vars)
  \* run() starts a command under the lock: no child is left, and no Stop came
  \* between its look at stopByUser and now.
  <1>1. CASE RunExec(r)
    <2>1. runner[r] = "exec" /\ attempt \in Attempts /\ inStart
      BY <1>1 DEF RunExec, RunnerAt, IInv, Built, Exclusive, Active
    <2>2. ~Live
      BY <2>1 DEF IInv, LiveChildIsSupervised, Exclusive, AtMostOneRunner, Active, Live
    <2>3. stopByUser => RestartPause > 0
      BY <2>1, RestartPauseAssumption DEF IInv, Heeding
    <2>4. Live'
      BY <1>1, <2>1 DEF RunExec, IInv, TypeOK, Live
    <2>5. UNCHANGED <<inStart, stopByUser>>
      BY <1>1 DEF RunExec
    <2>6. ~Stuck  BY <2>1 DEF Stuck
    <2>7. ~Stuck'
      <3>1. runner'[r] = "started"  BY <1>1 DEF RunExec, RunnerAt, IInv, TypeOK
      <3> QED  BY <3>1 DEF Stuck
    <2>8. Promise!Spawn
      <3>1. Stuck' = Stuck
        <4>1. Stuck \in BOOLEAN /\ Stuck' \in BOOLEAN  BY Zenon DEF Stuck
        <4> QED  BY <2>6, <2>7, <4>1
      <3> QED  BY <2>1, <2>2, <2>3, <2>4, <2>5, <2>6, <3>1 DEF Promise!Spawn, Live
    <2> QED  BY <2>8 DEF Promise!Next
  <1>2. CASE RunLeave(r)
    <2>1. runner[r] = "leave" /\ inStart
      BY <1>2 DEF RunLeave, RunnerAt, IInv, Exclusive, Active
    <2>2. ~Live
      BY <2>1 DEF IInv, LiveChildIsSupervised, Exclusive, AtMostOneRunner, Active, Live
    <2>3. inStart' = FALSE /\ UNCHANGED <<state, stopByUser, child>>
      BY <1>2 DEF RunLeave
    <2>4. Stuck' = Stuck
      <3>1. \A s \in Clients : s # r => runner'[s] = runner[s]
        BY <1>2 DEF RunLeave, RunnerAt, IInv, TypeOK
      <3>2. runner'[r] = "idle"  BY <1>2 DEF RunLeave, RunnerAt, IInv, TypeOK
      <3>3. Stuck' <=> Stuck  BY <2>1, <2>3, <3>1, <3>2 DEF Stuck
      <3>4. Stuck \in BOOLEAN /\ Stuck' \in BOOLEAN  BY Zenon DEF Stuck
      <3> QED  BY <3>3, <3>4
    <2>5. Promise!Leave  BY <2>1, <2>2, <2>3, <2>4 DEF Promise!Leave, Live
    <2> QED  BY <2>5 DEF Promise!Next
  <1>3. ASSUME ~RunExec(r), ~RunLeave(r)
        PROVE  [Promise!Next]_(Promise!vars)
    <2>1. UNCHANGED <<inStart, stopByUser, child>>
      BY <1>3 DEF Runner, RunRefused, RunEnter, RunLoop, RunPauseEnds, RunStarting, RunCreate,
        RunCreateFails, RunExecFails, RunExecGivesUp, RunStartedAtOnce, RunMonitored, RunWatch, RunJoin,
        RunFinished, RunBackoff, RunGiveUp, RunAgain, RunNoMore
    <2> QED  BY <2>1, Invisible
  <1> QED  BY <1>1, <1>2, <1>3

\* Stop's signalling goroutine: invisible, the signals' effect is the child's end.
LEMMA StopperIsProgram ==
  ASSUME IInv, IInv', Stuck => Stuck', NEW c \in Clients, Stopper(c)
  PROVE  [Promise!Next]_(Promise!vars)
  <1>1. UNCHANGED <<inStart, stopByUser, child>>
    BY DEF Stopper, SendTerm, SendPanics, TermReturns, CheckStopped, SendKill, KillReturns
  <1> QED  BY <1>1, Invisible

\* The goroutines of the attempts and the operating system: only a child's end is visible.
LEMMA AttemptIsProgram ==
  ASSUME IInv, IInv', Stuck => Stuck', NEW a \in Attempts, Attempt(a)
  PROVE  [Promise!Next]_(Promise!vars)
  \* It was the only child.
  <1>1. CASE ChildExits(a)
    <2>1. Live /\ UNCHANGED <<inStart, stopByUser, state, runner>>
      BY <1>1 DEF ChildExits, Live
    <2>2. \A b \in Attempts : child[b] = "alive" => b = a
      BY <1>1 DEF ChildExits, IInv, LiveChildIsSupervised
    <2>3. ~Live'
      <3>1. PICK o \in Exits : child' = [child EXCEPT ![a] = o]
        BY <1>1, OutcomesAssumption DEF ChildExits
      <3>2. child \in [Attempts -> {"none", "alive"} \cup Exits]  BY DEF IInv, TypeOK
      <3> QED  BY <2>2, <3>1, <3>2 DEF Live
    <2>4. Promise!End  BY <2>1, <2>3 DEF Promise!End, Live, Stuck
    <2> QED  BY <2>4 DEF Promise!Next
  <1>2. ASSUME ~ChildExits(a)
        PROVE  [Promise!Next]_(Promise!vars)
    <2>1. UNCHANGED <<inStart, stopByUser, child>>
      BY <1>2 DEF Attempt, Monitor, Waiter, Closer, MonitorExits, MonitorLock, MonitorGivesUp,
        MonitorPromotes, MonitorAnswers, WaiterStores, WaiterCloses, CloserSees, CloserCloses, PipeCloses
    <2> QED  BY <2>1, Invisible
  <1> QED  BY <1>1, <1>2

\* Everything the goroutines of process.go do is a step of the abstract program
\* that supervisor, process manager and liveness checker build on, or invisible
\* to them: no child outside a Start, beside another child or, without a restart
\* pause, after a Stop, no child left behind, and none of a program that is stuck.
THEOREM KeepsPromise == Spec => ImplementsProgram
  <1>1. Init => Promise!Init
    <2> SUFFICES ASSUME Init PROVE Promise!Init
      OBVIOUS
    <2>1. ~Stuck /\ ~Live  BY DEF Init, Stuck, Live
    <2>2. Stuck = FALSE
      <3>1. Stuck \in BOOLEAN  BY Zenon DEF Stuck
      <3> QED  BY <2>1, <3>1
    <2> QED  BY <2>1, <2>2 DEF Init, Promise!Init, Live
  <1>2. IInv /\ IInv' /\ [Next]_vars => [Promise!Next]_(Promise!vars)
    <2> SUFFICES ASSUME IInv, IInv', [Next]_vars PROVE [Promise!Next]_(Promise!vars)
      OBVIOUS
    <2>1. Stuck => Stuck'  BY StuckForGood
    <2>2. ASSUME NEW c \in Clients, Client(c) PROVE [Promise!Next]_(Promise!vars)
      BY <2>1, <2>2, ClientIsProgram
    <2>3. ASSUME NEW r \in Clients, Runner(r) PROVE [Promise!Next]_(Promise!vars)
      BY <2>1, <2>3, RunnerIsProgram
    <2>4. ASSUME NEW c \in Clients, Stopper(c) PROVE [Promise!Next]_(Promise!vars)
      BY <2>1, <2>4, StopperIsProgram
    <2>5. ASSUME NEW a \in Attempts, Attempt(a) PROVE [Promise!Next]_(Promise!vars)
      BY <2>1, <2>5, AttemptIsProgram
    <2>6. CASE UNCHANGED vars
      <3>1. UNCHANGED <<inStart, stopByUser, child>>  BY <2>6 DEF vars
      <3> QED  BY <2>1, <3>1, Invisible
    <2> QED  BY <2>2, <2>3, <2>4, <2>5, <2>6 DEF Next
  <1> QED  BY <1>1, <1>2, Inductive, PTL DEF Spec, ImplementsProgram, Promise!Spec
=============================================================================
