----------------------------- MODULE Supervisor -----------------------------
(***************************************************************************)
(* The supervisor (supervisor.go), the process manager                     *)
(* (process/process_manager.go) and the loaded configuration               *)
(* (config/config.go), above programs that behave as Program says.         *)
(*                                                                         *)
(*   reload   the goroutine in Reload: at startup, then XML-RPC and REST.  *)
(*            s.lock lets only one in, from its first step to its last     *)
(*   req[c]   a client's request to start, stop or signal the programs it  *)
(*            selects, or to shut supervisord down                         *)
(*                                                                         *)
(* A process object is a number: pointers to it outlive its name, in a     *)
(* request that was answered by FindMatch before a reload removed it, and  *)
(* for ever in the callbacks of its cron schedule and of its file monitors *)
(* and in the restart of a failed liveness check.  A request reaches its   *)
(* programs in any order: StartProcess goes through them in turn,          *)
(* StartAllProcesses with a goroutine for each.  pm.lock is not a variable:*)
(* it is held at the control points named in Locked, and otherwise only    *)
(* within a step.                                                          *)
(***************************************************************************)
EXTENDS Naturals, FiniteSets

CONSTANTS
  Programs,      \* names of programs
  Listeners,     \* names of event listeners
  AutoStart,     \* the programs with autostart
  Files,         \* what the configuration files may define
  Clients,
  Operations,    \* Operations[c]: the requests client c makes
  Selections,    \* the sets of programs a request may name: one, a group, all
  Callbacks,     \* the processes with a cron schedule, a file monitor or a liveness check
  RestartPause,  \* restartpause, only compared with 0
  MaxProcesses   \* bound: process objects created over a whole behaviour

Names == Programs \cup Listeners
Processes == 1 .. MaxProcesses

ASSUME NamesAssumption == Programs \cap Listeners = {} /\ AutoStart \subseteq Programs
ASSUME FilesAssumption == \A f \in Files : f \subseteq Names /\ IsFiniteSet(f)
ASSUME SelectionsAssumption == \A s \in Selections : s \subseteq Programs
ASSUME OperationsAssumption == Operations \in [Clients -> SUBSET {"start", "stop", "signal", "shutdown"}]
ASSUME MaxProcessesAssumption == MaxProcesses \in Nat
ASSUME CallbacksAssumption == Callbacks \subseteq Processes
ASSUME RestartPauseAssumption == RestartPause \in Nat

VARIABLES
  entries,     \* the names in s.config.entries
  procs,       \* pm.procs and pm.eventListeners: the process of a name, or 0
  born,        \* process objects created so far
  inStart, stopByUser, live,   \* the processes of which Program says so
  reload,      \* control point of Reload
  left,        \* names its current loop has still to visit
  prev,        \* prevPrograms, while Reload runs
  loaded,      \* loadedPrograms, the programs and listeners of the last file
  victim,      \* the process it has removed and not yet stopped, or 0
  req,
  exited,      \* supervisord has ended: by a shutdown, by a reload that failed, or not
  late,        \* processes started, or spawned after a Stop by a restart pause,
               \* since a shutdown listed the programs
  stale        \* processes started after their removal, by an old pointer

confVars   == <<entries, prev, loaded>>
progVars   == <<inStart, stopByUser, live>>
reloadVars == <<reload, left, victim>>
ghostVars  == <<late, stale>>
vars == <<confVars, procs, born, progVars, reloadVars, req, exited, ghostVars>>

Managed == {procs[n] : n \in Names} \ {0}
Idle == [op |-> "none", todo |-> {}, waits |-> {}]

\* pm.lock over several steps: ForEachProcess runs its callback with it.
Locked == reload = "autostart" \/ \E c \in Clients : req[c].op = "signal"

Init ==
  /\ entries = {} /\ prev = {} /\ loaded = {}
  /\ procs = [n \in Names |-> 0] /\ born = 0
  /\ inStart = {} /\ stopByUser = {} /\ live = {}
  /\ reload = "idle" /\ left = {} /\ victim = 0
  /\ req = [c \in Clients |-> Idle]
  /\ exited = "no" /\ late = {} /\ stale = {}

-----------------------------------------------------------------------------
\* Process.Start and Process.Stop, as their callers see them.

AlreadyStarted(p) == p \in inStart

ShuttingDown == \E c \in Clients : req[c].op = "shutdown"

Begin(p) ==
  IF AlreadyStarted(p) THEN UNCHANGED progVars
  ELSE inStart' = inStart \cup {p} /\ stopByUser' = stopByUser \ {p} /\ UNCHANGED live

Start(p) ==
  /\ Begin(p)
  /\ late' = IF ShuttingDown /\ ~AlreadyStarted(p) THEN late \cup {p} ELSE late
  /\ stale' = IF p \notin Managed /\ ~AlreadyStarted(p) THEN stale \cup {p} ELSE stale

Stop(p) ==
  /\ stopByUser' = stopByUser \cup {p}
  /\ stale' = stale \ {p}
  /\ UNCHANGED <<inStart, live, late>>

\* What a program does by itself, as module Program says.
Spawn(p) ==
  /\ p \in inStart \ live
  /\ p \in stopByUser => RestartPause > 0
  /\ live' = live \cup {p}
  /\ late' = IF ShuttingDown /\ p \in stopByUser THEN late \cup {p} ELSE late
  /\ UNCHANGED <<confVars, procs, born, inStart, stopByUser, reloadVars, req, exited, stale>>

End(p) ==
  /\ p \in live
  /\ live' = live \ {p}
  /\ UNCHANGED <<confVars, procs, born, inStart, stopByUser, reloadVars, req, exited, ghostVars>>

Leave(p) ==
  /\ p \in inStart \ live
  /\ inStart' = inStart \ {p}
  /\ UNCHANGED <<confVars, procs, born, stopByUser, live, reloadVars, req, exited, ghostVars>>

-----------------------------------------------------------------------------
\* Reload.

\* Config.Load adds the file's entries to those it has.
Entries_Replaced(f) == f
Entries(f) == entries \cup f

\* Bound: enough process objects are left for what the file adds.
ReloadLoads(f) ==
  /\ reload = "idle"
  /\ born + Cardinality({n \in f : procs[n] = 0}) <= MaxProcesses
  /\ prev' = entries \cap Programs
  /\ entries' = Entries(f) /\ loaded' = f
  /\ reload' = "listeners" /\ left' = entries' \cap Listeners
  /\ UNCHANGED <<procs, born, progVars, victim, req, exited, ghostVars>>

\* checkRequiredResources refuses the limits of the file, and supervisord exits
\* with its children running.  Reload never gets past this point.
ReloadFails(f) ==
  /\ reload = "idle"
  /\ prev' = entries \cap Programs
  /\ entries' = Entries(f) /\ loaded' = f
  /\ reload' = "failed" /\ exited' = "failed"
  /\ UNCHANGED <<procs, born, progVars, left, victim, req, ghostVars>>

\* CreateProcess keeps the process a name already has.
CreateProcess(n) ==
  IF procs[n] # 0 THEN UNCHANGED <<procs, born>>
  ELSE born' = born + 1 /\ procs' = [procs EXCEPT ![n] = born']

\* startEventListeners: create, then Start; nobody else knows the listener.
ReloadStartsListener(n) ==
  /\ reload = "listeners" /\ n \in left /\ ~Locked
  /\ CreateProcess(n)
  /\ Begin(procs'[n])
  /\ left' = left \ {n}
  /\ UNCHANGED <<confVars, reload, victim, req, exited, ghostVars>>

ReloadHasListeners ==
  /\ reload = "listeners" /\ left = {}
  /\ reload' = "create" /\ left' = entries \cap Programs
  /\ UNCHANGED <<confVars, procs, born, progVars, victim, req, exited, ghostVars>>

\* createPrograms: one CreateProcess for each entry.
ReloadCreates(n) ==
  /\ reload = "create" /\ n \in left /\ ~Locked
  /\ CreateProcess(n)
  /\ left' = left \ {n}
  /\ UNCHANGED <<confVars, progVars, reload, victim, req, exited, ghostVars>>

\* createPrograms: Remove what has no entry any more; StartAutoStartPrograms
\* takes pm.lock and lists the programs.
ReloadHasPrograms ==
  /\ reload = "create" /\ left = {} /\ ~Locked
  /\ procs' = [n \in Names |-> IF n \in prev \ entries THEN 0 ELSE procs[n]]
  /\ reload' = "autostart"
  /\ left' = {n \in AutoStart : procs'[n] # 0}
  /\ UNCHANGED <<confVars, born, progVars, victim, req, exited, ghostVars>>

ReloadAutoStarts(n) ==
  /\ reload = "autostart" /\ n \in left
  /\ Start(procs[n])
  /\ left' = left \ {n}
  /\ UNCHANGED <<confVars, procs, born, reload, victim, req, exited>>

\* util.Sub(prevPrograms, loadedPrograms)
Removed_ComparesEntries == prev \ entries
Removed == prev \ loaded

ReloadHasStarted ==
  /\ reload = "autostart" /\ left = {}
  /\ reload' = "remove" /\ left' = Removed
  /\ UNCHANGED <<confVars, procs, born, progVars, victim, req, exited, ghostVars>>

\* RemoveProgram and procMgr.Remove.
ReloadRemoves(n) ==
  /\ reload = "remove" /\ n \in left /\ victim = 0 /\ ~Locked
  /\ entries' = entries \ {n}
  /\ victim' = procs[n] /\ procs' = [procs EXCEPT ![n] = 0]
  /\ left' = left \ {n}
  /\ UNCHANGED <<prev, loaded, born, progVars, reload, req, exited, ghostVars>>

ReloadStops ==
  /\ reload = "remove" /\ victim # 0
  /\ Stop(victim)
  /\ victim' = 0
  /\ UNCHANGED <<confVars, procs, born, reload, left, req, exited>>

ReloadReturns ==
  /\ reload = "remove" /\ left = {} /\ victim = 0
  /\ reload' = "idle" /\ prev' = {}
  /\ UNCHANGED <<entries, loaded, procs, born, progVars, left, victim, req, exited, ghostVars>>

Reload ==
  \/ \E f \in Files : ReloadLoads(f) \/ ReloadFails(f)
  \/ \E n \in Names : ReloadStartsListener(n) \/ ReloadCreates(n) \/ ReloadAutoStarts(n) \/ ReloadRemoves(n)
  \/ ReloadHasListeners \/ ReloadHasPrograms \/ ReloadHasStarted \/ ReloadStops \/ ReloadReturns

-----------------------------------------------------------------------------
\* Requests.

\* FindMatch and getAllProcess: the processes are looked up once.
Call(c, op, names) ==
  /\ op \in Operations[c] /\ req[c] = Idle /\ ~Locked
  /\ op = "shutdown" \/ \E n \in names : procs[n] # 0
  /\ req' = [req EXCEPT ![c] = [op |-> op, todo |-> {procs[n] : n \in names} \ {0}, waits |-> {}]]
  /\ UNCHANGED <<confVars, procs, born, progVars, reloadVars, exited, ghostVars>>

\* The programs a request of kind op reaches next.
Pending(c, op, p) == req[c].op = op /\ p \in req[c].todo

Done(c, p) ==
  LET r == [req[c] EXCEPT !.todo = @ \ {p}]
  IN req' = [req EXCEPT ![c] = IF r.todo = {} THEN Idle ELSE r]

\* StartProcess, StartProcessGroup, StartAllProcesses.
StartOne(c, p) ==
  /\ Pending(c, "start", p)
  /\ Start(p) /\ Done(c, p)
  /\ UNCHANGED <<confVars, procs, born, reloadVars, exited>>

\* StopProcess, StopProcessGroup, StopAllProcesses.
StopOne(c, p) ==
  /\ Pending(c, "stop", p)
  /\ Stop(p) /\ Done(c, p)
  /\ UNCHANGED <<confVars, procs, born, reloadVars, exited>>

\* SignalProcessGroup, SignalAllProcesses, with pm.lock; SignalProcess is the same
\* without it, and changes nothing either.  Kill returns on a SIGCHLD or after
\* stopwaitsecs; that a child may end is End.
SignalOne(c, p) ==
  /\ Pending(c, "signal", p)
  /\ Done(c, p)
  /\ UNCHANGED <<confVars, procs, born, progVars, reloadVars, exited, ghostVars>>

\* Shutdown, and the service's Stop: Stop(true) of every program at once,
\* then exit.
ShutdownStops(c, p) ==
  /\ Pending(c, "shutdown", p)
  /\ Stop(p)
  /\ req' = [req EXCEPT ![c].todo = @ \ {p}, ![c].waits = @ \cup {p}]
  /\ UNCHANGED <<confVars, procs, born, reloadVars, exited>>

\* Stop(true) returns when IsRunning is false, so without a child.  (A program
\* whose state was left at Stopping keeps it, and the shutdown, for ever: with
\* this guard they may go on.)
StopReturns_AtOnce(p) == TRUE
StopReturns(p) == p \notin live

ShutdownWaits(c, p) ==
  /\ p \in req[c].waits /\ StopReturns(p)
  /\ req' = [req EXCEPT ![c].waits = @ \ {p}]
  /\ UNCHANGED <<confVars, procs, born, progVars, reloadVars, exited, ghostVars>>

ShutdownExits(c) ==
  /\ req[c].op = "shutdown" /\ req[c].todo = {} /\ req[c].waits = {}
  /\ exited' = "shutdown"
  /\ UNCHANGED <<confVars, procs, born, progVars, reloadVars, req, ghostVars>>

Request(c) ==
  \/ \E s \in Selections, op \in {"start", "stop", "signal"} : Call(c, op, s)
  \/ Call(c, "shutdown", Programs)
  \/ \E p \in Processes :
       StartOne(c, p) \/ StopOne(c, p) \/ SignalOne(c, p) \/ ShutdownStops(c, p) \/ ShutdownWaits(c, p)
  \/ ShutdownExits(c)

-----------------------------------------------------------------------------
\* The closures that hold a process pointer: the cron schedule starts it, a file
\* monitor or a liveness check stops and starts it or only stops it.  Nothing ever
\* unregisters them, and they ask nobody whether the program is still managed.

CallbackStarts(p) ==
  /\ p \in Callbacks /\ p <= born
  /\ Start(p)
  /\ UNCHANGED <<confVars, procs, born, reloadVars, req, exited>>

CallbackStops(p) ==
  /\ p \in Callbacks /\ p <= born
  /\ Stop(p)
  /\ UNCHANGED <<confVars, procs, born, reloadVars, req, exited>>

Next ==
  /\ exited = "no"
  /\ \/ Reload
     \/ \E c \in Clients : Request(c)
     \/ \E p \in Processes : \/ Spawn(p) \/ End(p) \/ Leave(p)
                            \/ CallbackStarts(p) \/ CallbackStops(p)

Spec == Init /\ [][Next]_vars

-----------------------------------------------------------------------------
(* Properties.                                                               *)

TypeOK ==
  /\ entries \subseteq Names /\ prev \subseteq Programs /\ loaded \subseteq Names
  /\ born \in 0 .. MaxProcesses /\ procs \in [Names -> 0 .. born]
  /\ inStart \subseteq 1 .. born /\ stopByUser \subseteq 1 .. born /\ live \subseteq 1 .. born
  /\ reload \in {"idle", "failed", "listeners", "create", "autostart", "remove"}
  /\ left \subseteq Names /\ victim \in 0 .. born
  /\ req \in [Clients -> [op : {"none", "start", "stop", "signal", "shutdown"}, todo : SUBSET (1 .. born), waits : SUBSET (1 .. born)]]
  /\ exited \in {"no", "shutdown", "failed"} /\ late \subseteq 1 .. born /\ stale \subseteq 1 .. born

\* After a reload the configuration and the process manager agree with the
\* file: exactly its programs have an entry and a process, whatever was loaded
\* before and whatever clients did meanwhile.
ReloadConverges ==
  reload = "idle" =>
    /\ entries \cap Programs = loaded \cap Programs
    /\ \A n \in Programs : procs[n] # 0 <=> n \in loaded

\* A process that no name leads to any more has been told to stop since it was
\* last started, even if the reload that removed it had just started it, unless
\* it is the one that reload is about to stop, or somebody with an old pointer
\* started it afterwards: a request that had looked it up before the removal, or a
\* callback, at any time.  A removed program that runs again is those two's doing,
\* never the reload's.
RemovedIsStopped ==
  \A p \in 1 .. born : p \in Managed \/ p = victim \/ p \in stopByUser \/ p \in stale

\* When a shutdown has ended supervisord, no program the manager has is left with
\* a child, unless somebody started it after the shutdown had listed the programs,
\* or a restart pause let its child be born after the Stop.  (Event listeners and
\* programs that a reload removed are not listed.  A reload that fails ends
\* supervisord with every child running: nothing is claimed of it.)
ShutdownStopsAll ==
  exited = "shutdown" => \A n \in Programs : procs[n] \in live => procs[n] \in late
=============================================================================
