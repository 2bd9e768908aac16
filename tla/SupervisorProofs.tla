-------------------------- MODULE SupervisorProofs --------------------------
(***************************************************************************)
(* Proofs about Supervisor, for any names, configuration files, clients    *)
(* and requests.                                                           *)
(***************************************************************************)
EXTENDS Supervisor, FiniteSetTheorems, TLAPS

USE NamesAssumption, FilesAssumption, SelectionsAssumption, OperationsAssumption, MaxProcessesAssumption,
    CallbacksAssumption, RestartPauseAssumption
    DEF Names, Processes

-----------------------------------------------------------------------------
(* The inductive invariant.                                                  *)

\* TypeOK without the bound of the runs on the number of processes.
Typed ==
  /\ entries \subseteq Names /\ prev \subseteq Programs /\ loaded \subseteq Names
  /\ born \in Nat /\ procs \in [Names -> 0 .. born]
  /\ inStart \subseteq 1 .. born /\ stopByUser \subseteq 1 .. born /\ live \subseteq inStart
  /\ reload \in {"idle", "failed", "listeners", "create", "autostart", "remove"}
  /\ left \subseteq Names /\ victim \in 0 .. born
  /\ late \subseteq 1 .. born /\ stale \subseteq 1 .. born

Requests ==
  req \in [Clients -> [op : {"none", "start", "stop", "signal", "shutdown"},
                       todo : SUBSET (1 .. born), waits : SUBSET (1 .. born)]]

\* Two names never share a process.
Distinct == \A m, n \in Names : procs[m] = procs[n] /\ procs[m] # 0 => m = n

\* What a reload has still to do to make the programs those of the file: before
\* the removals the entries are the old ones and the file's.
Merged == entries \cap Programs = prev \cup (loaded \cap Programs)

ReloadPhases ==
  /\ reload = "idle" => ReloadConverges
  /\ reload # "remove" => victim = 0
  /\ reload = "listeners" =>
       /\ Merged /\ left \subseteq Listeners
       /\ \A n \in Programs : procs[n] # 0 <=> n \in prev
  /\ reload = "create" =>
       /\ Merged /\ left \subseteq entries \cap Programs
       /\ \A n \in Programs : procs[n] # 0 <=> n \in prev \cup (entries \ left)
  /\ reload = "autostart" =>
       /\ Merged /\ \A n \in left : procs[n] # 0
       /\ \A n \in Programs : procs[n] # 0 <=> n \in entries
  /\ reload = "remove" =>
       /\ entries \cap Programs = (loaded \cap Programs) \cup left
       /\ left \subseteq Programs \ loaded
       /\ \A n \in Programs : procs[n] # 0 <=> n \in entries

\* A process that a shutdown has listed is still to be stopped, or was stopped
\* and has or had a child to wait for, or was started since.
Covered(c, p) ==
  \/ p \in late
  \/ p \in req[c].todo
  \/ p \in req[c].waits /\ p \in stopByUser
  \/ p \notin live /\ (p \in stopByUser \/ p \notin inStart)

Shutdowns ==
  /\ \A c \in Clients : req[c].op = "shutdown" => \A n \in Programs : procs[n] # 0 => Covered(c, procs[n])
  /\ ShutdownStopsAll

IInv == Typed /\ Requests /\ Distinct /\ ReloadPhases /\ RemovedIsStopped /\ Shutdowns

-----------------------------------------------------------------------------
LEMMA InitIInv == Init => IInv
  <1> SUFFICES ASSUME Init PROVE IInv
    OBVIOUS
  <1> USE DEF Init
  <1>1. Typed
    BY DEF Typed
  <1>2. Requests
    BY DEF Requests, Idle
  <1>3. Distinct /\ ReloadPhases /\ RemovedIsStopped
    BY DEF Distinct, ReloadPhases, ReloadConverges, RemovedIsStopped
  <1>4. Shutdowns
    BY DEF Shutdowns, ShutdownStopsAll, Idle
  <1> QED  BY <1>1, <1>2, <1>3, <1>4 DEF IInv

-----------------------------------------------------------------------------
\* A step of a program by itself keeps the invariant.
LEMMA ProgramStep ==
  ASSUME IInv, exited = "no", NEW p \in Processes, Spawn(p) \/ End(p) \/ Leave(p)
  PROVE  IInv'
  <1> USE DEF IInv
  <1>1. /\ UNCHANGED <<entries, prev, loaded, procs, born, stopByUser, reload, left, victim, req, stale>>
        /\ exited' = "no" /\ late \subseteq late' /\ late' \subseteq late \cup (inStart \cap {p})
    BY DEF Spawn, End, Leave, confVars, reloadVars, ghostVars
  <1>2. Typed'
    BY <1>1 DEF Typed, Spawn, End, Leave
  <1>3. Requests' /\ Distinct'
    BY <1>1 DEF Requests, Distinct
  <1>4. ReloadPhases'
    BY <1>1 DEF ReloadPhases, ReloadConverges, Merged
  <1>5. RemovedIsStopped'
    BY <1>1 DEF RemovedIsStopped, Managed
  <1>6. Shutdowns'
    <2> SUFFICES ASSUME NEW c \in Clients, req[c].op = "shutdown", NEW m \in Programs, procs[m] # 0
                 PROVE  Covered(c, procs[m])'
      BY <1>1 DEF Shutdowns, ShutdownStopsAll
    <2>1. Covered(c, procs[m]) /\ ShuttingDown
      BY DEF Shutdowns, ShuttingDown
    <2>2. CASE Spawn(p)
      BY <1>1, <2>1, <2>2 DEF Covered, Spawn
    <2>3. CASE End(p) \/ Leave(p)
      BY <1>1, <2>1, <2>3 DEF Covered, End, Leave
    <2> QED  BY <2>2, <2>3
  <1> QED  BY <1>2, <1>3, <1>4, <1>5, <1>6

-----------------------------------------------------------------------------
\* What a Start and a Stop do to the sets of processes.

\* A Start of a process without an entry in the manager is remembered in stale,
\* one during a shutdown in late.
LEMMA StartEffect ==
  ASSUME IInv, NEW p \in 1 .. born, Start(p)
  PROVE  /\ live' = live /\ inStart \subseteq inStart' /\ inStart' \subseteq inStart \cup {p}
         /\ stopByUser' \subseteq stopByUser /\ stopByUser \ {p} \subseteq stopByUser'
         /\ late \subseteq late' /\ late' \subseteq late \cup {p}
         /\ stale \subseteq stale' /\ stale' \subseteq stale \cup {p}
         /\ p \in stopByUser \ stopByUser' => p \in Managed \/ p \in stale'
         /\ ShuttingDown /\ (p \in stopByUser \ stopByUser' \/ p \in inStart' \ inStart) => p \in late'
  BY DEF Start, Begin, AlreadyStarted, progVars

LEMMA StopEffect ==
  ASSUME NEW p \in 1 .. born, Stop(p)
  PROVE  /\ stopByUser' = stopByUser \cup {p} /\ stale' = stale \ {p}
         /\ live' = live /\ inStart' = inStart /\ late' = late
  BY DEF Stop

\* A step of Reload that leaves every process's name and state alone.
LEMMA ReloadQuietStep ==
  ASSUME IInv, exited = "no", (\E f \in Files : ReloadLoads(f)) \/ ReloadHasListeners \/ ReloadHasStarted \/ ReloadReturns
  PROVE  IInv'
  <1> USE DEF IInv
  <1>1. UNCHANGED <<procs, born, inStart, stopByUser, live, req, late, stale, victim>> /\ exited' = "no"
    <2>1. CASE \E f \in Files : ReloadLoads(f)
      BY <2>1 DEF ReloadLoads, progVars, ghostVars
    <2>2. CASE ReloadHasListeners \/ ReloadHasStarted \/ ReloadReturns
      BY <2>2 DEF ReloadHasListeners, ReloadHasStarted, ReloadReturns, progVars, ghostVars
    <2> QED  BY <2>1, <2>2
  <1>2. Typed'
    <2>1. CASE \E f \in Files : ReloadLoads(f)
      BY <1>1, <2>1 DEF Typed, ReloadLoads, Entries
    <2>2. CASE ReloadHasListeners \/ ReloadHasStarted \/ ReloadReturns
      BY <1>1, <2>2 DEF Typed, ReloadHasListeners, ReloadHasStarted, ReloadReturns, Removed, confVars
    <2> QED  BY <2>1, <2>2
  <1>3. Requests' /\ Distinct' /\ RemovedIsStopped'
    BY <1>1 DEF Requests, Distinct, RemovedIsStopped, Managed
  <1>4. ReloadPhases'
    <2>1. CASE \E f \in Files : ReloadLoads(f)
      BY <1>1, <2>1 DEF Typed, ReloadPhases, Merged, ReloadConverges, ReloadLoads, Entries
    <2>2. CASE ReloadHasListeners
      BY <1>1, <2>2 DEF Typed, ReloadPhases, Merged, ReloadHasListeners, confVars
    <2>3. CASE ReloadHasStarted
      BY <1>1, <2>3 DEF Typed, ReloadPhases, Merged, ReloadHasStarted, Removed, confVars
    <2>4. CASE ReloadReturns
      BY <1>1, <2>4 DEF Typed, ReloadPhases, Merged, ReloadConverges, ReloadReturns
    <2> QED  BY <2>1, <2>2, <2>3, <2>4
  <1>5. Shutdowns'
    BY <1>1 DEF Shutdowns, ShutdownStopsAll, Covered
  <1> QED  BY <1>2, <1>3, <1>4, <1>5

\* Nor does the reload that ends supervisord; it never comes back to say so.
LEMMA ReloadFailsStep ==
  ASSUME IInv, exited = "no", NEW f \in Files, ReloadFails(f)
  PROVE  IInv'
  <1> USE DEF IInv
  <1>1. /\ UNCHANGED <<procs, born, inStart, stopByUser, live, req, late, stale, victim, left>>
        /\ reload = "idle" /\ reload' = "failed" /\ exited' = "failed"
        /\ prev' = entries \cap Programs /\ entries' = entries \cup f /\ loaded' = f
    BY DEF ReloadFails, progVars, ghostVars, Entries
  <1>2. Typed'
    BY <1>1 DEF Typed
  <1>3. Requests' /\ Distinct' /\ RemovedIsStopped'
    BY <1>1 DEF Requests, Distinct, RemovedIsStopped, Managed
  <1>4. ReloadPhases'
    BY <1>1 DEF ReloadPhases
  <1>5. Shutdowns'
    BY <1>1 DEF Shutdowns, ShutdownStopsAll, Covered
  <1> QED  BY <1>2, <1>3, <1>4, <1>5

\* A process that is created has a number no process, and no request, had before.
LEMMA CreateEffect ==
  ASSUME IInv, NEW n \in Names, CreateProcess(n)
  PROVE  /\ born' \in Nat /\ born' >= born /\ procs' \in [Names -> 0 .. born']
         /\ procs'[n] # 0 /\ \A m \in Names \ {n} : procs'[m] = procs[m]
         /\ procs'[n] = procs[n] \/ (procs[n] = 0 /\ procs'[n] = born + 1 /\ born' = born + 1)
         /\ born' \in {born, born + 1} /\ (born' = born + 1 => procs'[n] = born')
         /\ Requests /\ req' = req => Requests'
         /\ Distinct' /\ Managed \subseteq Managed'
  <1> USE DEF IInv
  <1>1. /\ born' \in Nat /\ born' >= born /\ procs' \in [Names -> 0 .. born']
        /\ procs'[n] # 0 /\ \A m \in Names \ {n} : procs'[m] = procs[m]
        /\ procs'[n] = procs[n] \/ (procs[n] = 0 /\ procs'[n] = born + 1 /\ born' = born + 1)
        /\ born' \in {born, born + 1} /\ (born' = born + 1 => procs'[n] = born')
    BY DEF Typed, CreateProcess
  <1>2. Requests /\ req' = req => Requests'
    <2> SUFFICES ASSUME Requests, req' = req PROVE Requests'
      OBVIOUS
    <2>1. 1 .. born \subseteq 1 .. born'
      BY <1>1 DEF Typed
    <2> QED  BY <2>1 DEF Requests
  <1>3. Distinct'
    BY <1>1 DEF Typed, Distinct
  <1>4. Managed \subseteq Managed'
    BY <1>1 DEF Managed
  <1> QED  BY <1>1, <1>2, <1>3, <1>4

LEMMA CreatesStep ==
  ASSUME IInv, exited = "no", NEW n \in Names, ReloadCreates(n)
  PROVE  IInv'
  <1> USE DEF IInv
  <1>1. /\ UNCHANGED <<entries, prev, loaded, inStart, stopByUser, live, reload, victim, req, late, stale>>
        /\ exited' = "no" /\ reload = "create" /\ n \in left /\ left' = left \ {n} /\ CreateProcess(n)
    BY DEF ReloadCreates, confVars, progVars, ghostVars
  <1>2. /\ born' \in Nat /\ born' >= born /\ procs' \in [Names -> 0 .. born']
        /\ procs'[n] # 0 /\ \A m \in Names \ {n} : procs'[m] = procs[m]
        /\ procs'[n] = procs[n] \/ procs'[n] = born + 1
        /\ born' \in {born, born + 1} /\ (born' = born + 1 => procs'[n] = born')
        /\ Requests' /\ Distinct' /\ Managed \subseteq Managed'
    BY <1>1, CreateEffect
  <1>3. Typed'
    BY <1>1, <1>2 DEF Typed
  <1>4. ReloadPhases'
    BY <1>1, <1>2 DEF Typed, ReloadPhases, Merged
  <1>5. RemovedIsStopped'
    BY <1>1, <1>2 DEF Typed, RemovedIsStopped, Managed
  <1>6. Shutdowns'
    <2> SUFFICES ASSUME NEW c \in Clients, req[c].op = "shutdown", NEW m \in Programs, procs'[m] # 0
                 PROVE  Covered(c, procs[m])'
      BY <1>1 DEF Shutdowns, ShutdownStopsAll
    <2>1. CASE procs'[m] = procs[m]
      BY <1>1, <2>1 DEF Shutdowns, Covered
    <2>2. CASE procs'[m] = born + 1
      BY <1>1, <2>2 DEF Typed, Covered
    <2> QED  BY <1>2, <2>1, <2>2
  <1> QED  BY <1>2, <1>3, <1>4, <1>5, <1>6

\* The process of a listener is no program's: a shutdown need not know of it.
LEMMA ListenerStep ==
  ASSUME IInv, exited = "no", NEW n \in Names, ReloadStartsListener(n)
  PROVE  IInv'
  <1> USE DEF IInv
  <1>1. /\ UNCHANGED <<entries, prev, loaded, reload, victim, req, late, stale>>
        /\ exited' = "no" /\ reload = "listeners" /\ n \in left /\ left' = left \ {n}
        /\ CreateProcess(n) /\ Begin(procs'[n])
    BY DEF ReloadStartsListener, confVars, ghostVars
  <1>2. /\ born' \in Nat /\ born' >= born /\ procs' \in [Names -> 0 .. born']
        /\ procs'[n] # 0 /\ \A m \in Names \ {n} : procs'[m] = procs[m]
        /\ born' \in {born, born + 1} /\ (born' = born + 1 => procs'[n] = born')
        /\ Requests' /\ Distinct' /\ Managed \subseteq Managed'
    BY <1>1, CreateEffect
  <1>3. /\ live' = live /\ inStart \subseteq inStart' /\ inStart' \subseteq inStart \cup {procs'[n]}
        /\ stopByUser' \subseteq stopByUser /\ stopByUser \ {procs'[n]} \subseteq stopByUser'
    BY <1>1 DEF Begin, AlreadyStarted, progVars
  <1>4. n \in Listeners /\ n \notin Programs
    BY <1>1 DEF ReloadPhases
  <1>5. Typed'
    BY <1>1, <1>2, <1>3 DEF Typed
  <1>6. ReloadPhases'
    BY <1>1, <1>2, <1>4 DEF Typed, ReloadPhases, Merged
  <1>7. RemovedIsStopped'
    <2>1. procs'[n] \in Managed'
      BY <1>2 DEF Managed
    <2> QED  BY <1>1, <1>2, <1>3, <2>1 DEF Typed, RemovedIsStopped
  <1>8. Shutdowns'
    <2> SUFFICES ASSUME NEW c \in Clients, req[c].op = "shutdown", NEW m \in Programs, procs'[m] # 0
                 PROVE  Covered(c, procs[m])'
      BY <1>1 DEF Shutdowns, ShutdownStopsAll
    <2>1. procs'[m] = procs[m] /\ procs'[m] # procs'[n]
      BY <1>2, <1>4 DEF Distinct
    <2>2. Covered(c, procs[m])
      BY <2>1 DEF Shutdowns
    <2> QED  BY <1>1, <1>3, <2>1, <2>2 DEF Covered
  <1> QED  BY <1>2, <1>5, <1>6, <1>7, <1>8

\* Before the automatic starts nothing is removed: the entries still contain
\* all that was loaded before.
LEMMA HasProgramsStep == ASSUME IInv, exited = "no", ReloadHasPrograms PROVE IInv'
  <1> USE DEF IInv
  <1>1. /\ UNCHANGED <<entries, prev, loaded, born, inStart, stopByUser, live, victim, req, late, stale>>
        /\ exited' = "no" /\ reload = "create" /\ left = {} /\ reload' = "autostart"
        /\ procs' = [n \in Names |-> IF n \in prev \ entries THEN 0 ELSE procs[n]]
        /\ left' = {n \in AutoStart : procs'[n] # 0}
    BY DEF ReloadHasPrograms, confVars, progVars, ghostVars
  <1>2. procs' = procs
    <2>1. prev \subseteq entries  BY <1>1 DEF ReloadPhases, Merged
    <2> QED  BY <1>1, <2>1 DEF Typed
  <1>3. Typed'
    BY <1>1, <1>2 DEF Typed
  <1>4. Requests' /\ Distinct' /\ RemovedIsStopped'
    BY <1>1, <1>2 DEF Requests, Distinct, RemovedIsStopped, Managed
  <1>5. ReloadPhases'
    BY <1>1, <1>2 DEF Typed, ReloadPhases, Merged
  <1>6. Shutdowns'
    BY <1>1, <1>2 DEF Shutdowns, ShutdownStopsAll, Covered
  <1> QED  BY <1>3, <1>4, <1>5, <1>6

\* A Start keeps the parts of the invariant about processes.
LEMMA StartStep ==
  ASSUME IInv, exited' = "no", NEW p \in 1 .. born, Start(p),
         UNCHANGED <<entries, prev, loaded, procs, born, victim, reload>>,
         left' \subseteq Names,
         \A c \in Clients : req'[c].op = "shutdown" => req'[c] = req[c]
  PROVE  Typed' /\ RemovedIsStopped' /\ Shutdowns'
  <1> USE DEF IInv
  <1>1. /\ live' = live /\ inStart \subseteq inStart' /\ inStart' \subseteq inStart \cup {p}
        /\ stopByUser' \subseteq stopByUser /\ stopByUser \ {p} \subseteq stopByUser'
        /\ late \subseteq late' /\ late' \subseteq late \cup {p}
        /\ stale \subseteq stale' /\ stale' \subseteq stale \cup {p}
        /\ p \in stopByUser \ stopByUser' => p \in Managed \/ p \in stale'
        /\ ShuttingDown /\ (p \in stopByUser \ stopByUser' \/ p \in inStart' \ inStart) => p \in late'
    BY StartEffect
  <1>2. Typed'
    BY <1>1 DEF Typed
  <1>3. RemovedIsStopped'
    BY <1>1 DEF RemovedIsStopped, Managed
  <1>4. Shutdowns'
    <2> SUFFICES ASSUME NEW c \in Clients, req'[c].op = "shutdown", NEW m \in Programs, procs[m] # 0
                 PROVE  Covered(c, procs[m])'
      BY DEF Shutdowns, ShutdownStopsAll
    <2>1. req'[c] = req[c] /\ Covered(c, procs[m]) /\ ShuttingDown
      BY DEF Shutdowns, ShuttingDown
    <2>2. CASE procs[m] = p
      BY <1>1, <2>1, <2>2 DEF Covered
    <2>3. CASE procs[m] # p
      BY <1>1, <2>1, <2>3 DEF Covered
    <2> QED  BY <2>2, <2>3
  <1> QED  BY <1>2, <1>3, <1>4

\* A Stop too.
LEMMA StopStep ==
  ASSUME IInv, exited' = "no", NEW p \in 1 .. born, Stop(p),
         UNCHANGED <<entries, prev, loaded, procs, born, reload>>,
         left' \subseteq Names, victim' = victim \/ (victim = p /\ victim' = 0),
         \A c \in Clients : req'[c].op = "shutdown" =>
           /\ req[c].op = "shutdown" /\ req[c].waits \subseteq req'[c].waits
           /\ req[c].todo \subseteq req'[c].todo \cup (req'[c].waits \cap {p})
  PROVE  Typed' /\ RemovedIsStopped' /\ Shutdowns'
  <1> USE DEF IInv
  <1>1. /\ stopByUser' = stopByUser \cup {p} /\ stale' = stale \ {p}
        /\ live' = live /\ inStart' = inStart /\ late' = late
    BY StopEffect
  <1>2. Typed'
    BY <1>1 DEF Typed
  <1>3. RemovedIsStopped'
    BY <1>1 DEF RemovedIsStopped, Managed
  <1>4. Shutdowns'
    <2> SUFFICES ASSUME NEW c \in Clients, req'[c].op = "shutdown", NEW m \in Programs, procs[m] # 0
                 PROVE  Covered(c, procs[m])'
      BY DEF Shutdowns, ShutdownStopsAll
    <2>1. Covered(c, procs[m])
      BY DEF Shutdowns
    <2> QED  BY <1>1, <2>1 DEF Covered
  <1> QED  BY <1>2, <1>3, <1>4

LEMMA AutoStartsStep == ASSUME IInv, exited = "no", NEW n \in Names, ReloadAutoStarts(n) PROVE IInv'
  <1> USE DEF IInv
  <1>1. /\ UNCHANGED <<entries, prev, loaded, procs, born, reload, victim, req>> /\ exited' = "no"
        /\ reload = "autostart" /\ n \in left /\ left' = left \ {n} /\ Start(procs[n])
    BY DEF ReloadAutoStarts, confVars
  <1>2. procs[n] \in 1 .. born
    BY <1>1 DEF Typed, ReloadPhases
  <1>3. Typed' /\ RemovedIsStopped' /\ Shutdowns'
    <2>1. left' \subseteq Names  BY <1>1 DEF Typed
    <2> QED  BY <1>1, <1>2, <2>1, StartStep
  <1>4. Requests' /\ Distinct'
    BY <1>1 DEF Requests, Distinct
  <1>5. ReloadPhases'
    BY <1>1 DEF ReloadPhases, Merged
  <1> QED  BY <1>3, <1>4, <1>5

\* A process is forgotten by the manager before it is stopped: in between it is
\* the reload's victim.
LEMMA RemovesStep == ASSUME IInv, exited = "no", NEW n \in Names, ReloadRemoves(n) PROVE IInv'
  <1> USE DEF IInv
  <1>1. /\ UNCHANGED <<prev, loaded, born, inStart, stopByUser, live, reload, req, late, stale>> /\ exited' = "no"
        /\ reload = "remove" /\ n \in left /\ victim = 0 /\ left' = left \ {n}
        /\ entries' = entries \ {n} /\ victim' = procs[n] /\ procs' = [procs EXCEPT ![n] = 0]
    BY DEF ReloadRemoves, progVars, ghostVars
  <1>2. Typed'
    BY <1>1 DEF Typed
  <1>3. Requests' /\ Distinct'
    BY <1>1 DEF Typed, Requests, Distinct
  <1>4. ReloadPhases'
    BY <1>1 DEF Typed, ReloadPhases
  <1>5. RemovedIsStopped'
    <2>1. Managed \subseteq Managed' \cup {procs[n]}
      BY <1>1 DEF Typed, Managed
    <2> QED  BY <1>1, <2>1 DEF RemovedIsStopped, Typed
  <1>6. Shutdowns'
    <2> SUFFICES ASSUME NEW c \in Clients, req[c].op = "shutdown", NEW m \in Programs, procs'[m] # 0
                 PROVE  Covered(c, procs[m])'
      BY <1>1 DEF Shutdowns, ShutdownStopsAll
    <2>1. procs'[m] = procs[m]  BY <1>1 DEF Typed
    <2> QED  BY <1>1, <2>1 DEF Shutdowns, Covered
  <1> QED  BY <1>2, <1>3, <1>4, <1>5, <1>6

LEMMA StopsStep == ASSUME IInv, exited = "no", ReloadStops PROVE IInv'
  <1> USE DEF IInv
  <1>1. /\ UNCHANGED <<entries, prev, loaded, procs, born, reload, left, req>> /\ exited' = "no"
        /\ reload = "remove" /\ victim # 0 /\ victim' = 0 /\ Stop(victim)
    BY DEF ReloadStops, confVars
  <1>2. victim \in 1 .. born /\ left' \subseteq Names
    BY <1>1 DEF Typed
  <1>3. Typed' /\ RemovedIsStopped' /\ Shutdowns'
    BY <1>1, <1>2, StopStep
  <1>4. Requests' /\ Distinct'
    BY <1>1 DEF Requests, Distinct
  <1>5. ReloadPhases'
    BY <1>1 DEF ReloadPhases
  <1> QED  BY <1>3, <1>4, <1>5

-----------------------------------------------------------------------------
\* Requests.

\* A request leaves the other requests alone and never becomes a shutdown.
LEMMA DoneEffect ==
  ASSUME IInv, NEW c \in Clients, NEW p, req[c].op # "shutdown", Done(c, p), born' = born
  PROVE  Requests' /\ \A d \in Clients : req'[d].op = "shutdown" => req'[d] = req[d]
  <1>1. req \in [Clients -> [op : {"none", "start", "stop", "signal", "shutdown"},
                             todo : SUBSET (1 .. born), waits : SUBSET (1 .. born)]]
    BY DEF IInv, Requests
  <1> DEFINE r == [req[c] EXCEPT !.todo = @ \ {p}]
  <1>2. /\ r \in [op : {"none", "start", "stop", "signal", "shutdown"},
                  todo : SUBSET (1 .. born), waits : SUBSET (1 .. born)]
        /\ r.op = req[c].op
        /\ req' = [req EXCEPT ![c] = IF r.todo = {} THEN Idle ELSE r]
    BY <1>1 DEF Done
  <1> HIDE DEF r
  <1> QED  BY <1>1, <1>2 DEF Requests, Idle

LEMMA CallStep ==
  ASSUME IInv, exited = "no", NEW c \in Clients, NEW op \in {"start", "stop", "signal", "shutdown"},
         NEW s \in SUBSET Programs, op = "shutdown" => s = Programs, Call(c, op, s)
  PROVE  IInv'
  <1> USE DEF IInv
  <1>1. /\ UNCHANGED <<entries, prev, loaded, procs, born, inStart, stopByUser, live, reload, left, victim, late, stale>>
        /\ exited' = "no"
        /\ req' = [req EXCEPT ![c] = [op |-> op, todo |-> {procs[n] : n \in s} \ {0}, waits |-> {}]]
    BY DEF Call, confVars, progVars, reloadVars, ghostVars
  <1>2. {procs[n] : n \in s} \ {0} \in SUBSET (1 .. born)
    BY DEF Typed
  <1>3. Requests'
    BY <1>1, <1>2 DEF Requests
  <1>4. Typed' /\ Distinct' /\ RemovedIsStopped'
    BY <1>1 DEF Typed, Distinct, RemovedIsStopped, Managed
  <1>5. ReloadPhases'
    BY <1>1 DEF ReloadPhases, ReloadConverges, Merged
  <1>6. Shutdowns'
    <2> SUFFICES ASSUME NEW d \in Clients, req'[d].op = "shutdown", NEW m \in Programs, procs[m] # 0
                 PROVE  Covered(d, procs[m])'
      BY <1>1 DEF Shutdowns, ShutdownStopsAll
    <2>1. CASE d = c
      BY <1>1, <2>1 DEF Requests, Covered
    <2>2. CASE d # c
      <3>1. req'[d] = req[d]  BY <1>1, <2>2 DEF Requests
      <3> QED  BY <1>1, <3>1 DEF Shutdowns, Covered
    <2> QED  BY <2>1, <2>2
  <1> QED  BY <1>3, <1>4, <1>5, <1>6

LEMMA OneStep ==
  ASSUME IInv, exited = "no", NEW c \in Clients, NEW p \in Processes,
         StartOne(c, p) \/ StopOne(c, p) \/ SignalOne(c, p)
  PROVE  IInv'
  <1> USE DEF IInv
  <1>1. /\ UNCHANGED <<entries, prev, loaded, procs, born, reload, left, victim>> /\ exited' = "no"
        /\ p \in req[c].todo /\ req[c].op # "shutdown" /\ Done(c, p)
        /\ Start(p) \/ Stop(p) \/ UNCHANGED <<inStart, stopByUser, live, late, stale>>
    BY DEF StartOne, StopOne, SignalOne, Pending, confVars, progVars, reloadVars, ghostVars
  <1>2. p \in 1 .. born /\ left' \subseteq Names
    BY <1>1 DEF Requests, Typed
  <1>3. Requests' /\ \A d \in Clients : req'[d].op = "shutdown" => req'[d] = req[d]
    BY <1>1, DoneEffect
  <1>4. Typed' /\ RemovedIsStopped' /\ Shutdowns'
    <2>1. CASE Start(p)
      BY <1>1, <1>2, <1>3, <2>1, StartStep
    <2>2. CASE Stop(p)
      BY <1>1, <1>2, <1>3, <2>2, StopStep
    <2>3. CASE UNCHANGED <<inStart, stopByUser, live, late, stale>>
      BY <1>1, <1>3, <2>3 DEF Typed, RemovedIsStopped, Managed, Shutdowns, ShutdownStopsAll, Covered
    <2> QED  BY <1>1, <2>1, <2>2, <2>3
  <1>5. Distinct' /\ ReloadPhases'
    BY <1>1 DEF Distinct, ReloadPhases, ReloadConverges, Merged
  <1> QED  BY <1>3, <1>4, <1>5

\* A shutdown moves a program from todo to waits when it stops it, and from
\* waits when it has no child, which a stopped program does not get again.
LEMMA ShutdownStep ==
  ASSUME IInv, exited = "no", NEW c \in Clients, NEW p \in Processes, ShutdownStops(c, p) \/ ShutdownWaits(c, p)
  PROVE  IInv'
  <1> USE DEF IInv
  <1>1. /\ UNCHANGED <<entries, prev, loaded, procs, born, reload, left, victim>> /\ exited' = "no"
        /\ p \in req[c].todo \cup req[c].waits
    BY DEF ShutdownStops, ShutdownWaits, Pending, confVars, reloadVars
  <1>2. p \in 1 .. born /\ left' \subseteq Names
    BY <1>1 DEF Requests, Typed
  <1>3. Distinct' /\ ReloadPhases'
    BY <1>1 DEF Distinct, ReloadPhases, ReloadConverges, Merged
  <1>4. CASE ShutdownStops(c, p)
    <2>1. Stop(p) /\ req' = [req EXCEPT ![c].todo = @ \ {p}, ![c].waits = @ \cup {p}]
      BY <1>4 DEF ShutdownStops
    <2>2. Requests'
      <3> DEFINE mid == [req EXCEPT ![c].todo = @ \ {p}]
      <3>1. req' = [mid EXCEPT ![c].waits = @ \cup {p}]
        BY <2>1
      <3>2. mid \in [Clients -> [op : {"none", "start", "stop", "signal", "shutdown"},
                                todo : SUBSET (1 .. born), waits : SUBSET (1 .. born)]]
        BY DEF Requests
      <3> HIDE DEF mid
      <3> QED  BY <1>1, <1>2, <3>1, <3>2 DEF Requests
    <2>3. \A d \in Clients : req'[d].op = "shutdown" =>
           /\ req[d].op = "shutdown" /\ req[d].waits \subseteq req'[d].waits
           /\ req[d].todo \subseteq req'[d].todo \cup (req'[d].waits \cap {p})
      BY <2>1 DEF Requests
    <2>4. Typed' /\ RemovedIsStopped' /\ Shutdowns'
      BY <1>1, <1>2, <2>1, <2>3, StopStep
    <2> QED  BY <1>3, <2>2, <2>4
  <1>5. CASE ShutdownWaits(c, p)
    <2>1. /\ UNCHANGED <<inStart, stopByUser, live, late, stale>> /\ p \notin live
          /\ req' = [req EXCEPT ![c].waits = @ \ {p}]
      BY <1>5 DEF ShutdownWaits, StopReturns, progVars, ghostVars
    <2>2. Requests'
      BY <1>1, <2>1 DEF Requests
    <2>3. Typed' /\ RemovedIsStopped'
      BY <1>1, <2>1 DEF Typed, RemovedIsStopped, Managed
    <2>4. Shutdowns'
      <3> SUFFICES ASSUME NEW d \in Clients, req'[d].op = "shutdown", NEW m \in Programs, procs[m] # 0
                   PROVE  Covered(d, procs[m])'
        BY <1>1 DEF Shutdowns, ShutdownStopsAll
      <3>1. /\ req[d].op = "shutdown" /\ req'[d].todo = req[d].todo
            /\ req[d].waits \ {p} \subseteq req'[d].waits
        BY <2>1 DEF Requests
      <3>2. Covered(d, procs[m])
        BY <3>1 DEF Shutdowns
      <3> QED  BY <1>1, <2>1, <3>1, <3>2 DEF Covered
    <2> QED  BY <1>3, <2>2, <2>3, <2>4
  <1> QED  BY <1>4, <1>5

\* A callback reaches a process whether the manager knows it or not, at any time.
LEMMA CallbackStep ==
  ASSUME IInv, exited = "no", NEW p \in Processes, CallbackStarts(p) \/ CallbackStops(p)
  PROVE  IInv'
  <1> USE DEF IInv
  <1>1. /\ UNCHANGED <<entries, prev, loaded, procs, born, reload, left, victim, req>> /\ exited' = "no"
        /\ p <= born
        /\ Start(p) \/ Stop(p)
    BY DEF CallbackStarts, CallbackStops, confVars, reloadVars
  <1>2. p \in 1 .. born /\ left' \subseteq Names
    <2>1. born \in Nat /\ left' \subseteq Names  BY <1>1 DEF Typed
    <2> QED  BY <1>1, <2>1
  <1>3. Requests' /\ Distinct' /\ ReloadPhases'
    BY <1>1 DEF Requests, Distinct, ReloadPhases, ReloadConverges, Merged
  <1>4. Typed' /\ RemovedIsStopped' /\ Shutdowns'
    <2>1. CASE Start(p)
      BY <1>1, <1>2, <2>1, StartStep
    <2>2. CASE Stop(p)
      BY <1>1, <1>2, <2>2, StopStep
    <2> QED  BY <1>1, <2>1, <2>2
  <1> QED  BY <1>3, <1>4

\* supervisord exits when no program it has listed has a child it did not get
\* from a later Start.
LEMMA ExitStep == ASSUME IInv, NEW c \in Clients, ShutdownExits(c) PROVE IInv'
  <1> USE DEF IInv
  <1>1. /\ UNCHANGED <<entries, prev, loaded, procs, born, inStart, stopByUser, live, reload, left, victim,
                       req, late, stale>>
        /\ req[c].op = "shutdown" /\ req[c].todo = {} /\ req[c].waits = {}
    BY DEF ShutdownExits, confVars, progVars, reloadVars, ghostVars
  <1>2. Typed' /\ Requests' /\ Distinct' /\ RemovedIsStopped'
    BY <1>1 DEF Typed, Requests, Distinct, RemovedIsStopped, Managed
  <1>3. ReloadPhases'
    BY <1>1 DEF ReloadPhases, ReloadConverges, Merged
  <1>4. \A n \in Programs : procs[n] \in live => procs[n] \in late
    BY <1>1 DEF Typed, Shutdowns, Covered
  <1>5. Shutdowns'
    BY <1>1, <1>4 DEF Shutdowns, ShutdownStopsAll, Covered
  <1> QED  BY <1>2, <1>3, <1>5

-----------------------------------------------------------------------------
LEMMA ReloadStep == ASSUME IInv, exited = "no", Reload PROVE IInv'
  BY ReloadQuietStep, ReloadFailsStep, CreatesStep, ListenerStep, HasProgramsStep, AutoStartsStep, RemovesStep, StopsStep DEF Reload

LEMMA RequestStep == ASSUME IInv, exited = "no", NEW c \in Clients, Request(c) PROVE IInv'
  <1>1. ASSUME NEW s \in Selections, NEW op \in {"start", "stop", "signal"}, Call(c, op, s) PROVE IInv'
    BY <1>1, CallStep
  <1>2. ASSUME Call(c, "shutdown", Programs) PROVE IInv'
    BY <1>2, CallStep
  <1> QED  BY <1>1, <1>2, OneStep, ShutdownStep, ExitStep DEF Request

LEMMA NextIInv == IInv /\ [Next]_vars => IInv'
  <1> SUFFICES ASSUME IInv, [Next]_vars PROVE IInv'
    OBVIOUS
  <1>1. CASE Next
    BY <1>1, ReloadStep, RequestStep, ProgramStep, CallbackStep DEF Next
  <1>2. CASE UNCHANGED vars
    <2>1. UNCHANGED <<entries, prev, loaded, procs, born, inStart, stopByUser, live, reload, left, victim,
                      req, exited, late, stale>>
      BY <1>2 DEF vars, confVars, progVars, reloadVars, ghostVars
    <2>2. Typed' /\ Requests' /\ Distinct' /\ RemovedIsStopped'
      BY <2>1 DEF IInv, Typed, Requests, Distinct, RemovedIsStopped, Managed
    <2>3. ReloadPhases'
      BY <2>1 DEF IInv, ReloadPhases, ReloadConverges, Merged
    <2>4. Shutdowns'
      BY <2>1 DEF IInv, Shutdowns, ShutdownStopsAll, Covered
    <2> QED  BY <2>2, <2>3, <2>4 DEF IInv
  <1> QED  BY <1>1, <1>2

\* The invariant holds of every reachable state, whatever its constants.
THEOREM Inductive == Spec => []IInv
  BY InitIInv, NextIInv, PTL DEF Spec

-----------------------------------------------------------------------------
(* The process objects that a reload may still create are within the bound   *)
(* that ReloadLoads checks, so that every process there is is in Processes.  *)

\* The names whose process the reload has still to create.
Uncreated ==
  {n \in Names : /\ procs[n] = 0
                 /\ \/ reload = "listeners" /\ n \in left \cup (entries \cap Programs)
                    \/ reload = "create" /\ n \in left}

\* A listener that has an entry has a process, once it had its turn.
ListenersCreated ==
  \A n \in entries \cap Listeners :
    procs[n] # 0 \/ (reload = "listeners" /\ n \in left) \/ reload = "failed"

Reserved ==
  /\ IsFiniteSet(Uncreated) /\ born + Cardinality(Uncreated) <= MaxProcesses
  /\ ListenersCreated

\* Only a load adds to the names to create, and it leaves room for them.
LEMMA LoadReserves ==
  ASSUME IInv, Reserved, NEW f \in Files, ReloadLoads(f)
  PROVE  Reserved'
  <1> DEFINE new == {n \in f : procs[n] = 0}
  <1>1. /\ reload = "idle" /\ reload' = "listeners" /\ UNCHANGED <<procs, born>>
        /\ entries' = entries \cup f /\ left' = entries' \cap Listeners
        /\ born + Cardinality(new) <= MaxProcesses
    BY DEF ReloadLoads, Entries
  <1>2. \A n \in entries : procs[n] # 0
    <2>1. \A n \in entries \cap Listeners : procs[n] # 0  BY <1>1 DEF Reserved, ListenersCreated
    <2>2. \A n \in entries \cap Programs : procs[n] # 0
      BY <1>1 DEF IInv, ReloadPhases, ReloadConverges
    <2> QED  BY <2>1, <2>2 DEF IInv, Typed
  <1>3. Uncreated' \subseteq new  BY <1>1, <1>2 DEF Uncreated
  <1>4. IsFiniteSet(new)
    <2>1. IsFiniteSet(f)  OBVIOUS
    <2> QED  BY <2>1, FS_Subset
  <1>5. IsFiniteSet(Uncreated') /\ Cardinality(Uncreated') <= Cardinality(new)
    <2> HIDE DEF new
    <2> QED  BY <1>3, <1>4, FS_Subset
  <1>6. Cardinality(new) \in Nat /\ Cardinality(Uncreated') \in Nat  BY <1>4, <1>5, FS_CardinalityType
  <1>7. born' + Cardinality(Uncreated') <= MaxProcesses
    <2> HIDE DEF new
    <2> QED  BY <1>1, <1>5, <1>6 DEF IInv, Typed
  <1>8. ListenersCreated'  BY <1>1, <1>2 DEF ListenersCreated
  <1> QED  BY <1>5, <1>7, <1>8 DEF Reserved

\* CreateProcess uses a number up only for a name that was to be created.
LEMMA CreateReserves ==
  ASSUME IInv, Reserved, NEW n \in left, CreateProcess(n), reload \in {"listeners", "create"},
         UNCHANGED <<entries, reload>>, left' = left \ {n}
  PROVE  Reserved'
  <1>1. n \in Names  BY DEF IInv, Typed
  <1>2. /\ procs' \in [Names -> 0 .. born'] /\ procs'[n] # 0 /\ \A m \in Names \ {n} : procs'[m] = procs[m]
        /\ procs[n] # 0 => born' = born
        /\ procs[n] = 0 => born' = born + 1
    <2>1. procs[n] # 0 => born' = born  BY DEF CreateProcess
    <2>2. procs[n] = 0 => born' = born + 1  BY DEF CreateProcess
    <2> QED  BY <1>1, <2>1, <2>2, CreateEffect
  <1>3. Uncreated' \subseteq Uncreated \ {n}  BY <1>2 DEF Uncreated
  <1>4. /\ IsFiniteSet(Uncreated) /\ Cardinality(Uncreated) \in Nat
        /\ IsFiniteSet(Uncreated') /\ Cardinality(Uncreated') \in Nat
        /\ Cardinality(Uncreated') <= Cardinality(Uncreated \ {n})
        /\ Cardinality(Uncreated \ {n}) =
             IF n \in Uncreated THEN Cardinality(Uncreated) - 1 ELSE Cardinality(Uncreated)
    <2>1. IsFiniteSet(Uncreated)  BY DEF Reserved
    <2>2. IsFiniteSet(Uncreated \ {n})  BY <2>1, FS_Subset
    <2>3. IsFiniteSet(Uncreated') /\ Cardinality(Uncreated') <= Cardinality(Uncreated \ {n})
      BY <1>3, <2>2, FS_Subset
    <2> QED  BY <2>1, <2>3, FS_CardinalityType, FS_RemoveElement
  <1>5. procs[n] = 0 => n \in Uncreated  BY <1>1 DEF Uncreated
  <1>6. born' + Cardinality(Uncreated') <= MaxProcesses
    <2>1. born \in Nat /\ born + Cardinality(Uncreated) <= MaxProcesses  BY DEF IInv, Typed, Reserved
    <2>2. CASE procs[n] # 0  BY <1>2, <1>4, <2>1, <2>2
    <2>3. CASE procs[n] = 0  BY <1>2, <1>4, <1>5, <2>1, <2>3
    <2> QED  BY <2>2, <2>3
  <1>7. ListenersCreated'  BY <1>2 DEF Reserved, ListenersCreated
  <1> QED  BY <1>4, <1>6, <1>7 DEF Reserved

\* No other step adds a name to create.
LEMMA OtherReserves ==
  ASSUME IInv, Reserved, born' = born, Uncreated' \subseteq Uncreated, ListenersCreated'
  PROVE  Reserved'
  <1>1. IsFiniteSet(Uncreated)  BY DEF Reserved
  <1>2. IsFiniteSet(Uncreated') /\ Cardinality(Uncreated') <= Cardinality(Uncreated)
    BY <1>1, FS_Subset
  <1>3. Cardinality(Uncreated) \in Nat /\ Cardinality(Uncreated') \in Nat  BY <1>1, <1>2, FS_CardinalityType
  <1>4. born' + Cardinality(Uncreated') <= MaxProcesses
    BY <1>2, <1>3 DEF IInv, Typed, Reserved
  <1> QED  BY <1>2, <1>4 DEF Reserved

\* Every step keeps the bound.
LEMMA NextReserved == IInv /\ Reserved /\ [Next]_vars => Reserved'
  <1> SUFFICES ASSUME IInv, Reserved, [Next]_vars PROVE Reserved'
    OBVIOUS
  <1>1. ASSUME NEW f \in Files, ReloadLoads(f) PROVE Reserved'
    BY <1>1, LoadReserves
  <1>2. ASSUME NEW n \in Names, ReloadStartsListener(n) \/ ReloadCreates(n) PROVE Reserved'
    <2>1. /\ n \in left /\ CreateProcess(n) /\ reload \in {"listeners", "create"}
          /\ UNCHANGED <<entries, reload>> /\ left' = left \ {n}
      BY <1>2 DEF ReloadStartsListener, ReloadCreates, confVars
    <2> QED  BY <2>1, CreateReserves
  <1>3. CASE ReloadHasListeners
    <2>1. /\ UNCHANGED <<entries, procs, born>> /\ reload = "listeners" /\ left = {}
          /\ reload' = "create" /\ left' = entries \cap Programs
      BY <1>3 DEF ReloadHasListeners, confVars
    <2>2. Uncreated' \subseteq Uncreated  BY <2>1 DEF Uncreated
    <2>3. ListenersCreated'  BY <2>1 DEF Reserved, ListenersCreated
    <2> QED  BY <2>1, <2>2, <2>3, OtherReserves
  <1>4. CASE ReloadHasPrograms
    <2>1. /\ UNCHANGED <<entries, born>> /\ reload = "create" /\ reload' = "autostart"
          /\ procs' = [n \in Names |-> IF n \in prev \ entries THEN 0 ELSE procs[n]]
      BY <1>4 DEF ReloadHasPrograms, confVars
    <2>2. Uncreated' \subseteq Uncreated  BY <2>1 DEF Uncreated
    <2>3. \A n \in entries \cap Listeners : procs'[n] = procs[n]  BY <2>1
    <2>4. ListenersCreated'  BY <2>1, <2>3 DEF Reserved, ListenersCreated
    <2> QED  BY <2>1, <2>2, <2>4, OtherReserves
  <1>5. ASSUME NEW n \in Names, ReloadRemoves(n) PROVE Reserved'
    <2>1. /\ reload = "remove" /\ reload' = "remove" /\ born' = born
          /\ entries' = entries \ {n} /\ procs' = [procs EXCEPT ![n] = 0]
      BY <1>5 DEF ReloadRemoves
    <2>2. Uncreated' \subseteq Uncreated  BY <2>1 DEF Uncreated
    <2>3. \A m \in entries' \cap Listeners : m \in entries \cap Listeners /\ procs'[m] = procs[m]
      BY <2>1 DEF IInv, Typed
    <2>4. ListenersCreated'  BY <2>1, <2>3 DEF Reserved, ListenersCreated
    <2> QED  BY <2>1, <2>2, <2>4, OtherReserves
  <1>6. ASSUME UNCHANGED <<entries, procs, born>>,
               reload \notin {"failed", "listeners", "create"} /\ reload' \notin {"listeners", "create"}
        PROVE  Reserved'
    <2>1. Uncreated' \subseteq Uncreated  BY <1>6 DEF Uncreated
    <2>2. ListenersCreated'  BY <1>6 DEF Reserved, ListenersCreated
    <2> QED  BY <1>6, <2>1, <2>2, OtherReserves
  <1>7. ASSUME UNCHANGED <<entries, procs, born, reload, left>> PROVE Reserved'
    <2>1. Uncreated' = Uncreated  BY <1>7 DEF Uncreated
    <2>2. ListenersCreated'  BY <1>7 DEF Reserved, ListenersCreated
    <2> QED  BY <1>7, <2>1, <2>2, OtherReserves
  <1>8. CASE (\E n \in Names : ReloadAutoStarts(n)) \/ ReloadHasStarted \/ ReloadStops \/ ReloadReturns
    BY <1>6, <1>8 DEF ReloadAutoStarts, ReloadHasStarted, ReloadStops, ReloadReturns, confVars
  <1>9. ASSUME NEW c \in Clients, Request(c) PROVE Reserved'
    BY <1>7, <1>9 DEF Request, Call, StartOne, StopOne, SignalOne, ShutdownStops, ShutdownWaits, ShutdownExits,
      confVars, reloadVars
  <1>10. ASSUME NEW p \in Processes, Spawn(p) \/ End(p) \/ Leave(p) PROVE Reserved'
    BY <1>7, <1>10 DEF Spawn, End, Leave, confVars, reloadVars
  <1>11. CASE UNCHANGED vars
    BY <1>7, <1>11 DEF vars, confVars, reloadVars
  <1>12. ASSUME NEW f \in Files, ReloadFails(f) PROVE Reserved'
    <2>1. born' = born /\ reload' = "failed"  BY <1>12 DEF ReloadFails
    <2>2. Uncreated' \subseteq Uncreated  BY <2>1 DEF Uncreated
    <2>3. ListenersCreated'  BY <2>1 DEF ListenersCreated
    <2> QED  BY <2>1, <2>2, <2>3, OtherReserves
  <1>13. ASSUME NEW p \in Processes, CallbackStarts(p) \/ CallbackStops(p) PROVE Reserved'
    BY <1>7, <1>13 DEF CallbackStarts, CallbackStops, confVars, reloadVars
  <1>14. CASE Reload  BY <1>1, <1>2, <1>3, <1>4, <1>5, <1>8, <1>12, <1>14 DEF Reload
  <1> QED  BY <1>9, <1>10, <1>11, <1>13, <1>14 DEF Next

\* A reload never creates more processes than its load found room for.
LEMMA ReservedInductive == Spec => []Reserved
  <1>1. Init => Reserved
    <2> SUFFICES ASSUME Init PROVE Reserved
      OBVIOUS
    <2>1. Uncreated = {} /\ entries = {} /\ born = 0  BY DEF Init, Uncreated
    <2> QED  BY <2>1, FS_EmptySet DEF Reserved, ListenersCreated
  <1> QED  BY <1>1, NextReserved, Inductive, PTL DEF Spec

-----------------------------------------------------------------------------
(* Theorems.                                                                 *)

\* Every variable keeps its type; in particular no reload creates a process
\* beyond the bound, so that what is said of Processes is said of every process.
THEOREM TypeCorrect == Spec => []TypeOK
  <1> DEFINE ExitedTyped == exited \in {"no", "shutdown", "failed"}
  <1>1. Init => ExitedTyped  BY DEF Init
  <1>2. ExitedTyped /\ [Next]_vars => ExitedTyped'
    <2> SUFFICES ASSUME ExitedTyped, [Next]_vars PROVE ExitedTyped'
      OBVIOUS
    <2>1. CASE Reload
      <3>1. exited' = exited \/ exited' = "failed"
        BY <2>1 DEF Reload, ReloadLoads, ReloadFails, ReloadStartsListener, ReloadHasListeners, ReloadCreates,
          ReloadHasPrograms, ReloadAutoStarts, ReloadHasStarted, ReloadRemoves, ReloadStops, ReloadReturns
      <3> QED  BY <3>1
    <2>2. ASSUME NEW c \in Clients, Request(c) PROVE ExitedTyped'
      <3>1. exited' = exited \/ exited' = "shutdown"
        BY <2>2 DEF Request, Call, StartOne, StopOne, SignalOne, ShutdownStops, ShutdownWaits, ShutdownExits
      <3> QED  BY <3>1
    <2>3. ASSUME NEW p \in Processes,
                 Spawn(p) \/ End(p) \/ Leave(p) \/ CallbackStarts(p) \/ CallbackStops(p)
          PROVE  ExitedTyped'
      BY <2>3 DEF Spawn, End, Leave, CallbackStarts, CallbackStops
    <2>4. CASE UNCHANGED vars
      BY <2>4 DEF vars
    <2> QED  BY <2>1, <2>2, <2>3, <2>4 DEF Next
  <1>3. IInv /\ Reserved /\ ExitedTyped => TypeOK
    <2> SUFFICES ASSUME IInv, Reserved, ExitedTyped PROVE TypeOK
      OBVIOUS
    <2>1. born \in 0 .. MaxProcesses
      BY FS_CardinalityType DEF IInv, Typed, Reserved
    <2> QED  BY <2>1 DEF IInv, Typed, Requests, TypeOK
  <1> HIDE DEF ExitedTyped
  <1> QED  BY <1>1, <1>2, <1>3, Inductive, ReservedInductive, PTL DEF Spec

\* When a Reload has returned, the entries and the processes of the programs
\* are those of the file, whatever was loaded before and clients did meanwhile.
THEOREM Converges == Spec => []ReloadConverges
  <1>1. IInv => ReloadConverges
    BY DEF IInv, ReloadPhases, ReloadConverges
  <1> QED  BY <1>1, Inductive, PTL

\* A process that no name leads to any more has been told to stop since its last
\* Start, or is the one Reload is about to stop, or was started afterwards by a
\* request or a callback that still held its pointer: Reload itself leaves no
\* removed program running, whatever it started before.
THEOREM ForgottenIsStopped == Spec => []RemovedIsStopped
  BY Inductive, PTL DEF IInv

\* When a shutdown has ended supervisord, a managed program has a child only if it
\* was started after the shutdown had listed the programs, or was given it by a
\* restart pause despite the Stop.  Of a reload that ends supervisord it says nothing.
THEOREM NoneLeftBehind == Spec => []ShutdownStopsAll
  BY Inductive, PTL DEF IInv, Shutdowns
=============================================================================
