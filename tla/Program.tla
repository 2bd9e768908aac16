------------------------------ MODULE Program ------------------------------
(***************************************************************************)
(* What one program promises to everything that starts and stops it        *)
(* (supervisor, process manager, liveness checker), whatever goroutines    *)
(* process/process.go uses to keep the promise.  Process implements this   *)
(* specification; Supervisor and LivenessChecker build on it.              *)
(***************************************************************************)
EXTENDS Naturals

CONSTANT RestartPause  \* restartpause, only compared with 0

VARIABLES
  inStart,     \* a Start has taken effect and its goroutine has not left
  stopByUser,  \* stopped since the last effective Start
  live,        \* the program has a child
  stuck        \* its state is Stopping, and nobody is left to change it

vars == <<inStart, stopByUser, live, stuck>>

Init == inStart = FALSE /\ stopByUser = FALSE /\ live = FALSE /\ stuck = FALSE

\* A Start while an earlier one is in effect is refused: it changes nothing.
Start ==
  /\ ~inStart
  /\ inStart' = TRUE /\ stopByUser' = FALSE
  /\ UNCHANGED <<live, stuck>>

Stop ==
  /\ stopByUser' = TRUE
  /\ UNCHANGED <<inStart, live, stuck>>

\* The first attempt, a retry or a restart.  Only a restart pause lets a child
\* be born after a Stop.
Spawn ==
  /\ inStart /\ ~live /\ ~stuck
  /\ stopByUser => RestartPause > 0
  /\ live' = TRUE
  /\ UNCHANGED <<inStart, stopByUser, stuck>>

\* The child ends, by itself or by a signal.
End ==
  /\ live /\ live' = FALSE
  /\ UNCHANGED <<inStart, stopByUser, stuck>>

\* The goroutine of Start leaves, for one of its many reasons, but never
\* while there is a child.
Leave ==
  /\ inStart /\ ~live
  /\ inStart' = FALSE
  /\ UNCHANGED <<stopByUser, live, stuck>>

\* A Stop that saw the program run stores Stopping after the program has ended.
\* IsRunning is true from then on: every run() is refused, every Stop(true) spins.
Stick ==
  /\ ~live /\ ~stuck
  /\ stuck' = TRUE
  /\ UNCHANGED <<inStart, stopByUser, live>>

Next == Start \/ Stop \/ Spawn \/ End \/ Leave \/ Stick

Spec == Init /\ [][Next]_vars

=============================================================================
