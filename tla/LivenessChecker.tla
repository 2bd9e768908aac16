-------------------------- MODULE LivenessChecker --------------------------
(***************************************************************************)
(* The liveness checks of one program: LivenessChecker and                 *)
(* Process.DoLivenessCheck (process/process.go), polled by the goroutine   *)
(* of startLivenessCheckers (process/process_manager.go), above a program  *)
(* that behaves as Program says.                                           *)
(*                                                                         *)
(*   poll     the manager's goroutine, inside DoLivenessCheck              *)
(*   at[k]    the goroutine of a check: the script, the counting, then the *)
(*            success action and the failure action                        *)
(*                                                                         *)
(* inChecking is cleared before the actions run, so the next check may     *)
(* come while an earlier one still restarts the program.  The Stop(true)   *)
(* and Start(true) of an action need not return: the goroutine hangs then. *)
(***************************************************************************)
EXTENDS Naturals

CONSTANTS
  SuccessThreshold, FailureThreshold,
  SuccessAction,   \* is there a success action?
  FailureActions,  \* the failure actions a program may have
  Slots            \* bound: the goroutines of checks at one time, numbers

ASSUME ThresholdAssumption == SuccessThreshold \in Nat \ {0} /\ FailureThreshold \in Nat \ {0}
ASSUME SlotsAssumption == Slots \subseteq Nat
ASSUME ActionAssumption ==
  SuccessAction \in BOOLEAN /\ FailureActions \subseteq {"restart", "stop", "script"}

VARIABLES
  failureAction,
  successes, failures,
  inChecking,
  due,          \* IsCheckTime
  poll,
  at,
  before,       \* before[k]: isSuccessBeforeChecking, isFailureBeforeChecking,
                \* and whether a Reset has come since the check began, each as
                \* long as the goroutine still uses it
  inStart, stopByUser, live, stuck,   \* the program
  streak,       \* failed checks since the last successful one, up to the threshold
  outdated      \* failures counted by a check older than the last Reset

\* The program, without a restart pause.
Promise == INSTANCE Program WITH RestartPause <- 0

counters == <<successes, failures, inChecking, due>>
threads  == <<poll, at, before>>
program  == <<inStart, stopByUser, live, stuck>>
ghosts   == <<streak, outdated>>
vars == <<failureAction, counters, threads, program, ghosts>>

Flags == [ok : BOOLEAN, bad : BOOLEAN, old : BOOLEAN]
Fresh == [ok |-> FALSE, bad |-> FALSE, old |-> FALSE]

IsSuccess == successes >= SuccessThreshold
IsFailed == failures >= FailureThreshold

Init ==
  /\ failureAction \in FailureActions
  /\ successes = 0 /\ failures = 0 /\ inChecking = FALSE /\ due = FALSE
  /\ poll = "idle" /\ at = [k \in Slots |-> "none"] /\ before = [k \in Slots |-> Fresh]
  /\ Promise!Init
  /\ streak = 0 /\ outdated = 0

-----------------------------------------------------------------------------
\* The manager's goroutine.

\* nextCheckTime passes.
Elapse ==
  /\ ~due /\ due' = TRUE
  /\ UNCHANGED <<failureAction, successes, failures, inChecking, threads, program, ghosts>>

\* inChecking.CompareAndSwap(false, true)
MayCheck_Unguarded == TRUE
MayCheck == ~inChecking

\* IsRunning is false when no Start is in effect, unless the state was left at
\* Stopping.  Bound: a goroutine is left.
PollBegins ==
  /\ poll = "idle" /\ (inStart \/ stuck) /\ due /\ MayCheck
  /\ \E k \in Slots : at[k] = "none"
  /\ inChecking' = TRUE
  /\ poll' = "success"
  /\ UNCHANGED <<failureAction, successes, failures, due, at, before, program, ghosts>>

\* isSucessBeforeChecking, then isFailureBeforeChecking and the goroutine: the
\* slots are interchangeable, so it takes the first free one.
PollReadsSuccess ==
  /\ poll = "success"
  /\ poll' = IF IsSuccess THEN "failureOk" ELSE "failure"
  /\ UNCHANGED <<failureAction, counters, at, before, program, ghosts>>

PollSpawns(k) ==
  /\ poll \in {"failure", "failureOk"} /\ at[k] = "none"
  /\ \A j \in Slots : j < k => at[j] # "none"
  /\ poll' = "idle"
  /\ at' = [at EXCEPT ![k] = "script"]
  /\ before' = [before EXCEPT ![k] = [ok |-> poll = "failureOk", bad |-> IsFailed, old |-> FALSE]]
  /\ UNCHANGED <<failureAction, counters, program, ghosts>>

-----------------------------------------------------------------------------
\* The goroutine of a check.

At(k, from, to) == at[k] = from /\ at' = [at EXCEPT ![k] = to]

UpTo(n, limit) == IF n < limit THEN n + 1 ELSE n

\* The script succeeds: AddSuccess.
FailuresAfterSuccess_Kept == failures
FailuresAfterSuccess == 0

ScriptSucceeds(k) ==
  /\ At(k, "script", "clear")
  /\ successes' = UpTo(successes, SuccessThreshold) /\ failures' = FailuresAfterSuccess
  /\ streak' = 0 /\ outdated' = 0
  /\ before' = [before EXCEPT ![k].old = FALSE]
  /\ UNCHANGED <<failureAction, inChecking, due, poll, program>>

\* The script fails or times out: AddFailure.
ScriptFails(k) ==
  /\ At(k, "script", "clear")
  /\ failures' = UpTo(failures, FailureThreshold) /\ successes' = 0
  /\ streak' = UpTo(streak, FailureThreshold)
  /\ outdated' = IF before[k].old THEN UpTo(outdated, FailureThreshold) ELSE outdated
  /\ before' = [before EXCEPT ![k].old = FALSE]
  /\ UNCHANGED <<failureAction, inChecking, due, poll, program>>

\* UpdateCheckTime and inChecking.Store(false).
CheckClears(k) ==
  /\ At(k, "clear", "success")
  /\ inChecking' = FALSE /\ due' = FALSE
  /\ UNCHANGED <<failureAction, successes, failures, poll, before, program, ghosts>>

CheckSucceeded(k) ==
  /\ At(k, "success", IF SuccessAction /\ ~before[k].ok /\ IsSuccess THEN "successAction" ELSE "failure")
  /\ before' = [before EXCEPT ![k].ok = FALSE]
  /\ UNCHANGED <<failureAction, counters, poll, program, ghosts>>

SuccessActionEnds(k) ==
  /\ At(k, "successAction", "failure")
  /\ UNCHANGED <<failureAction, counters, poll, before, program, ghosts>>

MustAct(k) == ~before[k].bad /\ IsFailed

CheckFailed(k) ==
  /\ MustAct(k)
  /\ At(k, "failure", "act")
  /\ UNCHANGED <<failureAction, counters, poll, before, program, ghosts>>

CheckPassed(k) ==
  /\ ~MustAct(k)
  /\ At(k, "failure", "none")
  /\ before' = [before EXCEPT ![k].bad = FALSE]
  /\ UNCHANGED <<failureAction, counters, poll, program, ghosts>>

\* "restart" and "stop": Stop(true).
ActStops(k) ==
  /\ failureAction \in {"restart", "stop"}
  /\ At(k, "act", "stopWait")
  /\ Promise!Stop
  /\ UNCHANGED <<failureAction, counters, poll, before, ghosts>>

\* Stop(true) returns when IsRunning is false, so without a child.
ActStopped(k) ==
  /\ ~live /\ ~stuck
  /\ At(k, "stopWait", IF failureAction = "restart" THEN "start" ELSE "reset")
  /\ UNCHANGED <<failureAction, counters, poll, before, program, ghosts>>

\* Stop(true) spins for ever: the state was left at Stopping, the child does not
\* die, or a descendant keeps its pipe.
ActStopHangs(k) ==
  /\ At(k, "stopWait", "hung")
  /\ UNCHANGED <<failureAction, counters, poll, before, program, ghosts>>

\* "restart": Start(true), which has no effect while the goroutine of the last
\* Start is still there; then it does not wait.
ActStarts(k) ==
  /\ At(k, "start", IF inStart THEN "reset" ELSE "startWait")
  /\ IF inStart THEN UNCHANGED program ELSE Promise!Start
  /\ UNCHANGED <<failureAction, counters, poll, before, ghosts>>

\* Start(true) is answered: the program runs, or run() has given up.
ActStarted(k) ==
  /\ At(k, "startWait", "reset")
  /\ UNCHANGED <<failureAction, counters, poll, before, program, ghosts>>

\* run() left its loop for a Stop before it started anything: there is no answer.
ActStartHangs(k) ==
  /\ stopByUser
  /\ At(k, "startWait", "hung")
  /\ UNCHANGED <<failureAction, counters, poll, before, program, ghosts>>

\* Any other failure action is a script.
ActScriptEnds(k) ==
  /\ failureAction = "script"
  /\ At(k, "act", "reset")
  /\ UNCHANGED <<failureAction, counters, poll, before, program, ghosts>>

FailuresAfterReset_Kept == failures
FailuresAfterReset == 0

Reset(k) ==
  /\ At(k, "reset", "none")
  /\ successes' = 0 /\ failures' = FailuresAfterReset /\ due' = FALSE
  /\ before' = [j \in Slots |-> [before[j] EXCEPT !.old = at[j] = "script"]]
  /\ outdated' = 0
  /\ UNCHANGED <<failureAction, inChecking, poll, program, streak>>

Check(k) ==
  \/ PollSpawns(k) \/ ScriptSucceeds(k) \/ ScriptFails(k) \/ CheckClears(k)
  \/ CheckSucceeded(k) \/ SuccessActionEnds(k) \/ CheckFailed(k) \/ CheckPassed(k)
  \/ ActStops(k) \/ ActStopped(k) \/ ActStopHangs(k)
  \/ ActStarts(k) \/ ActStarted(k) \/ ActStartHangs(k) \/ ActScriptEnds(k)
  \/ Reset(k)

-----------------------------------------------------------------------------
\* The program, and the clients that start and stop it (module Program).

ByItself == UNCHANGED <<failureAction, counters, threads, ghosts>>

UserStarts == Promise!Start /\ ByItself
UserStops == Promise!Stop /\ ByItself
Spawn == Promise!Spawn /\ ByItself
End == Promise!End /\ ByItself
Leave == Promise!Leave /\ ByItself
Stick == Promise!Stick /\ ByItself

Next ==
  \/ Elapse \/ PollBegins \/ PollReadsSuccess
  \/ \E k \in Slots : Check(k)
  \/ UserStarts \/ UserStops \/ Spawn \/ End \/ Leave \/ Stick

Spec == Init /\ [][Next]_vars

\* The goroutines proceed, a script ends or times out, and the clock advances.
\* Nothing is assumed of the program.
Fairness ==
  /\ WF_vars(PollReadsSuccess) /\ WF_vars(\E k \in Slots : PollSpawns(k))
  /\ \A k \in Slots : WF_vars(Check(k))
  /\ WF_vars(Elapse)

FairSpec == Spec /\ Fairness

-----------------------------------------------------------------------------
(* Properties.                                                               *)

TypeOK ==
  /\ failureAction \in FailureActions
  /\ successes \in 0 .. SuccessThreshold /\ failures \in 0 .. FailureThreshold
  /\ inChecking \in BOOLEAN /\ due \in BOOLEAN
  /\ poll \in {"idle", "success", "failure", "failureOk"}
  /\ at \in [Slots -> {"none", "script", "clear", "success", "successAction", "failure", "act",
                       "stopWait", "start", "startWait", "hung", "reset"}]
  /\ before \in [Slots -> Flags]
  /\ inStart \in BOOLEAN /\ stopByUser \in BOOLEAN /\ live \in BOOLEAN /\ stuck \in BOOLEAN
  /\ streak \in 0 .. FailureThreshold /\ outdated \in 0 .. FailureThreshold

\* "After a liveness check fails failureThreshold times successively": a failure
\* action begins only when that many checks have failed and none succeeded since,
\* although other checks count while this one's success action runs.
ActionNeedsFailures ==
  [][\A k \in Slots : (at[k] = "failure" /\ at'[k] = "act") => streak >= FailureThreshold]_vars

\* Of the failures held against a program at most one comes from a check that
\* began before the last Reset.  With a threshold above 1 that one alone does not
\* bring another restart upon a program a failure action has restarted.  A client
\* that restarts the program does not Reset: its old failures go on counting.
FailuresAreFresh == outdated <= 1

\* A check that is bound to take the failure action, or is taking it: one that
\* found the program not yet failed when it began, as long as it has not looked
\* again, and one that has, even if it hangs in Stop(true) or Start(true).
Waiting(k) == at[k] \in {"stopWait", "startWait", "hung"}
Acting(k) ==
  \/ at[k] \in {"clear", "success", "successAction", "failure"} /\ ~before[k].bad
  \/ at[k] \in {"act", "start", "reset"} \/ Waiting(k)

\* A program that counts as failed has a check that takes the failure action,
\* although every other check leaves it alone because it was already failed: it
\* can be forgotten only by an action that hangs.  With a failure threshold of 1
\* this is not so (see README).
FailedIsActedOn == IsFailed => \E k \in Slots : Acting(k)

\* The failure action is not taken once and never again: while checks go on and
\* none succeeds there is always another action, whatever clients do to the
\* program, if every Stop(true) and Start(true) of an action returns.  The code
\* does not see to that last premise (see README).
KeepsActing ==
  (/\ []<>inChecking /\ <>[][\A k \in Slots : ~ScriptSucceeds(k)]_vars
   /\ \A k \in Slots : []<>~Waiting(k))
    => []<>(\E k \in Slots : at[k] = "act")
=============================================================================
