----------------------- MODULE LivenessCheckerProofs -----------------------
(***************************************************************************)
(* Proofs about LivenessChecker, for every pair of thresholds, any actions *)
(* and any number of overlapping checks.                                   *)
(***************************************************************************)
EXTENDS LivenessChecker, TLAPS

-----------------------------------------------------------------------------
(* The inductive invariant.                                                  *)

\* A goroutine between the start of its script and inChecking.Store(false).
Checking(k) == at[k] \in {"script", "clear"}

\* inChecking admits one check at a time: while the manager's goroutine is
\* inside DoLivenessCheck there is none, and never are there two.
OneCheck ==
  /\ \A j, k \in Slots : Checking(j) /\ Checking(k) => j = k
  /\ \A k \in Slots : Checking(k) => inChecking /\ poll = "idle"
  /\ poll # "idle" => inChecking

\* Only a check whose script still runs can be older than the last Reset, and
\* once it has counted there is no other.
OldChecks ==
  /\ \A k \in Slots : before[k].old => at[k] = "script"
  /\ outdated \in {0, 1}
  /\ outdated = 1 => \A k \in Slots : ~before[k].old

\* What is held against the program has failed since the last success.
Counted == failures <= streak

IInv == TypeOK /\ OneCheck /\ OldChecks /\ Counted

USE ThresholdAssumption, SlotsAssumption
    DEF Flags, Fresh, IsSuccess, IsFailed, counters, threads, program, ghosts

-----------------------------------------------------------------------------
\* Before the first check everything is zero.
LEMMA InitIInv == Init => IInv
  <1> SUFFICES ASSUME Init PROVE IInv
    OBVIOUS
  <1>1. /\ failureAction \in FailureActions
        /\ successes \in 0 .. SuccessThreshold /\ failures \in 0 .. FailureThreshold
        /\ streak \in 0 .. FailureThreshold /\ outdated \in 0 .. FailureThreshold
        /\ poll \in {"idle", "success", "failure", "failureOk"}
    BY DEF Init
  <1>2. /\ inChecking \in BOOLEAN /\ due \in BOOLEAN
        /\ inStart \in BOOLEAN /\ stopByUser \in BOOLEAN /\ live \in BOOLEAN /\ stuck \in BOOLEAN
    BY Zenon DEF Init, Promise!Init
  <1>3. /\ at \in [Slots -> {"none", "script", "clear", "success", "successAction", "failure", "act",
                             "stopWait", "start", "startWait", "hung", "reset"}]
        /\ before \in [Slots -> Flags]
    BY DEF Init
  <1>4. TypeOK  BY <1>1, <1>2, <1>3 DEF TypeOK
  <1>5. OneCheck /\ OldChecks /\ Counted
    BY DEF Init, OneCheck, Checking, OldChecks, Counted
  <1> QED  BY <1>4, <1>5 DEF IInv

-----------------------------------------------------------------------------
\* A step of the manager's goroutine or of the clock keeps the invariant.
LEMMA PollStep == ASSUME IInv, Elapse \/ PollBegins \/ PollReadsSuccess PROVE IInv'
  <1>1. CASE Elapse
    BY <1>1 DEF Elapse, IInv, TypeOK, OneCheck, Checking, OldChecks, Counted
  <1>2. CASE PollBegins
    BY <1>2 DEF PollBegins, MayCheck, IInv, TypeOK, OneCheck, Checking, OldChecks, Counted
  <1>3. CASE PollReadsSuccess
    BY <1>3 DEF PollReadsSuccess, IInv, TypeOK, OneCheck, Checking, OldChecks, Counted
  <1> QED  BY <1>1, <1>2, <1>3

\* A step of the goroutine of a check keeps the invariant.
LEMMA CheckStep == ASSUME IInv, NEW k \in Slots, Check(k) PROVE IInv'
  <1> USE DEF At, UpTo, IInv
  <1>1. CASE PollSpawns(k)
    <2> USE <1>1 DEF PollSpawns
    <2>1. before' \in [Slots -> Flags]  BY DEF TypeOK
    <2>2. TypeOK'  BY <2>1 DEF TypeOK
    <2>3. OneCheck'  BY DEF TypeOK, OneCheck, Checking
    <2>4. OldChecks'  BY DEF TypeOK, OneCheck, Checking, OldChecks
    <2>5. Counted'  BY DEF TypeOK, Counted
    <2> QED  BY <2>2, <2>3, <2>4, <2>5
  <1>2. CASE ScriptSucceeds(k)
    <2> USE <1>2 DEF ScriptSucceeds, FailuresAfterSuccess
    <2>1. before' \in [Slots -> Flags]  BY DEF TypeOK
    <2>2. TypeOK'  BY <2>1 DEF TypeOK
    <2>3. OneCheck'  BY DEF TypeOK, OneCheck, Checking
    <2>4. OldChecks'  BY DEF TypeOK, OneCheck, Checking, OldChecks
    <2>5. Counted'  BY DEF TypeOK, Counted
    <2> QED  BY <2>2, <2>3, <2>4, <2>5
  <1>3. CASE ScriptFails(k)
    <2> USE <1>3 DEF ScriptFails
    <2>1. before' \in [Slots -> Flags]  BY DEF TypeOK
    <2>2. TypeOK'  BY <2>1 DEF TypeOK
    <2>3. OneCheck'  BY DEF TypeOK, OneCheck, Checking
    <2>4. OldChecks'  BY DEF TypeOK, OneCheck, Checking, OldChecks
    <2>5. Counted'  BY DEF TypeOK, Counted
    <2> QED  BY <2>2, <2>3, <2>4, <2>5
  <1>4. CASE CheckClears(k)
    <2> USE <1>4 DEF CheckClears
    <2>1. before' \in [Slots -> Flags]  BY DEF TypeOK
    <2>2. TypeOK'  BY <2>1 DEF TypeOK
    <2>3. OneCheck'  BY DEF TypeOK, OneCheck, Checking
    <2>4. OldChecks'  BY DEF TypeOK, OneCheck, Checking, OldChecks
    <2>5. Counted'  BY DEF TypeOK, Counted
    <2> QED  BY <2>2, <2>3, <2>4, <2>5
  <1>5. CASE CheckSucceeded(k)
    <2> USE <1>5 DEF CheckSucceeded
    <2>1. before' \in [Slots -> Flags]  BY DEF TypeOK
    <2>2. TypeOK'  BY <2>1 DEF TypeOK
    <2>3. OneCheck'  BY DEF TypeOK, OneCheck, Checking
    <2>4. OldChecks'  BY DEF TypeOK, OneCheck, Checking, OldChecks
    <2>5. Counted'  BY DEF TypeOK, Counted
    <2> QED  BY <2>2, <2>3, <2>4, <2>5
  <1>6. CASE SuccessActionEnds(k)
    BY <1>6 DEF SuccessActionEnds, TypeOK, OneCheck, Checking, OldChecks, Counted
  <1>7. CASE CheckFailed(k)
    BY <1>7 DEF CheckFailed, TypeOK, OneCheck, Checking, OldChecks, Counted
  <1>8. CASE CheckPassed(k)
    <2> USE <1>8 DEF CheckPassed
    <2>1. before' \in [Slots -> Flags]  BY DEF TypeOK
    <2>2. TypeOK'  BY <2>1 DEF TypeOK
    <2>3. OneCheck'  BY DEF TypeOK, OneCheck, Checking
    <2>4. OldChecks'  BY DEF TypeOK, OneCheck, Checking, OldChecks
    <2>5. Counted'  BY DEF TypeOK, Counted
    <2> QED  BY <2>2, <2>3, <2>4, <2>5
  <1>9. CASE ActStops(k)
    BY <1>9 DEF ActStops, Promise!Stop, TypeOK, OneCheck, Checking, OldChecks, Counted
  <1>10. CASE ActStopped(k)
    BY <1>10 DEF ActStopped, TypeOK, OneCheck, Checking, OldChecks, Counted
  <1>11. CASE ActStarts(k)
    BY <1>11 DEF ActStarts, Promise!Start, TypeOK, OneCheck, Checking, OldChecks, Counted
  <1>12. CASE ActStarted(k)
    BY <1>12 DEF ActStarted, TypeOK, OneCheck, Checking, OldChecks, Counted
  <1>15. CASE ActStopHangs(k) \/ ActStartHangs(k)
    BY <1>15 DEF ActStopHangs, ActStartHangs, TypeOK, OneCheck, Checking, OldChecks, Counted
  <1>13. CASE ActScriptEnds(k)
    BY <1>13 DEF ActScriptEnds, TypeOK, OneCheck, Checking, OldChecks, Counted
  <1>14. CASE Reset(k)
    <2> USE <1>14 DEF Reset, FailuresAfterReset
    <2>1. before' \in [Slots -> Flags]  BY DEF TypeOK
    <2>2. TypeOK'
      <3>1. inChecking' \in BOOLEAN /\ due' \in BOOLEAN  BY Zenon DEF TypeOK
      <3>2. inStart' \in BOOLEAN /\ stopByUser' \in BOOLEAN /\ live' \in BOOLEAN /\ stuck' \in BOOLEAN  BY Zenon DEF TypeOK
      <3>3. at' \in [Slots -> {"none", "script", "clear", "success", "successAction", "failure", "act",
                              "stopWait", "start", "startWait", "hung", "reset"}]
        BY DEF TypeOK
      <3>4. /\ failureAction' \in FailureActions /\ poll' \in {"idle", "success", "failure", "failureOk"}
            /\ successes' \in 0 .. SuccessThreshold /\ failures' \in 0 .. FailureThreshold
            /\ streak' \in 0 .. FailureThreshold /\ outdated' \in 0 .. FailureThreshold
        BY DEF TypeOK
      <3> QED  BY <2>1, <3>1, <3>2, <3>3, <3>4 DEF TypeOK
    <2>3. OneCheck'  BY DEF TypeOK, OneCheck, Checking
    <2>4. OldChecks'  BY DEF TypeOK, OneCheck, Checking, OldChecks
    <2>5. Counted'  BY DEF TypeOK, Counted
    <2> QED  BY <2>2, <2>3, <2>4, <2>5
  <1> QED
    BY <1>1, <1>2, <1>3, <1>4, <1>5, <1>6, <1>7, <1>8, <1>9, <1>10, <1>11, <1>12, <1>13, <1>14, <1>15 DEF Check

\* A step of the program or of its other clients keeps the invariant.
LEMMA ProgramStep == ASSUME IInv, UserStarts \/ UserStops \/ Spawn \/ End \/ Leave \/ Stick PROVE IInv'
  <1>1. inStart' \in BOOLEAN /\ stopByUser' \in BOOLEAN /\ live' \in BOOLEAN /\ stuck' \in BOOLEAN
    BY Zenon DEF UserStarts, UserStops, Spawn, End, Leave, Stick,
      Promise!Start, Promise!Stop, Promise!Spawn, Promise!End, Promise!Leave, Promise!Stick, IInv, TypeOK
  <1>2. UNCHANGED <<failureAction, counters, threads, ghosts>>
    BY Zenon DEF UserStarts, UserStops, Spawn, End, Leave, Stick, ByItself
  <1> QED  BY <1>1, <1>2 DEF IInv, TypeOK, OneCheck, Checking, OldChecks, Counted

\* The inductive invariant holds in every reachable state.
LEMMA Inductive == Spec => []IInv
  <1>1. IInv /\ [Next]_vars => IInv'
    <2> SUFFICES ASSUME IInv, [Next]_vars PROVE IInv'
      OBVIOUS
    <2>1. CASE Next
      BY <2>1, PollStep, CheckStep, ProgramStep DEF Next
    <2>2. CASE UNCHANGED vars
      BY <2>2 DEF vars, IInv, TypeOK, OneCheck, Checking, OldChecks, Counted
    <2> QED  BY <2>1, <2>2
  <1> QED  BY InitIInv, <1>1, PTL DEF Spec

-----------------------------------------------------------------------------
(* The theorems.                                                             *)

\* At most one failure held against the program comes from a check that began
\* before the last Reset, for any thresholds and any number of goroutines.
THEOREM FreshFailures == Spec => []FailuresAreFresh
  <1>1. IInv => FailuresAreFresh  BY DEF IInv, OldChecks, FailuresAreFresh
  <1> QED  BY <1>1, Inductive, PTL

\* A failure action begins only after FailureThreshold failed checks without a
\* success between them, whichever goroutine decides.
THEOREM ActionsNeedFailures == Spec => ActionNeedsFailures
  <1>1. ASSUME IInv, Next, NEW k \in Slots, at[k] = "failure", at'[k] = "act"
        PROVE  streak >= FailureThreshold
    <2>1. ~Elapse /\ ~PollBegins /\ ~PollReadsSuccess /\ ~(UserStarts \/ UserStops \/ Spawn \/ End \/ Leave \/ Stick)
      BY <1>1 DEF Elapse, PollBegins, PollReadsSuccess, UserStarts, UserStops, Spawn, End, Leave, Stick, ByItself
    <2>2. PICK j \in Slots : Check(j)
      BY <1>1, <2>1 DEF Next
    <2>3. CheckFailed(k)
      BY <1>1, <2>2 DEF Check, At, IInv, TypeOK, PollSpawns, ScriptSucceeds, ScriptFails, CheckClears,
        CheckSucceeded, SuccessActionEnds, CheckPassed, ActStops, ActStopped, ActStopHangs, ActStarts, ActStarted,
        ActStartHangs, ActScriptEnds, Reset, CheckFailed
    <2> QED  BY <1>1, <2>3 DEF CheckFailed, MustAct, IInv, Counted, TypeOK
  <1>2. IInv /\ [Next]_vars =>
          [\A k \in Slots : (at[k] = "failure" /\ at'[k] = "act") => streak >= FailureThreshold]_vars
    BY <1>1
  <1> QED  BY <1>2, Inductive, PTL DEF Spec, ActionNeedsFailures

\* Every variable keeps its type.
THEOREM TypeCorrect == Spec => []TypeOK
  <1>1. IInv => TypeOK  BY DEF IInv
  <1> QED  BY <1>1, Inductive, PTL

-----------------------------------------------------------------------------
(* Whoever fails is dealt with.                                              *)

\* A check that found the program failed when it began still finds it so, or
\* finds the counters reset.
StaleOrReset ==
  \A k \in Slots : at[k] = "script" /\ before[k].bad => failures \in {0, FailureThreshold}

AInv == StaleOrReset /\ FailedIsActedOn

\* No check starts failed, and none starts acting.
LEMMA InitActedOn == Init => AInv
  BY DEF Init, AInv, StaleOrReset, FailedIsActedOn

\* A step that leaves the failures alone, begins no script and releases no check
\* from acting keeps both.
LEMMA KeepsActedOn ==
  ASSUME AInv, failures' = failures,
         \A k \in Slots : at'[k] = "script" => at[k] = "script" /\ before'[k].bad = before[k].bad,
         IsFailed => \A k \in Slots : Acting(k) => Acting(k)'
  PROVE  AInv'
  BY Zenon DEF AInv, StaleOrReset, FailedIsActedOn

\* With a threshold above 1 the check whose failure makes the program failed is
\* not one of those that leave the action to others: they begin where it takes no
\* further failure to be failed, or at least two.
LEMMA CheckActedOn ==
  ASSUME FailureThreshold > 1, IInv, AInv, NEW k \in Slots, Check(k)
  PROVE  AInv'
  <1> USE DEF At, UpTo, IInv, Waiting
  <1>1. CASE PollSpawns(k)
    <2>1. StaleOrReset'
      <3>1. failures' = failures  BY <1>1 DEF PollSpawns
      <3>2. before'[k].bad => failures = FailureThreshold
        <4>1. before'[k].bad <=> IsFailed  BY <1>1, Zenon DEF PollSpawns, TypeOK
        <4> QED  BY <4>1 DEF TypeOK
      <3>3. ASSUME NEW j \in Slots, j # k, at'[j] = "script", before'[j].bad
            PROVE  failures \in {0, FailureThreshold}
        BY <1>1, <3>3 DEF PollSpawns, TypeOK, AInv, StaleOrReset
      <3> QED  BY <3>1, <3>2, <3>3 DEF StaleOrReset
    <2>2. \A j \in Slots : Acting(j) => Acting(j)'
      BY <1>1 DEF PollSpawns, TypeOK, Acting
    <2> QED  BY <1>1, <2>1, <2>2, Zenon DEF PollSpawns, AInv, FailedIsActedOn
  <1>2. CASE ScriptSucceeds(k)
    BY <1>2 DEF ScriptSucceeds, FailuresAfterSuccess, TypeOK, AInv, StaleOrReset, FailedIsActedOn
  <1>3. CASE ScriptFails(k)
    <2> USE <1>3 DEF ScriptFails
    <2>1. \A j \in Slots : at'[j] # "script"
      BY DEF TypeOK, OneCheck, Checking
    <2>2. \A j \in Slots : Acting(j) => Acting(j)'
      BY DEF TypeOK, Acting
    <2>3. CASE IsFailed
      BY <2>1, <2>2, <2>3, Zenon DEF AInv, StaleOrReset, FailedIsActedOn
    <2>4. CASE ~IsFailed /\ before[k].bad
      BY <2>1, <2>4 DEF TypeOK, AInv, StaleOrReset, FailedIsActedOn
    <2>5. CASE ~IsFailed /\ ~before[k].bad
      <3>1. Acting(k)'  BY <2>5 DEF TypeOK, Acting
      <3> QED  BY <2>1, <3>1, Zenon DEF AInv, StaleOrReset, FailedIsActedOn
    <2> QED  BY <2>3, <2>4, <2>5
  <1>4. CASE CheckClears(k)
    BY <1>4, KeepsActedOn DEF CheckClears, TypeOK, Acting
  <1>5. CASE CheckSucceeded(k)
    BY <1>5, KeepsActedOn DEF CheckSucceeded, TypeOK, Acting
  <1>6. CASE SuccessActionEnds(k)
    BY <1>6, KeepsActedOn DEF SuccessActionEnds, TypeOK, Acting
  <1>7. CASE CheckFailed(k)
    BY <1>7, KeepsActedOn DEF CheckFailed, TypeOK, Acting
  <1>8. CASE CheckPassed(k)
    BY <1>8, KeepsActedOn DEF CheckPassed, MustAct, TypeOK, Acting
  <1>9. CASE ActStops(k) \/ ActStopped(k) \/ ActStopHangs(k) \/ ActStarts(k) \/ ActStarted(k) \/ ActStartHangs(k)
             \/ ActScriptEnds(k)
    BY <1>9, KeepsActedOn DEF ActStops, ActStopped, ActStopHangs, ActStarts, ActStarted, ActStartHangs, ActScriptEnds,
      TypeOK, Acting
  <1>10. CASE Reset(k)
    BY <1>10 DEF Reset, FailuresAfterReset, TypeOK, AInv, StaleOrReset, FailedIsActedOn
  <1> QED
    BY <1>1, <1>2, <1>3, <1>4, <1>5, <1>6, <1>7, <1>8, <1>9, <1>10 DEF Check

\* With a failure threshold above 1 a program that counts as failed always has a
\* check that takes the failure action, or hangs in it.
THEOREM FailureIsActedOn == ASSUME FailureThreshold > 1 PROVE Spec => []FailedIsActedOn
  <1>1. IInv /\ AInv /\ [Next]_vars => AInv'
    <2> SUFFICES ASSUME IInv, AInv, [Next]_vars PROVE AInv'
      OBVIOUS
    <2>1. ASSUME UNCHANGED <<failures, at, before>> PROVE AInv'
      BY <2>1, KeepsActedOn DEF Acting, Waiting
    <2>2. CASE Elapse \/ PollBegins \/ PollReadsSuccess
      BY <2>1, <2>2 DEF Elapse, PollBegins, PollReadsSuccess
    <2>3. ASSUME NEW k \in Slots, Check(k) PROVE AInv'
      BY <2>3, CheckActedOn
    <2>4. CASE UserStarts \/ UserStops \/ Spawn \/ End \/ Leave \/ Stick
      BY <2>1, <2>4 DEF UserStarts, UserStops, Spawn, End, Leave, Stick, ByItself
    <2>5. CASE UNCHANGED vars  BY <2>1, <2>5 DEF vars
    <2> QED  BY <2>2, <2>3, <2>4, <2>5 DEF Next
  <1>2. AInv => FailedIsActedOn  BY DEF AInv
  <1> QED  BY <1>1, <1>2, InitActedOn, Inductive, PTL DEF Spec
=============================================================================
