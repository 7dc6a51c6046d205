-------------------------- MODULE SupervisorProofs --------------------------
(***************************************************************************)
(* Proofs about the supervisor and its timing promises, for every policy,  *)
(* every set of children and every report they may produce.                *)
(***************************************************************************)
EXTENDS SupervisorTiming, TLAPS, FiniteSetTheorems

(* A deadline in ticks is a natural number, whatever the policy's poll     *)
(* period: the zero period is replaced before it divides.                  *)
LEMMA ToTicksNat == ASSUME NEW ms \in Nat PROVE ToTicks(ms) \in Nat
<1>1. Poll \in Nat \ {0}
  BY PolicyAssumption DEF Poll
<1>2. ms + Poll - 1 \in Nat
  BY <1>1
<1> QED
  BY <1>1, <1>2 DEF ToTicks

LEMMA DeadlinesNat ==
  /\ BootGraceTicks \in Nat /\ GraceTicks \in Nat
  /\ ConsoleTicks \in Nat   /\ SettleTicks \in Nat
BY ToTicksNat, PolicyAssumption
   DEF BootGraceTicks, GraceTicks, ConsoleTicks, SettleTicks

(* What a handler of the state report counts is a number. *)
LEMMA ScanExitedNat == ASSUME NEW r PROVE ScanExited(r) \in Nat
BY FS_Subset, FS_CardinalityType, PolicyAssumption DEF ScanExited

-----------------------------------------------------------------------------
(* Nothing a report says can leave a handler with a value of the wrong     *)
(* type; ages stay below their caps and the kill version below its width.  *)
LEMMA TypeStep == ASSUME TypeOK, [Next]_vars PROVE TypeOK'
<1> USE DeadlinesNat, PolicyAssumption
    DEF TypeOK, Phases, Templates, NoFault, PhaseCap, UptimeCap
<1>1. ASSUME NEW age \in Nat, NEW cap \in Nat, age \in 0..cap
      PROVE  Grow(age, cap) \in 0..cap
  BY <1>1 DEF Grow
<1>2. /\ Uptime \in 0..UptimeCap
      /\ PhaseAge \in 0..PhaseCap
      /\ HealthyAge \in 0..SettleTicks
  BY <1>1 DEF Uptime, PhaseAge, HealthyAge
<1>3. ASSUME NEW t \in Templates, Publish(t)
      PROVE  /\ killVersion' \in 0..KillModulus - 1
             /\ systemReport' \in [template : Templates \union {"none"},
                                   kill : 0..KillModulus - 1]
  <2>1. (killVersion + 1) % KillModulus \in 0..KillModulus - 1
    OBVIOUS
  <2> QED
    BY <1>3, <2>1 DEF Publish
<1>4. CASE Tick
  <2> USE <1>2 DEF Elapse, Enter, Stay, observed, published, ArmConsole,
                   HealthyRun
  <2>1. CASE TickBoot
    BY <2>1, <1>3 DEF TickBoot
  <2>2. CASE TickNominalHealthy
    BY <2>2 DEF TickNominalHealthy
  <2>3. CASE TickEscalationStarts
    BY <2>3 DEF TickEscalationStarts
  <2>4. CASE TickEscalationHolds
    BY <2>4 DEF TickEscalationHolds
  <2>5. CASE TickKill
    <3>1. /\ phase' \in Phases /\ phaseAge' \in 0..PhaseCap
          /\ uptime' \in 0..UptimeCap /\ faultAge' \in Int
          /\ NoFault <= faultAge' /\ faultAge' <= GraceTicks
      BY <2>5 DEF TickKill
    <3>2. /\ everHealthy' \in BOOLEAN /\ healthyAge' \in 0..SettleTicks
          /\ exitedBaseline' \in Nat /\ stateSeen' \in BOOLEAN
          /\ wedged' \in BOOLEAN /\ exited' \in Nat
          /\ armedReport' \in {"none", "yes", "no"}
      BY <2>5 DEF TickKill
    <3>3. /\ killVersion' \in 0..KillModulus - 1
          /\ systemReport' \in [template : Templates \union {"none"},
                                kill : 0..KillModulus - 1]
      BY <2>5, <1>3 DEF TickKill
    <3> QED
      BY <3>1, <3>2, <3>3
  <2>6. CASE TickContainSettling
    BY <2>6 DEF TickContainSettling
  <2>7. CASE TickContained
    BY <2>7 DEF TickContained
  <2>8. CASE TickContainGrace
    BY <2>8 DEF TickContainGrace
  <2>9. CASE TickTakeover
    <3>1. /\ phase' \in Phases /\ phaseAge' \in 0..PhaseCap
          /\ uptime' \in 0..UptimeCap /\ faultAge' \in Int
          /\ NoFault <= faultAge' /\ faultAge' <= GraceTicks
      BY <2>9 DEF TickTakeover
    <3>2. /\ everHealthy' \in BOOLEAN /\ healthyAge' \in 0..SettleTicks
          /\ exitedBaseline' \in Nat /\ stateSeen' \in BOOLEAN
          /\ wedged' \in BOOLEAN /\ exited' \in Nat
          /\ armedReport' \in {"none", "yes", "no"}
      BY <2>9 DEF TickTakeover
    <3>3. /\ killVersion' \in 0..KillModulus - 1
          /\ systemReport' \in [template : Templates \union {"none"},
                                kill : 0..KillModulus - 1]
      BY <2>9, <1>3 DEF TickTakeover
    <3> QED
      BY <3>1, <3>2, <3>3
  <2>10. CASE TickConsoleHold
    BY <2>10 DEF TickConsoleHold
  <2>11. CASE TickHoldElapsed
    <3>1. /\ phase' \in Phases /\ phaseAge' \in 0..PhaseCap
          /\ uptime' \in 0..UptimeCap /\ faultAge' \in Int
          /\ NoFault <= faultAge' /\ faultAge' <= GraceTicks
      BY <2>11 DEF TickHoldElapsed
    <3>2. /\ everHealthy' \in BOOLEAN /\ healthyAge' \in 0..SettleTicks
          /\ exitedBaseline' \in Nat /\ stateSeen' \in BOOLEAN
          /\ wedged' \in BOOLEAN /\ exited' \in Nat
          /\ armedReport' \in {"none", "yes", "no"}
      BY <2>11 DEF TickHoldElapsed
    <3>3. /\ killVersion' \in 0..KillModulus - 1
          /\ systemReport' \in [template : Templates \union {"none"},
                                kill : 0..KillModulus - 1]
      BY <2>11 DEF TickHoldElapsed
    <3> QED
      BY <3>1, <3>2, <3>3
  <2>12. CASE TickConsoleSettling
    BY <2>12 DEF TickConsoleSettling
  <2>13. CASE TickConsoleHealed
    BY <2>13 DEF TickConsoleHealed
  <2>14. CASE TickReleaseWait
    BY <2>14 DEF TickReleaseWait
  <2>15. CASE TickRestore
    BY <2>15, <1>3 DEF TickRestore
  <2> QED
    BY <1>4, <2>1, <2>2, <2>3, <2>4, <2>5, <2>6, <2>7, <2>8, <2>9, <2>10,
       <2>11, <2>12, <2>13, <2>14, <2>15 DEF Tick
<1>5. CASE \E r \in Reports : HandleState(r)
  <2> PICK r \in Reports : HandleState(r)
    BY <1>5
  <2> QED
    BY ScanExitedNat DEF HandleState, ScanWedged, published
<1>6. CASE UNCHANGED vars
  BY <1>6 DEF vars, observed, published
<1> QED
  BY <1>4, <1>5, <1>6 DEF Next

(* The type invariant: whatever the reports, no age exceeds its cap and no *)
(* phase is left that _handle_tick does not know.                          *)
THEOREM TypeCorrect == Spec => []TypeOK
<1>1. Init => TypeOK
  <2> SUFFICES ASSUME Init PROVE TypeOK
    OBVIOUS
  <2>1. wedged \in BOOLEAN
    BY Zenon DEF Init
  <2> USE DeadlinesNat, PolicyAssumption
      DEF Init, Phases, Templates, NoFault, NoReport, PhaseCap, UptimeCap
  <2>2. /\ phase \in Phases /\ phaseAge \in 0..PhaseCap
        /\ uptime \in 0..UptimeCap /\ faultAge \in Int
        /\ NoFault <= faultAge /\ faultAge <= GraceTicks
    OBVIOUS
  <2>3. everHealthy \in BOOLEAN /\ stateSeen \in BOOLEAN
    OBVIOUS
  <2>6. /\ healthyAge \in 0..SettleTicks /\ exitedBaseline \in Nat
        /\ exited \in Nat /\ killVersion \in 0..KillModulus - 1
    OBVIOUS
  <2>4. systemReport \in [template : Templates \union {"none"},
                         kill : 0..KillModulus - 1]
    OBVIOUS
  <2>5. armedReport \in {"none", "yes", "no"}
    OBVIOUS
  <2> QED
    BY <2>1, <2>2, <2>3, <2>4, <2>5, <2>6 DEF TypeOK
<1> QED
  BY <1>1, TypeStep, PTL DEF Spec

-----------------------------------------------------------------------------
(* PhasesBounded is not inductive: a console older than its hold is only   *)
(* as old as the healthy run that has kept it, and a run that reaches the  *)
(* settle window ends the phase.  The same holds of CONTAIN.               *)
HeldBy(deadline) ==
    \/ phaseAge <= deadline
    \/ /\ everHealthy
       /\ healthyAge < SettleTicks
       /\ phaseAge <= deadline + healthyAge + 1

PhaseInv ==
    /\ phase = "CONSOLE" => HeldBy(ConsoleTicks)
    /\ phase = "CONTAIN" => HeldBy(GraceTicks)
    /\ phase = "RELEASE" => phaseAge <= SettleTicks

LEMMA PhaseStep == ASSUME TypeOK, PhaseInv, [Next]_vars PROVE PhaseInv'
<1> USE DeadlinesNat
    DEF TypeOK, Phases, NoFault, PhaseInv, HeldBy, PhaseCap, Grow, PhaseAge,
        HealthyAge, Enter, Stay
<1>1. CASE TickBoot
  BY <1>1 DEF TickBoot
<1>2. CASE TickNominalHealthy
  BY <1>2 DEF TickNominalHealthy
<1>3. CASE TickEscalationStarts
  BY <1>3 DEF TickEscalationStarts
<1>4. CASE TickEscalationHolds
  BY <1>4 DEF TickEscalationHolds
<1>5. CASE TickKill
  BY <1>5 DEF TickKill
<1>6. CASE TickContainSettling
  BY <1>6 DEF TickContainSettling, HealthyRun
<1>7. CASE TickContained
  BY <1>7 DEF TickContained
<1>8. CASE TickContainGrace
  BY <1>8 DEF TickContainGrace
<1>9. CASE TickTakeover
  BY <1>9 DEF TickTakeover
<1>10. CASE TickConsoleHold
  BY <1>10 DEF TickConsoleHold
<1>11. CASE TickHoldElapsed
  BY <1>11 DEF TickHoldElapsed
<1>12. CASE TickConsoleSettling
  BY <1>12 DEF TickConsoleSettling, HealthyRun
<1>13. CASE TickConsoleHealed
  BY <1>13 DEF TickConsoleHealed
<1>14. CASE TickReleaseWait
  BY <1>14 DEF TickReleaseWait
<1>15. CASE TickRestore
  BY <1>15 DEF TickRestore
<1>16. ASSUME NEW r \in Reports, HandleState(r) PROVE PhaseInv'
  BY <1>16 DEF HandleState
<1>17. CASE UNCHANGED vars
  BY <1>17 DEF vars
<1> QED
  BY <1>1, <1>2, <1>3, <1>4, <1>5, <1>6, <1>7, <1>8, <1>9, <1>10, <1>11,
     <1>12, <1>13, <1>14, <1>15, <1>16, <1>17 DEF Next, Tick

(* No phase but NOMINAL can last: the console hands the display back at    *)
(* the latest one settle window after its hold, CONTAIN decides and        *)
(* RELEASE ends, for every policy and whatever the subtree reports.        *)
THEOREM PhasesBoundedHolds == Spec => []PhasesBounded
<1>1. Init => PhaseInv
  BY DEF Init, PhaseInv
<1>2. TypeOK /\ PhaseInv => PhasesBounded
  BY DeadlinesNat DEF TypeOK, PhaseCap, PhaseInv, HeldBy, PhasesBounded
<1> QED
  BY <1>1, <1>2, PhaseStep, TypeCorrect, PTL DEF Spec

-----------------------------------------------------------------------------
(* Who owns the display.  Both invariants relate what has been published   *)
(* to the phase, so both must be re-established by every change of phase.  *)
DisplayInv ==
    /\ ArmedOnlyInConsole
    /\ DesktopConfigOutsideConsole
    /\ BaselineStaysZero

LEMMA DisplayStep == ASSUME TypeOK, DisplayInv, [Next]_vars PROVE DisplayInv'
<1> USE DEF TypeOK, Phases, DisplayInv, ArmedOnlyInConsole, Templates,
            DesktopConfigOutsideConsole, BaselineStaysZero, Enter, Stay,
            ArmConsole, Publish, published
<1>1. CASE TickBoot
  BY <1>1 DEF TickBoot
<1>2. CASE TickNominalHealthy
  BY <1>2 DEF TickNominalHealthy
<1>3. CASE TickEscalationStarts
  BY <1>3 DEF TickEscalationStarts
<1>4. CASE TickEscalationHolds
  BY <1>4 DEF TickEscalationHolds
<1>5. CASE TickKill
  BY <1>5 DEF TickKill
<1>6. CASE TickContainSettling
  BY <1>6 DEF TickContainSettling
<1>7. CASE TickContained
  (* The only place that moves the baseline: no exit is counted there. *)
  <2>1. ~(exited > exitedBaseline)
    BY <1>7 DEF TickContained, Faulted
  <2>2. exitedBaseline' = 0
    BY <1>7, <2>1 DEF TickContained
  <2> QED
    BY <1>7, <2>2 DEF TickContained
<1>8. CASE TickContainGrace
  BY <1>8 DEF TickContainGrace
<1>9. CASE TickTakeover
  BY <1>9 DEF TickTakeover
<1>10. CASE TickConsoleHold
  BY <1>10 DEF TickConsoleHold
<1>11. CASE TickHoldElapsed
  BY <1>11 DEF TickHoldElapsed
<1>12. CASE TickConsoleSettling
  BY <1>12 DEF TickConsoleSettling
<1>13. CASE TickConsoleHealed
  BY <1>13 DEF TickConsoleHealed
<1>14. CASE TickReleaseWait
  BY <1>14 DEF TickReleaseWait
<1>15. CASE TickRestore
  BY <1>15 DEF TickRestore
<1>16. ASSUME NEW r \in Reports, HandleState(r) PROVE DisplayInv'
  BY <1>16 DEF HandleState
<1>17. CASE UNCHANGED vars
  BY <1>17 DEF vars
<1> QED
  BY <1>1, <1>2, <1>3, <1>4, <1>5, <1>6, <1>7, <1>8, <1>9, <1>10, <1>11,
     <1>12, <1>13, <1>14, <1>15, <1>16, <1>17 DEF Next, Tick

LEMMA DisplayCorrect == Spec => []DisplayInv
<1>1. Init => DisplayInv
  BY DEF Init, DisplayInv, ArmedOnlyInConsole, NoReport,
         DesktopConfigOutsideConsole, BaselineStaysZero
<1> QED
  BY <1>1, DisplayStep, TypeCorrect, PTL DEF Spec

(* The console shows itself exactly while the supervisor is in its console *)
(* phase, for every template module and every sequence of reports.         *)
THEOREM ArmedOnlyInConsoleHolds == Spec => []ArmedOnlyInConsole
BY DisplayCorrect, PTL DEF DisplayInv

(* As long as the desktop's template can be published, a configuration     *)
(* without the desktop never outlives the phases that ask for it.          *)
THEOREM DesktopConfigHolds == Spec => []DesktopConfigOutsideConsole
BY DisplayCorrect, PTL DEF DisplayInv

(* The exit baseline never moves off zero: what the code calls an edge is  *)
(* a level.                                                                *)
THEOREM BaselineStaysZeroHolds == Spec => []BaselineStaysZero
BY DisplayCorrect, PTL DEF DisplayInv

-----------------------------------------------------------------------------
(* The timing promises.                                                    *)

(* The supervisor's own bookkeeping never runs ahead of what its ticks     *)
(* saw: a fault age stands for that many faulted ticks in a row, and one   *)
(* more; a healthy age, while it is trusted, for that many healthy ones.   *)
TimedInv ==
    /\ faultRun \in 0..RunCap
    /\ healthyRun \in 0..RunCap
    /\ phase = "NOMINAL" /\ faultAge # NoFault => faultRun >= faultAge + 1
    /\ phase \in {"CONTAIN", "CONSOLE"} /\ everHealthy =>
           healthyRun >= healthyAge + 1

(* The history variables only watch: every timed behaviour is one of the   *)
(* supervisor's.                                                           *)
LEMMA TimedIsSpec == TimedSpec => Spec
<1>1. TimedInit => Init
  BY DEF TimedInit
<1>2. [TimedNext]_tvars => [Next]_vars
  BY DEF TimedNext, Next, tvars
<1> QED
  BY <1>1, <1>2, PTL DEF TimedSpec, Spec

LEMMA CountTypes ==
  ASSUME faultRun \in 0..RunCap, healthyRun \in 0..RunCap, Count
  PROVE  /\ faultRun' \in 0..RunCap /\ healthyRun' \in 0..RunCap
         /\ ~Faulted => healthyRun' >= healthyRun + 1 \/ healthyRun' = RunCap
         /\ phase = "NOMINAL" /\ Faulted =>
                faultRun' >= faultRun + 1 \/ faultRun' = RunCap
BY DeadlinesNat DEF Count, Grow, RunCap

LEMMA TimedStep ==
  ASSUME TypeOK, TypeOK', TimedInv, [TimedNext]_tvars PROVE TimedInv'
<1>1. CASE Tick /\ Count
  <2>1. /\ faultRun' \in 0..RunCap /\ healthyRun' \in 0..RunCap
        /\ ~Faulted => healthyRun' >= healthyRun + 1 \/ healthyRun' = RunCap
        /\ phase = "NOMINAL" /\ Faulted =>
               faultRun' >= faultRun + 1 \/ faultRun' = RunCap
    BY <1>1, CountTypes DEF TimedInv
  <2> USE <2>1, DeadlinesNat
      DEF TypeOK, NoFault, TimedInv, RunCap, Enter, Stay
  <2>2. CASE TickBoot
    BY <2>2 DEF TickBoot
  <2>3. CASE TickNominalHealthy
    BY <2>3 DEF TickNominalHealthy
  <2>4. CASE TickEscalationStarts
    BY <2>4 DEF TickEscalationStarts
  <2>5. CASE TickEscalationHolds
    BY <2>5 DEF TickEscalationHolds
  <2>6. CASE TickKill
    BY <2>6 DEF TickKill
  <2>7. CASE TickContainSettling
    BY <2>7 DEF TickContainSettling, HealthyRun, HealthyAge, Grow
  <2>8. CASE TickContained
    BY <2>8 DEF TickContained
  <2>9. CASE TickContainGrace
    BY <2>9 DEF TickContainGrace
  <2>10. CASE TickTakeover
    BY <2>10 DEF TickTakeover
  <2>11. CASE TickConsoleHold
    BY <2>11 DEF TickConsoleHold
  <2>12. CASE TickHoldElapsed
    BY <2>12 DEF TickHoldElapsed
  <2>13. CASE TickConsoleSettling
    BY <2>13 DEF TickConsoleSettling, HealthyRun, HealthyAge, Grow
  <2>14. CASE TickConsoleHealed
    BY <2>14 DEF TickConsoleHealed
  <2>15. CASE TickReleaseWait
    BY <2>15 DEF TickReleaseWait
  <2>16. CASE TickRestore
    BY <2>16 DEF TickRestore
  <2> QED
    BY <1>1, <2>2, <2>3, <2>4, <2>5, <2>6, <2>7, <2>8, <2>9,
       <2>10, <2>11, <2>12, <2>13, <2>14, <2>15, <2>16 DEF Tick
<1>2. ASSUME NEW r \in Reports, HandleState(r),
             UNCHANGED <<faultRun, healthyRun>>
      PROVE  TimedInv'
  BY <1>2 DEF HandleState, TimedInv
<1>3. CASE UNCHANGED tvars
  BY <1>3 DEF tvars, vars, TimedInv
<1> QED
  BY <1>1, <1>2, <1>3 DEF TimedNext

LEMMA TimedCorrect == TimedSpec => [](TypeOK /\ TimedInv)
<1>1. TimedInit => TimedInv
  BY DeadlinesNat DEF TimedInit, Init, TimedInv, RunCap
<1>2. TimedSpec => []TypeOK
  BY TimedIsSpec, TypeCorrect
<1> QED
  BY <1>1, <1>2, TimedStep, PTL DEF TimedSpec

(* Which tick moves the phase from where: only TickKill leaves NOMINAL,    *)
(* only TickContained leaves CONTAIN for NOMINAL, only the two release     *)
(* ticks leave CONSOLE.                                                    *)
LEMMA PhaseMoves ==
  ASSUME TypeOK, [TimedNext]_tvars
  PROVE  /\ phase = "NOMINAL" /\ phase' = "CONTAIN" => TickKill
         /\ phase = "CONTAIN" /\ phase' = "NOMINAL" => TickContained
         /\ phase = "CONSOLE" /\ phase' = "RELEASE" =>
                TickHoldElapsed \/ TickConsoleHealed
<1> USE DEF Enter, Stay
<1>1. CASE Tick
  BY <1>1 DEF Tick, TickBoot, TickNominalHealthy, TickEscalationStarts, TickEscalationHolds, TickKill, TickContainSettling, TickContained, TickContainGrace, TickTakeover, TickConsoleHold, TickHoldElapsed, TickConsoleSettling, TickConsoleHealed, TickReleaseWait, TickRestore
<1>2. CASE phase' = phase
  BY <1>2
<1> QED
  BY <1>1, <1>2 DEF TimedNext, tvars, vars, HandleState

(* A kill is the end of a whole grace window of faulted ticks in a row,    *)
(* within one NOMINAL phase: for every grace window, zero included.        *)
THEOREM KilledOnlyAfterHeldFaultHolds == TimedSpec => KilledOnlyAfterHeldFault
<1>1. TypeOK /\ TimedInv /\ TickKill => faultRun >= 1 /\ faultRun >= GraceTicks
  BY DeadlinesNat DEF TypeOK, TimedInv, TickKill, NoFault, RunCap
<1>2. TypeOK /\ TimedInv /\ [TimedNext]_tvars =>
        [phase = "NOMINAL" /\ phase' = "CONTAIN" =>
             faultRun >= 1 /\ faultRun >= GraceTicks]_tvars
  BY <1>1, PhaseMoves
<1> QED
  BY <1>2, TimedCorrect, PTL DEF TimedSpec, KilledOnlyAfterHeldFault

(* A kill counts as having worked only after a settle window of healthy    *)
(* ticks, not counting the tick that decides.                              *)
THEOREM ContainedOnlyAfterSettlingHolds ==
  TimedSpec => ContainedOnlyAfterSettling
<1>1. TypeOK /\ TimedInv /\ TickContained => healthyRun >= SettleTicks
  BY DeadlinesNat
     DEF TypeOK, TimedInv, TickContained, HealthyRun, HealthyAge, Grow, RunCap
<1>2. TypeOK /\ TimedInv /\ [TimedNext]_tvars =>
        [phase = "CONTAIN" /\ phase' = "NOMINAL" =>
             healthyRun >= SettleTicks]_tvars
  BY <1>1, PhaseMoves
<1> QED
  BY <1>2, TimedCorrect, PTL DEF TimedSpec, ContainedOnlyAfterSettling

(* The console is taken down early only for a subtree that has settled.    *)
THEOREM ConsoleReleasedForAReasonHolds ==
  TimedSpec => ConsoleReleasedForAReason
<1>1. TypeOK /\ TimedInv /\ TickConsoleHealed => healthyRun >= SettleTicks
  BY DeadlinesNat
     DEF TypeOK, TimedInv, TickConsoleHealed, HealthyRun, HealthyAge, Grow,
         RunCap
<1>2. TypeOK /\ TimedInv /\ [TimedNext]_tvars =>
        [phase = "CONSOLE" /\ phase' = "RELEASE" =>
             healthyRun >= SettleTicks \/ PhaseAge >= ConsoleTicks]_tvars
  BY <1>1, PhaseMoves DEF TickHoldElapsed
<1> QED
  BY <1>2, TimedCorrect, PTL DEF TimedSpec, ConsoleReleasedForAReason
=============================================================================
