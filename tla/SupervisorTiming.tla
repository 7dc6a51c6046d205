-------------------------- MODULE SupervisorTiming --------------------------
(***************************************************************************)
(* The timing promises of the supervisor, stated over what its ticks       *)
(* really saw rather than over its own bookkeeping.  Two history variables *)
(* count consecutive ticks: faultRun those of the current NOMINAL phase    *)
(* that found the subtree faulted, healthyRun those that found it healthy. *)
(* The supervisor neither reads nor writes them.                           *)
(***************************************************************************)
EXTENDS Supervisor

VARIABLES faultRun, healthyRun

tvars == <<vars, faultRun, healthyRun>>

RunCap == GraceTicks + SettleTicks + 1

TimedInit == Init /\ faultRun = 0 /\ healthyRun = 0

Count ==
    /\ faultRun' = IF phase = "NOMINAL" /\ Faulted
                   THEN Grow(faultRun, RunCap) ELSE 0
    /\ healthyRun' = IF Faulted THEN 0 ELSE Grow(healthyRun, RunCap)

TimedNext ==
    \/ Tick /\ Count
    \/ /\ \E r \in Reports : HandleState(r)
       /\ UNCHANGED <<faultRun, healthyRun>>

TimedSpec == TimedInit /\ [][TimedNext]_tvars

(* The fairness of FairSpec: the timer never stops. *)
FairTimedSpec == TimedSpec /\ WF_tvars(Tick /\ Count)

(* README, "Escalation": the subtree is killed only when every tick of a   *)
(* whole grace window before this one found it faulted, within the current *)
(* NOMINAL phase.  One healthy tick in between starts the window anew, and *)
(* a fault carried over from before the desktop was restored does not      *)
(* count.                                                                  *)
KilledOnlyAfterHeldFault ==
    [][phase = "NOMINAL" /\ phase' = "CONTAIN" =>
           faultRun >= 1 /\ faultRun >= GraceTicks]_tvars

(* main.cc:734-745: a kill counts as having worked only after the subtree  *)
(* was healthy on every tick of a settle window.                           *)
ContainedOnlyAfterSettling ==
    [][phase = "CONTAIN" /\ phase' = "NOMINAL" =>
           healthyRun >= SettleTicks]_tvars

(* A console that is taken down early is taken down because the subtree    *)
(* had settled; otherwise its hold had elapsed.                            *)
ConsoleReleasedForAReason ==
    [][phase = "CONSOLE" /\ phase' = "RELEASE" =>
           healthyRun >= SettleTicks \/ PhaseAge >= ConsoleTicks]_tvars
=============================================================================
