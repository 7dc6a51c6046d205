----------------------------- MODULE Supervisor -----------------------------
(***************************************************************************)
(* The top-level supervisor, repos/sponge/src/sponge_supervisor/main.cc.   *)
(* It is a single entrypoint with two signal handlers: the periodic timer  *)
(* (_handle_tick) and the change signal of the supervised sandbox's state  *)
(* report (_handle_state).  Each disjunct of Next is one run of a handler. *)
(*                                                                         *)
(* The code keeps absolute tick counts and only ever compares differences  *)
(* with a deadline.  The model keeps the differences: an "age" is          *)
(* _ticks - since, and stops growing once it exceeds every deadline it is  *)
(* compared with, so the model has no unbounded clock.                     *)
(***************************************************************************)
EXTENDS Integers, FiniteSets

CONSTANTS
    Child,           \* names a state report may carry
    IgnoreExited,    \* policy ignore_exited: names whose exit is clean
    IgnoreStarting,  \* policy ignore_starting
    FaultSkipped,    \* policy fault_skipped
    Skips,           \* values of skipped_heartbeats a report may carry
    PollMs, BootGraceMs, GraceMs, ConsoleHoldMs, SettleMs,  \* policy, in ms
    TemplateIs,      \* how _publish fares with each template
    KillModulus      \* 2^32 in the code: _kill_version is an unsigned

Templates == {"system", "system_console"}

ASSUME PolicyAssumption ==
    /\ IsFiniteSet(Child)
    /\ IgnoreExited \subseteq Child
    /\ IgnoreStarting \in BOOLEAN
    /\ FaultSkipped \in Nat
    /\ Skips \subseteq Nat
    /\ PollMs \in Nat /\ BootGraceMs \in Nat /\ GraceMs \in Nat
    /\ ConsoleHoldMs \in Nat /\ SettleMs \in Nat
    /\ TemplateIs \in [Templates -> {"ok", "missing", "too_long"}]
    /\ KillModulus \in Nat \ {0}

VARIABLES
    phase,           \* _phase
    phaseAge,        \* _ticks - _phase_since
    uptime,          \* _ticks
    faultAge,        \* _ticks - _fault_since, or NoFault for _fault_since = 0
    everHealthy,     \* _ever_healthy
    healthyAge,      \* _ticks - _healthy_since
    exitedBaseline,  \* _exited_baseline
    stateSeen,       \* _state_seen
    wedged,          \* _max_skipped >= _fault_skipped
    exited,          \* _exited
    killVersion,     \* _kill_version
    systemReport,    \* what the "system_config" report carries
    armedReport      \* what the "console_state" report carries

observed  == <<stateSeen, wedged, exited>>
published == <<killVersion, systemReport>>
vars == <<phase, phaseAge, uptime, faultAge, everHealthy, healthyAge,
          exitedBaseline, observed, published, armedReport>>

Phases   == {"BOOT", "NOMINAL", "CONTAIN", "CONSOLE", "RELEASE"}
NoFault  == -1
NoReport == [template |-> "none", kill |-> 0]

-----------------------------------------------------------------------------
(* Policy: milliseconds become ticks once, rounded up. *)

Poll        == IF PollMs = 0 THEN 250 ELSE PollMs
ToTicks(ms) == (ms + Poll - 1) \div Poll

BootGraceTicks == ToTicks(BootGraceMs)
GraceTicks     == ToTicks(GraceMs)
ConsoleTicks   == ToTicks(ConsoleHoldMs)
SettleTicks    == ToTicks(SettleMs)

(* Ages stop growing here, above every deadline and every bound stated. *)
UptimeCap == BootGraceTicks + 1
PhaseCap  == GraceTicks + ConsoleTicks + SettleTicks + 1

Grow(age, cap) == IF age < cap THEN age + 1 ELSE cap

Uptime     == Grow(uptime, UptimeCap)
PhaseAge   == Grow(phaseAge, PhaseCap)
HealthyAge == Grow(healthyAge, SettleTicks)

-----------------------------------------------------------------------------
(* Observation. *)

ChildReport == [skipped : Skips, starting : BOOLEAN, exited : BOOLEAN]
Reports     == UNION {[S -> ChildReport] : S \in SUBSET Child}

(* Some child reached the threshold that is not excused as starting. *)
ScanWedged(r) ==
    \/ FaultSkipped = 0
    \/ \E c \in DOMAIN r : /\ r[c].skipped >= FaultSkipped
                           /\ ~(r[c].starting /\ IgnoreStarting)

ScanExited(r) ==
    Cardinality({c \in Child : /\ c \in DOMAIN r
                               /\ r[c].exited
                               /\ c \notin IgnoreExited})

Faulted ==
    \/ wedged
    \/ exited > exitedBaseline
    \/ ~stateSeen /\ Uptime > BootGraceTicks

-----------------------------------------------------------------------------
(* Output. *)

(* Mutant: the version is never reduced to the width of its type. *)
PublishWide(template) ==
    /\ killVersion' = killVersion + 1
    /\ systemReport' = [template |-> template, kill |-> killVersion + 1]

(* Mutant: the version is not stepped. *)
PublishSameVersion(template) ==
    /\ UNCHANGED killVersion
    /\ systemReport' = [template |-> template, kill |-> killVersion]

(* The version is taken before the substituted text is measured, so a text *)
(* that turns out too long uses one up without being published.            *)
Publish(template) ==
    LET kill == (killVersion + 1) % KillModulus
    IN  /\ killVersion' = IF TemplateIs[template] = "missing"
                          THEN killVersion ELSE kill
        /\ systemReport' = IF TemplateIs[template] = "ok"
                           THEN [template |-> template, kill |-> kill]
                           ELSE systemReport

ArmConsole(armed) == armedReport' = armed

-----------------------------------------------------------------------------
(* The state machine of _handle_tick. *)

Init ==
    /\ phase = "BOOT"
    /\ phaseAge = 0
    /\ uptime = 0
    /\ faultAge = NoFault
    /\ everHealthy = FALSE
    /\ healthyAge = 0
    /\ exitedBaseline = 0
    /\ stateSeen = FALSE
    /\ wedged = (FaultSkipped = 0)
    /\ exited = 0
    /\ killVersion = 0
    /\ systemReport = NoReport
    /\ armedReport = "none"

(* A tick advances every age, and leaves what was observed alone. *)
Elapse == uptime' = Uptime /\ UNCHANGED observed

(* _enter: a fault run does not survive into NOMINAL. *)
Enter(p) ==
    /\ phase' = p
    /\ phaseAge' = 0
    /\ faultAge' = IF p = "NOMINAL" THEN NoFault ELSE faultAge

Stay == phase' = phase /\ phaseAge' = PhaseAge

TickBoot ==
    /\ phase = "BOOT"
    /\ Elapse
    /\ ArmConsole("no")
    /\ Publish("system")
    /\ Enter("NOMINAL")
    /\ healthyAge' = HealthyAge
    /\ UNCHANGED <<everHealthy, exitedBaseline>>

(* Mutant: a healthy tick does not end the fault run. *)
TickNominalKeepsRun ==
    /\ phase = "NOMINAL" /\ ~Faulted
    /\ Elapse /\ Stay
    /\ healthyAge' = HealthyAge
    /\ UNCHANGED <<faultAge, everHealthy, exitedBaseline, published, armedReport>>

TickNominalHealthy ==
    /\ phase = "NOMINAL" /\ ~Faulted
    /\ Elapse /\ Stay
    /\ faultAge' = NoFault
    /\ healthyAge' = HealthyAge
    /\ UNCHANGED <<everHealthy, exitedBaseline, published, armedReport>>

TickEscalationStarts ==
    /\ phase = "NOMINAL" /\ Faulted /\ faultAge = NoFault
    /\ Elapse /\ Stay
    /\ faultAge' = 0
    /\ healthyAge' = HealthyAge
    /\ UNCHANGED <<everHealthy, exitedBaseline, published, armedReport>>

TickEscalationHolds ==
    /\ phase = "NOMINAL" /\ Faulted /\ faultAge # NoFault
    /\ faultAge + 1 < GraceTicks
    /\ Elapse /\ Stay
    /\ faultAge' = faultAge + 1
    /\ healthyAge' = HealthyAge
    /\ UNCHANGED <<everHealthy, exitedBaseline, published, armedReport>>

TickKill ==
    /\ phase = "NOMINAL" /\ Faulted /\ faultAge # NoFault
    /\ faultAge + 1 >= GraceTicks
    /\ Elapse
    /\ Publish("system")
    /\ phase' = "CONTAIN" /\ phaseAge' = 0
    /\ faultAge' = NoFault
    /\ everHealthy' = FALSE
    /\ healthyAge' = HealthyAge
    /\ UNCHANGED <<exitedBaseline, armedReport>>

(* The age of the healthy run after this tick: it starts at the first      *)
(* healthy tick.                                                           *)
HealthyRun == IF everHealthy THEN HealthyAge ELSE 0

TickContainSettling ==
    /\ phase = "CONTAIN" /\ ~Faulted
    /\ HealthyRun < SettleTicks
    /\ Elapse /\ Stay
    /\ everHealthy' = TRUE
    /\ healthyAge' = HealthyRun
    /\ UNCHANGED <<faultAge, exitedBaseline, published, armedReport>>

(* Mutant: CONTAIN is not left. *)
TickContainedStays ==
    /\ phase = "CONTAIN" /\ ~Faulted
    /\ HealthyRun >= SettleTicks
    /\ Elapse /\ Stay
    /\ everHealthy' = TRUE
    /\ healthyAge' = HealthyRun
    /\ exitedBaseline' = exited
    /\ UNCHANGED <<faultAge, published, armedReport>>

TickContained ==
    /\ phase = "CONTAIN" /\ ~Faulted
    /\ HealthyRun >= SettleTicks
    /\ Elapse
    /\ everHealthy' = TRUE
    /\ healthyAge' = HealthyRun
    /\ exitedBaseline' = exited
    /\ Enter("NOMINAL")
    /\ UNCHANGED <<published, armedReport>>

(* Mutant: a faulted tick does not end the healthy run. *)
TickContainKeepsRun ==
    /\ phase = "CONTAIN" /\ Faulted
    /\ PhaseAge < GraceTicks
    /\ Elapse /\ Stay
    /\ healthyAge' = HealthyAge
    /\ UNCHANGED <<everHealthy, faultAge, exitedBaseline, published, armedReport>>

TickContainGrace ==
    /\ phase = "CONTAIN" /\ Faulted
    /\ PhaseAge < GraceTicks
    /\ Elapse /\ Stay
    /\ everHealthy' = FALSE
    /\ healthyAge' = HealthyAge
    /\ UNCHANGED <<faultAge, exitedBaseline, published, armedReport>>

(* Mutant: a kill that did not help is given up. *)
TickGivesUp ==
    /\ phase = "CONTAIN" /\ Faulted
    /\ PhaseAge >= GraceTicks
    /\ Elapse
    /\ everHealthy' = FALSE
    /\ healthyAge' = HealthyAge
    /\ Enter("NOMINAL")
    /\ UNCHANGED <<exitedBaseline, published, armedReport>>

TickTakeover ==
    /\ phase = "CONTAIN" /\ Faulted
    /\ PhaseAge >= GraceTicks
    /\ Elapse
    /\ everHealthy' = FALSE
    /\ healthyAge' = HealthyAge
    /\ Publish("system_console")
    /\ ArmConsole("yes")
    /\ Enter("CONSOLE")
    /\ UNCHANGED exitedBaseline

(* Mutant: a faulted tick does not end the healthy run. *)
TickConsoleKeepsRun ==
    /\ phase = "CONSOLE" /\ Faulted
    /\ PhaseAge < ConsoleTicks
    /\ Elapse /\ Stay
    /\ healthyAge' = HealthyAge
    /\ UNCHANGED <<everHealthy, faultAge, exitedBaseline, published, armedReport>>

TickConsoleHold ==
    /\ phase = "CONSOLE" /\ Faulted
    /\ PhaseAge < ConsoleTicks
    /\ Elapse /\ Stay
    /\ everHealthy' = FALSE
    /\ healthyAge' = HealthyAge
    /\ UNCHANGED <<faultAge, exitedBaseline, published, armedReport>>

TickHoldElapsed ==
    /\ phase = "CONSOLE" /\ Faulted
    /\ PhaseAge >= ConsoleTicks
    /\ Elapse
    /\ everHealthy' = FALSE
    /\ healthyAge' = HealthyAge
    /\ ArmConsole("no")
    /\ Enter("RELEASE")
    /\ UNCHANGED <<exitedBaseline, published>>

TickConsoleSettling ==
    /\ phase = "CONSOLE" /\ ~Faulted
    /\ HealthyRun < SettleTicks
    /\ Elapse /\ Stay
    /\ everHealthy' = TRUE
    /\ healthyAge' = HealthyRun
    /\ UNCHANGED <<faultAge, exitedBaseline, published, armedReport>>

TickConsoleHealed ==
    /\ phase = "CONSOLE" /\ ~Faulted
    /\ HealthyRun >= SettleTicks
    /\ Elapse
    /\ everHealthy' = TRUE
    /\ healthyAge' = HealthyRun
    /\ ArmConsole("no")
    /\ Enter("RELEASE")
    /\ UNCHANGED <<exitedBaseline, published>>

TickReleaseWait ==
    /\ phase = "RELEASE"
    /\ PhaseAge < SettleTicks
    /\ Elapse /\ Stay
    /\ healthyAge' = HealthyAge
    /\ UNCHANGED <<faultAge, everHealthy, exitedBaseline, published, armedReport>>

(* Mutant: the desktop is restored without waiting for the console. *)
TickRestoreAtOnce ==
    /\ phase = "RELEASE"
    /\ Elapse
    /\ Publish("system")
    /\ Enter("NOMINAL")
    /\ healthyAge' = HealthyAge
    /\ UNCHANGED <<everHealthy, exitedBaseline, armedReport>>

(* Mutant: the desktop's configuration is not published again. *)
TickRestoreSilently ==
    /\ phase = "RELEASE"
    /\ PhaseAge >= SettleTicks
    /\ Elapse
    /\ Enter("NOMINAL")
    /\ healthyAge' = HealthyAge
    /\ UNCHANGED <<everHealthy, exitedBaseline, published, armedReport>>

TickRestore ==
    /\ phase = "RELEASE"
    /\ PhaseAge >= SettleTicks
    /\ Elapse
    /\ Publish("system")
    /\ Enter("NOMINAL")
    /\ healthyAge' = HealthyAge
    /\ UNCHANGED <<everHealthy, exitedBaseline, armedReport>>

Tick ==
    \/ TickBoot
    \/ TickNominalHealthy \/ TickEscalationStarts
    \/ TickEscalationHolds \/ TickKill
    \/ TickContainSettling \/ TickContained
    \/ TickContainGrace \/ TickTakeover
    \/ TickConsoleHold \/ TickHoldElapsed
    \/ TickConsoleSettling \/ TickConsoleHealed
    \/ TickReleaseWait \/ TickRestore

(* _handle_state: a fresh report replaces every observation. *)
HandleState(r) ==
    /\ stateSeen' = TRUE
    /\ wedged' = ScanWedged(r)
    /\ exited' = ScanExited(r)
    /\ UNCHANGED <<phase, phaseAge, uptime, faultAge, everHealthy, healthyAge,
                   exitedBaseline, published, armedReport>>

Next == Tick \/ \E r \in Reports : HandleState(r)

Spec == Init /\ [][Next]_vars

(* The supervisor's own Timer delivers forever (trigger_periodic), whatever *)
(* the supervised subtree does.  Nothing is assumed of the reports.         *)
FairSpec == Spec /\ WF_vars(Tick)

-----------------------------------------------------------------------------
(* The types of the variables. *)
TypeOK ==
    /\ phase \in Phases
    /\ phaseAge \in 0..PhaseCap
    /\ uptime \in 0..UptimeCap
    /\ faultAge \in Int /\ NoFault <= faultAge /\ faultAge <= GraceTicks
    /\ everHealthy \in BOOLEAN
    /\ healthyAge \in 0..SettleTicks
    /\ exitedBaseline \in Nat
    /\ stateSeen \in BOOLEAN
    /\ wedged \in BOOLEAN
    /\ exited \in Nat
    /\ killVersion \in 0..KillModulus - 1
    /\ systemReport \in [template : Templates \union {"none"},
                         kill : 0..KillModulus - 1]
    /\ armedReport \in {"none", "yes", "no"}

(* The console phase is bounded whatever the subtree does in it, flapping  *)
(* between healthy and faulted included: the display is handed back at the *)
(* latest one settle window after the hold.  The same bound holds for the  *)
(* decision CONTAIN has to take, and RELEASE lasts one settle window.      *)
PhasesBounded ==
    /\ phase = "CONSOLE" => phaseAge <= ConsoleTicks + SettleTicks
    /\ phase = "CONTAIN" => phaseAge <= GraceTicks + SettleTicks
    /\ phase = "RELEASE" => phaseAge <= SettleTicks

(* The console is told to show itself exactly while the supervisor is in   *)
(* its console phase, and never while it is in charge of a desktop.        *)
ArmedOnlyInConsole == armedReport = "yes" <=> phase = "CONSOLE"

(* The desktop-less configuration is in force only while the console owns  *)
(* the display or is giving it back: as long as the desktop's own template *)
(* can be published, no path leaves the user without a desktop.            *)
DesktopConfigOutsideConsole ==
    TemplateIs["system"] = "ok" =>
        (systemReport.template = "system_console" =>
            phase \in {"CONSOLE", "RELEASE"})

(* The re-baselining of main.cc:757 never moves the baseline: it is reached *)
(* only on a tick without a fault, and then no exit is counted.  Any exit  *)
(* of a child not excused keeps the subtree faulted for as long as the     *)
(* report shows it, in every phase.                                        *)
BaselineStaysZero == exitedBaseline = 0

(* A fault that never goes away keeps bringing the console back: the       *)
(* supervisor neither gives up nor settles with a faulted subtree.         *)
PersistentFaultIsShown == <>[]Faulted => []<>(phase = "CONSOLE")

(* A subtree that recovers for good ends in NOMINAL for good. *)
RecoveryConverges == <>[]~Faulted => <>[](phase = "NOMINAL")

=============================================================================
