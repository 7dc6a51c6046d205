--------------------------- MODULE TakeoverProofs ---------------------------
(***************************************************************************)
(* Proofs about the supervisor in its surroundings, for every policy,      *)
(* every set of children and every lag.                                    *)
(***************************************************************************)
EXTENDS Takeover, SupervisorProofs

(* Both templates are there and fit the buffer, as in the shipped module.  *)
AllPublished == \A t \in Templates : TemplateIs[t] = "ok"

Kill   == 0..KillModulus - 1
Config == [template : Templates \union {"none"}, kill : Kill]

-----------------------------------------------------------------------------
(* What surrounds the supervisor makes no step of its own in it, and only  *)
(* reports what its handler can be given: every behaviour of the composed  *)
(* system is one of the supervisor alone, and what is proved of that holds *)
(* here.                                                                   *)
LEMMA CurrentReportIsReport == CurrentReport \in Reports
<1> DEFINE S == {d \in Child : child[d] # "absent"}
           R(c) == [skipped  |-> IF child[c] \in {"starting", "wedged"}
                                 THEN FaultSkipped ELSE 0,
                    starting |-> child[c] = "starting",
                    exited   |-> child[c] = "exited"]
<1>1. ASSUME NEW c \in S
      PROVE  R(c) \in ChildReport
  <2>1. (IF child[c] \in {"starting", "wedged"} THEN FaultSkipped ELSE 0) \in Skips
    BY TakeoverAssumption
  <2> QED
    BY <2>1 DEF ChildReport
<1>2. [c \in S |-> R(c)] \in [S -> ChildReport]
  BY <1>1
<1>3. CurrentReport = [c \in S |-> R(c)]
  BY DEF CurrentReport
<1>4. S \in SUBSET Child
  OBVIOUS
<1> QED
  BY <1>2, <1>3, <1>4 DEF Reports

THEOREM TakeoverImplementsSupervisor == TakeoverSpec => Spec
<1>1. TakeoverInit => Init
  BY DEF TakeoverInit
<1>2. [TakeoverNext]_takeoverVars => [Next]_vars
  <2> SUFFICES ASSUME [TakeoverNext]_takeoverVars
               PROVE  [Next]_vars
    OBVIOUS
  <2>1. CASE SupervisorTick
    BY <2>1 DEF SupervisorTick, Next
  <2>2. CASE SupervisorReadsState
    BY <2>2, CurrentReportIsReport DEF SupervisorReadsState, Next
  <2>3. CASE ApplyConfig
    BY <2>3 DEF ApplyConfig
  <2>4. CASE ConsoleHandlesArmed
    BY <2>4 DEF ConsoleHandlesArmed
  <2>5. ASSUME NEW c \in Child, NEW from, NEW to, ChildBecomes(c, from, to)
        PROVE  UNCHANGED vars
    BY <2>5 DEF ChildBecomes
  <2>6. CASE UNCHANGED takeoverVars
    BY <2>6 DEF takeoverVars
  <2> QED
    BY <2>1, <2>2, <2>3, <2>4, <2>5, <2>6
       DEF TakeoverNext, ChildAnswers, ChildWedges, ChildRecovers, ChildExits,
           SandboxRestarts
<1> QED
  BY <1>1, <1>2, PTL DEF TakeoverSpec, Spec

-----------------------------------------------------------------------------
(* The children and the delays. *)

SurroundingsOK ==
    /\ sandboxConfig \in Config
    /\ child \in [Child -> ChildStates]
    /\ session \in BOOLEAN
    /\ sandboxLate \in 0..SandboxLag
    /\ consoleLate \in 0..ConsoleLag

(* The desktop is there only in a configuration that starts it. *)
DesktopConfigured ==
    sandboxConfig.template # "system" => child[Desktop] = "absent"

(* One child at most changes, or all do and the configuration with them. *)
LEMMA SandboxStep ==
    ASSUME TypeOK, SurroundingsOK, DesktopConfigured, [TakeoverNext]_takeoverVars
    PROVE  SurroundingsOK' /\ DesktopConfigured'
<1> USE TakeoverAssumption
<1>1. CASE SupervisorTick
  BY <1>1 DEF SupervisorTick, SurroundingsOK, DesktopConfigured, sandbox
<1>2. CASE SupervisorReadsState
  BY <1>2 DEF SupervisorReadsState, SurroundingsOK, DesktopConfigured, sandbox, delays
<1>3. CASE ApplyConfig
  <2>1. systemReport \in Config
    BY DEF TypeOK, Config, Kill
  <2>2. \A c \in Child : child'[c] \in ChildStates
    BY <1>3 DEF ApplyConfig, SurroundingsOK, ChildStates
  <2>3. child' \in [Child -> ChildStates]
    BY <1>3, <2>2 DEF ApplyConfig
  <2>4. systemReport.template # "system" => Desktop \notin Starts(systemReport.template)
    BY <2>1 DEF Starts, Config, Templates
  <2>5. DesktopConfigured'
    BY <1>3, <2>4 DEF ApplyConfig, DesktopConfigured
  <2> QED
    BY <1>3, <2>1, <2>3, <2>5 DEF ApplyConfig, SurroundingsOK
<1>4. CASE ConsoleHandlesArmed
  BY <1>4 DEF ConsoleHandlesArmed, SurroundingsOK, DesktopConfigured, sandbox
<1>5. ASSUME NEW c \in Child, NEW from, NEW to \in ChildStates, from # "absent",
             ChildBecomes(c, from, to)
      PROVE  SurroundingsOK' /\ DesktopConfigured'
  BY <1>5 DEF ChildBecomes, SurroundingsOK, DesktopConfigured, delays
<1>6. CASE UNCHANGED takeoverVars
  BY <1>6 DEF takeoverVars, SurroundingsOK, DesktopConfigured, sandbox, delays
<1> QED
  BY <1>1, <1>2, <1>3, <1>4, <1>5, <1>6
     DEF TakeoverNext, ChildAnswers, ChildWedges, ChildRecovers, ChildExits,
         SandboxRestarts, ChildStates

LEMMA SurroundingsCorrect == TakeoverSpec => [](SurroundingsOK /\ DesktopConfigured)
<1>1. TakeoverInit => SurroundingsOK /\ DesktopConfigured
  <2> SUFFICES ASSUME TakeoverInit
               PROVE  SurroundingsOK /\ DesktopConfigured
    OBVIOUS
  <2>1. 0 \in Kill
    BY PolicyAssumption DEF Kill
  <2>2. sandboxConfig \in Config
    BY <2>1 DEF TakeoverInit, Config, NoReport
  <2>3. child \in [Child -> ChildStates] /\ child[Desktop] = "absent"
    BY TakeoverAssumption DEF TakeoverInit, ChildStates
  <2>4. 0 \in 0..SandboxLag /\ 0 \in 0..ConsoleLag
    BY TakeoverAssumption
  <2> QED
    BY <2>2, <2>3, <2>4 DEF TakeoverInit, SurroundingsOK, DesktopConfigured
<1>2. TakeoverSpec => []TypeOK
  BY TakeoverImplementsSupervisor, TypeCorrect, PTL
<1> QED
  BY <1>1, <1>2, SandboxStep, PTL DEF TakeoverSpec

-----------------------------------------------------------------------------
(* The display.  A console that holds a session after RELEASE began has    *)
(* been late for all of it, and the settle window is longer than that; the *)
(* phases in which a console may hold one are those in which the published *)
(* configuration has no desktop.                                           *)
ConsoleInv ==
    /\ session => phase \in {"CONSOLE", "RELEASE"}
    /\ session /\ phase = "RELEASE" => phaseAge <= consoleLate
    /\ phase \in {"CONSOLE", "RELEASE"} => systemReport.template = "system_console"

LEMMA ConsoleTick ==
    ASSUME TypeOK, SurroundingsOK, ArmedOnlyInConsole, ConsoleInv,
           AllPublished, ConsoleLag < SettleTicks, SupervisorTick
    PROVE  ConsoleInv'
<1> USE DeadlinesNat, TakeoverAssumption
    DEF TypeOK, SurroundingsOK, Phases, ArmedOnlyInConsole, ConsoleInv,
        Enter, Stay, ArmConsole, PhaseAge, Grow, PhaseCap
<1>1. /\ Tick /\ session' = session
      /\ ArmingPending => consoleLate < ConsoleLag
      /\ consoleLate' = IF ArmingPending THEN consoleLate + 1 ELSE 0
  BY DEF SupervisorTick
<1>2. ASSUME NEW t \in Templates, Publish(t)
      PROVE  systemReport'.template = t
  BY <1>2 DEF Publish, AllPublished
<1>3. session /\ phase = "RELEASE" => ArmingPending
  BY DEF ArmingPending
<1>4. CASE TickBoot
  BY <1>1, <1>4 DEF TickBoot
<1>5. CASE \/ TickNominalHealthy \/ TickEscalationStarts \/ TickEscalationHolds
           \/ TickContainSettling \/ TickContained \/ TickContainGrace \/ TickKill
  BY <1>1, <1>5
     DEF TickNominalHealthy, TickEscalationStarts, TickEscalationHolds,
         TickContainSettling, TickContained, TickContainGrace, TickKill
<1>6. CASE TickTakeover
  BY <1>1, <1>2, <1>6 DEF TickTakeover, Templates
<1>7. CASE TickConsoleHold \/ TickConsoleSettling
  BY <1>1, <1>7 DEF TickConsoleHold, TickConsoleSettling, published
<1>8. CASE TickHoldElapsed \/ TickConsoleHealed
  BY <1>1, <1>8 DEF TickHoldElapsed, TickConsoleHealed, published
<1>9. CASE TickReleaseWait
  BY <1>1, <1>3, <1>9 DEF TickReleaseWait, published
<1>10. CASE TickRestore
  <2>1. ~session
    BY <1>1, <1>3, <1>10 DEF TickRestore
  <2> QED
    BY <1>1, <2>1, <1>10 DEF TickRestore
<1> QED
  BY <1>1, <1>4, <1>5, <1>6, <1>7, <1>8, <1>9, <1>10 DEF Tick

LEMMA ConsoleStep ==
    ASSUME TypeOK, SurroundingsOK, ArmedOnlyInConsole, ConsoleInv,
           AllPublished, ConsoleLag < SettleTicks, [TakeoverNext]_takeoverVars
    PROVE  ConsoleInv'
<1>1. CASE SupervisorTick
  BY <1>1, ConsoleTick
<1>2. CASE SupervisorReadsState
  BY <1>2 DEF SupervisorReadsState, HandleState, ConsoleInv, delays, published
<1>3. CASE ApplyConfig
  BY <1>3 DEF ApplyConfig, ConsoleInv, vars, published
<1>4. CASE ConsoleHandlesArmed
  BY <1>4 DEF ConsoleHandlesArmed, ArmingPending, ConsoleInv, vars, published,
              ArmedOnlyInConsole
<1>5. ASSUME NEW c \in Child, NEW from, NEW to, ChildBecomes(c, from, to)
      PROVE  ConsoleInv'
  BY <1>5 DEF ChildBecomes, ConsoleInv, vars, published, delays
<1>6. CASE UNCHANGED takeoverVars
  BY <1>6 DEF takeoverVars, vars, published, delays, ConsoleInv
<1> QED
  BY <1>1, <1>2, <1>3, <1>4, <1>5, <1>6
     DEF TakeoverNext, ChildAnswers, ChildWedges, ChildRecovers, ChildExits,
         SandboxRestarts

(* Console and desktop share the display only until the sandbox has read   *)
(* the desktop-less configuration: in particular the desktop rebuilt after *)
(* RELEASE never meets the console, for every policy in which the settle   *)
(* window is longer than the console takes to handle a report.             *)
THEOREM DisplayChangesHandsInOrder ==
    ASSUME AllPublished, ConsoleLag < SettleTicks
    PROVE  TakeoverSpec => []SharedOnlyDuringTakeover
<1>1. TakeoverInit => ConsoleInv
  BY DEF TakeoverInit, Init, ConsoleInv
<1>2. TakeoverSpec => [](TypeOK /\ ArmedOnlyInConsole)
  BY TakeoverImplementsSupervisor, TypeCorrect, ArmedOnlyInConsoleHolds, PTL
<1>3. SurroundingsOK /\ DesktopConfigured /\ ConsoleInv => SharedOnlyDuringTakeover
  BY DEF SurroundingsOK, DesktopConfigured, ConsoleInv, SharedOnlyDuringTakeover,
         DesktopUp, ConfigPending
<1> QED
  BY <1>1, <1>2, <1>3, ConsoleStep, SurroundingsCorrect, PTL DEF TakeoverSpec

-----------------------------------------------------------------------------
(* The restart lever.  The version is a counter that wraps: how far the    *)
(* published one is ahead of the applied one is counted around the wrap.   *)

Ahead(a, b) == IF b >= a THEN b - a ELSE b - a + KillModulus

LEMMA AheadStep ==
    ASSUME NEW a \in Kill, NEW b \in Kill, Ahead(a, b) + 1 < KillModulus
    PROVE  LET n == (b + 1) % KillModulus
           IN  n \in Kill /\ Ahead(a, n) = Ahead(a, b) + 1 /\ n # a
<1>1. KillModulus \in Nat \ {0}
  BY PolicyAssumption
<1>2. CASE b + 1 < KillModulus
  <2>1. (b + 1) % KillModulus = b + 1
    BY <1>1, <1>2 DEF Kill
  <2> QED
    BY <1>1, <1>2, <2>1 DEF Kill, Ahead
<1>3. CASE b + 1 = KillModulus
  <2>1. (b + 1) % KillModulus = 0
    BY <1>1, <1>3
  <2> QED
    BY <1>1, <1>3, <2>1 DEF Kill, Ahead
<1> QED
  BY <1>1, <1>2, <1>3 DEF Kill

(* Every configuration that waits for the sandbox has a version of its     *)
(* own: at most one is published in each tick, and no more ticks pass than *)
(* there are versions.                                                     *)
VersionInv ==
    /\ systemReport.kill = killVersion
    /\ Ahead(sandboxConfig.kill, killVersion) <= sandboxLate + 1
    /\ ConfigPending => sandboxConfig.kill # killVersion

LEMMA TickPublishes ==
    ASSUME TypeOK, AllPublished, Tick
    PROVE  \/ UNCHANGED published
           \/ /\ killVersion' = (killVersion + 1) % KillModulus
              /\ systemReport'.kill = killVersion'
<1>1. ASSUME NEW t \in Templates, Publish(t)
      PROVE  /\ killVersion' = (killVersion + 1) % KillModulus
             /\ systemReport'.kill = killVersion'
  BY <1>1 DEF Publish, AllPublished
<1>2. CASE TickBoot
  BY <1>1, <1>2 DEF TickBoot, Templates
<1>3. CASE TickKill
  BY <1>1, <1>3 DEF TickKill, Templates
<1>4. CASE TickTakeover
  BY <1>1, <1>4 DEF TickTakeover, Templates
<1>5. CASE TickRestore
  BY <1>1, <1>5 DEF TickRestore, Templates
<1> QED
  BY <1>2, <1>3, <1>4, <1>5
     DEF Tick, TickNominalHealthy, TickEscalationStarts, TickEscalationHolds,
         TickContainSettling, TickContained, TickContainGrace,
         TickConsoleHold, TickHoldElapsed, TickConsoleSettling,
         TickConsoleHealed, TickReleaseWait

LEMMA VersionStep ==
    ASSUME TypeOK, SurroundingsOK, VersionInv,
           AllPublished, KillModulus > SandboxLag + 1, [TakeoverNext]_takeoverVars
    PROVE  VersionInv'
<1> DEFINE applied == sandboxConfig.kill
<1>1. /\ KillModulus \in Nat \ {0} /\ SandboxLag \in Nat
      /\ applied \in Kill /\ killVersion \in Kill
      /\ sandboxLate \in 0..SandboxLag
  BY PolicyAssumption, TakeoverAssumption DEF TypeOK, SurroundingsOK, Config, Kill
<1>2. Ahead(applied, killVersion) \in Nat
  BY <1>1 DEF Ahead, Kill
<1>3. \A k \in Kill : Ahead(k, k) = 0
  BY <1>1 DEF Ahead, Kill
<1>4. CASE SupervisorTick
  <2>1. /\ Tick /\ sandboxConfig' = sandboxConfig
        /\ ConfigPending => sandboxLate < SandboxLag
        /\ sandboxLate' = IF ConfigPending THEN sandboxLate + 1 ELSE 0
    BY <1>4 DEF SupervisorTick, sandbox
  <2>2. ~ConfigPending => applied = killVersion
    BY DEF ConfigPending, VersionInv
  <2>3. sandboxLate' \in Nat /\ Ahead(applied, killVersion) <= sandboxLate'
    <3>1. CASE ConfigPending
      BY <1>1, <1>2, <2>1, <3>1 DEF VersionInv
    <3>2. CASE ~ConfigPending
      BY <1>1, <1>3, <2>1, <2>2, <3>2
    <3> QED
      BY <3>1, <3>2
  <2>4. CASE UNCHANGED published
    <3>1. VersionInv'
            <=> /\ systemReport.kill = killVersion
                /\ Ahead(applied, killVersion) <= sandboxLate' + 1
                /\ ConfigPending => applied # killVersion
      BY <2>1, <2>4 DEF published, VersionInv, ConfigPending, Ahead
    <3> QED
      BY <3>1, <2>3, <1>2 DEF VersionInv
  <2>5. CASE /\ killVersion' = (killVersion + 1) % KillModulus
             /\ systemReport'.kill = killVersion'
    <3>1. Ahead(applied, killVersion) + 1 < KillModulus
      BY <1>1, <1>2, <2>1, <2>3
    <3>2. /\ Ahead(applied, killVersion') = Ahead(applied, killVersion) + 1
          /\ killVersion' # applied
      BY <3>1, <1>1, <2>5, AheadStep
    <3>3. Ahead(applied, killVersion') <= sandboxLate' + 1
      BY <3>2, <2>3, <1>2
    <3> QED
      BY <2>1, <2>5, <3>2, <3>3 DEF VersionInv, Ahead
  <2> QED
    BY <2>1, <2>4, <2>5, TickPublishes
<1>5. CASE ApplyConfig
  <2>1. /\ sandboxConfig' = systemReport /\ sandboxLate' = 0
        /\ systemReport' = systemReport /\ killVersion' = killVersion
    BY <1>5 DEF ApplyConfig, vars, published
  <2>2. Ahead(killVersion, killVersion) <= 0 + 1
    BY <1>1, <1>3
  <2> QED
    BY <2>1, <2>2 DEF VersionInv, ConfigPending, Ahead
<1>6. CASE UNCHANGED <<published, sandboxConfig, sandboxLate>>
  BY <1>6 DEF VersionInv, ConfigPending, Ahead, published
<1> QED
  BY <1>4, <1>5, <1>6
     DEF TakeoverNext, takeoverVars, vars, sandbox, delays, ChildBecomes,
         ChildAnswers, ChildWedges, ChildRecovers, ChildExits, SandboxRestarts,
         SupervisorReadsState, ConsoleHandlesArmed, HandleState

(* Every configuration that reaches the sandbox restarts all it starts,    *)
(* wrap of the version included, as long as the version has more values    *)
(* than the sandbox lets ticks pass.                                       *)
THEOREM EveryConfigRestartsAll ==
    ASSUME AllPublished, KillModulus > SandboxLag + 1
    PROVE  TakeoverSpec => EveryConfigRestarts
<1>1. TakeoverInit => VersionInv
  <2>1. 0 \in Nat /\ Ahead(0, 0) = 0
    BY DEF Ahead
  <2> QED
    BY <2>1 DEF TakeoverInit, Init, NoReport, VersionInv, ConfigPending
<1>2. TakeoverSpec => []TypeOK
  BY TakeoverImplementsSupervisor, TypeCorrect, PTL
<1>3. TakeoverSpec => []VersionInv
  BY <1>1, <1>2, VersionStep, SurroundingsCorrect, PTL DEF TakeoverSpec
<1>4. SurroundingsOK /\ VersionInv /\ [TakeoverNext]_takeoverVars
        => [sandboxConfig' # sandboxConfig =>
               \A c \in Starts(sandboxConfig'.template) :
                   child'[c] = "starting"]_takeoverVars
  <2> SUFFICES ASSUME VersionInv, TakeoverNext, sandboxConfig' # sandboxConfig
               PROVE  \A c \in Starts(sandboxConfig'.template) : child'[c] = "starting"
    OBVIOUS
  <2>1. ApplyConfig
    BY DEF TakeoverNext, sandbox, ChildBecomes, ChildAnswers, ChildWedges,
           ChildRecovers, ChildExits, SandboxRestarts, SupervisorReadsState,
           ConsoleHandlesArmed, SupervisorTick
  <2>2. sandboxConfig.kill # systemReport.kill
    BY <2>1 DEF ApplyConfig, VersionInv
  <2>3. \A t : Starts(t) \subseteq Child
    BY DEF Starts
  <2> QED
    BY <2>1, <2>2, <2>3 DEF ApplyConfig
<1> QED
  BY <1>2, <1>3, <1>4, SurroundingsCorrect, PTL DEF TakeoverSpec, EveryConfigRestarts
=============================================================================
