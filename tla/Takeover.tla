------------------------------ MODULE Takeover ------------------------------
(***************************************************************************)
(* The supervisor together with what it drives: the relay of the two       *)
(* reports it writes, the supervised sandbox, and the fault console of     *)
(* repos/sponge/src/sponge_console/main.cc.                                *)
(*                                                                         *)
(* report_rom keeps only the latest report and signals its reader, which   *)
(* reads it when it gets to run: a report is pending until then, and a     *)
(* newer one replaces it.  The sandbox is Genode's init: it applies the    *)
(* configuration it reads, replaces every child whose start version        *)
(* differs, and publishes a state report whenever a child changes.         *)
(***************************************************************************)
EXTENDS Supervisor

CONSTANTS
    Desktop,      \* the child the console variant leaves out: the Gui client
    SandboxLag,   \* ticks within which the sandbox applies a new config
    ConsoleLag    \* ticks within which the console handles a new report

ASSUME TakeoverAssumption ==
    /\ Desktop \in Child
    /\ {0, FaultSkipped} \subseteq Skips
    /\ SandboxLag \in Nat
    /\ ConsoleLag \in Nat

VARIABLES
    sandboxConfig,  \* the configuration the sandbox last applied
    child,          \* the state of every child of the sandbox
    unread,         \* a state report the supervisor has not yet handled
    session,        \* the console holds a Gui session: _screen is constructed
    sandboxLate,    \* ticks for which a configuration has been pending
    consoleLate     \* ticks for which an arming report has been pending

sandbox == <<sandboxConfig, child>>
delays  == <<sandboxLate, consoleLate>>
takeoverVars == <<vars, sandbox, unread, session, delays>>

ChildStates == {"absent", "starting", "up", "wedged", "exited"}

(* The children a template starts. *)
Starts(template) ==
    CASE template = "system"         -> Child
      [] template = "system_console" -> Child \ {Desktop}
      [] OTHER                       -> {}

(* The report of the sandbox's present state. A starting child skips       *)
(* heartbeats just as a wedged one does, and is marked as starting.        *)
CurrentReport ==
    [c \in {d \in Child : child[d] # "absent"} |->
        [skipped  |-> IF child[c] \in {"starting", "wedged"}
                      THEN FaultSkipped ELSE 0,
         starting |-> child[c] = "starting",
         exited   |-> child[c] = "exited"]]

ConfigPending == sandboxConfig # systemReport
ArmingPending == session # (armedReport = "yes")

TakeoverInit ==
    /\ Init
    /\ sandboxConfig = NoReport
    /\ child = [c \in Child |-> "absent"]
    /\ unread = FALSE
    /\ session = FALSE
    /\ sandboxLate = 0
    /\ consoleLate = 0

-----------------------------------------------------------------------------
(* The supervisor's handlers.  A reader that is late is not late forever:  *)
(* no tick passes beyond the lags.                                         *)

SupervisorTick ==
    /\ ConfigPending => sandboxLate < SandboxLag
    /\ ArmingPending => consoleLate < ConsoleLag
    /\ Tick
    /\ sandboxLate' = IF ConfigPending THEN sandboxLate + 1 ELSE 0
    /\ consoleLate' = IF ArmingPending THEN consoleLate + 1 ELSE 0
    /\ UNCHANGED <<sandbox, unread, session>>

SupervisorReadsState ==
    /\ unread
    /\ HandleState(CurrentReport)
    /\ unread' = FALSE
    /\ UNCHANGED <<sandbox, session, delays>>

-----------------------------------------------------------------------------
(* The sandbox. *)

ApplyConfig ==
    /\ ConfigPending
    /\ sandboxConfig' = systemReport
    /\ child' = [c \in Child |->
                    IF c \notin Starts(systemReport.template)
                    THEN "absent"
                    ELSE IF \/ child[c] = "absent"
                            \/ sandboxConfig.kill # systemReport.kill
                         THEN "starting"
                         ELSE child[c]]
    /\ unread' = TRUE
    /\ sandboxLate' = 0
    /\ UNCHANGED <<vars, session, consoleLate>>

ChildBecomes(c, from, to) ==
    /\ child[c] = from
    /\ child' = [child EXCEPT ![c] = to]
    /\ unread' = TRUE
    /\ UNCHANGED <<vars, sandboxConfig, session, delays>>

ChildAnswers(c)      == ChildBecomes(c, "starting", "up")
ChildWedges(c)       == ChildBecomes(c, "up", "wedged")
ChildRecovers(c)     == ChildBecomes(c, "wedged", "up")
ChildExits(c)        == ChildBecomes(c, "up", "exited")
SandboxRestarts(c)   == ChildBecomes(c, "wedged", "starting")

-----------------------------------------------------------------------------
(* The console's only handler, _handle_armed. *)

ConsoleHandlesArmed ==
    /\ ArmingPending
    /\ session' = (armedReport = "yes")
    /\ consoleLate' = 0
    /\ UNCHANGED <<vars, sandbox, unread, sandboxLate>>

TakeoverNext ==
    \/ SupervisorTick
    \/ SupervisorReadsState
    \/ ApplyConfig
    \/ ConsoleHandlesArmed
    \/ \E c \in Child : \/ ChildAnswers(c) \/ ChildWedges(c)
                        \/ ChildRecovers(c) \/ ChildExits(c)
                        \/ SandboxRestarts(c)

TakeoverSpec == TakeoverInit /\ [][TakeoverNext]_takeoverVars

(* The timer ticks, and init, the console and the supervisor run when they *)
(* have been signalled: each is a component with a thread of its own.      *)
(* Children promise nothing.                                               *)
FairTakeoverSpec ==
    /\ TakeoverSpec
    /\ WF_takeoverVars(SupervisorTick)
    /\ WF_takeoverVars(SupervisorReadsState)
    /\ WF_takeoverVars(ApplyConfig)
    /\ WF_takeoverVars(ConsoleHandlesArmed)

-----------------------------------------------------------------------------
DesktopUp == child[Desktop] \in {"starting", "up", "wedged"}

(* The display changes hands in order: console and desktop share it at     *)
(* most while the sandbox has yet to read the desktop-less configuration   *)
(* that was published together with the arming report.  In particular the  *)
(* desktop rebuilt after RELEASE never meets the console.                  *)
SharedOnlyDuringTakeover ==
    session /\ DesktopUp =>
        ConfigPending /\ systemReport.template = "system_console"

(* main.cc:29-41, the restart lever: a configuration that reaches the      *)
(* sandbox restarts every child it starts, so what was wedged before a     *)
(* kill is not running after it.                                           *)
EveryConfigRestarts ==
    [][sandboxConfig' # sandboxConfig =>
        \A c \in Starts(sandboxConfig'.template) :
            child'[c] = "starting"]_takeoverVars

(* The user gets a desktop back: a console on the display is followed by   *)
(* a sandbox running the full configuration and a closed console.          *)
DesktopComesBack ==
    session ~> ~session /\ sandboxConfig.template = "system"
=============================================================================
