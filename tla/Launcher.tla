------------------------------- MODULE Launcher -------------------------------
(***************************************************************************)
(* The desktop's launcher (repos/sponge/src/sponge-de/launcher): the menu  *)
(* of the installed applications, kept up to date by a poll of the         *)
(* "installed" report, and the launch of one of them by a request to pkgd. *)
(* All of it runs on the GUI thread, by queued calls and timers.           *)
(***************************************************************************)
EXTENDS SettingsDialog, FiniteSets

CONSTANTS
    MaxApps,        \* MAX_APPS
    LaunchPollMax,  \* LAUNCH_POLL_MAX
    MaxClicks       \* bound: clicks on an application

ASSUME LauncherAssumption == MaxApps \in Nat /\ LaunchPollMax \in Nat \ {0} /\ MaxClicks \in Nat

VARIABLES
    launch,  \* the launch channels and the launch that waits for its answer
    menu     \* the list of applications and the popup that shows it

launcherVars == <<launch, menu>>

NoLaunch == ""

LauncherInit ==
    /\ launch = [channel |-> "closed",   \* "failed" after an attempt, "open"
                 cooling |-> FALSE,      \* LAUNCH_CHANNEL_RETRY_MS is not over
                 resultValid |-> FALSE,  \* the result ROM had content when opened
                 pending |-> NoLaunch, count |-> 0,
                 chains |-> 0,           \* _poll_launch_result calls that are queued
                 clicks |-> 0, problem |-> ""]
    /\ menu = [apps |-> {}, seen |-> {}, entries |-> {}, visible |-> FALSE, published |-> FALSE,
               posted |-> {}]

-----------------------------------------------------------------------------
(* The list                                                                *)

(* _try_parse: the applications pkgd announces, at most MaxApps of them;   *)
(* the signature is the name and whether it runs.                          *)
Announced == [p \in Installed |-> p \in running]
Listed(f) == IF Cardinality(DOMAIN f) <= MaxApps THEN {f}
             ELSE {[p \in S |-> f[p]] : S \in {T \in SUBSET DOMAIN f : Cardinality(T) = MaxApps}}
Signature(f) == {<<p, f[p]>> : p \in DOMAIN f}

(* Mutant of PollInstalled: the names alone are compared. *)
PollInstalledByName ==
    /\ GuiFree
    /\ \E f \in Listed(Announced) :
        /\ DOMAIN f # menu.seen
        /\ menu' = [menu EXCEPT !.apps = Signature(f), !.seen = DOMAIN f,
                                !.posted = DOMAIN f \ menu.seen]
    /\ UNCHANGED <<channelVars, dialog, launch>>

(* poll: a list that changed is kept, and every application the last list  *)
(* did not name is announced as installed.                                 *)
PollInstalled ==
    /\ GuiFree
    /\ \E f \in Listed(Announced) :
        /\ Signature(f) # menu.apps
        /\ menu' = [menu EXCEPT !.apps = Signature(f), !.seen = DOMAIN f,
                                !.posted = DOMAIN f \ menu.seen]
    /\ UNCHANGED <<channelVars, dialog, launch>>

-----------------------------------------------------------------------------
(* The popup                                                               *)

Shown(m)  == [m EXCEPT !.visible = TRUE, !.entries = {a[1] : a \in m.apps}]
Hidden(m) == [m EXCEPT !.visible = FALSE]

(* toggle_launcher and close_popup tell launcher_state; the buttons of the *)
(* panel and of the desktop and a click outside only change the popup.     *)
ToggleLauncher ==
    /\ GuiFree
    /\ menu' = IF menu.visible THEN [Hidden(menu) EXCEPT !.published = FALSE]
               ELSE [Shown(menu) EXCEPT !.published = TRUE]
    /\ UNCHANGED <<channelVars, dialog, launch>>

ClosePopup ==
    /\ GuiFree /\ menu.visible
    /\ menu' = [Hidden(menu) EXCEPT !.published = FALSE]
    /\ UNCHANGED <<channelVars, dialog, launch>>

PanelButton ==
    /\ GuiFree
    /\ menu' = IF menu.visible THEN Hidden(menu) ELSE Shown(menu)
    /\ UNCHANGED <<channelVars, dialog, launch>>

ClickOutside ==
    /\ GuiFree /\ menu.visible
    /\ menu' = Hidden(menu)
    /\ UNCHANGED <<channelVars, dialog, launch>>

(* dismiss_topmost: the popup before the dialog. *)
DismissTopmost ==
    \/ ClosePopup
    \/ ~menu.visible /\ CloseSettingsDialog /\ UNCHANGED launcherVars

-----------------------------------------------------------------------------
(* A launch                                                                *)

(* _open_launch_channels, as it ends. *)
ChannelsAfter(works) ==
    IF launch.channel = "open" THEN launch
    ELSE IF launch.channel = "failed" /\ launch.cooling THEN launch
    ELSE IF works
         THEN [launch EXCEPT !.channel = "open",
                             !.resultValid = answer["launcher_request"].status # ""]
         ELSE [launch EXCEPT !.channel = "failed", !.cooling = TRUE, !.problem = "unreachable"]

(* request_launch: a launch that still waits is superseded, its chain of   *)
(* polls goes on.                                                          *)
ClickApp(p, works) ==
    /\ GuiFree /\ menu.visible /\ p \in menu.entries
    /\ launch.clicks < MaxClicks
    /\ menu' = Hidden(menu)
    /\ LET l == [ChannelsAfter(works) EXCEPT !.clicks = @ + 1]
       IN  IF l.channel = "open"
           THEN /\ launch' = [l EXCEPT !.pending = p, !.count = 0, !.chains = @ + 1]
                /\ Publish("launcher_request", "launch", p, NoValue)
           ELSE launch' = l /\ UNCHANGED channelVars
    /\ UNCHANGED dialog

RetryWindowEnds ==
    /\ launch.cooling
    /\ launch' = [launch EXCEPT !.cooling = FALSE]
    /\ UNCHANGED <<channelVars, dialog, menu>>

LaunchAnswer  == answer["launcher_request"]
LaunchMatched == LaunchAnswer.op = "launch" /\ LaunchAnswer.name = launch.pending

Settled(problem) == [launch EXCEPT !.pending = NoLaunch, !.chains = @ - 1, !.problem = problem]

(* _poll_launch_result.  A result ROM that had no content when it was      *)
(* opened is not read again.                                               *)
PollLaunchResult ==
    /\ GuiFree /\ launch.chains > 0
    /\ launch' =
         IF launch.pending = NoLaunch THEN [launch EXCEPT !.chains = @ - 1]
         ELSE IF launch.resultValid /\ LaunchMatched
         THEN [Settled(IF LaunchAnswer.status = "ok" THEN "" ELSE LaunchAnswer.status)
                  EXCEPT !.count = 0]
         ELSE IF launch.count + 1 >= LaunchPollMax
         THEN [Settled("no answer") EXCEPT !.count = @ + 1]
         ELSE [launch EXCEPT !.count = @ + 1]
    /\ UNCHANGED <<channelVars, dialog, menu>>

=============================================================================
