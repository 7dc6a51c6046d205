------------------------------- MODULE Desktop -------------------------------
(***************************************************************************)
(* The desktop and the daemons around it (repos/sponge/src/sponge-de).     *)
(* Everything the desktop does for notifications, appearance, windows and  *)
(* shortcuts is one timer, signal or queued call after the other.          *)
(***************************************************************************)
EXTENDS Notifications, Appearance, Windows, Shortcuts

CONSTANT Scenes   \* bound: what the user does in one behaviour

ASSUME ScenesAssumption == Scenes \subseteq {"notes", "themes", "panels", "windows", "keys"}

VARIABLE scene   \* that of this behaviour

desktopVars == <<notifierVars, appearanceVars, windowsVars, shortcutsVars, scene>>

(* What nobody touches in a scene starts in one way only. *)
DesktopInit ==
    /\ NotificationsInit /\ AppearanceInit /\ WindowsInit /\ ShortcutsInit
    /\ scene \in Scenes
    /\ scene # "notes" => now = 1 /\ notifier.maxLive = MaxLive
    /\ scene # "themes" => conf.theme = CHOOSE t \in Themes : TRUE
    /\ scene # "panels" =>
         /\ conf.height = Min(Heights) /\ conf.ids = {} /\ conf.color = CHOOSE c \in Colors : TRUE
         /\ de.mode = "single"
    /\ scene # "keys" => bound.value = Unbound

OthersThanNotes   == <<appearanceVars, windowsVars, shortcutsVars, scene>>
OthersThanLooks   == <<notifierVars, windowsVars, shortcutsVars, scene>>
OthersThanWindows == <<notifierVars, appearanceVars, shortcutsVars, scene>>
OthersThanKeys    == <<notifierVars, appearanceVars, windowsVars, scene>>

NotifierWorks == scene = "notes" /\ NotifierRuns /\ UNCHANGED OthersThanNotes
PopoverWorks  == scene = "notes" /\ (OpenPopover \/ PollNotifications) /\ UNCHANGED OthersThanNotes
NotesHappen   == scene = "notes" /\ NotificationsNext /\ UNCHANGED OthersThanNotes

ThemedWorks  == scene = "themes" /\ ThemedRuns /\ UNCHANGED OthersThanLooks
BridgeWorks  == scene = "themes" /\ BridgeRuns /\ UNCHANGED OthersThanLooks
ThemePolled  == scene = "themes" /\ PollTheme /\ UNCHANGED OthersThanLooks
ThemesChange == scene = "themes" /\ ThemesNext /\ UNCHANGED OthersThanLooks

ConfigPolled == scene = "panels" /\ PollConfig /\ UNCHANGED OthersThanLooks
PanelsChange == scene = "panels" /\ PanelsNext /\ UNCHANGED OthersThanLooks

TasksPolled   == scene = "windows" /\ ApplyUpdates /\ UNCHANGED OthersThanWindows
LayouterWorks == scene = "windows" /\ LayouterRuns /\ UNCHANGED OthersThanWindows
WindowsChange == scene = "windows" /\ WindowsNext /\ UNCHANGED OthersThanWindows

ShortcutsPolled == scene = "keys" /\ PollShortcuts /\ UNCHANGED OthersThanKeys
ShortcutsTimed  == scene = "keys" /\ (ReEmit \/ RunQueuedCall) /\ UNCHANGED OthersThanKeys
FilterWorks     == scene = "keys" /\ FilterReconfigures /\ UNCHANGED OthersThanKeys
KeysChange      == scene = "keys" /\ ShortcutsNext /\ UNCHANGED OthersThanKeys

DesktopNext == NotesHappen \/ ThemesChange \/ PanelsChange \/ WindowsChange \/ KeysChange

(* Timers fire, and a daemon that was signalled is scheduled.  Nothing is  *)
(* assumed of the user, nor of the signals that reach the desktop: its     *)
(* polls are enough.                                                       *)
DesktopFairness ==
    /\ WF_desktopVars(NotifierWorks) /\ WF_desktopVars(PopoverWorks)
    /\ WF_desktopVars(ThemedWorks) /\ WF_desktopVars(BridgeWorks)
    /\ WF_desktopVars(ThemePolled) /\ WF_desktopVars(ConfigPolled)
    /\ WF_desktopVars(TasksPolled) /\ WF_desktopVars(LayouterWorks)
    /\ WF_desktopVars(ShortcutsPolled) /\ WF_desktopVars(ShortcutsTimed)
    /\ WF_desktopVars(FilterWorks)

DesktopSpec == DesktopInit /\ [][DesktopNext]_desktopVars /\ DesktopFairness

-----------------------------------------------------------------------------
(* Properties                                                              *)

(* No notification outlives its time to live, although it is stamped with  *)
(* one clock and swept with another (_accept_one, _handle_expiry).         *)
NothingOverstays ==
    \A i \in DOMAIN notifier.entries : now - notifier.entries[i].shown < Ttl

(* The popover comes to show what the daemon holds, again and again,       *)
(* whatever signals arrive in between and in which order they are applied  *)
(* (NotifierController::_poll, applyEntries).                              *)
PopoverFollows ==
    []<>(scene = "notes" => popover.entries = [i \in DOMAIN notifier.entries |->
                                                  notifier.entries[i].title])

(* Once settings stand still, the theme report, the desktop and the        *)
(* decorations agree with the active theme.  Excepted is a daemon that     *)
(* missed a change between its first read and its registration for the     *)
(* signal (the constructors of sponge_themed and sponge_decorator_bridge), *)
(* and a theme without a file or without a colour.                         *)
ThemesAgree ==
    /\ themed.missed \/ conf.theme \notin Staged \/ theme = conf.theme
    /\ bridge.missed \/ theme \notin Colored \/ bridge.color = theme
    /\ theme # NoTheme => de.theme = theme

AppearanceConverges == <>[](scene = "themes" => ThemesAgree)

(* Once settings stand still, every panel of panel.ids is on the screen    *)
(* with the height its own key gives it and no other panel is, but for the *)
(* default one, of which the header and the code say different things; and *)
(* the one panel of a desktop without panels has the flat height, whatever *)
(* order keys and ids were written in (ConfigController::_emit_changed,    *)
(* PanelCollection::applyPanelIds).                                        *)
PanelsAgree ==
    /\ de.mode = "collection" /\ conf.ids # {} =>
         /\ conf.ids \subseteq DOMAIN de.panels
         /\ DOMAIN de.panels \subseteq conf.ids \union {Default}
         /\ \A i \in DOMAIN conf.own : conf.own[i].id \in conf.ids \ {Default} =>
                                           de.panels[conf.own[i].id] = conf.own[i].height
    /\ de.mode = "single" => de.panels[Default] = conf.height
    /\ conf.color # "" => de.color = conf.color

PanelsFollow == <>[](scene = "panels" => PanelsAgree)

(* Once nobody acts, every window has a rule that leaves it where it is    *)
(* and that agrees with the tasklist on whether it is minimized: the loop  *)
(* of layouter and tasklist comes to rest.  Windows that got a new title   *)
(* or were closed meanwhile are excepted: the rules may lack the former    *)
(* for good (_recompute_tracked, _maybe_republish_rules).                  *)
Agreed(w) == /\ w \in DOMAIN rules /\ w \in DOMAIN tasks.tracked
             /\ rules[w].min = tasks.tracked[w].min
             /\ layout[w] = Placed(w)

WindowsSettle == <>[](\A w \in DOMAIN layout \ lost : Agreed(w))

(* The tasklist does not take the place a minimized window is parked at    *)
(* for the place to restore it to, in whatever order clicks, polls and the *)
(* layouter come: "or a restore would re-park the window".  Windows that   *)
(* got a new title while they were parked are excepted: the tasklist knows *)
(* a window by its title and takes them for new (_recompute_tracked).      *)
RestoreTarget == \A w \in DOMAIN tasks.tracked \ lost : tasks.tracked[w].y # Parked

(* Once nobody binds or presses keys, event_filter has the bindings of the *)
(* setting although the signal of the first report may be lost, and of the *)
(* presses it reported every one was acted on at most once and the last    *)
(* one surely, whether signals or polls saw them (applyBindings,           *)
(* _dispatch_hit_subscriber).                                              *)
KeysAgree ==
    /\ bound.value # Unbound => filter.config = ShortcutsOf(bound.value)
    /\ \A a \in Actions : /\ keys.acted[a] <= filter.serial[a]
                          /\ filter.serial[a] > 0 => keys.acted[a] > 0
    /\ keys.calls = <<>>

KeysFollow == <>[](scene = "keys" => KeysAgree)

-----------------------------------------------------------------------------
(* What the text says and the code does not do                             *)

(* "Unknown ids (no widget, no default) are ignored" (panel_collection.h): *)
(* a key of a panel that is not shown touches no panel that is gone.       *)
UnknownIdsAreIgnored == ~de.wild

=============================================================================
