---------------------------- MODULE SettingsDialog ----------------------------
(***************************************************************************)
(* The writes of the desktop's settings: the dialog with its tabs          *)
(* (repos/sponge/src/sponge-de/settings), the panel's context menu, and    *)
(* the SettingsController, which makes the request to configd and waits    *)
(* for the answer on the GUI thread.  Nothing else of the desktop runs     *)
(* until the answer is there or the client gives up.                       *)
(***************************************************************************)
EXTENDS Channels, SequencesExt

CONSTANTS
    DialogPolls,   \* how often the client looks for its answer
    WritesTried    \* bound: the settings the user tries out

ASSUME DialogAssumption == DialogPolls \in Nat \ {0}

VARIABLE dialog  \* open; asking, own, polls: the request; writes: what the session wrote

DialogInit == dialog = [open |-> FALSE, asking |-> FALSE, own |-> 0, polls |-> 0,
                        writes |-> {}, failed |-> FALSE]

(* The GUI thread takes part in something other than the wait. *)
GuiFree == ~dialog.asking

Wr(key, value) == [key |-> key, value |-> value]

(* What each tab can ask for.  A height and a position are always in the   *)
(* range the validator accepts; no widget at all, a colour that is not     *)
(* #RRGGBB and an empty table of shortcuts are not.                        *)
PanelTabWrites      == {Wr("panel.height", "48"), Wr("panel.position", "top"),
                        Wr("panel.visible_widgets", "clock"), Wr("panel.visible_widgets", "")}
ThemeTabWrites      == {Wr("theme.active", t) : t \in {"light", "dark"}}
BackgroundTabWrites == {Wr("background.color", "#000000"), Wr("background.color", "bad"),
                        Wr("background.image", "default.png")}
ShortcutsTabWrites  == {Wr("shortcuts.bindings", "launcher Super"),
                        Wr("shortcuts.bindings", "")}
DefaultsTabWrites   == {Wr("bake.applied", "no")}

TabWrites == PanelTabWrites \union ThemeTabWrites \union BackgroundTabWrites
             \union ShortcutsTabWrites \union DefaultsTabWrites

(* The context menu of the default panel; it writes the keys of its identity. *)
MenuWrites ==
    {Wr("panel.default.height", "48"), Wr("panel.default.visible_widgets", "clock"),
     Wr("panel.default.visible_widgets", ""), Wr("panel.default.position", "top"),
     Wr("panel.default.position", "bottom")}

OpenSettingsDialog ==
    /\ GuiFree /\ ~dialog.open
    /\ dialog' = [dialog EXCEPT !.open = TRUE, !.writes = {}, !.failed = FALSE]
    /\ UNCHANGED channelVars

CloseSettingsDialog ==
    /\ GuiFree /\ dialog.open
    /\ dialog' = [dialog EXCEPT !.open = FALSE, !.writes = {}, !.failed = FALSE]
    /\ UNCHANGED channelVars

(* request_set, from a tab of the open dialog or from the menu. *)
RequestSet(w) ==
    /\ GuiFree
    /\ w \in (IF dialog.open THEN TabWrites ELSE MenuWrites) \intersect WritesTried
    /\ Publish("de_config_request", "set", w.key, w.value)
    /\ dialog' = [dialog EXCEPT !.asking = TRUE, !.own = Len(made'), !.polls = 0]

DialogRequest == made[dialog.own]
DialogAnswer  == answer["de_config_request"]
DialogFound   == Matches(DialogRequest, DialogAnswer)

(* on_request_succeeded, on_request_failed: they reach an open dialog only. *)
SettingAnswered ==
    /\ dialog.asking /\ DialogFound
    /\ dialog' = IF DialogAnswer.status = "ok"
                 THEN [dialog EXCEPT !.asking = FALSE, !.writes =
                          IF dialog.open
                          THEN @ \union {Wr(DialogRequest.name, DialogRequest.value)} ELSE @]
                 ELSE [dialog EXCEPT !.asking = FALSE, !.failed = dialog.open]
    /\ UNCHANGED channelVars

SettingPolled ==
    /\ dialog.asking /\ ~DialogFound
    /\ dialog' = IF dialog.polls + 1 < DialogPolls
                 THEN [dialog EXCEPT !.polls = @ + 1]
                 ELSE [dialog EXCEPT !.asking = FALSE, !.failed = dialog.open]
    /\ UNCHANGED channelVars

DialogWaits == SettingAnswered \/ SettingPolled

=============================================================================
