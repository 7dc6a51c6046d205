-------------------------------- MODULE Windows --------------------------------
(***************************************************************************)
(* The tasklist of the desktop (repos/sponge/src/sponge-de/panel/          *)
(* tasklist_controller.cc, tasklist_widget.cc, background/show_desktop.cc) *)
(* and the layouter of the window manager.  They form a loop: the layouter *)
(* places the windows by the rules report and reports where they are; the  *)
(* tasklist tracks that report and writes the rules from what it tracks.   *)
(*                                                                         *)
(* Of a window's geometry the model keeps the vertical place and whether   *)
(* it fills the screen.  The origin of the screen, which is subtracted     *)
(* from every place and added again, is left out.                          *)
(***************************************************************************)
EXTENDS Integers, Sequences, FiniteSets, FiniteSetsExt

CONSTANTS
    Windows,   \* labels, numbers in the order of the report
    Places,    \* where a window may be on the screen, below its top, 0
    Parked,    \* the place off the screen
    MaxActs    \* bound: what the user and the applications do

ASSUME WindowsAssumption ==
    /\ Windows \subseteq Nat /\ IsFiniteSet(Windows)
    /\ Places \subseteq Nat \ {0} /\ Places # {} /\ Parked \in Int \ Nat /\ MaxActs \in Nat

VARIABLES
    layout,    \* the window_layout report: the open windows
    retitled,  \* windows whose title the window_list report has and the layout has not
    rules,     \* the rules report
    tasks,     \* the TasklistController
    acts,      \* history: acts so far
    lost       \* history: windows that got a new title or were closed

windowsVars == <<layout, retitled, rules, tasks, acts, lost>>

NoWindows == [w \in {} |-> 0]

WindowsInit ==
    /\ layout = NoWindows
    /\ retitled = {}
    /\ rules = NoWindows
    /\ tasks = [tracked |-> NoWindows, candidate |-> NoWindows, published |-> NoWindows,
                stable |-> FALSE, focused |-> 0]
    /\ acts = 0
    /\ lost = {}

Acts == acts < MaxActs /\ acts' = acts + 1

-----------------------------------------------------------------------------
(* Tracking                                                                *)

(* Mutant of Recomputed: a parked window is tracked where it is parked. *)
RecomputedInPlace(tracked, w) ==
    LET seen  == layout[w]
        known == w \in DOMAIN tracked
        min   == seen.y <= Parked
    IN  [y |-> seen.y, wide |-> seen.wide, min |-> min,
         max |-> (known /\ tracked[w].max) \/ (~min /\ seen.wide)]

(* _recompute_tracked, of one window.  A parked window keeps the geometry  *)
(* it was tracked with; a window that fills the screen counts as maximized *)
(* and stays so.                                                           *)
Recomputed(tracked, w) ==
    LET seen  == layout[w]
        known == w \in DOMAIN tracked
        min   == seen.y <= Parked
        from  == IF min /\ known THEN tracked[w] ELSE seen
    IN  [y |-> from.y, wide |-> from.wide, min |-> min,
         max |-> (known /\ tracked[w].max) \/ (~min /\ from.wide)]

Recompute(tracked) == [w \in DOMAIN layout \ retitled |-> Recomputed(tracked, w)]

(* Mutant of Updated: what is tracked is published at once, and once. *)
UpdatedOnce(t) ==
    LET now == Recompute(t.tracked)
    IN  [tasks |-> [t EXCEPT !.tracked = now, !.published = now, !.stable = TRUE],
         rules |-> IF t.stable THEN rules ELSE now]

(* applyUpdates and _maybe_republish_rules: rules are written when what is *)
(* tracked changed and was then the same for one more poll.  "rules" is    *)
(* what the report becomes, unless a click wrote it.                       *)
Updated(t) ==
    LET now    == Recompute(t.tracked)
        same   == now = t.candidate
        writes == same /\ t.stable /\ now # t.published
    IN  [tasks |-> [t EXCEPT !.tracked = now, !.candidate = now, !.stable = same,
                             !.published = IF writes THEN now ELSE @],
         rules |-> IF writes THEN now ELSE rules]

(* Poll or signal, on the GUI thread. *)
ApplyUpdates ==
    /\ LET u == Updated(tasks) IN tasks' = u.tasks /\ rules' = u.rules
    /\ UNCHANGED <<layout, retitled, acts, lost>>

(* _publish_rules_for, whichever label, and the applyUpdates that follows. *)
PublishesRules(t) ==
    LET u == Updated(t)
    IN  /\ tasks' = u.tasks
        /\ rules' = IF u.tasks.published # t.published THEN u.rules ELSE t.tracked
        /\ UNCHANGED <<layout, retitled, lost>>

-----------------------------------------------------------------------------
(* The user                                                                *)

(* on_task_clicked *)
ClickTask(w) ==
    /\ Acts
    /\ w \in DOMAIN tasks.tracked
    /\ PublishesRules([tasks EXCEPT !.tracked[w].min = ~@])

(* on_toggle_maximized *)
ToggleMaximized(w) ==
    /\ Acts
    /\ w \in DOMAIN tasks.tracked
    /\ PublishesRules([tasks EXCEPT !.tracked[w].max = ~@])

(* cycle_focus: the next window after the one it focused last that is not  *)
(* minimized, if there is one.                                             *)
Visible(t) == {w \in DOMAIN t.tracked : ~t.tracked[w].min}
NextFocus(t) ==
    LET after == {w \in Visible(t) : w > t.focused}
    IN  IF after # {} THEN Min(after) ELSE Min(Visible(t))

CycleFocus ==
    /\ Acts
    /\ Visible(tasks) # {}
    /\ PublishesRules([tasks EXCEPT !.focused = NextFocus(tasks)])

(* set_all_minimized(true) *)
AllMinimized(t) ==
    [t EXCEPT !.tracked = [w \in DOMAIN @ |-> [t.tracked[w] EXCEPT !.min = TRUE]]]

(* The menu of the desktop: ShowDesktop::toggle, of an object made for the *)
(* one call, which therefore never restores.                               *)
ShowDesktop ==
    /\ Acts
    /\ Visible(tasks) # {}
    /\ PublishesRules(AllMinimized(tasks))

(* Applications open and close windows and change titles, the user drags   *)
(* windows.                                                                *)
OpenWindow(w, y) ==
    /\ Acts
    /\ w \notin DOMAIN layout
    /\ layout' = [v \in DOMAIN layout \union {w} |->
                     IF v = w THEN [y |-> y, wide |-> FALSE] ELSE layout[v]]
    /\ UNCHANGED <<retitled, rules, tasks, lost>>

CloseWindow(w) ==
    /\ Acts
    /\ w \in DOMAIN layout
    /\ layout' = [v \in DOMAIN layout \ {w} |-> layout[v]]
    /\ retitled' = retitled \ {w}
    /\ lost' = lost \union {w}
    /\ UNCHANGED <<rules, tasks>>

DragWindow(w, y) ==
    /\ Acts
    /\ w \in DOMAIN layout /\ layout[w].y # Parked /\ ~layout[w].wide
    /\ layout' = [layout EXCEPT ![w].y = y]
    /\ UNCHANGED <<retitled, rules, tasks, lost>>

Retitle(w) ==
    /\ Acts
    /\ w \in DOMAIN layout
    /\ retitled' = retitled \union {w}
    /\ lost' = lost \union {w}
    /\ UNCHANGED <<layout, rules, tasks>>

-----------------------------------------------------------------------------
(* The layouter                                                            *)

(* A window without a rule stays where it is; a maximized one fills the    *)
(* screen, unless it is parked.                                            *)
Placed(w) ==
    IF w \notin DOMAIN rules THEN layout[w]
    ELSE [y |-> IF rules[w].min THEN Parked ELSE IF rules[w].max THEN 0 ELSE rules[w].y,
          wide |-> rules[w].max \/ rules[w].wide]

(* New rules, a new list of windows, or the pointer moving from one window *)
(* to another: every window is placed anew.                                *)
LayouterRuns ==
    /\ layout' = [w \in DOMAIN layout |-> Placed(w)]
    /\ retitled' = {}
    /\ UNCHANGED <<rules, tasks, acts, lost>>

UserOrApplication ==
    \/ \E w \in Windows : ClickTask(w) \/ ToggleMaximized(w) \/ CloseWindow(w) \/ Retitle(w)
    \/ \E w \in Windows, y \in Places : OpenWindow(w, y) \/ DragWindow(w, y)
    \/ CycleFocus \/ ShowDesktop

WindowsNext == ApplyUpdates \/ LayouterRuns \/ UserOrApplication

=============================================================================
