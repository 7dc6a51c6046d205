------------------------------ MODULE Shortcuts ------------------------------
(***************************************************************************)
(* Keyboard shortcuts: the desktop turns the setting shortcuts.bindings    *)
(* into a configuration of event_filter, reads the reports event_filter    *)
(* writes when a bound key is pressed, and calls the action bound to it    *)
(* (repos/sponge/src/sponge-de/config/shortcut_controller.cc).             *)
(*                                                                         *)
(* A value of the setting is a set of pairs of an action and a key         *)
(* sequence: the validator of configd lets nothing through that the        *)
(* controller would skip.                                                  *)
(***************************************************************************)
EXTENDS Integers, Sequences, SequencesExt

CONSTANTS
    Actions,       \* action_table
    Bindings,      \* values of shortcuts.bindings
    MaxBindings,   \* bound: changes of the setting
    MaxPresses     \* bound: key presses

ASSUME ShortcutsAssumption ==
    /\ Bindings \subseteq SUBSET (Actions \X STRING) /\ {} \notin Bindings
    /\ MaxBindings \in Nat /\ MaxPresses \in Nat

VARIABLES
    bound,   \* the setting, as configd broadcasts it, and how often it changed
    filter,  \* event_filter: its configuration and the reports of its shortcuts
    keys     \* the ShortcutController

shortcutsVars == <<bound, filter, keys>>

Unbound == {}

ShortcutsInit ==
    /\ \E v \in Bindings \union {Unbound} : bound = [value |-> v, changes |-> 0]
    /\ filter = [config |-> Unbound, woken |-> FALSE, serial |-> [a \in Actions |-> 0]]
    /\ keys = [last |-> Unbound,      \* _last_bindings
               report |-> Unbound,    \* the event_filter_config report
               reemit |-> FALSE,      \* _reemit_pending
               open |-> FALSE,        \* the hit reports and subscribers are open
               queue |-> <<>>,        \* queued applyBindings
               serial |-> [a \in Actions |-> 0],   \* last_serial of each subscriber
               hit |-> "none",        \* the shortcut_hit report
               calls |-> <<>>,        \* queued calls of the actions' slots
               acted |-> [a \in Actions |-> 0]]    \* history: actions carried out

(* configd accepts a new value. *)
Bind(v) ==
    /\ bound.changes < MaxBindings /\ v # bound.value
    /\ bound' = [value |-> v, changes |-> bound.changes + 1]
    /\ UNCHANGED <<filter, keys>>

-----------------------------------------------------------------------------
(* event_filter                                                            *)

(* It reads its configuration when it is signalled, and goes on counting.  *)
FilterReconfigures ==
    /\ filter.woken
    /\ filter' = [filter EXCEPT !.woken = FALSE, !.config = keys.report]
    /\ UNCHANGED <<bound, keys>>

Presses(f) == FoldLeft(LAMBDA n, a : n + f.serial[a], 0, SetToSeq(Actions))

(* The report of every action the key is bound to gets a new serial. *)
Press(key) ==
    /\ Presses(filter) < MaxPresses
    /\ \E s \in filter.config : s.key = key
    /\ filter' = [filter EXCEPT !.serial =
           [a \in Actions |->
               @[a] + (IF [name |-> a, key |-> key] \in filter.config THEN 1 ELSE 0)]]
    /\ UNCHANGED <<bound, keys>>

-----------------------------------------------------------------------------
(* Bindings                                                                *)

(* _build_shortcuts_xml: a shortcut for every line. *)
ShortcutsOf(v) == {[name |-> b[1], key |-> b[2]] : b \in v}

(* _emit_event_filter_config.  The signal of the report's first content    *)
(* may come before event_filter has registered for it.                     *)
Emits(k) ==
    \E heard \in CASE k.last = keys.last     -> {FALSE}
                   [] keys.report = Unbound  -> BOOLEAN
                   [] OTHER                  -> {TRUE} :
        filter' = [filter EXCEPT !.woken = @ \/ heard]

(* _open_hit_reporter, _open_shortcut_subscriber: once. *)
Opened(k) == [k EXCEPT !.open = TRUE, !.hit = IF k.open THEN @ ELSE "ready"]

(* applyBindings, applied to the controller "k". *)
Bound(k, v) ==
    IF v = k.last THEN k
    ELSE Opened([k EXCEPT !.last = v, !.report = ShortcutsOf(v), !.reemit = TRUE])

(* _on_rom, on the entrypoint: what it read is applied later. *)
BindingsSignal ==
    /\ bound.value # Unbound /\ keys.queue = <<>>
    /\ keys' = [keys EXCEPT !.queue = <<bound.value>>]
    /\ UNCHANGED <<bound, filter>>

RunQueuedBindings ==
    /\ keys.queue # <<>>
    /\ keys' = Bound([keys EXCEPT !.queue = <<>>], Head(keys.queue))
    /\ Emits(keys')
    /\ UNCHANGED bound

(* Mutant of ReEmit: the timer does nothing. *)
ReEmitNothing ==
    /\ keys.reemit
    /\ keys' = [keys EXCEPT !.reemit = FALSE]
    /\ UNCHANGED <<bound, filter>>

(* The timer of applyBindings: what is bound by now is emitted once more. *)
ReEmit ==
    /\ keys.reemit
    /\ keys' = [keys EXCEPT !.reemit = FALSE, !.report = ShortcutsOf(keys.last)]
    /\ filter' = [filter EXCEPT !.woken = TRUE]
    /\ UNCHANGED bound

-----------------------------------------------------------------------------
(* Hits                                                                    *)

(* _publish_hit *)
HitPublished(k, a) == [k EXCEPT !.hit = a]

(* _dispatch_hit_subscriber: a serial is acted on once. *)
Dispatched(k, a) ==
    IF ~k.open \/ filter.serial[a] = k.serial[a] THEN k
    ELSE HitPublished([k EXCEPT !.serial[a] = filter.serial[a], !.calls = Append(@, a)], a)

(* _on_hit_subscriber_rom_<action> *)
HitSignal(a) ==
    /\ keys' = Dispatched(keys, a) /\ keys' # keys
    /\ UNCHANGED <<bound, filter>>

(* _poll, on the GUI thread. *)
PollShortcuts ==
    /\ LET k == IF bound.value = Unbound THEN keys ELSE Bound(keys, bound.value)
       IN  keys' = FoldLeft(Dispatched, k, SetToSeq(Actions)) /\ Emits(k)
    /\ UNCHANGED bound

(* toggle_launcher, cycle_focus or dismiss_topmost. *)
RunQueuedCall ==
    /\ keys.calls # <<>>
    /\ keys' = [keys EXCEPT !.calls = Tail(@), !.acted[Head(keys.calls)] = @ + 1]
    /\ UNCHANGED <<bound, filter>>

ShortcutsRun == PollShortcuts \/ ReEmit \/ RunQueuedCall

ShortcutsNext ==
    \/ ShortcutsRun \/ FilterReconfigures \/ BindingsSignal \/ RunQueuedBindings
    \/ \E v \in Bindings : Bind(v)
    \/ \E b \in UNION Bindings : Press(b[2])
    \/ \E a \in Actions : HitSignal(a)

=============================================================================
