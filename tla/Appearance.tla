------------------------------ MODULE Appearance ------------------------------
(***************************************************************************)
(* How the settings configd publishes reach the screen: sponge_themed      *)
(* turns the name of the active theme into the theme report,               *)
(* sponge_decorator_bridge turns that into the colour of the window        *)
(* decorations, and the desktop follows both reports: its theme, its       *)
(* panels, its background (repos/sponge/src/sponge_themed,                 *)
(* sponge_decorator_bridge, sponge-de/theme, sponge-de/config,             *)
(* sponge-de/panel, sponge-de/background).                                 *)
(*                                                                         *)
(* A report keeps the last content alone.  A reader is woken by a signal   *)
(* once it has registered for it; the desktop polls as well.  Of what a    *)
(* panel shows the model keeps the height: position, widgets and clock     *)
(* format travel the same way.                                             *)
(***************************************************************************)
EXTENDS Integers, Sequences, FiniteSets, SequencesExt

CONSTANTS
    Themes,      \* theme names
    Staged,      \* those whose file the boot modules hold
    Colored,     \* those of them whose [colors] names panel_bg
    IdLists,     \* the lists panel.ids may have
    OwnKeys,     \* ids for which panel.<id>.height may be written
    Heights,     \* heights
    Colors,      \* values of background.color
    MaxChanges   \* bound: settings changed

ASSUME AppearanceAssumption ==
    /\ Staged \subseteq Themes /\ Colored \subseteq Staged /\ "" \notin Themes
    /\ 0 \notin Heights /\ MaxChanges \in Nat

VARIABLES
    conf,       \* the config report of configd
    changes,    \* history: settings changed
    themed,     \* sponge_themed
    theme,      \* the theme report
    bridge,     \* sponge_decorator_bridge and the decorator_config report
    de          \* the desktop

appearanceVars == <<conf, changes, themed, theme, bridge, de>>

NoTheme == ""
Default == "default"
Fallback == "#1e1e2e"

(* _read_panel_bg of the file of theme t. *)
PanelBg(t) == IF t \in Colored THEN t ELSE ""

NoPanels == [id \in {} |-> 0]

AppearanceInit ==
    /\ \E t \in Themes, ids \in IdLists, h \in Heights, c \in Colors :
          conf = [theme |-> t, ids |-> ids, height |-> h, color |-> c, own |-> <<>>]
    /\ changes = 0
    /\ themed = [at |-> "off", woken |-> FALSE, published |-> NoTheme, missed |-> FALSE]
    /\ theme = NoTheme
    /\ bridge = [at |-> "off", woken |-> FALSE, last |-> "", color |-> "", missed |-> FALSE]
    /\ \E mode \in {"single", "collection"} :
          de = [mode |-> mode,
                theme |-> NoTheme, themeQueue |-> <<>>,
                queue |-> <<>>, applied |-> <<>>,
                height |-> 0, ids |-> {}, color |-> "",
                panels |-> IF mode = "single" THEN [id \in {Default} |-> 0] ELSE NoPanels,
                default |-> "none",  \* _default_panel: "none", "live" or "dangling"
                wild |-> FALSE]      \* history: it was used when it was dangling

-----------------------------------------------------------------------------
(* configd, as the readers see it                                          *)

(* A key of a panel is added to the end, or changed in its place. *)
WithOwn(own, id, h) ==
    IF \E i \in DOMAIN own : own[i].id = id
    THEN [i \in DOMAIN own |-> IF own[i].id = id THEN [id |-> id, height |-> h] ELSE own[i]]
    ELSE Append(own, [id |-> id, height |-> h])

Setting(c) ==
    /\ changes < MaxChanges
    /\ changes' = changes + 1
    /\ c # conf /\ conf' = c
    /\ themed' = IF themed.at = "ready" THEN [themed EXCEPT !.woken = TRUE]
                 ELSE IF themed.at = "started" THEN [themed EXCEPT !.missed = TRUE] ELSE themed
    /\ UNCHANGED <<theme, bridge, de>>

ThemeSetting == \E t \in Themes : Setting([conf EXCEPT !.theme = t])

(* panel.ids may be empty from the start; it is never set so. *)
PanelSetting ==
    \/ \E ids \in IdLists \ {{}} : Setting([conf EXCEPT !.ids = ids])
    \/ \E h \in Heights : Setting([conf EXCEPT !.height = h])
    \/ \E c \in Colors : Setting([conf EXCEPT !.color = c])
    \/ \E id \in OwnKeys, h \in Heights : Setting([conf EXCEPT !.own = WithOwn(@, id, h)])

-----------------------------------------------------------------------------
(* sponge_themed                                                           *)

Publish(name) ==
    /\ theme' = name
    /\ bridge' = IF bridge.at = "ready" THEN [bridge EXCEPT !.woken = TRUE]
                 ELSE IF bridge.at = "started" THEN [bridge EXCEPT !.missed = TRUE] ELSE bridge

(* _resolve_and_publish; a theme without a file leaves the last one.  "t"  *)
(* is the rest of what themed becomes.                                     *)
ResolveAndPublish(name, t) ==
    IF name \in Staged
    THEN Publish(name) /\ themed' = [t EXCEPT !.published = name]
    ELSE themed' = t /\ UNCHANGED <<theme, bridge>>

(* The constructor reads the report, then registers for its signal. *)
ThemedStarts ==
    /\ themed.at = "off"
    /\ ResolveAndPublish(conf.theme, [themed EXCEPT !.at = "started"])
    /\ UNCHANGED <<conf, changes, de>>

ThemedRegisters ==
    /\ themed.at = "started"
    /\ themed' = [themed EXCEPT !.at = "ready"]
    /\ UNCHANGED <<conf, changes, theme, bridge, de>>

(* Mutant of HandleThemedConfig: a name is published once. *)
HandleThemedConfigOnce ==
    /\ themed.woken
    /\ IF themed.published # NoTheme
       THEN themed' = [themed EXCEPT !.woken = FALSE] /\ UNCHANGED <<theme, bridge>>
       ELSE ResolveAndPublish(conf.theme, [themed EXCEPT !.woken = FALSE])
    /\ UNCHANGED <<conf, changes, de>>

(* _handle_config *)
HandleThemedConfig ==
    /\ themed.woken
    /\ IF conf.theme = themed.published
       THEN themed' = [themed EXCEPT !.woken = FALSE] /\ UNCHANGED <<theme, bridge>>
       ELSE ResolveAndPublish(conf.theme,
                              [themed EXCEPT !.woken = FALSE, !.missed = FALSE])
    /\ UNCHANGED <<conf, changes, de>>

-----------------------------------------------------------------------------
(* sponge_decorator_bridge                                                 *)

(* _handle_theme *)
ThemeHandled(b) ==
    LET c == IF theme = NoTheme THEN "" ELSE PanelBg(theme)
    IN  IF c = ""
        THEN IF b.last = "" THEN [b EXCEPT !.color = Fallback] ELSE b
        ELSE [b EXCEPT !.last = c, !.color = c]

BridgeStarts ==
    /\ bridge.at = "off"
    /\ bridge' = ThemeHandled([bridge EXCEPT !.at = "started"])
    /\ UNCHANGED <<conf, changes, themed, theme, de>>

BridgeRegisters ==
    /\ bridge.at = "started"
    /\ bridge' = [bridge EXCEPT !.at = "ready"]
    /\ UNCHANGED <<conf, changes, themed, theme, de>>

HandleTheme ==
    /\ bridge.woken
    /\ bridge' = ThemeHandled([bridge EXCEPT !.woken = FALSE, !.missed = FALSE])
    /\ UNCHANGED <<conf, changes, themed, theme, de>>

-----------------------------------------------------------------------------
(* The desktop: theme                                                      *)

(* ThemeController::applyTheme: the widgets are restyled once for a name. *)
ThemeApplied(d, name) == IF name \in {NoTheme, d.theme} THEN d ELSE [d EXCEPT !.theme = name]

PollTheme ==
    /\ de' = ThemeApplied(de, theme)
    /\ UNCHANGED <<conf, changes, themed, theme, bridge>>

(* _on_rom, on the entrypoint, and the queued call. *)
ThemeSignal ==
    /\ de.themeQueue = <<>> /\ theme # NoTheme
    /\ de' = [de EXCEPT !.themeQueue = <<theme>>]
    /\ UNCHANGED <<conf, changes, themed, theme, bridge>>

RunQueuedTheme ==
    /\ de.themeQueue # <<>>
    /\ de' = [ThemeApplied(de, Head(de.themeQueue)) EXCEPT !.themeQueue = <<>>]
    /\ UNCHANGED <<conf, changes, themed, theme, bridge>>

-----------------------------------------------------------------------------
(* The desktop: panels and background                                      *)

(* Mutant of AppliedPanelIds: panels that are no longer listed stay. *)
AppliedPanelIdsKeeps(d, ids) ==
    [d EXCEPT !.panels = [id \in ids \union DOMAIN d.panels |->
                             IF id \in DOMAIN d.panels THEN d.panels[id] ELSE 0],
              !.default = IF Default \in ids THEN "live" ELSE @]

(* PanelCollection::applyPanelIds: what is missing is created, then what   *)
(* is not listed is destroyed.  The pointer to the default panel is set    *)
(* when that panel is created and stays when it is destroyed.              *)
AppliedPanelIds(d, ids) ==
    [d EXCEPT !.panels = [id \in ids |-> IF id \in DOMAIN d.panels THEN d.panels[id] ELSE 0],
              !.default = IF Default \in ids THEN "live"
                          ELSE IF Default \in DOMAIN d.panels THEN "dangling" ELSE @]

(* _find_or_default and PanelWidget::applyHeight *)
AppliedHeightFor(d, e) ==
    IF e.id \in DOMAIN d.panels THEN [d EXCEPT !.panels[e.id] = e.height]
    ELSE IF d.default = "live" THEN [d EXCEPT !.panels[Default] = e.height]
    ELSE IF d.default = "dangling" THEN [d EXCEPT !.wild = TRUE]
    ELSE d

(* The keys that are compared with what was emitted last.  The flat height *)
(* is connected to the panel of a desktop that has one panel.              *)
FlatEmitted(d, c) ==
    [d EXCEPT !.height = c.height,
              !.panels = IF d.mode = "single" /\ c.height # d.height
                         THEN [id \in {Default} |-> c.height] ELSE @,
              !.color = IF c.color = "" THEN @ ELSE c.color]

IdsEmitted(d, c) ==
    IF c.ids \in {d.ids, {}} THEN d
    ELSE LET e == [d EXCEPT !.ids = c.ids]
         IN  IF d.mode = "collection" THEN AppliedPanelIds(e, c.ids) ELSE e

OwnEmitted(d, c) ==
    IF d.mode = "collection" THEN FoldLeft(AppliedHeightFor, d, c.own) ELSE d

(* ConfigController::applyConfig and _emit_changed: the keys of single     *)
(* panels are not compared with anything, every round emits them.          *)
ConfigApplied(d, c) ==
    [OwnEmitted(IdsEmitted(FlatEmitted(d, c), c), c) EXCEPT !.applied = <<c>>]

PollConfig ==
    /\ de' = ConfigApplied(de, conf)
    /\ UNCHANGED <<conf, changes, themed, theme, bridge>>

ConfigSignal ==
    /\ de.queue = <<>> /\ de.applied # <<conf>>
    /\ de' = [de EXCEPT !.queue = <<conf>>]
    /\ UNCHANGED <<conf, changes, themed, theme, bridge>>

RunQueuedConfig ==
    /\ de.queue # <<>>
    /\ de' = [ConfigApplied(de, Head(de.queue)) EXCEPT !.queue = <<>>]
    /\ UNCHANGED <<conf, changes, themed, theme, bridge>>

ThemedRuns  == ThemedStarts \/ ThemedRegisters \/ HandleThemedConfig
BridgeRuns  == BridgeStarts \/ BridgeRegisters \/ HandleTheme

ThemesNext ==
    ThemeSetting \/ ThemedRuns \/ BridgeRuns \/ PollTheme \/ ThemeSignal \/ RunQueuedTheme
PanelsNext == PanelSetting \/ PollConfig \/ ConfigSignal \/ RunQueuedConfig

AppearanceNext == ThemesNext \/ PanelsNext

=============================================================================
