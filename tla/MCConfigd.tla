----------------------------- MODULE MCConfigd -----------------------------
(* Registries for the configuration daemon: two flat keys a user may set,  *)
(* one of them the first of the registry, three panel keys for fewer       *)
(* slots, and a bake file with an invalid line and an unknown key.         *)
EXTENDS Configd

MCFlatOrder  == <<"background.color", "bake.applied", "panel.position">>
MCPanelOrder == <<"panel.a.height", "panel.b.height", "panel.b.position">>

MCAccepts ==
    [k \in {MCFlatOrder[i] : i \in 1..3} \union {MCPanelOrder[i] : i \in 1..3} |->
        CASE k = "background.color" -> {"#0"}
          [] k = "bake.applied"     -> {"yes", "no"}
          [] k \in {"panel.position", "panel.b.position"} -> {"top", "left"}
          [] OTHER                  -> {"20"}]

MCDefault ==
    [k \in DOMAIN MCAccepts |->
        CASE k = "background.color" -> "#0"
          [] k = "bake.applied"     -> "no"
          [] k = "panel.position"   -> "left"
          [] OTHER                  -> ""]

MCBakeLines ==
    <<[key |-> "panel.size",     value |-> "20"],
      [key |-> "panel.position", value |-> "top"],
      [key |-> "panel.a.height", value |-> "top"],
      [key |-> "panel.b.height", value |-> "20"]>>

MCNoLines == <<>>
=============================================================================
