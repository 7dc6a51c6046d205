\* Settings with per-panel keys instantiated: what was acknowledged is set.
SPECIFICATION ConfigdSpec
CONSTANTS
    FlatOrder <- MCFlatOrder
    PanelOrder <- MCPanelOrder
    Foreign = {"panel.size"}
    Value = {"#0", "yes", "no", "top", "left", "20"}
    Empty = ""
    Accepts <- MCAccepts
    Quoted = {}
    Default <- MCDefault
    MaxPattern = 2
    BakeUsable = FALSE
    BakeLines <- MCNoLines
    Persistent = TRUE
    WritesFail = FALSE
    Channel = {"vct"}
INVARIANT
    AcknowledgedIsStored
