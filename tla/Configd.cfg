\* Every request on one channel, baked defaults, crashes at any point, and a
\* file system that may refuse a write.
SPECIFICATION ConfigdSpec
CONSTANTS
    FlatOrder <- MCFlatOrder
    PanelOrder <- MCPanelOrder
    Foreign = {"panel.size"}
    Value = {"#0", "yes", "no", "top", "left", "20"}
    Empty = ""
    Accepts <- MCAccepts
    Quoted = {}
    Default <- MCDefault
    MaxPattern = 2
    BakeUsable = TRUE
    BakeLines <- MCBakeLines
    Persistent = TRUE
    WritesFail = TRUE
    Channel = {"vct", "de"}
INVARIANTS
    ValuesAreValid
    SlotsAreSound
    WatchersAgree
PROPERTY
    Implements
