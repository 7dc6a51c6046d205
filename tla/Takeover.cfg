\* Supervisor, sandbox and console with every interleaving of the reports,
\* under fair scheduling of the components.
SPECIFICATION FairTakeoverSpec
CONSTANTS
    Child = {de, wm}
    Desktop = de
    IgnoreExited = {}
    IgnoreStarting = TRUE
    FaultSkipped = 1
    Skips <- MCSkips
    PollMs = 1
    BootGraceMs = 2
    GraceMs = 2
    ConsoleHoldMs = 2
    SettleMs = 2
    TemplateIs <- MCAllPublished
    KillModulus = 5
    SandboxLag = 3
    ConsoleLag = 1
INVARIANTS
    SharedOnlyDuringTakeover
PROPERTIES
    EveryConfigRestarts
    DesktopComesBack
