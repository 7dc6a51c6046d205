\* The supervisor's state machine: any reports, any interleaving of reports
\* and ticks, under a timer that keeps ticking.
SPECIFICATION FairTimedSpec
CONSTANTS
    Child = {de, wm, probe}
    IgnoreExited = {probe}
    IgnoreStarting = TRUE
    FaultSkipped = 3
    Skips <- MCSkips
    PollMs = 2
    BootGraceMs = 5
    GraceMs = 5
    ConsoleHoldMs = 7
    SettleMs = 4
    TemplateIs <- MCAllPublished
    KillModulus = 2
INVARIANTS
    TypeOK
    DesktopConfigOutsideConsole
PROPERTIES
    KilledOnlyAfterHeldFault
    ContainedOnlyAfterSettling
    ConsoleReleasedForAReason
    PersistentFaultIsShown
    RecoveryConverges
