\* Every request in any order, with crashes, on a store whose writes may fail
\* and that an earlier image may have filled.
SPECIFICATION PkgdSpec
CONSTANTS
    NameOrder <- DesktopOrder
    Deps <- DesktopDeps
    Autostart = {"boot", "platform", "term"}
    Driver = {"boot", "platform", "vesa"}
    Group <- DesktopGroup
    NoGroup = ""
    Staged = {"bad", "boot", "platform", "term", "vesa"}
    Need <- DesktopNeed
    Unparsable = {"term"}
    Margin = 1
    Armed = {"driver"}
    Budgets = {1, 3}
    Persistent = TRUE
    WritesFail = TRUE
    Profile <- DesktopProfile
    Earlier <- EarlierRoots
    MaxPackages = 5
    Tag = {""}
INVARIANTS
    PublishedAgrees
    ReplayIsTrue
    InstalledIsNeeded
PROPERTY
    RestartBringsBack
    NothingIsStopped
    InstallsAreAdmitted
