\* A write of the store that fails after the file was truncated.
SPECIFICATION PkgdSpec
CONSTANTS
    NameOrder <- DriverOrder
    Deps <- DriverDeps
    Autostart = {"boot", "vesa"}
    Driver = {"boot", "vesa"}
    Group <- DriverGroup
    NoGroup = ""
    Staged = {"boot", "vesa"}
    Need <- DriverNeed
    Unparsable = {}
    Margin = 1
    Armed = {}
    Budgets = {2}
    Persistent = TRUE
    WritesFail = TRUE
    Profile <- NoProfile
    Earlier = {}
    MaxPackages = 2
    Tag = {""}
INVARIANT
    FailedSaveLosesOneChange
