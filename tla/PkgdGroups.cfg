\* The two framebuffer drivers as they are shipped: one group, both of them
\* marked <autostart/>.
SPECIFICATION PkgdSpec
CONSTANTS
    NameOrder <- DriverOrder
    Deps <- DriverDeps
    Autostart = {"boot", "vesa"}
    Driver = {"boot", "vesa"}
    Group <- DriverGroup
    NoGroup = ""
    Staged = {"boot", "vesa"}
    Need <- DriverNeed
    Unparsable = {}
    Margin = 1
    Armed = {}
    Budgets = {2}
    Persistent = TRUE
    WritesFail = FALSE
    Profile <- NoProfile
    Earlier = {}
    MaxPackages = 2
    Tag = {""}
INVARIANT
    GroupsAreExclusive
