\* Panels whose list loses the default, and keys of panels that are not listed.
SPECIFICATION DesktopSpec
CONSTANTS
    Scenes = {"panels"}
    Titles = {"", "up"}
    Routed = "vct"
    MaxLive = 3
    Lives = {1, 3}
    Ttl = 2
    SameWithin = 1
    MaxTime = 5
    MaxPosts = 3
    Themes = {"dark", "light", "plain", "gone"}
    Staged = {"dark", "light", "plain"}
    Colored = {"dark", "light"}
    IdLists <- MCIdLists
    OwnKeys = {"top", "left"}
    Heights = {1, 2}
    Colors = {"", "blue"}
    MaxChanges = 2
    Windows = {1, 2}
    Places = {1, 2}
    Parked <- MCParked
    MaxActs = 4
    Actions = {"launcher", "dismiss"}
    Bindings <- MCBindings
    MaxBindings = 2
    MaxPresses = 3
INVARIANT UnknownIdsAreIgnored
CHECK_DEADLOCK FALSE
