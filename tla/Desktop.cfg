\* Notifications, themes, panels, windows and shortcuts, each with every interleaving of
\* its polls, signals and daemons.
SPECIFICATION DesktopSpec
CONSTANTS
    Scenes = {"notes", "themes", "panels", "windows", "keys"}
    Titles = {"", "up"}
    Routed = "vct"
    MaxLive = 3
    Lives = {1, 3}
    Ttl = 2
    SameWithin = 1
    MaxTime = 5
    MaxPosts = 3
    Themes = {"dark", "light", "plain", "gone"}
    Staged = {"dark", "light", "plain"}
    Colored = {"dark", "light"}
    IdLists <- MCIdLists
    OwnKeys = {"top", "left"}
    Heights = {1, 2}
    Colors = {"", "blue"}
    MaxChanges = 3
    Windows = {1, 2}
    Places = {1, 2}
    Parked <- MCParked
    MaxActs = 4
    Actions = {"launcher", "dismiss"}
    Bindings <- MCBindings
    MaxBindings = 2
    MaxPresses = 3
INVARIANTS
    NothingOverstays
    RestoreTarget
PROPERTIES
    PopoverFollows
    AppearanceConverges
    PanelsFollow
    WindowsSettle
    KeysFollow
CHECK_DEADLOCK FALSE
