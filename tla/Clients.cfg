SPECIFICATION ClientsSpec
CONSTANTS
    Packages <- MCPackages
    Requires <- MCRequires
    Autostarted <- MCAutostarted
    Restored <- MCRestored
    Misplaced <- MCMisplaced
    Slots <- MCSlots
    Baked <- MCBaked
    MaxRequests = 2
    MaxArgs = 8
    CommandLines <- MCCommandLines
    Companies <- MCCompanies
    PollMax = 2
    DialogPolls = 1
    WritesTried <- MCWritesTried
    MaxApps = 2
    LaunchPollMax = 2
    MaxClicks = 2
    Files = {f1}
    Contents = {old}
    MaxEdits = 1
    TtyLines <- MCTtyLines
    TtyPolls = 1
    OutSize = 2
INVARIANT ClaimIsTrue
PROPERTIES ManualPlansFirst ClientsComeBack MenuFollowsPkgd DivergenceIsReported
CHECK_DEADLOCK FALSE
