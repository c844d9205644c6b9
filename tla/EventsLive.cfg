SPECIFICATION FairSpec
CONSTANTS
    e1 = e1
    e2 = e2
    Events <- MCOneEvent
    NoEvent = NoEvent
    MenuBox = MenuBox
    UserDriven = TRUE
    TagKinds <- MCUpdateTags
    Grace = 1
    TagGrace = 1
    Menus = FALSE
    MaxTriggers = 1
    MaxCancels = 1
    MaxLost = 1
    MaxOutages = 1
    MaxResend = 1
    CmdCap = 0
    NetCap = 2
CHECK_DEADLOCK FALSE
PROPERTIES TagResolves PinnedIsReleased
