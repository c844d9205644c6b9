SPECIFICATION Spec
CONSTANTS
    e1 = e1
    e2 = e2
    Events <- MCEvents
    NoEvent = NoEvent
    MenuBox = MenuBox
    UserDriven = FALSE
    TagKinds <- MCAllTags
    Grace = 1
    TagGrace = 1
    Menus = FALSE
    MaxTriggers = 2
    MaxCancels = 0
    MaxLost = 0
    MaxOutages = 0
    MaxResend = 1
    CmdCap = 0
    NetCap = 2
CHECK_DEADLOCK FALSE
PROPERTIES LiveScriptKeepsEvent NoStrayEnd
