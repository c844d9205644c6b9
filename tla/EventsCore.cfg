SPECIFICATION Spec
CONSTANTS
    e1 = e1
    e2 = e2
    Events <- MCEvents
    NoEvent = NoEvent
    MenuBox = MenuBox
    UserDriven = TRUE
    TagKinds <- MCUpdateTags
    Grace = 1
    TagGrace = 1
    Menus = TRUE
    MaxTriggers = 2
    MaxCancels = 1
    MaxLost = 1
    MaxOutages = 1
    MaxResend = 0
    CmdCap = 1
    NetCap = 1
SYMMETRY Symmetry
CHECK_DEADLOCK FALSE
INVARIANTS TypeOK ScriptStands
