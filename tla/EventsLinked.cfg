SPECIFICATION Spec
CONSTANTS
    e1 = e1
    e2 = e2
    Events <- MCEvents
    NoEvent = NoEvent
    MenuBox = MenuBox
    UserDriven = TRUE
    TagKinds <- MCUpdateTags
    Grace = 1
    TagGrace = 1
    Menus = FALSE
    MaxTriggers = 2
    MaxCancels = 1
    MaxLost = 0
    MaxOutages = 0
    MaxResend = 0
    CmdCap = 1
    NetCap = 2
SYMMETRY Symmetry
CHECK_DEADLOCK FALSE
INVARIANTS PinHasOwner FrameIsShown EventHasOwner
