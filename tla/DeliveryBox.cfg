SPECIFICATION FairSpec
CONSTANTS
    friend = friend
    nobody = nobody
    Names <- MCNames
    Chars <- MCChars
    NoName = NoName
    NSlots = 2
    MaxOrders = 3
    MaxParcels = 2
    MaxTrouble = 1
CHECK_DEADLOCK FALSE
INVARIANTS TypeOK MirrorAgrees GetAfterAccept RecipientChecked Drained
PROPERTIES MenuReturns
