SPECIFICATION Spec
CONSTANTS
    sword = sword
    ring = ring
    Items <- MCItems
    Prices <- MCPrices
    NoSell = NoSell
    MaxAsks = 3
    MaxTrouble = 1
SYMMETRY Symmetric
CHECK_DEADLOCK FALSE
INVARIANTS ListedAsShown
