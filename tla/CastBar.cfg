SPECIFICATION FairSpec
CONSTANTS
    cure = cure
    fire = fire
    dia = dia
    Timed <- MCTimed
    Instants <- MCInstants
    Ability = Ability
    Pos = Pos
    None = None
    MaxUses = 3
    MaxWalks = 2
CHECK_DEADLOCK FALSE
INVARIANTS BarOwned BarMirrors
PROPERTY BarEnds
