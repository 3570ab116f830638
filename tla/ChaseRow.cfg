CONSTANTS
    MaxPlayers = 4
    Tiles = {0, 1, 2, 3}
    Tile = 4
    Radius = 2
    Stride = 1
SPECIFICATION FairSpec
INVARIANTS
    TypeOK
    CapturesAllowed
    SurvivorLeft
    PlacesHold
PROPERTY RoundEnds
CHECK_DEADLOCK FALSE
