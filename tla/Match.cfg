CONSTANTS
    MaxPlayers = 3
    Picks <- ThreePicks
    MayLag <- OneSlot
SPECIFICATION Spec
INVARIANT OneTypeWins
PROPERTY ImplementsMatch
