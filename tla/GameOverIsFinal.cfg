CONSTANTS
    MaxPlayers = 4
    Picks <- OnePick
    MayLag <- TwoSlots
SPECIFICATION Spec
PROPERTY GameOverIsFinal
