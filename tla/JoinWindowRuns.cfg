CONSTANTS
    MaxPlayers = 3
    Picks <- TwoPicks
    MayLag <- TwoSlots
SPECIFICATION Spec
INVARIANT JoinWindowRuns
