CONSTANTS
    MaxPlayers = 2
    Picks <- TwoPicks
    MayLag <- Nobody
    User <- Rivals
    AutoJoining <- TwoSlots
    Hands <- Nobody
    MaxUnread = 0
    MaxUnserved = 1
SPECIFICATION SFairSpec
INVARIANTS
    NamesUnique
PROPERTIES
    AutoJoins
    NamesAreAnswered
