CONSTANTS
    MaxPlayers = 2
    Picks <- OnePick
    MayLag <- Nobody
    User <- SameTile
    AutoJoining <- Nobody
    Hands <- TwoSlots
    MaxUnread = 0
    MaxUnserved = 1
SPECIFICATION SSpec
INVARIANT TilesDistinct
