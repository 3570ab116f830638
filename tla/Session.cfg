CONSTANTS
    MaxPlayers = 3
    Picks <- TwoPicks
    MayLag <- Nobody
    User <- Table
    AutoJoining <- OneSlot
    Hands <- LastSlots
    MaxUnread = 0
    MaxUnserved = 1
SPECIFICATION SSpec
INVARIANTS
    SessionTypeOK
    BeliefsHold
    RostersHold
