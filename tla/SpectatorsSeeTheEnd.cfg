CONSTANTS
    MaxPlayers = 2
    Picks <- TwoPicks
    MayLag <- Nobody
    User <- Rivals
    AutoJoining <- OneSlot
    Hands <- OtherSlot
    MaxUnread = 0
    MaxUnserved = 1
SPECIFICATION SSpec
INVARIANT SpectatorsSeeTheEnd
