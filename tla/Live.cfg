CONSTANTS
    MaxPlayers = 2
    Picks <- TwoPicks
    MayLag <- TwoSlots
SPECIFICATION AnyStartSpec
PROPERTIES
    HandlersReturn
    NestedCallsRunOut
    LobbyCloses
