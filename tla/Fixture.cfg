CONSTANTS
    MaxPlayers = 4
    Picks <- TwoPicks
    MayLag <- OneSlot
    MaxRounds = 2
SPECIFICATION RSpec
INVARIANTS
    RTypeOK
    RepickWaitsForSomebody
    UnreadyNeverPlay
    OneTypeWins
PROPERTY SetupResolves
