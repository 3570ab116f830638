CONSTANTS
    MaxPlayers = 4
    Picks <- OnePick
    MayLag <- TwoSlots
SPECIFICATION Spec
INVARIANTS
    TypeOK
    AdmittedReady
    NoSetupAtRest
    RoundHasRivals
    FlagsFollowPhase
    Informed
    EmptyLobbyWaits
    AtMostTwoStarts
PROPERTY AdmissionOnlyInLobby
