SPECIFICATION Spec
CONSTANTS
    Stored <- MCStored
    DefaultRelays <- MCDefaultRelays
    Texts <- MCTexts
    Canonical <- MCCanonical
    Minted = {"m1", "m2", "m3"}
    MinRelays = 1
    MaxInviteRelays = 2
    NoRelay = "none"
    NoKey <- Junk
    Nothing = Nothing
    MaxCommands = 3
    MaxOffers = 1
INVARIANT
    RotationRetires
CHECK_DEADLOCK FALSE
