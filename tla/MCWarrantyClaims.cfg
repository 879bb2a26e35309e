CONSTANTS
    Claims <- TwoClaims
    Entries <- OneEntry
    Modes <- AllModes
    Appliers = {a1, a2}
    MaxClaims = 3
    Settings <- Starts
    MaxRechecks = 1
    Faults = {"lost", "crash"}
SPECIFICATION FairSpec
\* A closed claim that nobody reopens is the end.
CHECK_DEADLOCK FALSE
INVARIANTS EntryOnce CompensatedOnce OneApply
PROPERTIES EveryClaimMoves
