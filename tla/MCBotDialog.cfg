CONSTANTS
    Handlers = {h1, h2}
    Talks <- Evenings
    MaxUpdates = 5
    MaxDialogs = 2
    MaxResends = 1
    MaxDeaths = 1
SPECIFICATION ChatSpec
SYMMETRY Symmetry
\* The customer may have said everything.
CHECK_DEADLOCK FALSE
INVARIANTS OncePerDialog OneUnpaidOrder
