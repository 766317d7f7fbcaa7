SPECIFICATION RequestSpec
CONSTANTS
    Handlers = {h1, h2, h3}
    MaxReports = 3
    MaxDay = 2
    MayFail = TRUE
    Notes = {n1, n2, n3}
    Mine = {n1, n2}
    None = None
SYMMETRY Symmetry
INVARIANTS OvershootBound CountedOnce ReadWasAsked
