SPECIFICATION MCSpec
CONSTANTS
    Monuments = {1, 2, 3}
    Cities = {9}
    Personas = {"explorer"}
    Suits <- MCSuits
    Raters = {u1, u2}
    Stars = {1, 2}
    Payloads <- MCPayloads
    MinItems = 2
    Featured = 2
    MaxChanges = 2
INVARIANTS EnoughItems NoDuplicates OnlyPublished BestRatedFirst
CHECK_DEADLOCK FALSE
SYMMETRY Symmetry
