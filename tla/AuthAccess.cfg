\* Sessions and access tokens of two users; logout-all behind the guard.
SPECIFICATION RacedSpec
CONSTANTS
    Emails = {u1, u2}
    Sids = {s1, s2, s3}
    Requests = {r1, r2}
    NoOne = NoOne
    Calls = {"register", "login", "refresh", "logout"}
    MayFail = TRUE
SYMMETRY Symmetry
VIEW Relevant
INVARIANTS RotationIsExclusive ReuseIsFinal LogoutAllIsFinal
PROPERTIES LockedOutStaysOut
