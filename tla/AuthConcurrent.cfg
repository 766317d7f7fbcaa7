SPECIFICATION Spec
CONSTANTS
    Emails = {u1, u2}
    Sids = {s1, s2, s3, s4}
    Requests = {r1, r2}
    NoOne = NoOne
    Calls = {"register", "login", "refresh", "logout", "logout-all"}
    MayFail = TRUE
SYMMETRY Symmetry
VIEW Relevant
INVARIANTS DeletionHasCause ForkBound IInv
PROPERTIES DeadStaysDead ImplementsLedger
