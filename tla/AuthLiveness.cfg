SPECIFICATION Spec
CONSTANTS
    Emails = {u1}
    Sids = {s1, s2, s3}
    Requests = {r1, r2}
    NoOne = NoOne
    Calls = {"register", "refresh", "logout"}
    MayFail = FALSE
PROPERTIES DetectedReusePurged AcceptedRefreshReplaces
