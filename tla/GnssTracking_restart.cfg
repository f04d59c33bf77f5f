\* The modem may restart, may not open at once and may refuse any command but a start of the fix; one client does not wait for answers.
SPECIFICATION Spec
CONSTANTS
    s1 = s1
    s2 = s2
    s3 = s3
    c1 = c1
    c2 = c2
    Sessions = {s1, s2}
    Clients = {c1, c2}
    Owner <- TwoOwners
    Trackers = {c1, c2}
    Intervals = {1, 2}
    Powers = {1}
    DistanceSupported = TRUE
    Hasty = {c2}
    MayRemove = {}
    MayFail = {"open", "stopFix", "startDb", "stopDb"}
    MaxMsgs = 2
    MaxUpdates = 1
    MaxRestarts = 1
INVARIANTS FixServesAll OnlyMapsRun
CHECK_DEADLOCK FALSE
