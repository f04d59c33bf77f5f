\* The modem may refuse commands, except that a distance based session can always be stopped; one client does not wait for answers and may be destroyed.
SPECIFICATION FairSpec
CONSTANTS
    s1 = s1
    s2 = s2
    s3 = s3
    c1 = c1
    c2 = c2
    Sessions = {s1, s2}
    Clients = {c1, c2}
    Owner <- TwoOwners
    Trackers = {c1, c2}
    Intervals = {1, 2}
    Powers = {1}
    DistanceSupported = TRUE
    Hasty = {c1}
    MayRemove = {c1}
    MayFail = {"startFix", "stopFix", "startDb"}
    MaxMsgs = 2
    MaxUpdates = 1
    MaxRestarts = 0
INVARIANTS StoppedIsGone
PROPERTIES EveryAnswered
CHECK_DEADLOCK FALSE
