\* Both nifs; one of two subscribers waits for the close and may be lost with the other,
\* APNs are refused on one nif.
SPECIFICATION FairSpec
CONSTANTS
    h1 = h1
    h2 = h2
    h3 = h3
    Handles <- TwoHandles
    Nifs <- BothNifs
    WaitForClose = {h1}
    StaleReads = {h1}
    BadApn = {"INTERNET"}
    MaxMsgs = 2
    MaxCmds = 1
INVARIANTS NifConsistent ToldMatchesState
PROPERTIES ImplementsShared NobodyForgotten OpenAnswered CloseAnswered
CHECK_DEADLOCK FALSE
