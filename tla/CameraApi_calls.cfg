\* Calls in any order; steps may fail.
SPECIFICATION FairSpec
CONSTANTS
    MayFail <- FailingSteps
    MaxInFlight = 1
    MaxUnclaimed = 1
INVARIANTS StreamsMatch CallsAreSync
PROPERTIES EveryCallAnswered PictureEnds
CHECK_DEADLOCK FALSE
