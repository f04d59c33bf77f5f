\* Previews, snapshots and reprocess requests, a flush and a daemon event at any time; frames may be lost.
SPECIFICATION FairSpec
CONSTANTS
    MaxFrame = 4
    Kinds <- FourRequests
    BatchSizes <- BatchesOfTwo
    MinInFlight = 2
    MaxInFlight = 3
    NBuf = 4
    LossyMeta = {1}
    LossyBuf = {1, 3}
    MayOverdue = TRUE
    MaxFlushes = 1
    MaxEvents = 1
INVARIANTS LentOnce AnsweredOnce InFlightCounted NoLostWakeup
PROPERTIES InOrder EveryRequestSettled
CHECK_DEADLOCK FALSE
