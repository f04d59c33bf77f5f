SPECIFICATION FairSpec
CONSTANTS
    Clients = {front, back}
    NoClient = NoClient
    front = front
    back = back
    MaxJobs <- JobsEach
    MaxSessions <- SessionsEach
PROPERTIES
    CalledBackOnceInTime
    EveryJobEnds
CHECK_DEADLOCK FALSE
