\* An emergency request, a control plane one and another.
SPECIFICATION NiFairSpec
CONSTANTS
    r1 = r1
    r2 = r2
    r3 = r3
    None = None
    Requests = {r1, r2, r3}
    Type <- OneEs
    UserResponses = {"ACCEPT"}
    MaxResponses = 1
INVARIANTS SessionHasThread
PROPERTIES EndedOnce EveryRequestEnds
CHECK_DEADLOCK FALSE
