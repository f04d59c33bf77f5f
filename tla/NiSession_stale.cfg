\* Two requests after each other, the second not an emergency.
SPECIFICATION NiSpec
CONSTANTS
    r1 = r1
    r2 = r2
    r3 = r3
    None = None
    Requests = {r1, r2, r3}
    Type <- NoEs
    UserResponses = {"ACCEPT", "DENY"}
    MaxResponses = 1
INVARIANTS AnswerIsOwn
CHECK_DEADLOCK FALSE
