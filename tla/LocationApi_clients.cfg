\* Two clients, with or without a destroy callback, that may leave out kinds of callbacks;
\* the geofence library cannot be loaded.
SPECIFICATION FairSpec
CONSTANTS
    a1 = a1
    a2 = a2
    Apis = {a1, a2}
    Missing = {"geofence"}
    MaxMsgs = 3
INVARIANTS ToldAfterRemoval CallsLivingObject AdaptersAgree
PROPERTIES DestroyAnswered
CHECK_DEADLOCK FALSE
