\* Two timers, restarted and deleted at any time, with three runs between them.
SPECIFICATION FairSpec
CONSTANTS
    t1 = t1
    t2 = t2
    d1 = d1
    d2 = d2
    d3 = d3
    d4 = d4
    None = None
    Timers = {t1, t2}
    Delegates = {d1, d2, d3}
    Delays = {1, 2}
    MayDelete = {t1}
    MaxTime = 2
INVARIANTS NoTimerForgotten NoneFreedInUse
PROPERTIES EveryDelegateEnds
CHECK_DEADLOCK FALSE
