\* The modem starts, stops and restarts in any order.
SPECIFICATION OdcpiFairSpec
CONSTANTS
    Emergency = {TRUE, FALSE}
    MaxMsgs = 4
INVARIANTS TimerExpires
PROPERTIES SessionExtended
