SPECIFICATION Spec
CONSTANTS
  meta = meta
  snap = snap
  Streams = {meta, snap}
  Meta = meta
  StartOrder <- Order
  AppStreams = {snap}
  NBuf = 2
  Attrs <- BothAttrs
  Infos <- DivertedInfos
  Requests <- RetroRequest
  Lossy = {1}
  FlushTo = {2}
  FutureWait = 1
  MaxFrame = 3
  MaxBacklog = 1
  MaxCalls = 1
  MaxRuns = 1
CHECK_DEADLOCK FALSE
INVARIANTS RefcntIsHolders MatchedFirst QueueBounded OneFrame NoneKeptBack
PROPERTIES CallsReturn
