\* Two requests at a time on a pool of one; the breaker opens on the first failure.
SPECIFICATION GatewayLiveSpec
CONSTANTS
  Requests = {r1, r2}
  Workers = {w1, w2}
  MaxCapacity = 1
  NoWorker = none
  FailureThreshold = 1
  RecoveryTimeout = 1
  Function = "fn"
  Registered = {"fn"}
  Params = {"{id}"}
  Routes <- MCRoutes
  Arrivals <- MCArrivals
  Replies <- MCReplies
  NoRequest = no_request
INVARIANTS
  LeaseBacksCall
  LedgerExact
  InvokedOnlyIfAllowed
  TraceFollowsRequest
PROPERTIES
  RequestEnds
  SlotComesFree
