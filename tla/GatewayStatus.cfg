\* The instance of GatewayApi.cfg; the documented status codes are not those sent.
SPECIFICATION GatewayLiveSpec
CONSTANTS
  Requests = {r1, r2}
  Workers = {w1, w2}
  MaxCapacity = 1
  NoWorker = none
  FailureThreshold = 1
  RecoveryTimeout = 1
  Function = "fn"
  Registered = {"fn"}
  Params = {"{id}"}
  Routes <- MCRoutes
  Arrivals <- MCArrivals
  Replies <- MCReplies
  NoRequest = no_request
PROPERTY DocumentedStatus
