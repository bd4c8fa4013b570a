SPECIFICATION FairSpec
CONSTANTS
  client = client
  gateway = gateway
  backend = backend
  Components = {client, gateway, backend}
  Clients = {client}
  Calls <- FiveCalls
  Source <- CallSource
  Target <- CallTarget
  Upstream <- CallUpstream
  Retry <- CallRetry
  Unknown <- CallUnknown
  RequestLatency <- CallRequestLatency
  ResponseLatency <- CallResponseLatency
  Timeout <- CallTimeout
  Jitter <- CallJitter
  Losses = {TRUE, FALSE}
  LegFaults <- CallFaults
  Sleeps <- CallSleeps
  Scripts <- CallScripts
CHECK_DEADLOCK FALSE
INVARIANTS WorkMatches
PROPERTIES ImplementsRemoteCall EveryCallReturns
