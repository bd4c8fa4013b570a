SPECIFICATION KernelSpec
CONSTANTS
  lease = lease
  text = text
  None = None
  Keys = {lease}
  Texts = {text}
  MaxCounter = 2
  Ttls = {1, 2}
  Initial <- LeaseAtStart
  MaxGeneration = 4
  MaxTime = 4
  MaxRun = 2
  Requests = {1, 2, 3, 4}
  Retry <- RetryOnce
  OperationOf <- FourOperations
  Operations = {"charge", "refund"}
  Callbacks <- NoneOrTwo
  Legs = {0, 1}
  Timeout = 3
  Scripts <- ProviderScripts
  Horizon = 9
  Rules <- FiveRules
  Points = {"delivery", "commit"}
  Names = {"orders", "stock"}
  Subjects = {1, 2}
  Scheduled = {"crash"}
  Span = 2
  MaxResets = 1
  MaxProbes = 3
  Bursts <- FewBursts
  Kinds = {"quiet", "leaves", "joins", "dismisses", "steps"}
  Limit = 8
  Events = 2
  MaxListeners = 2
  Services = {"shop"}
  Clients = {"shopper"}
  MaxProcess = 1
  MaxScenario = 1
  MaxHeld = 1
  MaxKept = 1
CHECK_DEADLOCK FALSE
INVARIANTS ExpiriesExact ProviderBooksMatch DecisionsFollowProbes HistoryIsTold Fenced
PROPERTIES ImplementsTtlMap ImplementsProvider
