SPECIFICATION Spec
CONSTANTS
  q = q
  t = t
  a = a
  b = b
  producer = producer
  NoSubscriber = NoSubscriber
  Queues = {q}
  Topics = {}
  Components = {a, b, producer}
  Publications <- ThreePublications
  Subscribers <- QueueSubscribers
  Destination <- ToQueue
  Publisher <- ByProducer
  Follow <- ChainOfTwo
  DeliveryDelay <- QueueDelay
  AckTimeout <- QueueTimeout
  RetryDelay <- QueueRetry
  MaxAttempts <- QueueAttempts
  Capacity <- QueueCapacity
  Faults <- QueueFaults
  Sleeps <- QueueSleeps
  Scripts <- QueueScripts
CHECK_DEADLOCK FALSE
INVARIANTS TypeOK NoStrandedBacklog BooksMatch
PROPERTIES TerminalIsFinal DeliveredInOrder
