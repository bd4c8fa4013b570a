SPECIFICATION FairSpec
CONSTANTS
  q = q
  t = t
  a = a
  b = b
  producer = producer
  NoSubscriber = NoSubscriber
  Queues = {q}
  Topics = {t}
  Components = {a, b, producer}
  Publications <- ThreePublications
  Subscribers <- TopicSubscribers
  Destination <- ToBoth
  Publisher <- ByProducer
  Follow <- ChainOfTwo
  DeliveryDelay <- TopicDelay
  AckTimeout <- TopicTimeout
  RetryDelay <- TopicRetry
  MaxAttempts <- TopicAttempts
  Capacity <- TopicCapacity
  Faults <- TopicFaults
  Sleeps <- TopicSleeps
  Scripts <- TopicScripts
CHECK_DEADLOCK FALSE
INVARIANTS BoundedAndSettled
PROPERTY Progress
