SPECIFICATION LiveSpec
CONSTANTS
  scheduler = scheduler
  pollNow = pollNow
  d1 = d1
  d2 = d2
  e1 = e1
  Workers = {scheduler, pollNow}
  Scheduler = scheduler
  Deliveries = {d1, d2}
  Extractions = {e1}
  ExtOf <- QueuedTwice
  BackoffSteps = 1
INVARIANTS BookedOnce
PROPERTIES ImplementsFeed EveryDeliverySettles
CHECK_DEADLOCK FALSE
