SPECIFICATION Spec
CONSTANTS
  scheduler = scheduler
  pollNow = pollNow
  ann = ann
  bob = bob
  mail = mail
  newest = newest
  quoted = quoted
  Workers = {scheduler, pollNow}
  Scheduler = scheduler
  Reviewers = {ann, bob}
  Emails = {mail}
  Messages = {newest, quoted}
  EmailOf <- OneEmail
  Pos <- Positions
  Parts = {"empty", "plain", "digits", "text", "table"}
  Attached = {"none", "skipped", "live"}
  Readings <- Mixed
  MaxReadings = 2
CONSTRAINT AloneOrSmallest
INVARIANTS TypeOK OneReading ContentReadOnce FirstPassStrandsNothing QueuedIffApproved
PROPERTIES ApprovedUnlessCrossed
SYMMETRY Interchangeable
CHECK_DEADLOCK FALSE
