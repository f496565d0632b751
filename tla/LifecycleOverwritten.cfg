SPECIFICATION Spec
CONSTANTS
  scheduler = scheduler
  pollNow = pollNow
  ann = ann
  bob = bob
  mail = mail
  newest = newest
  quoted = quoted
  Workers = {scheduler}
  Scheduler = scheduler
  Reviewers = {ann, bob}
  Emails = {mail}
  Messages = {newest}
  EmailOf <- OneEmail
  Pos <- Positions
  Parts = {"text"}
  Attached = {"none"}
  Readings <- OnePending
  MaxReadings = 2
PROPERTIES ApprovedIsFinal
CHECK_DEADLOCK FALSE
