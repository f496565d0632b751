SPECIFICATION LiveSpec
CONSTANTS
  scheduler = scheduler
  pollNow = pollNow
  ann = ann
  bob = bob
  mail = mail
  newest = newest
  quoted = quoted
  Workers = {scheduler, pollNow}
  Scheduler = scheduler
  Reviewers = {ann}
  Emails = {mail}
  Messages = {newest}
  EmailOf <- OneEmail
  Pos <- Positions
  Parts = {"plain", "text"}
  Attached = {"none", "live"}
  Readings <- OnePending
  MaxReadings = 1
PROPERTIES EmailComesOut
CHECK_DEADLOCK FALSE
