SPECIFICATION Spec
CONSTANTS
  scheduler = scheduler
  pollNow = pollNow
  ann = ann
  bob = bob
  mail = mail
  newest = newest
  quoted = quoted
  Workers = {scheduler}
  Scheduler = scheduler
  Reviewers = {ann}
  Emails = {mail}
  Messages = {newest, quoted}
  EmailOf <- OneEmail
  Pos <- Positions
  Parts = {"text"}
  Attached = {"none"}
  Readings <- Plain
  MaxReadings = 2
INVARIANTS NothingStranded
CHECK_DEADLOCK FALSE
