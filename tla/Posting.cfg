SPECIFICATION Spec
CONSTANTS
  scheduler = scheduler
  pollNow = pollNow
  ann = ann
  bob = bob
  inv1 = inv1
  inv2 = inv2
  inv3 = inv3
  p1 = p1
  p2 = p2
  p3 = p3
  NoKey = NoKey
  Blank = Blank
  Keys = {inv1, inv2, inv3}
  Payments = {p1, p2, p3}
  Tolerance = 2
  Reference <- OneReference
  Historical = {p3}
  Mail <- TwoMessages
  Workers = {scheduler, pollNow}
  Requests = {ann}
  Loaded <- TwoInBooks
  Forms <- Crossing
  Files <- Export
INVARIANTS TypeOK PostedAsApproved
PROPERTIES OverpaymentWasShown ImplementsLedger
CHECK_DEADLOCK FALSE
