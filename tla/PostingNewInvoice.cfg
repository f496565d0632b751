SPECIFICATION Spec
CONSTANTS
  scheduler = scheduler
  pollNow = pollNow
  ann = ann
  bob = bob
  inv1 = inv1
  inv2 = inv2
  inv3 = inv3
  p1 = p1
  p2 = p2
  p3 = p3
  NoKey = NoKey
  Blank = Blank
  Keys = {inv1}
  Payments = {p1, p2}
  Tolerance = 2
  Reference <- NoReference
  Historical = {}
  Mail <- OneEach
  Workers = {scheduler}
  Requests = {ann}
  Loaded <- NoneLoaded
  Forms <- SameNew
  Files <- NoFile
PROPERTIES OverpaymentWasShown
CHECK_DEADLOCK FALSE
