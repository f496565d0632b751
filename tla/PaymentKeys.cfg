SPECIFICATION Spec
CONSTANTS
  scheduler = scheduler
  pollNow = pollNow
  ann = ann
  m1 = m1
  m2 = m2
  p1 = p1
  p2 = p2
  p3 = p3
  utr1 = utr1
  utr2 = utr2
  soft = soft
  text1 = text1
  NoKey = NoKey
  Reviewer = ann
  Messages = {m1, m2}
  Workers = {scheduler, pollNow}
  Payments = {p1, p2, p3}
  Strong = {utr1, utr2}
  Weak = {soft}
  PaysIn <- TwoAndOne
  Headers <- Misread
  Text <- Alike
  Skippable = {m2}
  Refs <- RefInText
  Historical = {p2}
  Tolerance = 1
  MaxReads = 2
INVARIANTS NoClaimCollides NoUnseenDoublePayment
CHECK_DEADLOCK FALSE
