\* Two receipts of one order and two validations; or two sends, a decision, a cancel and
\* a receipt on a new order; a restart.
CONSTANTS
  o1 = o1
  l1 = l1
  l2 = l2
  p1 = p1
  p2 = p2
  d1 = d1
  d2 = d2
  rule = rule
  g1 = g1
  g2 = g2
  v1 = v1
  v2 = v2
  s1 = s1
  s2 = s2
  c1 = c1
  NoRequest = NoRequest
  Lines = {l1, l2}
  OrderOf <- AllO1
  ProductOf <- TwoProducts
  Ordered <- OneOfEach
  Products = {p1, p2}
  TrackLots <- TrackP1
  Amount <- Hundred
  MinAmount <- Fifty
  RequiredRole <- RoleOfRule
  RolesOf <- Deciders
  Rules = {rule}
  InitRules = {rule}
  Targets = {o1}
  Asks = {s1, s2}
  Decisions = {d1}
  MaxRuleEdits = 0
  Cancels = {c1}
  Receipts = {g1, g2}
  Validates = {v1, v2}
  Quantities = {0, 1}
  Plans <- Both
  MaxCrashes = 1
SPECIFICATION Spec
INVARIANTS
  StockIsReceived
  ReceivedIsComplete
  SentWasApproved
CHECK_DEADLOCK FALSE
