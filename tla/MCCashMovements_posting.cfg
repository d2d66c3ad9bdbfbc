\* Two expenses, two posts of held movements, three deciders, a fault.
CONSTANTS
  m1 = m1
  m2 = m2
  d1 = d1
  d2 = d2
  d3 = d3
  low = low
  high = high
  NoRequest = NoRequest
  Targets = {m1, m2}
  Asks = {m1, m2}
  Expenses = {m1, m2}
  Decisions = {d1, d2, d3}
  Rules = {low, high}
  InitRules = {low, high}
  Amount <- Amounts
  MinAmount <- Thresholds
  RequiredRole <- RoleOfRule
  RolesOf <- Deciders
  Posts = {p1, p2}
  MaxRuleEdits = 1
  MaxFaults = 1
SYMMETRY CallSymmetry
SPECIFICATION Spec
INVARIANTS
  DecidedByRole
  SpareEntriesHaveCauses
  HeldWhenUndisturbed
CHECK_DEADLOCK FALSE
