\* One till, one sale with change, and the close.
SPECIFICATION Spec
CHECK_DEADLOCK FALSE
CONSTANTS
  i1 = i1
  i2 = i2
  i3 = i3
  i4 = i4
  co = co
  c1 = c1
  t1 = t1
  r1 = r1
  s1 = s1
  s2 = s2
  v1 = v1
  v2 = v2
  v3 = v3
  a1 = a1
  a2 = a2
  a3 = a3
  dep = dep
  p1 = p1
  e1 = e1
  e2 = e2
  l1 = l1
  let = let
  bank = bank
  m1 = m1
  m2 = m2
  m3 = m3
  m4 = m4
  st1 = st1
  st2 = st2
  None = None
  k1 = k1
  k2 = k2
  Slots = {k1, k2}
  MaxCalls = 4
  MaxCrashes = 0
  Docs <- AllDocs
  Scopes <- OneTill
  Manuals = {m1, m2, m3, m4}
  ManualLines <- Entered
  Invs = {i1, i2, i3, i4}
  Drafts = {i1, i2, i3}
  Bill <- Bills
  Customers = {c1}
  Limit <- Limits
  Overdue = {i1}
  Plan <- Plans
  PastDue = {1}
  Company = co
  Transfers = {t1}
  Route <- Routes
  Registers = {r1}
  Sessions <- Drawers
  Opening = 100
  Tickets = {v1, v2, v3}
  Ticket <- Sales
  Shortfalls = {0, 5}
  FixedAssets = {a1, a2, a3}
  Purchase <- Purchases
  Posting = dep
  Employees = {e1, e2}
  Hired = {e2}
  BaseSalary <- Wage
  Raised <- Raises
  Leaves = {l1}
  Absence <- Trip
  Days = {2, 6}
  MonthDays = {1, 2, 3, 4, 5, 6, 7, 8, 9, 10, 11, 12, 13, 14, 15, 16, 17, 18, 19, 20, 21, 22, 23, 24, 25, 26, 27, 28, 29, 30}
  Runs = {p1}
  Letterings <- LetteredAccounts
  Statements = {st1, st2}
  Received = {st2}
  Lines <- BankLines
  Near <- WithinDays
  Bank = bank
SYMMETRY SlotSymmetry
INVARIANT NoFalseShortage
