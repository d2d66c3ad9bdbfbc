\* Two requests at a time, three in all, about one group of documents; a restart.
SPECIFICATION Spec
CHECK_DEADLOCK FALSE
CONSTANTS
  t1 = t1
  t2 = t2
  v1 = v1
  v2 = v2
  a1 = a1
  a2 = a2
  check = check
  plain = plain
  lotted = lotted
  w1 = w1
  w2 = w2
  s1 = s1
  s2 = s2
  agenda = agenda
  i1 = i1
  i2 = i2
  user = user
  phone = phone
  till = till
  c1 = c1
  c2 = c2
  page = page
  k1 = k1
  k2 = k2
  None = None
  Slots = {k1, k2}
  MaxCalls = 3
  MaxCrashes = 1
  Docs <- AllDocs
  Scopes <- Groups
  Bins <- AllBins
  Tracked = {lotted}
  OpeningStock <- Shelf
  OpeningLots <- Batches
  Moves = {t1, t2}
  Move <- Ways
  Counts = {a1, a2}
  Count <- Found
  Sellings = {v1, v2}
  Selling <- Sold
  Checker = check
  Products = {plain, lotted}
  MinStockAlert <- Alerts
  ReorderQuantity <- Refill
  Suppliers = {s1, s2}
  Price <- Prices
  FirstQuotes <- AtFirst
  MaxNotices = 1
  Agenda = agenda
  Bills = {i1, i2}
  Reachable = {i1}
  Users = {user}
  Clients = {phone, till}
  UserOf <- OneUser
  CartsOnShow = {c1, c2}
  OldCarts = {c1}
  Terminals = {page}
  MaxFetches = 2
INVARIANTS
  
  
  
  
  InSync
PROPERTIES
  LowStockIsHandled
