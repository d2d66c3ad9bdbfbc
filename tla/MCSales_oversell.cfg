\* Two checkouts race for the same two units.
CONSTANTS
  c1 = c1
  c2 = c2
  p1 = p1
  p2 = p2
  i1 = i1
  i2 = i2
  i3 = i3
  i4 = i4
  e1 = e1
  e2 = e2
  NoItem = NoItem
  Carts = {c1, c2}
  Products = {p1, p2}
  Items = {i1, i2, i3, i4}
  Edits = {}
  Quantities = {1}
  Discounts = {0}
  Overrides <- NoOverride
  CatalogPrice <- UnitPrice
  InitCart <- AllActive
  InitItem <- BothProducts
  Checkouts = {r1, r2}
  TrackLots <- NoTracking
  Lots = {}
  LotProduct <- NoLots
  InitStock <- TwoOfEach
  InitLot <- NoLots
  MaxCrashes = 1
SPECIFICATION Spec
INVARIANT NoOversell
CHECK_DEADLOCK FALSE
