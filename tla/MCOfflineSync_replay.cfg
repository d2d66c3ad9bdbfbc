\* Two additions, a checkout, and replays that overlap.
CONSTANTS
  Adds = {1, 2}
  Uuid <- Reversed
  Carts = {1, 2}
  Flushes = {f1, f2}
  MaxNow = 1
  MaxFaults = 2
  MaxCheckouts = 1
SPECIFICATION FairSpec
INVARIANTS
  NothingVanishes
  CopiesHaveCauses
  OlderFirst
 
CHECK_DEADLOCK FALSE
