\* A checkout that overtakes the outbox blocks it.
CONSTANTS
  Adds = {1, 2, 3}
  Uuid <- Reversed
  Carts = {1, 2}
  Flushes = {f1}
  MaxNow = 0
  MaxFaults = 0
  MaxCheckouts = 1
SPECIFICATION FairSpec
PROPERTY QueueDrains
CHECK_DEADLOCK FALSE
