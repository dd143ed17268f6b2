CONSTANTS
  Ttl = 6  ShortTtl = 1  Contexts = {1, 2}  MinContexts = {2}
  Lead = 3  MaxIdle = 10  Interval = 1  Cooldown = 3  RecordDelay = 2
  ListMayFailSoon = TRUE
  MaxTime = 8  MaxQueue = 1
SPECIFICATION Spec
INVARIANT OneBumpPerRequest
CHECK_DEADLOCK FALSE
