CONSTANTS
  Ttl = 6  ShortTtl = 1  Contexts = {1, 2}  MinContexts = {2}
  Lead = 2  MaxIdle = 9  Interval = 1  Cooldown = 3  RecordDelay = 2
  ListMayFailSoon = FALSE
  MaxTime = 12  MaxQueue = 1
SPECIFICATION Spec
INVARIANTS TypeOK KeptWarm OneBumpPerRequest LastIsAnnounced OneKeepaliveInBox
PROPERTIES NoBumpAfterLast TypedIntoEmptyBox
CHECK_DEADLOCK FALSE
