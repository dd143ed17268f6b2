\* Four tasks, two slots: tasks wait, retry and are enqueued by handlers.
CONSTANTS
  t1 = t1  t2 = t2  t3 = t3  t4 = t4
  Tasks = {t1, t2, t3, t4}
  Retries <- SomeRetries
  Concurrency = 2
SPECIFICATION FairSpec
INVARIANT NoIdleSlot
PROPERTY TasksSettle
