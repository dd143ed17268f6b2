\* Two tasks and one slot: a task waits, retries or is enqueued by a handler, while
\* starts and stops move the generation up to 5 times.
CONSTANTS
  t1 = t1  t2 = t2
  Tasks = {t1, t2}
  Retries <- SomeRetries
  Concurrency = 1
  MaxGeneration = 5
SPECIFICATION WorkerFairSpec
PROPERTIES ImplementsLifecycle CyclesRecur
\* A stopped worker with nothing pending waits for its owner.
CHECK_DEADLOCK FALSE
