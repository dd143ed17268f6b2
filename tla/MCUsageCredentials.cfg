\* Two calls of one process: the poll and a request of the usage proxy.
CONSTANTS
  c1 = c1  c2 = c2  p1 = p1
  Callers = {c1, c2}
  Procs = {p1}
  ProcOf <- OneProcess
  NoCaller = NoCaller
  NoToken = NoToken
  MaxToken = 3
  MaxLogins = 1
SPECIFICATION AgentFairSpec
INVARIANTS NeverSpentTwice SessionNotLost
PROPERTIES PermanentIsHopeless KeepsProtocol CallsSettle
