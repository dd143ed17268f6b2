\* Two clients and the poll; entries expire while answers are under way.
CONSTANTS
  Requests = {r1, r2}
  Windows = {w1, w2}
  Ttl = 2
  MaxClock = 4
  MaxAnswers = 3
  MaxFailures = 2
SPECIFICATION ServiceFairSpec
INVARIANT GaugesShowNewestAnswer
PROPERTIES ResponsesAreCurrent PollsRecur QuietAfterStop StopResolves
