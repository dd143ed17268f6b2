CONSTANTS
  Calls = {c1, c2}
  Persistent = Persistent
  None = None
  Requests <- AskedFor
SPECIFICATION Spec
INVARIANTS AsAsked FailsForAReason
PROPERTY LinkKept
SYMMETRY AnyCalls
