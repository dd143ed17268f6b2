\* A process that inherited the pipes may outlive the child.  Two lines of output;
\* replies of up to three groups; times about the ends of two weeks.
CONSTANTS
  Lines <- SomeLines
  HttpUsages <- SomeHttpUsages
  Models <- SomeModels
  Policies <- SomePolicies
  LastResets <- SomeResets
  Now = 100
SPECIFICATION SpawnSpec
INVARIANTS TerminatedRunNeedsResult AnswerIsWhole
INVARIANTS OwnerIsBest GateAndGaugesAgree MalformedNeverOpens GateIsMonotone PaceIsTheBudget
PROPERTIES RunSettles CallSettles ToldChildEnds
\* A run that settled is at rest.
CHECK_DEADLOCK FALSE
