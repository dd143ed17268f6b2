\* A process that inherited the pipes keeps them open.
SPECIFICATION FairSpec
PROPERTY CompletedRunSettles
\* A run that settled is at rest.
CHECK_DEADLOCK FALSE
