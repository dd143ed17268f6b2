\* Three sockets, so two reconnects, and three messages.
CONSTANTS
  MaxSockets = 3
  MaxMessages = 3
SPECIFICATION FairSpec
INVARIANTS NeverStranded StopHolds
PROPERTIES OnlyTheNewestIsTaken VanishedPeerReplaced WaitingMessageTaken
\* A stopped worker is at rest.
CHECK_DEADLOCK FALSE
