\* User programs kill tasks in any state, and leave their slots alone until
\* they are gone; otherwise they keep to no rule.
CONSTANTS
  NUM_MAX_TASK = 4
  Modes = {"AUTO_CLEANUP_ON_EXIT"}
  Lock = {l1}
  net_recv_queue = recvq
  net_send_queue = sendq
  Sync = {}
  Discipline = {"reap"}
SPECIFICATION Spec
INVARIANTS
  HeldOnce
  SoleRunner
PROPERTIES
  WaitReturns
