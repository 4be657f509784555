\* The slot of a task that was killed in its sleep is used again.
CONSTANTS
  NUM_MAX_TASK = 3
  Modes = {"AUTO_CLEANUP_ON_EXIT"}
  Lock = {l1}
  net_recv_queue = recvq
  net_send_queue = sendq
  Sync = {}
  Discipline = {"paced", "fifo", "cleanexit"}
SPECIFICATION Spec
INVARIANT HeldOnce
