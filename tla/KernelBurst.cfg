\* The shell starts tasks in consecutive slices.
CONSTANTS
  NUM_MAX_TASK = 4
  Modes = {"AUTO_CLEANUP_ON_EXIT"}
  Lock = {l1}
  net_recv_queue = recvq
  net_send_queue = sendq
  Sync = {}
  Discipline = {"nokill", "fifo", "cleanexit"}
SPECIFICATION Spec
INVARIANT NoTaskLost
