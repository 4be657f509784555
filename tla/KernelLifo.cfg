\* Tasks release their locks in any order.
CONSTANTS
  NUM_MAX_TASK = 3
  Modes = {"AUTO_CLEANUP_ON_EXIT"}
  Lock = {l1, l2}
  net_recv_queue = recvq
  net_send_queue = sendq
  Sync = {}
  Discipline = {"paced", "nokill", "cleanexit"}
SPECIFICATION Spec
PROPERTY ReleaseReleases
