\* User programs and devices that keep to every rule.
CONSTANTS
  NUM_MAX_TASK = 4
  Modes = {"AUTO_CLEANUP_ON_EXIT"}
  Lock = {l1, l2}
  net_recv_queue = recvq
  net_send_queue = sendq
  Sync = {}
  Discipline = {"paced", "nokill", "fifo", "cleanexit"}
SPECIFICATION Spec
INVARIANTS
  TypeOK
  HeldOnce
  SoleRunner
  NoTaskLost
  FreeIsUnlinked
  WaitersHaveTarget
  MutualExclusion
  LocksAccounted
PROPERTIES
  RoundRobin
  WaitReturns
  ReleaseReleases
  ReadyRuns
  ImplementsFairLock
