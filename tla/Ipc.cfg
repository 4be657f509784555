\* One semaphore, one barrier and one mailbox, used by three tasks at will.
CONSTANTS
  NUM_MAX_TASK = 4
  Modes = {"AUTO_CLEANUP_ON_EXIT"}
  Lock = {}
  net_recv_queue = recvq
  net_send_queue = sendq
  sem = sem
  bar = bar
  mbox = mbox
  fullq = fullq
  emptyq = emptyq
  Sync <- MCSync
  Sem = {sem}
  Bar = {bar}
  Mbox = {mbox}
  full_queue <- MCfull_queue
  empty_queue <- MCempty_queue
  MAX_MBOX_LENGTH = 3
  Messages <- MCMessages
  Lengths = {1, 2}
  Counts = {1, 3}
  VAL_MAX = 2
  OBJECTS_MAX = 1
  ELSEWHERE_MAX = 0
  Discipline = {"paced", "nokill", "fifo", "cleanexit"}
SPECIFICATION IpcSpec
INVARIANTS
  IpcTypeOK
  NoTaskLost
  SleepersMustWait
  NoStandOff
PROPERTIES
  ImplementsSemaphore
  ImplementsRendezvous
  ImplementsByteChannel
