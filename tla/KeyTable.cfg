\* Four slots, of which a mailbox can have three.
CONSTANTS
  Kind = {"barrier"}
  Key = {3, 5, 7, 9}
  Name = {"m", "n"}
  MAX = 4
SPECIFICATION Spec
INVARIANTS
  HandlesDistinct
  OneMailboxPerName
PROPERTY HandlesStable
