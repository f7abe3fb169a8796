SPECIFICATION Spec
CONSTANTS
  c1 = c1
  c2 = c2
  None = None
  Conns = {c1, c2}
  HeartbeatTicks = 3
  QueueLimit = 1
  MaxAccounts = 2
  MaxLogins = 1
  MaxBlocks = 1
SYMMETRY Symmetry
CHECK_DEADLOCK FALSE
INVARIANTS
  OneUi
  AccessEnds
  PassesOnlyForOwner
  SlotComesFree
