SPECIFICATION Spec
CONSTANTS
  Procs = {launched, manual}
  launched = launched
  manual = manual
  NoProc = NoProc
  Window = 1
  MaxTime = 2
  MaxBoots = 2
  MaxAccounts = 2
CHECK_DEADLOCK FALSE
INVARIANTS
  ResetOnlyAsGranted
PROPERTIES
  NeverReopens
