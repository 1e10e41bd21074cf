\* Three scans of one wallet and one caller that stops them, in every way.
SPECIFICATION Spec
CONSTANTS
  Scan = {s1, s2, s3}
  Caller = {c1}
  Wallet = {w1}
  None = None
  Kinds = {"stop_scan", "lock", "maintenance"}
  Panics = TRUE
SYMMETRY Symmetry
INVARIANTS
  OneScanWrites
  TerminalTellsTheCause
  ForegroundIsNotCutOff
  ScanHasSession
  EndedScanLeavesNothing
