\* Two scans of one wallet and two callers, with panics; every task that can run is run.
SPECIFICATION FairSpec
CONSTANTS
  Scan = {s1, s2}
  Caller = {c1, c2}
  Wallet = {w1}
  None = None
  Kinds = {"stop_scan", "maintenance"}
  Panics = TRUE
INVARIANTS
  MaintenanceIsAlone
  StoppedScanNeverWrites
PROPERTIES
  KeepsSlotContract
  CallersReturn
  ScansProceed
