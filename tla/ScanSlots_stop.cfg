\* What ARCHITECTURE.md:184-186 says of stop_scan, against what the code does.
SPECIFICATION Spec
CONSTANTS
  Scan = {s1, s2}
  Caller = {c1}
  Wallet = {w1}
  None = None
  Kinds = {"stop_scan"}
  Panics = FALSE
SYMMETRY Symmetry
INVARIANT
  EveryStopWaitsForTheStream
