\* A reader beside two concurrent calls on its wallet and two databases; every hold
\* is locked once.
SPECIFICATION ReadSpec
CONSTANTS
  Task = {t1, t2}
  Wallet = {w1}
  File = {f1, f2}
  Reader = {r1}
  None = None
  MaxGeneration = 2
  StaleLocks = FALSE
SYMMETRY Symmetry
INVARIANT
  FallbackNeedsARelock
PROPERTY
  CountEndsWithItsCall
