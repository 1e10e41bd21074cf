\* Two concurrent calls on one wallet, with every call that has begun being run.
SPECIFICATION FairSpec
CONSTANTS
  Task = {t1, t2}
  Wallet = {w1}
  File = {f1, f2}
  None = None
  MaxGeneration = 3
  StaleLocks = TRUE
INVARIANTS
  HolderHasSession
  WrongPassphraseHoldsNothing
  NoOrphanSession
  CountNeverLeaks
  ScanHasSession
  DeletedWalletIsNotHeld
  PoolServesTheCounted
PROPERTIES
  SessionIsLocked
  KeepsSessionContract
