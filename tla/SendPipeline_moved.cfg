\* One send, no database error and no kill: the other engine changes the path.
SPECIFICATION Spec
CONSTANTS
  Send = {s1}
  Output = {o1}
  File = {f1, f2}
  None = None
  Faults = FALSE
  MaxKills = 0
INVARIANTS
  RefusedSendIsReleased
