\* Two sends that compete for one output of either of two databases, with database errors
\* and one kill; every call that has begun is run.
SPECIFICATION FairSpec
CONSTANTS
  Send = {s1, s2}
  Output = {o1}
  File = {f1, f2}
  None = None
  Faults = TRUE
  MaxKills = 1
INVARIANTS
  RecordedKeepsInputs
  LiveSendKeepsInputs
  AnswerTellsTheRecord
  LockedSendIsNotRecorded
  FailedSendReleases
PROPERTIES
  ReservationEnds
