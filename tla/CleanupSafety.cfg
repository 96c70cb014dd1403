CONSTANTS
  Players = {p1, p2}
  Tasks = {t1, t2, t3}
  NoTask = NoTask
  NoPlayer = NoPlayer
SPECIFICATION FairCleanupSpec
INVARIANTS PendingIsKnown InUseIsSafe
PROPERTIES StopIsFinal DueIsServed
CHECK_DEADLOCK FALSE
