CONSTANTS
  Media = {a, b}
  Sessions = {s1, s2}
  MaxReports = 2
  MaxWaiting = 1
  NoMedia = NoMedia
  NoSession = NoSession
SPECIFICATION FairTrackerSpec
INVARIANTS OwnReports
PROPERTIES RemoteMovesForward StopEnds PauseIsSaved
CHECK_DEADLOCK FALSE
