CONSTANTS
  e1 = e1
  e2 = e2
  Videos = {e1, e2}
  Duration <- MCDuration
  MaxChanges = 2
  MaxSeen = 1
  MaxSeeks = 1
  MaxTurns = 2
  NoVideo = NoVideo
SPECIFICATION FairSpec
INVARIANTS WatchedIsEarned OverallAtMostTwice ViewingCountsOnce
PROPERTIES OnlyRefreshGoesBack CopyCatchesUp
CHECK_DEADLOCK FALSE
