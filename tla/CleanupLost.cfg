CONSTANTS
  Players = {p1}
  Tasks = {t1, t2, t3}
  NoTask = NoTask
  NoPlayer = NoPlayer
SPECIFICATION CleanupSpec
INVARIANTS NewPlaybackCancelsPending
