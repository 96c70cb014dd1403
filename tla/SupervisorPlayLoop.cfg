CONSTANTS
  Calls = {c1, c2}
  Players = {p1}
  Kinds = {"play", "resolve", "url"}
  MaxStreams = 2
  CountOptions = {0, 2, 12}
  DefaultCount = 2
  MaxCount = 3
  NoCall = NoCall
  NoPlayer = NoPlayer
SPECIFICATION FairSpec
INVARIANTS NewerPlaybackStopsOlder
CHECK_DEADLOCK FALSE
