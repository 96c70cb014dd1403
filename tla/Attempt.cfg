CONSTANTS
  Settled = 2
  Grace = 3
  Deadline = 5
  OffPolls = 2
  LastPolls = 1
SPECIFICATION FairSpec
INVARIANTS CleanOrToldTwice SteadyStaleRejected
PROPERTIES SlowPlayersGetTheirTime AttemptEnds
CHECK_DEADLOCK FALSE
