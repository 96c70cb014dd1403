CONSTANTS
  Requests <- MCRequests
  Streams <- MCStreams
SPECIFICATION Spec
INVARIANTS TypeOK SizeIsHard SameInAnyOrder NothingDroppedInVain SafestFirst NothingPlayableIsLost
CHECK_DEADLOCK FALSE
