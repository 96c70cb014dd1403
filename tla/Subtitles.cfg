CONSTANTS
  Calls = {1, 2}
  Providers = {1, 2}
  Offers <- MCOffers
  CACHE = 2
  MaxClock = 3
SPECIFICATION Spec
INVARIANTS DiagnosisIsOwn ServedForItsTime
CHECK_DEADLOCK FALSE
