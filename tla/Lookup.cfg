CONSTANTS
  movie = movie
  series = series
  e1 = e1
  e2 = e2
  main = main
  second = second
  Providers = {main, second}
  Secondary = second
  Flaky = {main}
  Items = {movie, series, e1, e2}
  Movies = {movie}
  Series = {series}
  Videos <- MCVideos
  Serves <- MCServes
  Tasks = {1, 2}
  SLOTS = 1
  CACHE = 1
  MaxClock = 1
SPECIFICATION FairSpec
 
PROPERTIES EveryProbeEnds
CHECK_DEADLOCK FALSE
