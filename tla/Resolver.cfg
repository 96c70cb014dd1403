CONSTANTS
  show = show
  other = other
  film = film
  remake = remake
  Series = {show, other}
  Movies = {film, remake}
  Episodes <- MCEpisodes
  Answers <- MCAnswers
  LIMIT = 3
  PROBES = 2
  Queries = {"q"}
  MaxSeeders = 1
  MaxChanges = 1
SPECIFICATION Spec
INVARIANTS NextIsNext UpToDateIsTrue NothingIsThere
CHECK_DEADLOCK FALSE
