CONSTANTS
  main = main
  sport = sport
  shared = shared
  own = own
  Urls = {main, sport, shared, own}
  NoUrl = NoUrl
  Manual <- MCManual
  Account <- MCAccount
SPECIFICATION Spec
INVARIANTS RollbackIsExact OnceReadyAlwaysServing ServedAsConfigured
