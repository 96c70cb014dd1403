---------------------------- MODULE MCProviders ----------------------------
EXTENDS Providers, TLC

CONSTANTS main, sport, shared, own

MCManual ==
  (main :> {"catalog", "stream", "subtitle"}) @@ (sport :> {"sports"})
    @@ (shared :> {"stream", "sports"}) @@ (own :> {})

MCAccount ==
  (main :> {}) @@ (sport :> {}) @@ (shared :> {"stream"})
    @@ (own :> {"catalog", "stream"})
=============================================================================
