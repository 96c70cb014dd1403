------------------------- MODULE FallbackRefinement -------------------------
(***************************************************************************)
(* PlaybackSupervisor implements RankedFallback, once per request.  A      *)
(* request offers its list when the candidates are ranked; for the media   *)
(* source the trying then starts in async_resolve_media itself and goes on *)
(* in the monitor, with the failures carried over.  play_url never tries.  *)
(***************************************************************************)
EXTENDS PlaybackSupervisor

Ranking(c) ==
  \/ kind[c] = "resolve" /\ pc[c] \in {"session", "prepare", "subtitle"}
  \/ Live(c)

PhaseOf(c) ==
  IF Ranking(c) THEN "trying"
  ELSE IF loop[c] = "started" THEN "started"
  ELSE IF "failed" \in {loop[c], pc[c]} THEN "failed"
  ELSE IF kind[c] = "url" \/ pc[c] \in {"idle", "streams", "meta"} THEN "idle"
  ELSE "stopped"

Fallback == INSTANCE RankedFallback
              WITH phase <- [c \in Calls |-> PhaseOf(c)], limit <- total,
                   rejected <- failures

(* Every request behaves as the abstract supervision says: the ranks tried  *)
(* by async_resolve_media, by the monitor it leaves behind and by the       *)
(* service call's loop form one gapless run down the ranked list.           *)
ImplementsFallback == Fallback!Spec
=============================================================================
