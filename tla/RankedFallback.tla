--------------------------- MODULE RankedFallback ---------------------------
(***************************************************************************)
(* What the fallback supervision promises for every playback request,      *)
(* whatever entry point made it: of a ranked list it tries the candidates  *)
(* one after the other from the best one down, leaves none out, tries none *)
(* twice, and reports failure only after the last one, with every rank on  *)
(* the report.  It may be stopped at any moment before it has finished.    *)
(*                                                                         *)
(* One step of the system may move several requests (a new request is      *)
(* offered its list while the older one is stopped), so a step is stated   *)
(* request by request.                                                     *)
(***************************************************************************)
EXTENDS Integers, Sequences

CONSTANTS Calls  \* identities of playback requests

VARIABLES
  phase,     \* "idle", "trying", "started", "failed" or "stopped"
  limit,     \* how many ranked candidates the request may try
  rejected   \* ranks that were tried and failed, in order

vars == <<phase, limit, rejected>>

Init ==
  /\ phase = [c \in Calls |-> "idle"]
  /\ limit = [c \in Calls |-> 0]
  /\ rejected = [c \in Calls |-> <<>>]

Moves(c, from, to) == phase[c] \in from /\ phase'[c] \in to

Offer(c) ==
  /\ Moves(c, {"idle"}, {"trying"})
  /\ limit'[c] > 0
  /\ rejected'[c] = rejected[c]

\* The candidate of the next rank is tried and found wanting.
Reject(c) ==
  LET rank == Len(rejected[c]) + 1 IN
  /\ Moves(c, {"trying"}, IF rank < limit[c] THEN {"trying"} ELSE {"failed"})
  /\ rank <= limit[c]
  /\ rejected'[c] = Append(rejected[c], rank)
  /\ limit'[c] = limit[c]

Finish(c) ==
  /\ \/ Moves(c, {"trying"}, {"started", "stopped"})
     \/ Moves(c, {"idle"}, {"stopped"})
  /\ <<limit'[c], rejected'[c]>> = <<limit[c], rejected[c]>>

Rest(c) ==
  <<phase'[c], limit'[c], rejected'[c]>> = <<phase[c], limit[c], rejected[c]>>

Next == \A c \in Calls : Offer(c) \/ Reject(c) \/ Finish(c) \/ Rest(c)

Spec == Init /\ [][Next]_vars
=============================================================================
