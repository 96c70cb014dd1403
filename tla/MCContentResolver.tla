------------------------- MODULE MCContentResolver --------------------------
EXTENDS ContentResolver, TLC

CONSTANTS show, other, film, remake

(* A special and two seasons; a series that has only begun.                 *)
MCEpisodes == (show :> {1, 11, 12, 21}) @@ (other :> {11})

Base == [id |-> show, exact |-> TRUE, dated |-> TRUE, ratio |-> 100, overlap |-> TRUE]

(* Namesakes, near misses of which some are too far, other years, nothing.  *)
MCAnswers ==
  {<<Base, [Base EXCEPT !.id = film], [Base EXCEPT !.id = other],
     [Base EXCEPT !.id = remake]>>,
   <<[Base EXCEPT !.id = other], Base>>,
   <<[Base EXCEPT !.exact = FALSE, !.ratio = 90],
     [Base EXCEPT !.id = other, !.exact = FALSE, !.ratio = 75],
     [Base EXCEPT !.id = film, !.exact = FALSE, !.ratio = 40]>>,
   <<[Base EXCEPT !.dated = FALSE]>>,
   <<[Base EXCEPT !.id = film, !.exact = FALSE, !.ratio = 50, !.overlap = FALSE]>>,
   <<[Base EXCEPT !.exact = FALSE, !.ratio = 30, !.overlap = FALSE]>>}
=============================================================================
