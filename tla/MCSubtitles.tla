---------------------------- MODULE MCSubtitles -----------------------------
EXTENDS Subtitles, TLC

(* The second provider has the preferred language, the stream one that is   *)
(* not wanted.                                                              *)
MCOffers == (0 :> {Unwanted}) @@ (1 :> {2, Unwanted}) @@ (2 :> {1, 2})
=============================================================================
