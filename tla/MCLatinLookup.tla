--------------------------- MODULE MCLatinLookup ----------------------------
EXTENDS LatinLookup, TLC

CONSTANTS movie, series, e1, e2, main, second

MCVideos == series :> <<e1, e2>>

(* Nobody serves the movie; the secondary provider has all of the series.   *)
MCServes == (main :> {e1}) @@ (second :> {e1, e2})

(* The longer lists: three different ids, the first and the last among them. *)
ASSUME SampleIsSpread ==
  \A n \in 3..9 :
    LET s == RepresentativeIds([i \in 1..n |-> i])
    IN Len(s) = 3 /\ s[1] = 1 /\ s[1] < s[2] /\ s[2] < s[3] /\ s[3] = n
=============================================================================
