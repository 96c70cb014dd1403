------------------------- MODULE MCStreamSelection --------------------------
EXTENDS StreamSelection

Base == [key |-> 1, size |-> 2, excluded |-> FALSE, tier |-> 1, fine |-> 1,
         codec |-> "other", quality |-> 2, seeders |-> 5, torrent |-> TRUE,
         url |-> "file"]

(* A good torrent and its weak and dead twins, a risky one, one too large,  *)
(* an excluded one, a plain link, a playlist, and a stream of no known kind. *)
MCCatalogue ==
  {Base,
   [Base EXCEPT !.key = 2, !.seeders = 1],
   [Base EXCEPT !.key = 3, !.seeders = 0, !.codec = "H.264", !.quality = 1],
   [Base EXCEPT !.key = 4, !.tier = 2, !.seeders = 9, !.codec = "HEVC"],
   [Base EXCEPT !.key = 5, !.size = 9, !.quality = 3],
   [Base EXCEPT !.key = 6, !.excluded = TRUE],
   [Base EXCEPT !.key = 7, !.torrent = FALSE, !.seeders = 0, !.size = 0],
   [Base EXCEPT !.key = 8, !.torrent = FALSE, !.seeders = 0, !.tier = 0, !.url = "playlist"],
   [Base EXCEPT !.key = 9, !.url = "unknown", !.quality = 0]}

MCStreams ==
  UNION {{s \in [1..n -> MCCatalogue] : \A i, j \in 1..n : s[i] = s[j] => i = j}
         : n \in 1..3}

BaseRequest ==
  [sports |-> FALSE, index |-> 0, legacy |-> 0, ideal |-> TRUE, cast |-> FALSE, strict |-> FALSE,
   max |-> 5, quality |-> 2, h264 |-> FALSE, smaller |-> FALSE, minimum |-> 2,
   force |-> FALSE, lowPower |-> FALSE, count |-> 3]

MCRequests ==
  {[BaseRequest EXCEPT !.ideal = i, !.cast = c, !.force = f, !.lowPower = l, !.strict = c /\ i]
     : i, c, f, l \in BOOLEAN}
    \cup {[BaseRequest EXCEPT !.sports = TRUE, !.force = TRUE],
          [BaseRequest EXCEPT !.index = 2],
          [BaseRequest EXCEPT !.legacy = 3],
          [BaseRequest EXCEPT !.max = 0, !.quality = Lowest, !.smaller = TRUE],
          [BaseRequest EXCEPT !.quality = Highest, !.h264 = TRUE, !.count = 1],
          [BaseRequest EXCEPT !.cast = TRUE], [BaseRequest EXCEPT !.cast = TRUE, !.minimum = 0]}
=============================================================================
