-------------------------- MODULE StreamSelection ---------------------------
(***************************************************************************)
(* From the streams the providers returned to the one that is played: the  *)
(* filters and the ranking of stream_selector with the seed policy that    *)
(* source_policy installs over it, the choice of candidates by the service *)
(* and the media source, and their preparation one after the other, in     *)
(* which the stream-server may refuse a conversion or a link.              *)
(*                                                                         *)
(* What parsers find in the text of a release is data: a stream is a       *)
(* record of it.  All streams of a request carry the same markers, those   *)
(* of the options of the entry.                                            *)
(***************************************************************************)
EXTENDS Integers, Sequences, FiniteSets

CONSTANTS
  Requests,   \* what is asked of an entry: its options and the target
  Streams     \* sequences of streams, as get_streams may return them

(* Ranks of direct_play_compatibility_rank, by tier; a URL is a file, a     *)
(* playlist of the stream-server's proxy, or of no known kind.  A size of 0 *)
(* stands for an unknown one, as in the ranking.                            *)
Stream == [key : Nat, size : Nat, excluded : BOOLEAN, tier : 0..2, fine : Nat,
           codec : {"H.264", "HEVC", "other"}, quality : Nat, seeders : Nat,
           torrent : BOOLEAN, url : {"file", "playlist", "unknown"}]

Request == [sports : BOOLEAN, index : Nat, legacy : Nat, ideal : BOOLEAN, cast : BOOLEAN,
            strict : BOOLEAN, max : Nat, quality : Nat, h264 : BOOLEAN,
            smaller : BOOLEAN, minimum : Nat, force : BOOLEAN,
            lowPower : BOOLEAN, count : Nat \ {0}]

(* Two preferred qualities that are no quality.                             *)
Lowest  == 0
Highest == 9999

(* A key is returned once: get_streams drops what it has seen.              *)
ASSUME RequestsOK ==
  /\ Requests \subseteq Request
  /\ Streams \subseteq Seq(Stream)
  /\ \A seq \in Streams : \A i, j \in DOMAIN seq : seq[i].key = seq[j].key => i = j

VARIABLES
  request,   \* what is asked for
  streams,   \* what the providers returned
  stage,     \* "choose", "prepare", "served" or "failed"
  ranked,    \* the candidates that are left to prepare
  convert,   \* the URL of the first one is that of a conversion
  served,    \* the key of the stream that is played, or 0
  refused    \* history: keys of streams whose own URL was refused

vars == <<request, streams, stage, ranked, convert, served, refused>>

TypeOK ==
  /\ request \in Requests
  /\ streams \in Streams
  /\ stage \in {"choose", "prepare", "served", "failed"}
  /\ ranked \in Seq(Stream)
  /\ convert \in BOOLEAN
  /\ served \in Nat
  /\ refused \in SUBSET Nat
  /\ convert => ranked # << >> /\ ranked[1].url = "file"
  /\ stage = "prepare" => ranked # << >>

-----------------------------------------------------------------------------
(* Python's order of tuples.                                                *)
Less(a, b) ==
  \E i \in DOMAIN a : a[i] < b[i] /\ \A j \in 1..(i - 1) : a[j] = b[j]

(* The stable sort, by rank, of what a list has at some places.             *)
Sorted(seq, places, rank) ==
  LET before(i) == {j \in places : Less(rank[j], rank[i]) \/ (rank[j] = rank[i] /\ j < i)}
  IN [n \in 1..Cardinality(places) |->
       seq[CHOOSE i \in places : Cardinality(before(i)) = n - 1]]

Members(seq) == {seq[i] : i \in DOMAIN seq}

(* The marker of a forced conversion, which low-power servers take off.     *)
Forced(r) == r.force /\ ~r.lowPower

(* direct_play_compatibility_rank and cast_compatibility_tier.              *)
Compatibility(s, r) == IF Forced(r) THEN <<0, 0>> ELSE <<s.tier, s.fine>>

(* What the keys have of it: without direct play nothing, which is the same *)
(* for all streams.                                                         *)
Format(s, r, direct) == IF direct THEN Compatibility(s, r) ELSE <<0, 0>>

(* A slip: a limit that no stream satisfies is no limit.                    *)
FilteredLeniently(seq, places, r) ==
  LET small == {i \in places : ~seq[i].excluded /\ (r.max = 0 \/ seq[i].size <= r.max)}
  IN IF small = {} THEN places ELSE small

(* _filtered_candidates: the places of what remains.                        *)
Filtered(seq, places, r) ==
  LET allowed == {i \in places : ~seq[i].excluded}
  IN {i \in IF allowed = {} THEN places ELSE allowed : r.max = 0 \/ seq[i].size <= r.max}

(* The codec in the name counts when some candidate is named H.264.         *)
CodecRank(s, among, r) ==
  IF ~r.h264 \/ \A t \in among : t.codec # "H.264" THEN 0
  ELSE CASE s.codec = "H.264" -> 0 [] s.codec = "HEVC" -> 2 [] OTHER -> 1

(* quality_rank; 0 is an unknown quality.                                   *)
QualityRank(q, wanted) ==
  CASE wanted = Lowest  -> IF q > 0 THEN <<0, q>> ELSE <<1, 9999>>
    [] wanted = Highest -> IF q > 0 THEN <<0, -q>> ELSE <<1, 0>>
    [] OTHER -> CASE q = 0      -> <<3, 9999>>
                  [] q = wanted -> <<0, 0>>
                  [] q < wanted -> <<1, wanted - q>>
                  [] OTHER      -> <<2, q - wanted>>

(* A slip: nothing tells two equal releases apart but their place.          *)
RankUnkeyed(s, among, r, direct) ==
  LET format == Format(s, r, direct)  quality == QualityRank(s.quality, r.quality)
  IN <<format[1], format[2], CodecRank(s, among, r), quality[1], quality[2], -s.seeders,
       IF r.smaller THEN s.size ELSE 0>>

(* The key of order_ideal_streams.                                          *)
RankOf(s, among, r, direct) ==
  LET format == Format(s, r, direct)  quality == QualityRank(s.quality, r.quality)
  IN <<format[1], format[2], CodecRank(s, among, r), quality[1], quality[2], -s.seeders,
       IF r.smaller THEN s.size ELSE 0, s.key>>

(* order_ideal_streams before source_policy wraps it, of what a list has at *)
(* some places.                                                             *)
Usable(seq, places, r, direct, strict) ==
  LET fitting == Filtered(seq, places, r)
      safe    == {i \in fitting : Compatibility(seq[i], r)[1] < 2}
  IN IF direct /\ strict /\ safe # {} THEN safe ELSE fitting

Order(seq, places, r, direct, strict) ==
  LET usable == Usable(seq, places, r, direct, strict)
      among  == {seq[i] : i \in usable}
  IN Sorted(seq, usable, [i \in usable |-> RankOf(seq[i], among, r, direct)])

Weak(s, r) == s.torrent /\ s.seeders < r.minimum

(* _seed_health_rank.                                                       *)
HealthRank(s, r) == IF ~Weak(s, r) THEN 0 ELSE IF s.seeders > 0 THEN 1 ELSE 2

(* Slips: a plain link makes torrents superfluous; health goes first.       *)
HealthyAnyLink(group, r) == \E s \in group : ~Weak(s, r)

PolicyRankHealthFirst(s, r, direct) ==
  LET format == Format(s, r, direct) IN <<HealthRank(s, r), format[1], format[2]>>

HealthyTorrent(group, r) == \E s \in group : s.torrent /\ ~Weak(s, r)

PolicyRank(s, r, direct) ==
  LET format == Format(s, r, direct) IN <<format[1], format[2], HealthRank(s, r)>>

(* _apply_seed_policy.  Without direct play all streams are of one group.   *)
Kept(seq, r, direct) ==
  LET group(s) == {t \in Members(seq) : Format(t, r, direct) = Format(s, r, direct)}
  IN {i \in DOMAIN seq : Weak(seq[i], r) => ~HealthyTorrent(group(seq[i]), r)}

SeedPolicy(seq, r, direct) ==
  LET kept == Kept(seq, r, direct)
  IN IF r.minimum = 0 \/ Len(seq) < 2 THEN seq
     ELSE Sorted(seq, kept, [i \in kept |-> PolicyRank(seq[i], r, direct)])

(* order_ideal_streams as installed.                                        *)
OrderIdeal(seq, places, r, direct, strict) ==
  SeedPolicy(Order(seq, places, r, direct, strict), r, direct)

(* _stream_candidates: the index of the caller and that of the legacy       *)
(* option count from 1, 0 is none; choose_best_stream is the head of a list *)
(* ordered without regard to the target.  Empty: the request fails.         *)
Ranked(seq, r) ==
  LET best   == OrderIdeal(seq, DOMAIN seq, r, FALSE, FALSE)
      first  == best[1]
      others == {i \in DOMAIN seq : seq[i] # first}
  IN IF r.ideal THEN OrderIdeal(seq, DOMAIN seq, r, r.cast, r.strict)
     ELSE IF best = << >> THEN << >>
     ELSE <<first>> \o OrderIdeal(seq, others, r, r.cast, r.strict)

Candidates(seq, r) ==
  CASE r.index > Len(seq) -> << >>
    [] r.index \in DOMAIN seq -> <<seq[r.index]>>
    [] r.index = 0 /\ r.legacy \in DOMAIN seq -> <<seq[r.legacy]>>
    [] OTHER -> IF r.sports THEN seq ELSE Ranked(seq, r)

(* limit_ranked_candidates; a count of 1 also when fallback is off.         *)
Limited(seq, r) == SubSeq(seq, 1, IF Len(seq) < r.count THEN Len(seq) ELSE r.count)

(* prepare_playback: is the URL wrapped in a conversion?                    *)
Converts(s, r) == Forced(r) /\ ~r.sports /\ s.url = "file"

-----------------------------------------------------------------------------
Init ==
  /\ request \in Requests
  /\ streams \in Streams
  /\ stage = "choose"
  /\ ranked = << >>
  /\ convert = FALSE
  /\ served = 0
  /\ refused = {}

(* A slip: a playlist or a live stream is wrapped like a file.              *)
PrepareWrapped(rest) ==
  /\ ranked' = rest
  /\ stage' = IF rest = << >> THEN "failed" ELSE "prepare"
  /\ convert' = (rest # << >> /\ Forced(request))

(* The next candidate is prepared, or there is none.                        *)
Prepare(rest) ==
  /\ ranked' = rest
  /\ stage' = IF rest = << >> THEN "failed" ELSE "prepare"
  /\ convert' = (rest # << >> /\ Converts(rest[1], request))

Choose ==
  /\ stage = "choose"
  /\ Prepare(Limited(Candidates(streams, request), request))
  /\ UNCHANGED <<request, streams, served, refused>>

(* resolve_stream knows no URL for the stream.                              *)
Unsupported ==
  /\ stage = "prepare"
  /\ ranked[1].url = "unknown"
  /\ Prepare(Tail(ranked))
  /\ UNCHANGED <<request, streams, served, refused>>

Accept ==
  /\ stage = "prepare"
  /\ ranked[1].url # "unknown"
  /\ stage' = "served"
  /\ served' = ranked[1].key
  /\ UNCHANGED <<request, streams, ranked, convert, refused>>

(* A slip: the candidate is given up with its conversion.                   *)
RefuseConversionForGood ==
  /\ stage = "prepare"
  /\ convert
  /\ Prepare(Tail(ranked))
  /\ UNCHANGED <<request, streams, served, refused>>

(* The conversion is refused: the stream's own URL is tried next.           *)
RefuseConversion ==
  /\ stage = "prepare"
  /\ convert
  /\ convert' = FALSE
  /\ UNCHANGED <<request, streams, stage, ranked, served, refused>>

(* Torrents and playlists are asked for; other links are not.               *)
Refuse ==
  /\ stage = "prepare"
  /\ ~convert
  /\ ranked[1].url = "playlist" \/ (ranked[1].url = "file" /\ ranked[1].torrent)
  /\ refused' = refused \cup {ranked[1].key}
  /\ Prepare(Tail(ranked))
  /\ UNCHANGED <<request, streams, served>>

Next == Choose \/ Unsupported \/ Accept \/ RefuseConversion \/ Refuse

Spec == Init /\ [][Next]_vars

-----------------------------------------------------------------------------
Chosen == Candidates(streams, request)

(* The request leaves the choice to the integration, and filters apply.     *)
Automatic ==
  stage = "choose" /\ request.index = 0 /\ request.legacy = 0 /\ ~request.sports

(* The limit is a hard filter also for fallbacks: the exclusion of all      *)
(* releases brings back those that were excluded, never those too large.    *)
(* (_filtered_candidates, _stream_candidates)                               *)
SizeIsHard ==
  Automatic => \A s \in Members(Chosen) :
                 /\ request.max > 0 => s.size <= request.max
                 /\ request.ideal /\ s.excluded => \A t \in Members(streams) : t.excluded

(* Providers answer in any order, and the candidates are the same.          *)
(* (order_ideal_streams, _apply_seed_policy, choose_best_stream)            *)
SameInAnyOrder ==
  Automatic =>
    \A p \in [DOMAIN streams -> DOMAIN streams] :
      (\A i, j \in DOMAIN streams : p[i] = p[j] => i = j)
        => Candidates([i \in DOMAIN streams |-> streams[p[i]]], request) = Chosen

(* The minimum of seeders is a soft one: a stream within the limits is      *)
(* given up only for a torrent with the seeders and at least as good a      *)
(* format, or as risky for a strict target.  (_apply_seed_policy)           *)
NothingDroppedInVain ==
  Automatic =>
    \A s \in {streams[i] : i \in Filtered(streams, DOMAIN streams, request)} \ Members(Chosen) :
      \/ /\ Weak(s, request)
         /\ \E t \in Members(Chosen) :
              /\ t.torrent /\ ~Weak(t, request)
              /\ request.cast => Compatibility(t, request) = Compatibility(s, request)
      \/ request.cast /\ request.strict /\ Compatibility(s, request)[1] = 2

(* On a Cast target an ideal link of a better format is never tried after   *)
(* one of a worse format, whatever their seeders.                           *)
(* (order_ideal_streams, _apply_seed_policy)                                *)
SafestFirst ==
  Automatic /\ request.ideal /\ request.cast =>
    \A i, j \in DOMAIN Chosen :
      i < j => ~Less(Compatibility(Chosen[j], request), Compatibility(Chosen[i], request))

(* A request with candidates fails only when the own URL of each of them    *)
(* was refused: a failed conversion loses nothing, for a conversion is the  *)
(* doing of the integration.  (prepare_first_playable)                      *)
NothingPlayableIsLost ==
  stage = "failed" =>
    \A s \in Members(Limited(Chosen, request)) : s.url = "unknown" \/ s.key \in refused

(* "Mandatory: excluded release keywords, maximum configured size"          *)
(* (README.md): an excluded release is not played while there are others.   *)
ExclusionIsMandatory ==
  Automatic => \A s \in Members(Chosen) :
                 s.excluded => \A t \in Members(streams) : t.excluded
=============================================================================
