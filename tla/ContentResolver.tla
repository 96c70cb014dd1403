-------------------------- MODULE ContentResolver ---------------------------
(***************************************************************************)
(* The resolve service: a title is searched for, the plausible results are *)
(* looked at one after the other, a series at the episode that follows the *)
(* one the account's library holds, and the best candidate is answered.    *)
(* The library is refreshed between any two awaits.  And the search        *)
(* service, whose calls may overlap, with what the media browser shows of  *)
(* it.                                                                     *)
(*                                                                         *)
(* An episode is the number 10 * season + episode; season 0 holds specials. *)
(***************************************************************************)
EXTENDS Integers, Sequences, FiniteSets

CONSTANTS
  Series,      \* the series of the catalogs
  Movies,      \* and the movies
  Episodes,    \* the episodes in the metadata of each series
  Answers,     \* lists that a search may return, best score first
  LIMIT,       \* the limit of the call, at most _MAX_STREAM_PROBES
  PROBES,      \* _MAX_EPISODE_PROBES
  Queries,     \* what the search service is asked for
  MaxSeeders,  \* bounds: the seeders of a stream,
  MaxChanges   \* and the changes of the library

Absent    == -1                 \* a series without an item in the library
Unplaced  == 0                  \* an item from which no episode can be read
None      == -1                 \* no season, or no episode, is asked for
NoQuery   == "none"
Positions == {Absent, Unplaced} \cup UNION {Episodes[s] : s \in Series}

(* A RankedResult; the ratio is in hundredths.                              *)
Result == [id : Series \cup Movies, exact : BOOLEAN, dated : BOOLEAN,
           ratio : 0..100, overlap : BOOLEAN]

ASSUME ConfigurationOK ==
  /\ Series \cap Movies = {}
  /\ Episodes \in [Series -> SUBSET (1..99)]
  /\ Answers \subseteq Seq(Result)
  /\ {LIMIT, PROBES} \subseteq Nat \ {0}
  /\ MaxSeeders \in Nat
  /\ MaxChanges \in Nat
  /\ NoQuery \notin Queries

VARIABLES
  asked,     \* season and episode asked for, and whether an account is linked
  library,   \* the position of each series in the coordinator's data
  held,      \* history: the positions it had since the call began
  stage,     \* "search", "look", "probe" or "answered"
  plausible, \* the results worth a look, by their place in the answer
  at,        \* the place of the one that is looked at
  probes,    \* episodes of it, or itself, whose streams are asked for
  priority,  \* account_priority of these
  found,     \* candidates
  notes,     \* the errors of series so far
  failed,    \* history: series without metadata
  answer,    \* status and selection
  changes,   \* changes of the library
  pending,   \* queries of searches under way
  query,     \* last_search_query
  results    \* the query whose answer last_search_results holds

call  == <<asked, stage, plausible, at, probes, priority, found, notes, failed, answer>>
store == <<pending, query, results>>
vars  == <<call, store, library, held, changes>>

Probes    == Series \cup Movies \cup (1..99)
Candidate == [of : Series \cup Movies, item : Probes, priority : 0..2, has : BOOLEAN,
              seeders : 0..MaxSeeders, rank : Nat]
Nobody    == [of |-> "nobody"]

TypeOK ==
  /\ asked \in [season : {None} \cup 0..9, episode : {None} \cup 1..9, account : BOOLEAN]
  /\ library \in [Series -> Positions]
  /\ held \in [Series -> SUBSET Positions]
  /\ stage \in {"search", "look", "probe", "answered"}
  /\ plausible \in [DOMAIN plausible -> Result]
  /\ DOMAIN plausible \subseteq Nat \ {0}
  /\ Cardinality(DOMAIN plausible) <= LIMIT
  /\ at \in Nat
  /\ stage \in {"look", "probe"} => at \in DOMAIN plausible
  /\ probes \in SUBSET Probes
  /\ priority \in 0..2
  /\ found \in SUBSET Candidate
  /\ notes \in SUBSET {"up_to_date", "episode_not_found"}
  /\ failed \in SUBSET Series
  /\ answer.status \in {"none", "exact", "not_found", "up_to_date", "episode_not_found", "error",
                        "unsupported"}
  /\ answer.pick \in Candidate \cup {Nobody}
  /\ (answer.status = "exact") = (answer.pick # Nobody)
  /\ changes \in 0..MaxChanges
  /\ pending \in SUBSET Queries
  /\ query \in Queries \cup {NoQuery}
  /\ results \in Queries \cup {NoQuery}

Members(list) == {list[i] : i \in DOMAIN list}
Explicit     == asked.season # None \/ asked.episode # None
Automatic    == asked.account /\ ~Explicit

-----------------------------------------------------------------------------
First(set)    == {e \in set : \A x \in set : e <= x}
Earliest(set) == CHOOSE e \in First(set) : TRUE

(* _plausible_ranked_results, each at its place among the ranked ones.      *)
Plausible(ranked) ==
  LET eligible == {i \in DOMAIN ranked : ranked[i].dated}
      exact    == {i \in eligible : ranked[i].exact}
      top      == ranked[Earliest(eligible)]
      floor    == IF top.ratio - 18 > 45 THEN top.ratio - 18 ELSE 45
      close    == {i \in eligible :
                    ranked[i].ratio >= floor /\ (ranked[i].overlap \/ ranked[i].ratio >= 80)}
      chosen   == IF eligible = {} THEN {}
                  ELSE IF exact # {} THEN exact
                  ELSE IF top.ratio < 45 /\ ~top.overlap THEN {}
                  ELSE IF close # {} THEN close ELSE First(eligible)
      kept     == {i \in chosen : Cardinality({j \in chosen : j < i}) < LIMIT}
  IN [i \in kept |-> ranked[i]]

(* _regular_episodes.                                                       *)
Regular(s) ==
  IF \E e \in Episodes[s] : e >= 10 THEN {e \in Episodes[s] : e >= 10} ELSE Episodes[s]

(* A slip: the episode of the library once more.                            *)
NextEpisodeAgain(s, p) == First({e \in Regular(s) : e >= p})

(* _next_account_episode: none, or one.                                     *)
NextEpisode(s, p) == First({e \in Regular(s) : e > p})

(* The episodes of an explicit request, or of one without an account.       *)
Requested(s) ==
  LET matching == {e \in Episodes[s] : /\ asked.season \in {None, e \div 10}
                                       /\ asked.episode \in {None, e % 10}}
  IN {e \in matching : Cardinality({x \in matching : x < e}) < PROBES}

Less(a, b) == \E i \in DOMAIN a : a[i] < b[i] /\ \A j \in 1..(i - 1) : a[j] = b[j]

(* The key of _choose_stream_backed, up to the episodes of one series.      *)
Key(c) == <<-c.priority, IF c.has THEN 0 ELSE 1, -c.seeders, c.rank>>

(* _choose_stream_backed; among equals of a series the first in order.      *)
Best(set) ==
  CHOOSE c \in set :
    \A d \in set : ~Less(Key(d), Key(c)) /\ (Key(d) = Key(c) /\ d.of \in Series => c.item <= d.item)

(* Slips: a series that is up to date, or an episode that is missing,       *)
(* settles the call.                                                        *)
ConcludeUpToDate(cands, remarks) ==
  IF "up_to_date" \in remarks
  THEN [status |-> "up_to_date", pick |-> Nobody]
  ELSE IF cands # {} THEN [status |-> "exact", pick |-> Best(cands)]
  ELSE [status |-> IF remarks # {} THEN "episode_not_found" ELSE "not_found", pick |-> Nobody]

ConcludeMissing(cands, remarks) ==
  IF remarks # {} THEN [status |-> "episode_not_found", pick |-> Nobody]
  ELSE IF cands # {} THEN [status |-> "exact", pick |-> Best(cands)]
  ELSE [status |-> "not_found", pick |-> Nobody]

(* The end of async_resolve_content.                                        *)
Conclude(cands, remarks) ==
  IF "up_to_date" \in remarks /\ \A c \in cands : c.priority < 2
  THEN [status |-> "up_to_date", pick |-> Nobody]
  ELSE IF cands # {} THEN [status |-> "exact", pick |-> Best(cands)]
  ELSE [status |-> IF "episode_not_found" \in remarks THEN "episode_not_found" ELSE "not_found",
        pick |-> Nobody]

(* The loop has done with a result, and goes on with the next or ends.      *)
GoOn(list, cands, remarks) ==
  LET later == {i \in DOMAIN list : i > at}
  IN
  /\ plausible' = list
  /\ found' = cands
  /\ notes' = remarks
  /\ probes' = {}
  /\ priority' = 0
  /\ IF later # {}
     THEN at' = Earliest(later) /\ stage' = "look" /\ UNCHANGED answer
     ELSE stage' = "answered" /\ answer' = Conclude(cands, remarks) /\ UNCHANGED at
  /\ UNCHANGED asked

-----------------------------------------------------------------------------
Init ==
  /\ asked \in [season : {None, 0, 1}, episode : {None, 2}, account : BOOLEAN]
  /\ library \in [Series -> Positions]
  /\ held = [s \in Series |-> {library[s]}]
  /\ stage = "search"
  /\ plausible = << >>
  /\ at = 0
  /\ probes = {}
  /\ priority = 0
  /\ found = {}
  /\ notes = {}
  /\ failed = {}
  /\ answer = [status |-> "none", pick |-> Nobody]
  /\ changes = 0
  /\ pending = {}
  /\ query = NoQuery
  /\ results = NoQuery

(* The catalogs answer the search of the resolver, or it raises; a search   *)
(* in the profile for sports is refused before it begins.                   *)
Search(ranked) ==
  /\ stage = "search"
  /\ GoOn(Plausible(ranked), {}, {})
  /\ UNCHANGED <<failed, store, library, held, changes>>

SearchFails(status) ==
  /\ stage = "search"
  /\ stage' = "answered"
  /\ answer' = [status |-> status, pick |-> Nobody]
  /\ UNCHANGED <<asked, plausible, at, probes, priority, found, notes, failed, store, library,
                 held, changes>>

(* _probe_movie: whatever becomes of its metadata, its streams are asked.   *)
LookAtMovie ==
  /\ stage = "look"
  /\ plausible[at].id \in Movies
  /\ stage' = "probe"
  /\ probes' = {plausible[at].id}
  /\ UNCHANGED <<asked, plausible, at, priority, found, notes, failed, answer, store, library,
                 held, changes>>

(* The metadata of the series arrives, and the library is read.             *)
LookAtSeries ==
  LET s      == plausible[at].id
      target == NextEpisode(s, library[s])
      items  == IF Automatic THEN target ELSE Requested(s)
  IN
  /\ stage = "look"
  /\ s \in Series
  /\ \/ /\ items # {}
        /\ stage' = "probe"
        /\ probes' = items
        /\ priority' = IF ~Automatic THEN 0 ELSE IF library[s] = Absent THEN 1 ELSE 2
        /\ UNCHANGED <<asked, plausible, at, found, notes, answer>>
     \/ /\ items = {}
        /\ GoOn(plausible, found, notes \cup
                {IF Automatic /\ library[s] # Absent THEN "up_to_date" ELSE "episode_not_found"})
  /\ UNCHANGED <<failed, store, library, held, changes>>

SeriesMetadataFails ==
  /\ stage = "look"
  /\ plausible[at].id \in Series
  /\ failed' = failed \cup {plausible[at].id}
  /\ GoOn(plausible, found, notes)
  /\ UNCHANGED <<store, library, held, changes>>

(* The probes of a result have all ended, each with a stream or without.    *)
ProbesEnd(seeders) ==
  /\ stage = "probe"
  /\ seeders \in [probes -> {None} \cup 0..MaxSeeders]
  /\ GoOn(plausible,
          found \cup {[of |-> plausible[at].id, item |-> i, priority |-> priority,
                       has |-> seeders[i] # None, rank |-> at,
                       seeders |-> IF seeders[i] = None THEN 0 ELSE seeders[i]] : i \in probes},
          notes)
  /\ UNCHANGED <<failed, store, library, held, changes>>

(* The account's coordinator refreshes: the viewer went on, or back.        *)
Refresh(s, p) ==
  /\ changes < MaxChanges
  /\ changes' = changes + 1
  /\ library' = [library EXCEPT ![s] = p]
  /\ held' = [held EXCEPT ![s] = @ \cup {p}]
  /\ UNCHANGED <<call, store>>

(* async_search_and_store up to its await, and from it.                     *)
StartSearch(q) ==
  /\ q \notin pending
  /\ pending' = pending \cup {q}
  /\ query' = q
  /\ UNCHANGED <<results, call, library, held, changes>>

EndSearch(q) ==
  /\ q \in pending
  /\ pending' = pending \ {q}
  /\ results' = q
  /\ UNCHANGED <<query, call, library, held, changes>>

Resolve ==
  \/ \E ranked \in Answers : Search(ranked)
  \/ \E status \in {"error", "unsupported"} : SearchFails(status)
  \/ LookAtMovie
  \/ LookAtSeries
  \/ SeriesMetadataFails
  \/ \E seeders \in [probes -> {None} \cup 0..MaxSeeders] : ProbesEnd(seeders)

Next ==
  \/ Resolve
  \/ \E s \in Series, p \in Positions : Refresh(s, p)
  \/ \E q \in Queries : StartSearch(q) \/ EndSearch(q)

Spec == Init /\ [][Next]_vars

-----------------------------------------------------------------------------
(* The series among the results whose metadata was read.                    *)
Read == {r.id : r \in Members(plausible)} \cap (Series \ failed)

(* Without a season or an episode in the request, the episode of a series   *)
(* that is answered follows the position the library had at some time of    *)
(* the call, and no regular episode lies between.                           *)
(* (_next_account_episode, _series_candidates)                              *)
NextIsNext ==
  Automatic /\ answer.status = "exact" /\ answer.pick.of \in Series =>
    LET s == answer.pick.of
        e == answer.pick.item
    IN \E p \in held[s] : e > p /\ \A x \in Regular(s) : p < x => e <= x

(* "Up to date" is answered only when no series that is being watched and   *)
(* that the title may mean has another episode, though it says so of one.   *)
(* (async_resolve_content)                                                  *)
UpToDateIsTrue ==
  answer.status = "up_to_date" =>
    \A s \in Read : \E p \in held[s] : p = Absent \/ \A e \in Regular(s) : e <= p

(* Nothing is found only when there is nothing: an episode that one series  *)
(* lacks does not hide the film of that name, or another series.            *)
(* (async_resolve_content, _series_candidates)                              *)
NothingIsThere ==
  answer.status \in {"not_found", "episode_not_found"} =>
    /\ \A r \in Members(plausible) : r.id \in Series
    /\ \A s \in Read : IF Automatic THEN Episodes[s] = {} ELSE Requested(s) = {}

(* "The latest service search is exposed inside the Media Browser as        *)
(* Busqueda: The Matrix" (README.md): with the results of that search.      *)
LatestIsExposed == pending = {} => results = query
=============================================================================
