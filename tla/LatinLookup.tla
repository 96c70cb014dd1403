---------------------------- MODULE LatinLookup -----------------------------
(***************************************************************************)
(* The Latin audio profile hides the titles of catalogs and searches for   *)
(* which no stream provider offers Spanish audio.  SourcePreferences       *)
(* probes every title of a page at once, a few requests at a time, asks    *)
(* the secondary provider only when no primary one has a match, samples    *)
(* three episodes of a series, and remembers what is certain for half an   *)
(* hour.  Sources appear while the probes are under way; requests fail;    *)
(* the coordinator reloads the manifests between any two steps.            *)
(***************************************************************************)
EXTENDS Integers, Sequences, FiniteSets

CONSTANTS
  Providers,    \* add-ons with the role "stream"
  Secondary,    \* the manifest set as secondary stream provider, if any
  Items,        \* ids whose streams may be asked for: titles and episodes
  Movies,       \* the movies among them
  Series,       \* and the series
  Videos,       \* the distinct ids of the videos in the metadata of a series
  Serves,       \* the items each manifest declares its resource for
  Tasks,        \* places of a page, or of several pages that are open
  SLOTS,        \* _CATALOG_CONCURRENCY
  CACHE,        \* _CACHE_SECONDS
  Flaky,        \* bound: the providers whose manifests may fail to load
  MaxClock      \* bound

Titles == Movies \cup Series
Never  == MaxClock + 1

ASSUME ConfigurationOK ==
  /\ Movies \subseteq Items
  /\ Series \subseteq Items
  /\ Movies \cap Series = {}
  /\ Videos \in [Series -> Seq(Items)]
  /\ Serves \in [Providers -> SUBSET Items]
  /\ SLOTS \in Nat \ {0}
  /\ CACHE \in Nat \ {0}
  /\ MaxClock \in Nat

VARIABLES
  clock,    \* loop.time()
  loaded,   \* manager.addons
  steady,   \* history: providers that were loaded ever since
  since,    \* when each provider began to offer a matching source of an item
  cache,    \* _availability_cache
  probe     \* the call of _safe_availability of each task

vars == <<clock, loaded, steady, since, cache, probe>>

Verdicts == {"yes", "no", "unknown"}
Phases   == {"idle", "queued", "meta", "primary", "secondary", "done"}

(* No entry: one that is older than any probe allows.                       *)
Nothing == [at |-> -CACHE, verdict |-> "unknown"]

TypeOK ==
  /\ clock \in 0..MaxClock
  /\ loaded \in SUBSET Providers
  /\ steady \in SUBSET loaded
  /\ since \in [Providers -> [Items -> 0..Never]]
  /\ cache \in [Titles -> [at : 0..MaxClock, verdict : {"yes", "no"}] \cup {Nothing}]
  /\ probe \in [Tasks -> [phase : Phases, title : Titles, began : 0..MaxClock,
                          next : 0..3, unsure : BOOLEAN, waiting : SUBSET Providers,
                          later : SUBSET Providers, match : BOOLEAN,
                          failed : BOOLEAN, result : Verdicts]]

Init ==
  /\ clock = 0
  /\ loaded = Providers
  /\ steady = loaded
  /\ since = [p \in Providers |-> [i \in Items |-> Never]]
  /\ cache = [t \in Titles |-> Nothing]
  /\ \E t \in Titles :
       probe = [k \in Tasks |->
                 [phase |-> "idle", title |-> t, began |-> 0, next |-> 0, unsure |-> FALSE,
                  waiting |-> {}, later |-> {}, match |-> FALSE, failed |-> FALSE,
                  result |-> "unknown"]]

-----------------------------------------------------------------------------
(* representative_ids(ids, 3): the beginning, the middle and the end.       *)
RepresentativeIds(ids) ==
  IF Len(ids) <= 3 THEN ids
  ELSE <<ids[1], ids[(Len(ids) \div 2) + 1], ids[Len(ids)]>>

(* The ids whose streams are asked for: of a series without videos, its own. *)
Sample == [t \in Titles |-> IF t \in Series /\ Videos[t] # << >>
                            THEN RepresentativeIds(Videos[t]) ELSE <<t>>]

(* _compatible_providers, for one of the two groups.                        *)
Compatible(item, secondary) ==
  {p \in loaded : item \in Serves[p] /\ (p = Secondary) = secondary}

Item(k) == Sample[probe[k].title][probe[k].next]

(* Slips: a series keeps its slot until its episodes have been looked up;   *)
(* the age of an entry is counted from the end of the probe.                *)
HoldingEpisodes ==
  {k \in Tasks : \/ probe[k].phase \in {"meta", "primary", "secondary"}
                 \/ probe[k].phase = "queued" /\ probe[k].next > 0 /\ probe[k].title \in Series}

StampAtEnd(k) == clock

(* The tasks inside the semaphore.                                          *)
Holding == {k \in Tasks : probe[k].phase \in {"meta", "primary", "secondary"}}

Fresh(t) == cache[t].verdict # "unknown" /\ clock - cache[t].at < CACHE

(* The time of an entry was read before the probe.                          *)
Stamp(k) == probe[k].began

(* The end of _availability of task k, whose record is r by now.            *)
Finish(k, r, verdict) ==
  /\ probe' = [probe EXCEPT ![k] = [r EXCEPT !.phase = "done", !.result = verdict,
                                            !.match = FALSE, !.failed = FALSE,
                                            !.unsure = FALSE, !.next = 0]]
  /\ cache' = IF verdict = "unknown" THEN cache
              ELSE [cache EXCEPT ![r.title] = [at |-> Stamp(k), verdict |-> verdict]]

(* _safe_availability begins.                                               *)
Begin(k, t) ==
  LET r == [probe[k] EXCEPT !.title = t, !.began = clock, !.unsure = FALSE,
                            !.next = IF t \in Series THEN 0 ELSE 1]
  IN
  /\ probe[k].phase \in {"idle", "done"}
  /\ probe' = [probe EXCEPT ![k] =
                 IF Fresh(t) THEN [r EXCEPT !.phase = "done", !.result = cache[t].verdict,
                                            !.next = 0]
                 ELSE [r EXCEPT !.phase = "queued", !.result = "unknown"]]
  /\ UNCHANGED <<clock, loaded, steady, since, cache>>

(* What was found for one item, in _video_has_source or in the loop of      *)
(* _series_has_source.                                                      *)
NextItem(k, r, found) ==
  LET unsure == r.unsure \/ found = "unknown"
  IN IF found = "yes" \/ r.next = Len(Sample[r.title])
     THEN Finish(k, r, IF found = "no" /\ unsure THEN "unknown" ELSE found)
     ELSE /\ probe' = [probe EXCEPT ![k] = [r EXCEPT !.phase = "queued", !.next = @ + 1,
                                                    !.unsure = unsure]]
          /\ UNCHANGED cache

(* The semaphore lets a task in: the series asks for its metadata, or both  *)
(* groups of providers are determined and the first is asked.               *)
Acquire(k) ==
  LET primary   == Compatible(Item(k), FALSE)
      secondary == Compatible(Item(k), TRUE)
      asking    == [probe[k] EXCEPT !.match = FALSE, !.failed = FALSE]
  IN
  /\ probe[k].phase = "queued"
  /\ Cardinality(Holding) < SLOTS
  /\ \/ /\ probe[k].next = 0
        /\ probe' = [probe EXCEPT ![k].phase = "meta"]
        /\ UNCHANGED cache
     \/ /\ probe[k].next > 0
        /\ primary \cup secondary = {}
        /\ NextItem(k, asking, "unknown")
     \/ /\ probe[k].next > 0
        /\ primary \cup secondary # {}
        /\ probe' = [probe EXCEPT ![k] =
                       IF primary # {}
                       THEN [asking EXCEPT !.phase = "primary", !.waiting = primary,
                                           !.later = secondary]
                       ELSE [asking EXCEPT !.phase = "secondary", !.waiting = secondary,
                                           !.later = {}]]
        /\ UNCHANGED cache
  /\ UNCHANGED <<clock, loaded, steady, since>>

(* The metadata of a series, of the first add-on that has it, or of none.   *)
MetaAnswer(k, ok) ==
  /\ probe[k].phase = "meta"
  /\ IF ok THEN /\ probe' = [probe EXCEPT ![k].phase = "queued", ![k].next = 1]
                /\ UNCHANGED cache
           ELSE Finish(k, probe[k], "unknown")
  /\ UNCHANGED <<clock, loaded, steady, since>>

(* A slip: an error is an answer without sources.                           *)
FoundCareless(r) == IF r.match THEN "yes" ELSE "no"

(* What the groups asked add up to.  A group without an error has           *)
(* responded, and without a match the streams it has do not matter.         *)
Found(r) == IF r.match THEN "yes" ELSE IF r.failed THEN "unknown" ELSE "no"

(* A provider answers about the item or fails.  _get_latin_streams goes on  *)
(* with the last answer of a group.                                         *)
Answer(k, p, ok) ==
  LET r == [probe[k] EXCEPT !.waiting = @ \ {p},
                            !.match = @ \/ (ok /\ since[p][Item(k)] <= clock),
                            !.failed = @ \/ ~ok]
  IN
  /\ p \in probe[k].waiting
  /\ \/ /\ r.waiting # {}
        /\ probe' = [probe EXCEPT ![k] = r]
        /\ UNCHANGED cache
     \/ /\ r.waiting = {}
        /\ ~r.match
        /\ r.later # {}
        /\ probe' = [probe EXCEPT ![k] = [r EXCEPT !.phase = "secondary",
                                                  !.waiting = r.later, !.later = {}]]
        /\ UNCHANGED cache
     \/ /\ r.waiting = {}
        /\ r.match \/ r.later = {}
        /\ NextItem(k, [r EXCEPT !.later = {}], Found(r))
  /\ UNCHANGED <<clock, loaded, steady, since>>

-----------------------------------------------------------------------------
(* The coordinator polls; only manifests that answer stay loaded.           *)
Refresh(up) ==
  /\ Providers \ Flaky \subseteq up
  /\ loaded' = IF up = {} THEN loaded ELSE up
  /\ steady' = steady \cap loaded'
  /\ UNCHANGED <<clock, since, cache, probe>>

(* A provider begins to offer a matching source.                            *)
Offer(p, i) ==
  /\ since[p][i] = Never
  /\ i \in Serves[p]
  /\ since' = [since EXCEPT ![p][i] = clock]
  /\ UNCHANGED <<clock, loaded, steady, cache, probe>>

Tick ==
  /\ clock < MaxClock
  /\ clock' = clock + 1
  /\ UNCHANGED <<loaded, steady, since, cache, probe>>

Ends(k) ==
  \/ \E ok \in BOOLEAN : MetaAnswer(k, ok)
  \/ \E p \in Providers, ok \in BOOLEAN : Answer(k, p, ok)

Next ==
  \/ \E k \in Tasks, t \in Titles : Begin(k, t)
  \/ \E k \in Tasks : Acquire(k) \/ Ends(k)
  \/ \E up \in SUBSET Providers : Refresh(up)
  \/ \E p \in Providers, i \in Items : Offer(p, i)
  \/ Tick

Spec == Init /\ [][Next]_vars

(* Every request answers or runs into its timeout; asyncio.Semaphore wakes  *)
(* its waiters in order.                                                    *)
FairSpec == Spec /\ \A k \in Tasks : SF_vars(Acquire(k)) /\ WF_vars(Ends(k))

-----------------------------------------------------------------------------
(* The items of a title that a provider has offered, with its manifest      *)
(* loaded, for half an hour before the probe began.                         *)
Ignored(k, p) ==
  {n \in 1..Len(Sample[probe[k].title]) :
    /\ Sample[probe[k].title][n] \in Serves[p]
    /\ since[p][Sample[probe[k].title][n]] <= probe[k].began - CACHE}

(* A title is hidden only if, half an hour ago at the latest, no provider   *)
(* had a source of any of its samples: errors, answers older than the       *)
(* cache allows and samples that were never looked up do not hide it.       *)
(* (_availability, _series_has_source, _get_latin_streams)                  *)
HiddenHasNoSource ==
  \A k \in Tasks : probe[k].phase = "done" /\ probe[k].result = "no"
                     => \A p \in steady : Ignored(k, p) = {}

(* "A failed provider may still contain a Latin source.  Keep catalog       *)
(* availability uncertain rather than incorrectly caching the title as a    *)
(* confirmed non-match" (latin_fallback.py): also one whose manifest failed. *)
FailedStaysUncertain ==
  \A k \in Tasks : probe[k].phase = "done" /\ probe[k].result = "no"
                     => \A p \in Providers : Ignored(k, p) = {}

(* A task holds no slot while it waits for one, so no page waits for ever.  *)
(* (_video_has_source, _series_has_source)                                  *)
EveryProbeEnds ==
  \A k \in Tasks : probe[k].phase # "idle" ~> probe[k].phase = "done"
=============================================================================
