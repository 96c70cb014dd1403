# Stremio Stream Bridge: TLA+ models and proofs

Stremio Stream Bridge is a Home Assistant custom integration. It asks Stremio add-ons for
streams, ranks them, has a stream server transcode the chosen one and sends its URL to a
`media_player`, supervises whether playback starts, and falls back to the next candidate if it
does not. Around that it cleans the stream server's cache, mixes manually configured add-ons
with those of a linked Stremio account, and writes playback progress back to the account.

All of it runs on one asyncio event loop. Code between two `await`s is atomic; at every
`await` any other handler, task, state listener or done callback may run. One action of these
modules is therefore the code from one suspension point to the next, and
`hass.async_create_task`, which runs a new task up to its first suspension at once, belongs to
the action that calls it. The time a sleep or request takes is not modelled, unless the
module says that it counts polls.

Paths below are relative to `src/custom_components/stremio_stream_bridge/`.

## 1. Inventory

| Component | Source | State | Operations | What makes it correct |
|---|---|---|---|---|
| Playback requests and fallback | `__init__.py`, `media_source.py`, `playback_supervisor.py` | `runtime.playback_tasks`, per call: ranked list, position, failures | `handle_play`, `handle_play_url`, `async_resolve_media`, the loop, the monitor, `_remove_finished`, unload | each rank tried once, in order; every call ends; a newer playback stops the older one; the registry holds only its own live tasks |
| Session control, start-up detection | `session_control.py`, `playback_supervisor.py` | flags of one attempt | `async_prepare_player_session`, `async_wait_for_playback_start` | old media is not taken for the new; slow players are waited for; the attempt ends |
| Cache cleanup | `cache_cleanup.py` | tracked player, `_cleanup_task`, listener | service listener, state listener, delayed task, `async_stop` | no cleanup against a player in use; a pending one can be cancelled; nothing after the stop |
| Add-on manager | `aggregator.py` | `_clients`, `_roles`, `addons`, `errors` | refresh; catalog, meta, stream, subtitle, search requests | an outage takes nothing away; roles of loaded add-ons are current |
| Account bridge, secondary provider | `account_bridge.py`, `secondary_provider.py` | account runtime, `private_urls` | install, rollback, redaction | manual providers survive; rollback is exact; private URLs stay private |
| Account tracker | `account_playback_tracker.py`, `account_media_patch.py` | session per player, write lock | `prepare_session`, state listener, `_apply_resume`, `_write_progress`, `async_stop` | positions and titles belong together; the account does not go back |
| Account client | `account_client.py` | `_raw_library`, auth key | login, refresh, progress write | watched time is earned; views count once; a stale copy is only temporary |
| Coordinator, entry life cycle | `coordinator.py`, `__init__.py`, `binary_sensor.py` | runtime per entry | setup, poll, unload, migration | no partial setup is served; unload leaves nothing running |
| Source preferences | `source_preferences.py`, `latin_fallback.py`, `latin_search_patch.py` | availability cache with a time to live, semaphore | probe of a title, primary and secondary lookup | nothing with a source is hidden, whatever fails; every probe ends |
| Stream selector, seed policy | `stream_selector.py`, `source_policy.py` | none | filters, ranking, compatibility tiers, minimum of seeders | the choice does not depend on the order of answers; hard limits are hard; nothing is dropped in vain |
| Candidate preparation | `playback.py`, `api.py` | list of candidates in hand | build the URL, convert, validate, fall back | a request fails only if every candidate's own URL is refused |
| Resolver and search store | `resolver.py` | the library it reads, last query, last results | search, metadata, probes, next episode | the episode answered is the next one; "up to date" and "not found" hide nothing |
| Subtitles | `subtitle_proxy.py`, `subtitle_support.py`, `subtitle_codec.py`, `aggregator.py` | tokens with an expiry, errors of the last request | ask providers, download, serve, diagnose | a URL works for its time; a diagnosis names its own failures |
| Media browser, forms, diagnostics, notifications, styling | rest | none that outlives a call | rendering and reporting | pure presentation |

How they interact. A playback request calls the add-on manager for streams, the selector for
the ranking, candidate preparation (which calls the stream server), session control and
subtitles, and finally a `media_player` service. A media-source request returns its URL to Home
Assistant, which sends it itself while the monitor already polls the player. The cache cleanup
and the account tracker never call that code: they hear about it through service and state
listeners. Setup calls the coordinator, the secondary provider and the account bridge one
after the other, all on the same manager; afterwards the coordinator polls it.

What is hard in it: a registry that is emptied, then written three `await`s later; a loop in
the service call next to a background monitor; done callbacks that run after a successor is
registered; a `finally` clause of a cancelled task that runs after its replacement was stored;
a listener that cannot tell which title a state report is about; a write that starts from a
copy that a refresh replaces; refreshes in which some, all or no manifests answer; players that
ignore commands or act by themselves; a verdict about a title that is older than it looks, or rests
on a provider that failed; attributes of the manager that every overlapping call overwrites; a
library that changes while an episode is chosen from it; rankings of many keys with many ties. `PROJECT.json` lists each under `hazards` with its line.

## 2. Modules

| Module | Models | Extends / uses |
|---|---|---|
| `PlaybackSupervisor` | the three entry points, loop and monitor, registry, unload | |
| `RankedFallback` | abstract: what supervision promises for one request | |
| `FallbackRefinement` | the refinement mapping between the two | `PlaybackSupervisor`, INSTANCE `RankedFallback` |
| `PlaybackAttempt` | one candidate on one player: reset, command, start-up polls | |
| `CacheCleanup` | the cleanup tracker | |
| `Providers` (`MCProviders`) | setup, refresh and rollback of the add-on set | |
| `AccountTracker` | sessions, resume seek, write lock and stop for one player | |
| `AccountClient` (`MCAccountClient`) | one library record, its copy, writes and refreshes | |
| `LatinLookup` (`MCLatinLookup`) | the probes that hide titles without a Latin source | |
| `StreamSelection` (`MCStreamSelection`) | from the streams returned to the one that is played | |
| `ContentResolver` (`MCContentResolver`) | the resolve service and the search store | |
| `Subtitles` (`MCSubtitles`) | subtitle requests, the proxy and the diagnosis | |
| `*_proofs` | theorems about the module of that name; `PlaybackSupervisor_proofs` has those of the refinement too, `PlayerSession_proofs` those of `PlaybackAttempt` and `CacheCleanup`, `Account_proofs` those of `AccountClient` and `AccountTracker` | TLAPS |

Each module contains, next to some actions, operators commented as *slips*: the mutated form
that a plausible error would give the action. They are used by `PROJECT.json`'s `mutants`
alone; no specification refers to them. `CacheCleanup` and `AccountTracker` carry their own name in
that of `Init`, `Next`, `Spec` and `TypeOK`, because their theorems stand in one module with those
of another component. The variables called *history* in the declarations are
not in the code; they record what a property speaks about and no guard reads them.

### PlaybackSupervisor

`pc` is where the handler of a call is suspended and `loop` where its fallback loop is: in
`handle_play` the loop runs inside the call (`pc = "loop"`), in a media-source request it is
the monitor task. `playback_tasks` is `runtime.playback_tasks`. `TakeOver` is
`_cancel_playback_task` and the same lines of `async_resolve_media`: pop, and cancel if not
done. `Register` stores the monitor without looking at what the registry holds by then, as the
code does at `media_source.py:320`. `ResolveRejects` is one failed validation inside
`async_resolve_media`, whose failures the monitor inherits; `LoopFails` one failed attempt.
`Unload` cancels and clears; requests in flight go on with the old runtime, as in the code. The
player's answers are nondeterministic here: `PlaybackAttempt` details them. `LimitRanked` keeps
the arithmetic of `limit_ranked_candidates` (`0 or default`, at least one, at most `MaxCount`). A task is
`Live` as long as `_cancel_playback_task` finds that it is not done.

### PlaybackAttempt

One pass through `_async_attempt_candidate`, or through the initial part of a media-source
request (`entry`). The player is free at every step: `PlayerActs` lets it report anything
consistent with what it shows, obey or not, with the single restriction that media that has
left the screen does not return. The clocks count polls, and a sleep may overshoot by one.

### CacheCleanup

`task` gives every cleanup task's state; a cancelled one is `"unwinding"` until its `finally`
clause runs (`Ends`), which resets `_cleanup_task` even if that is a newer task by then.
`erased` records that this has happened.

### Providers

`stage` is where the setup is, from the coordinator's first refresh over the secondary provider
to the account bridge; each action ends in a manager refresh with an arbitrary set `up` of
manifests that answer. Nobody else refreshes during setup: the services require a loaded entry
and the coordinator polls only while an entity listens. `AsyncRefresh` publishes frozen roles
to `addons`, or keeps what was loaded if nothing answered. `InstallRefresh` restores `saved`
when its refresh raises; `InstallNothing` is the account none of whose descriptors has a usable URL,
which restores at once and refreshes too. `shown` is the coordinator's data after redaction.

### AccountTracker and AccountClient

In the tracker a position is the number of the report that brought it, so that "which session
heard it" and "older" can be stated; `waiting` is the queue of `_write_lock` and `sending` the
write that holds it. The client models one record: `account` at the server, `copy` in
`_raw_library`, one write and one refresh under way, each of which may be stored and lost, or
answered late. A unit of time is one minute, so the cap of 120 000 ms is 2. A record may begin without
a video, as a title that was only added to the library has none; the first write then counts as
watching on. The tracker's `PutIsLost` too leaves open whether the account has stored the write. What is
assumed there is that it has done so by the time the request ends: the account does not store a timed-out
write after one that was sent later. `RemoteMovesForward` rests on that.

`overallTimeWatched` gets the time of a video as it is watched and, when the item turns to another
video, all of `timeWatched` once more (`account_client.py:283` and `291`): a viewer of two episodes
may find twice the time. The repository says nowhere what the field should hold (the test of it,
`tests/test_stremio_account_hybrid.py:159`, watches one video), so this is described and not called an error;
`OverallAtMostTwice` says that it gets no worse, whatever writes are lost, overlap or are repeated.

### LatinLookup

A task is one title of an open page; `probe[k]` is the call of `_safe_availability` for it, from
the look into the cache over the queue at the semaphore to the verdict. `MetaAnswer` and `Answer`
are the two kinds of requests it awaits; a group of providers is asked at once and the answers
arrive in any order (`waiting`), and `later` is the group of the secondary provider, asked only if
no primary one had a match. `Finish` writes the cache with the time at which the probe began, as
the code does. `Refresh` replaces the loaded manifests at any moment, `Offer` lets a source appear.
`configure`, which empties the cache, runs once for each new manager, before its first probe, when the
cache is empty anyhow; it is left out.
The history variable `steady` names the providers whose manifests have been loaded throughout:
those the property can fairly speak of.

### StreamSelection

A pure computation followed by a short loop. `Filtered`, `RankOf`, `Order`, `SeedPolicy` and
`OrderIdeal` are the functions of `stream_selector.py` with what `install_source_policy_patch`
puts over them; `Less` and `Sorted` are Python's order of tuples and its stable sort, which the
code relies on. They work on the *places* of a list, as the code works on the identity of its
dictionaries: a filter keeps some places, and the sort says which place comes n-th. Without direct
play the code has no format in its keys and here it is `<<0, 0>>` for all streams, which orders and
groups them in the same way (`Format`). `Candidates` joins the four branches of `_stream_candidates`
and `_select_stream`. That no two streams have one key is what `get_streams` sees to when it merges
the answers of the providers.
The actions are `prepare_first_playable`: `Choose`, then for each candidate an unsupported link, an
accepted URL, a refused conversion that falls back to the own URL at once, or a refusal. A stream
is the record of what the parsers found in its text. Sports requests, a requested index and the
legacy default index skip the filters, as in the code.

### ContentResolver

`asked` is the request, `plausible` the results worth a look, `at` the one in hand (a result is
known by its place in the answer, and so is what was found out about it); `LookAtSeries`
is everything from the answer of `get_meta` to the start of the probes, including the look at the
account's library; `ProbesEnd` is the gathering of the seeders, and the look at the last result
ends in `Conclude`. `Refresh` changes the library at any time; `held` remembers which positions a
call may have seen. The text ranking is data: a search answers a list, best first, with the four
attributes on which `_plausible_ranked_results` decides. The resolver's own orderer is the plain
`order_ideal_streams` with the default limits, so its outcome here is only the seeders of the best
stream or none. `SearchFails` ends a call whose search raises, and one in the profile for sports, which
the code refuses before it searches. An explicit season 0 asks for specials. `StartSearch` and `EndSearch` are the two halves of `async_search_and_store`.

### Subtitles

A call is one of `async_prepare_subtitle_track` (kind `play`) or `handle_subtitle_diagnostics`
(kind `diagnose`). `Ask` fans out to the providers that serve the media, with extras only if the
stream has any; `Answer` is one reply, a refusal of the extras leading to the second request without
them; the last one writes `errors`, the shared `last_subtitle_errors`, and chooses the track.
An empty list of preferred languages takes the first track of all. A diagnosis looks for its player only
when the tracks are there, and may then raise instead of reporting (`raised`).
`ReportAfter` says what the download adds to a report: nothing, the attribute was read in the same step. A token is
the call it was made for, so that `read` can say which URL was asked for and whether it worked.

## 3. Runs

Twelve runs: one that must pass for each component, and two that must fail, for statements of the
documentation that the code does not keep. Seven more configurations of that second kind are kept
beside them (section 4). Type invariants are proved; that of `StreamSelection`
is also run.

| Run | Bounds | What it shows |
|---|---|---|
| `SupervisorRequests` | 2 requests of any kind, 1 player or none, up to 4 streams, at most 3 tried, options 0, 2, 12 | gapless failures, attempts limited, monitor discipline, no foreign eviction, every call ends, the registry drains, refinement of `RankedFallback` |
| `SupervisorPlayLoop` (fails) | the same with 2 streams | `NewerPlaybackStopsOlder` |
| `Attempt` | 2 to 5 polls per wait | reset or told twice before sending, steady old media rejected, slow players not given up early, the attempt ends |
| `CleanupSafety` | 2 players, 3 tasks alive | pending and in-use invariants, nothing after the stop, a due cleanup is decided |
| `CleanupLost` (fails) | 1 player, 3 tasks | `NewPlaybackCancelsPending` |
| `Providers` | 4 URLs: main, sports, one shared with the account, one of the account only; every mode and secondary | exact rollback, always serving, current roles |
| `Tracker` | 2 titles, 2 sessions, 2 reports, 1 waiting write | positions do not mix, the account does not go back, a pause is saved, the stop ends |
| `Client` | 2 episodes (3 and 2 minutes), 2 changes at the account, 1 minute seen of each, 1 forward seek, 2 turns | watched time earned, overall time at most twice what was spent, views counted once, the copy goes back only by a refresh and catches up |
| `Lookup` | 2 tasks, 1 slot, a series of 2 episodes and a movie nobody serves, 2 providers of which the main one's manifest may fail, cache age 1, clock to 1 | nothing with a source is hidden, every probe ends |
| `Selection` | every sequence of up to 3 of 9 streams, 23 combinations of options and target | hard limits, independence of order, nothing dropped in vain, safer formats first, nothing playable lost |
| `Resolver` | 6 answers over 2 series and 2 films, every position in the library, 1 change of it, limit 3, 2 episode probes, 1 query | next episode, honest "up to date" and "not found" |
| `Subtitles` | 2 calls of any kind, 2 providers and the stream's own tracks, expiry after 2, clock to 3 | own errors in a diagnosis, a URL works for exactly its time |

Why the bounds suffice. A registry conflict needs one player and two requests; a third adds no
new relation, since a request is only compared with the owner. Three streams give a first, a
middle and a last rank; the most that are tried, ten in the code, is the constant `MaxCount`, here three,
and a fourth stream is there to be left out. A lost cleanup handle needs a cancelled task, its replacement and one more.
The waits of an attempt differ only in the order of their limits, which the chosen numbers keep
(three seconds < grace < deadline). The four URLs realise every overlap of manual and account
roles that the code distinguishes. Two sessions are needed for a write of an old one to wait
behind a new one, and two reports for a position to be older than another; one place in the
queue next to the write under way gives the overtaking that the lock prevents. In `Lookup` one slot
for two tasks makes the semaphore contended, and two providers and two episodes give every mixture
of match, failure and silence that a verdict is made of; the choice among more than three episodes
is checked apart, for lists of up to nine (`SampleIsSpread`). The nine streams of `Selection` differ
in every key of the ranking and contain a pair for each rule of the seed policy; a rule compares two
streams in the presence of a third. In `Resolver` a third series adds nothing: results are looked at
one after the other and compared two by two. Subtitle calls share only the error attribute and the
purge, for which two are enough. The theorems of section 5 have no bounds.

Fairness. `FairSpec` asks only for what the event loop and the code's own timeouts give: a
suspended handler is resumed because provider, stream-server and account requests carry
timeouts; sleeps end; done callbacks and cancellations are delivered. `media_player` service
calls are assumed to return or raise, which Home Assistant leaves to the platform. In `Lookup` a
waiter gets the semaphore if it is free again and again (strong fairness), because
`asyncio.Semaphore` serves its waiters in order. Nothing is
asked of users, players, Home Assistant's own play command or servers, except in `Client`,
where `CopyCatchesUp` assumes that the coordinator keeps polling and not every refresh fails
(strong fairness of the answer). `CHECK_DEADLOCK FALSE` stands where requests, sessions or
reports are used up or everything has been stopped.

## 4. Where code and documentation disagree

Two are runs of kind `violation`, and `PROJECT.json` quotes the documentation:

- **An older playback goes on** (`SupervisorPlayLoop`). `handle_play` registers its loop
  nowhere, so a newer request does not stop it; two overlapping media-source requests
  overwrite each other's monitor. The change log of 0.5.0 says that older supervisors are cancelled.
- **A pending cleanup survives a new playback** (`CleanupLost`). Two terminal reports in a row
  (idle, off): the first task's `finally` clears the handle of the second, and a playback that
  starts then cannot cancel it.

Seven more can be reproduced with a configuration of their own, `tlc -config <name>.cfg <module>`,
which ends in a counterexample. Whether the sentence or the code should give way is for the
maintainers to say.

| Configuration | Module, property | The sentence, and what the code does |
|---|---|---|
| `AttemptStale` | `PlaybackAttempt`, `StaleIsRejected` | After two ignored resets a log message (`session_control.py:153`) promises that verification rejects stale media; any change of its state makes it acceptable. |
| `ProvidersRestore` | `MCProviders`, `AccountFailureRestores` | `docs/stremio-account.md:17` promises the manual providers back if the account's fail; in mode account one answering sports manifest makes the refresh a success. |
| `TrackerSeek` | `AccountTracker`, `SeekHitsResumedTitle` | `docs/stremio-account.md:26` speaks of the saved position of the title; the title still playing receives the seek. |
| `ClientRemoved` | `MCAccountClient`, `RemovedStaysRemoved` | `docs/stremio-account.md:28` says that only items in the library are updated; a removed one is stored with `removed = False`. |
| `LookupFailed` | `MCLatinLookup`, `FailedStaysUncertain` | `latin_fallback.py:104` keeps the verdict uncertain when a provider failed; one whose manifest failed is not asked, and its titles are hidden. |
| `SelectionExcluded` | `MCStreamSelection`, `ExclusionIsMandatory` | `README.md` lists excluded keywords as mandatory; with the ideal-link filter off the fallbacks are filtered apart from the first choice, and if only excluded releases are left for them, these are brought back. |
| `SearchOverlap` | `MCContentResolver`, `LatestIsExposed` | `README.md` shows the latest search in the media browser under its query; two overlapping searches leave the query of one with the results of the other. |

## 5. Theorems

All proofs are checked by TLAPS down to the last leaf, with no assumption but the named ASSUME
of each module: `ConstantsOK`, `TrackerConstantsOK`, `TimesOK`, `ConfigurationOK` and `NamesOK` give the
constants their types and separate the null values from the real ones. The answers of a search
(`ConfigurationOK` of `ContentResolver`) and the streams of the providers (`RequestsOK` of
`StreamSelection`) are any sequences of records of the right fields; `RequestsOK` adds that a key
occurs once in a list, which `get_streams` sees to. Each invariant is inductive after
strengthening; the strengthening is the interesting part.

- **`PlaybackSupervisor_proofs`**: `TypeCorrect`, `FailuresAccounted`, `AttemptsAreLimited`,
  `MonitorsDisciplined`, `RegistryIsSound`, `NoEviction`, for any number of requests, players, streams and options.
  `ControlInv` relates `kind`, `pc` and `loop` (only `handle_play` waits in a loop, only a
  finished media-source request has a monitor, only an ended monitor is reaped). `FailureInv`
  extends the accounting to a request that is still validating, which is what makes the
  hand-over from `async_resolve_media` to the monitor preserve it. `MonitorDiscipline` and
  `RegistrySound` need each other: popping cancels the right task because the registry is sound.
  The same module proves `Refinement`, that `Spec` implements `RankedFallback`: `MoveStep` shows that
  seen from one request every step is an offer, a rejection, an end or a stutter.
- **`PlayerSession_proofs`**, of the cleanup: `CleanupTypeCorrect`, `HandlePending`, `PendingKnown`,
  `InUseSafe` (until a handle is lost), and `StopFinal`, unconditionally: even a lost task requests
  nothing after the stop. For this a stopped tracker must track nobody (`StoppedTracksNobody`).
  Of an attempt: `TypeCorrect`, `CleanOrTold`, `SteadyRejected`, `SlowWaitedFor`,
  for any lengths of the waits. `ResetInv` says that with a reset the last wait follows the
  second pass; `EvidenceInv` relates the flags to the polls: a transition that was seen ends the
  steadiness, and was the first state or counts as a change.
- **`Providers_proofs`**: `TypeCorrect`, `ManualKept`, `RollbackExact`, `AlwaysServing`,
  `ServedConfigured`, `OwnUrlsShown`, for any URLs and roles. `StageInv` says which roles each
  stage has and what it could return to. `RoleInv` says that while the installation's refresh
  is awaited the loaded roles are those of before, which the rollback restores.
- **`Account_proofs`**, of the client: `TypeCorrect`, `WatchedEarned`, `OverallTwice`, `CountsOnce`, `OnlyRefresh`, for any
  videos, durations and numbers of changes. That the account's record is earned is not inductive:
  the copy, a refresh under way and a write under way may each become the record a later write
  starts from. `RecordsOK` therefore says of every record held anywhere that what a write started
  from it *now* would count is still covered (`Earned`, and for the overall time `Twice`), and that it has not yet counted the present
  viewing unless it says so (`Counted`). Steps of the viewer change this for all records alike
  (`MovesKeep`, `TurnKeeps`); steps of the synchronisation create one new record (`ProgressIsGood`)
  or move old ones about (`SyncStep`, `Moved`). `VersionsOK` orders what is under way.
  Of the tracker: `TrackerTypeCorrect`, `OnlyOwnReports`, `MovesForward`. The invariant says
  that positions along remote, write under way and queue increase (`OrderInv`), that each was heard
  by its session (`PositionInv`), and that the current session holds the newest report of
  all, or none yet (`SessionInv`): otherwise the next report could be older than a queued one.
- **`LatinLookup_proofs`**: `TypeCorrect` and `HiddenSound`, for any providers, titles, metadata,
  numbers of tasks and slots and any age of the cache. `Sound` follows a probe through its episodes:
  what it has decided without doubt had no source when it began, and of the episode at hand every
  steady provider has still to answer, has failed, or had no source at that time. The cache carries
  this on for the age it allows.
- **`Subtitles_proofs`**: `TypeCorrect`, `DiagnosisOwn` and `ServedInTime`, for any calls, providers
  and offers. `ReportAt` fixes the report of a call from the moment its answers are in; `TokenAt`
  says that a token once handed out is in the cache or has expired, and that its own call alone put
  it there. That `Selected` yields a track rests on the existence of a least place in the order of
  languages (`Least`).
- **`ContentResolver_proofs`**: `TypeCorrect`, `NextRight`, `UpToDateTrue` and `NothingThere`, for any
  answers of a search, libraries, metadata and limits. A call is followed through its results:
  `HeldInv` says what positions it may have seen, `ProbeInv` what the probes in hand were started
  for, `FoundInv` that every candidate kept is one the answer may be, `PassedInv` of every result
  that was dealt with what that left behind (a candidate, a note that it is up to date, a failure, or
  nothing because it has no episode to play), and `NotesInv` that only an automatic request notes
  that a series is up to date. `AnswerInv` says that the answer is the one `Conclude` draws from
  these; that the best of the candidates is one of them (`BestIsOne`) is shown key by key, each
  being a natural number or a Boolean with a best value.
- **`StreamSelection_proofs`**: `TypeCorrect`, `SizeHard`, `NothingDropped`, `Safest`, `AnyOrder` and
  `NothingLost`, for any streams and options. The first part is about the sort. `LessIsTotal` and
  `LessIsStrict` make tuples of one length an order (two different ones first differ somewhere,
  `FirstDifference`), and with the place as the last resort it orders places (`PrecedesOrder`). The
  n-th place of the result is the one with n - 1 places before it; counting those is a bijection
  (`PlacesInOrder`), so the sorted list has each place once and in order (`SortedInOrder`). No induction
  over the list is needed. From there `SortedIsGraded` and `SeedPolicyHas` say what the two sorts
  keep: every list is `Graded` by format, and what the policy takes away is `Outdone` by something
  it leaves. For the order of the providers, a permutation leaves as many places before each as
  there were (`PulledAreAsMany`), so a sort whose ranks are all different gives the same list
  (`SortedShuffled`); that they are different is the key at their end. The seed policy has no such
  key, but sorts what is already the same list. `NothingLost` is about the loop: `Exhausted` says that
  the candidates left are the last ones of those chosen and that each one before them had no URL or
  its own one refused.

Only model-checked: every liveness property (`CallsEnd`, `RegistryDrains`, `DueIsServed`,
`AttemptEnds`, `PauseIsSaved`, `StopEnds`, `CopyCatchesUp`, `EveryProbeEnds`), since liveness under
fairness is beyond this prover, and the violations. Every invariant and every other action property
that a run checks is a theorem, except the choice of episodes in `LatinLookup` (`SampleIsSpread`),
which is checked for lists of up to nine.

## 6. Not modelled, and the plan

Not modelled because there is no state to go wrong: forms, media browsing, diagnostics, cast
styling, subtitle decoding, notification texts. A notification is sent without blocking and is
part of the step that sends it. The migration of options runs once, before anything else, and maps
one dictionary to another. Left abstract: what parsers and keyword lists find in a text (given as
attributes), how titles are scored (the order of a search's answer), what a manifest contains (its
roles and the items it serves), what validation decides (it succeeds or not), how player attributes
become a position. The supervisor treats the ranked list as a number of candidates; what ranks them
is `StreamSelection`, and the two meet only in `limit_ranked_candidates`, which both contain.

What could follow, most useful first: a composition of `PlaybackSupervisor` with `CacheCleanup` and
`AccountTracker`, which listen to the same player; the search fan-out and catalog paging of the
aggregator; setup and unload with their listeners as one life cycle.
