------------------------- MODULE PlaybackSupervisor -------------------------
(***************************************************************************)
(* Playback requests, the ranked-fallback loop and the registry of         *)
(* fallback monitors.                                                      *)
(*                                                                         *)
(* Three entry points start playback on a media_player entity:             *)
(*   "play"    the service handler handle_play, which runs the fallback    *)
(*             loop inside the service call itself;                        *)
(*   "resolve" async_resolve_media of the media source, which answers with *)
(*             one URL and leaves a background task, the monitor, to       *)
(*             supervise it and to try the remaining candidates;           *)
(*   "url"     handle_play_url, which sends one URL and supervises nothing.*)
(* Home Assistant runs all of them on one event loop, so an action below   *)
(* is the code between two suspension points, and any other call may run   *)
(* between two actions.  runtime.playback_tasks remembers one monitor per  *)
(* player; a new request pops it and cancels it.                           *)
(*                                                                         *)
(* The notifications of failure_notifications.py are sent with             *)
(* blocking=False and never suspend, so they are part of the step that     *)
(* sends them.  A cancelled task runs no further statement of its own: the *)
(* only handlers for CancelledError re-raise it.                           *)
(***************************************************************************)
EXTENDS Integers, Sequences

CONSTANTS
  Calls,         \* identities of playback requests; each is used once
  Players,       \* media_player entities
  Kinds,         \* the entry points in use, a subset of AllKinds
  MaxStreams,    \* bound: streams the providers return for one request
  CountOptions,  \* values the fallback_source_count option may hold
  DefaultCount,  \* DEFAULT_FALLBACK_SOURCE_COUNT, 5 in the code
  MaxCount,      \* the most that are tried, 10 in the code
  NoCall,        \* no task registered, nobody has taken the player
  NoPlayer       \* a media-source request without a target player

AllKinds == {"play", "resolve", "url"}

ASSUME ConstantsOK ==
  /\ Kinds \subseteq AllKinds
  /\ MaxStreams \in Nat \ {0}
  /\ CountOptions \subseteq Int
  /\ {DefaultCount, MaxCount} \subseteq Nat \ {0}
  /\ NoCall \notin Calls
  /\ NoPlayer \notin Players

VARIABLES
  kind,            \* entry point of each call
  target,          \* player of each call
  pc,              \* where the handler itself is suspended
  loop,            \* where the fallback loop (or monitor task) is suspended
  total,           \* len(ranked)
  position,        \* rank of the candidate in hand
  attempt,         \* the attempt number announced to the user
  failures,        \* ranks whose failure was recorded, in order
  reaped,          \* the monitor's done callback has run
  playback_tasks,  \* runtime.playback_tasks: player -> call of the monitor
  loaded,          \* the config entry is loaded
  owner,           \* history: the call that last took the player over
  contended        \* history: players given a monitor by a superseded call

vars == <<kind, target, pc, loop, total, position, attempt, failures, reaped,
          playback_tasks, loaded, owner, contended>>

request  == <<kind, target>>
progress == <<total, position, attempt, failures>>
registry == <<playback_tasks, owner, contended>>

Working  == {"session", "prepare", "wait"}
Awaiting == {"streams", "meta", "session", "prepare", "subtitle", "command",
             "loop"}
Ended    == {"done", "failed", "error"}

Live(c)        == loop[c] \in Working
LiveMonitor(c) == kind[c] = "resolve" /\ Live(c)

-----------------------------------------------------------------------------
(* limit_ranked_candidates: how many of n ranked candidates are tried.      *)
(* A slip: a large option is taken as it is.                                *)
ClampBelow(k) == IF k < 1 THEN 1 ELSE k

Clamp(k) == IF k < 1 THEN 1 ELSE IF k > MaxCount THEN MaxCount ELSE k

LimitRanked(n, enabled, option) ==
  LET count == Clamp(IF option = 0 THEN DefaultCount ELSE option)
  IN  IF n = 0 THEN 0
      ELSE IF ~enabled THEN 1
      ELSE IF n < count THEN n ELSE count

RankedLengths ==
  {LimitRanked(n, enabled, option) :
     n \in 0..MaxStreams, enabled \in BOOLEAN, option \in CountOptions}

-----------------------------------------------------------------------------
Init ==
  /\ kind = [c \in Calls |-> "none"]
  /\ target = [c \in Calls |-> NoPlayer]
  /\ pc = [c \in Calls |-> "idle"]
  /\ loop = [c \in Calls |-> "none"]
  /\ total = [c \in Calls |-> 0]
  /\ position = [c \in Calls |-> 0]
  /\ attempt = [c \in Calls |-> 0]
  /\ failures = [c \in Calls |-> <<>>]
  /\ reaped = [c \in Calls |-> FALSE]
  /\ playback_tasks = [p \in Players |-> NoCall]
  /\ loaded = TRUE
  /\ owner = [p \in Players |-> NoCall]
  /\ contended = {}

(* A slip: the task is popped but not cancelled.                            *)
TakeOverWithoutCancel(c, p) ==
  /\ playback_tasks' = [playback_tasks EXCEPT ![p] = NoCall]
  /\ owner' = [owner EXCEPT ![p] = c]
  /\ UNCHANGED <<loop, contended>>

(* _cancel_playback_task, and the same lines in async_resolve_media: pop    *)
(* the registered monitor of the player and cancel it unless it is done.    *)
TakeOver(c, p) ==
  /\ playback_tasks' = [playback_tasks EXCEPT ![p] = NoCall]
  /\ loop' = [d \in Calls |->
                IF d = playback_tasks[p] /\ Live(d) THEN "cancelled"
                                                    ELSE loop[d]]
  /\ owner' = [owner EXCEPT ![p] = c]
  /\ UNCHANGED contended

(* A request arrives.  play_url reaches its take-over without suspending;   *)
(* the other two first await the providers.                                 *)
Begin(c, k, p) ==
  /\ loaded
  /\ pc[c] = "idle"
  /\ k \in Kinds
  /\ k # "resolve" => p # NoPlayer
  /\ kind' = [kind EXCEPT ![c] = k]
  /\ target' = [target EXCEPT ![c] = p]
  /\ \/ /\ k = "url"
        /\ pc' = [pc EXCEPT ![c] = "session"]
        /\ TakeOver(c, p)
     \/ /\ k # "url"
        /\ pc' = [pc EXCEPT ![c] = "streams"]
        /\ UNCHANGED <<loop, registry>>
  /\ UNCHANGED <<progress, reaped, loaded>>

(* manager.get_streams raised or returned nothing, or a media source        *)
(* request ended up with no ranked candidate: nothing was touched yet.      *)
NoStreams(c) ==
  /\ pc[c] = "streams"
  /\ pc' = [pc EXCEPT ![c] = "error"]
  /\ UNCHANGED <<request, loop, progress, reaped, registry, loaded>>

(* handle_play has its streams: it takes the player over, then awaits the   *)
(* title's metadata.                                                        *)
PlayTakesOver(c) ==
  /\ pc[c] = "streams"
  /\ kind[c] = "play"
  /\ pc' = [pc EXCEPT ![c] = "meta"]
  /\ TakeOver(c, target[c])
  /\ UNCHANGED <<request, progress, reaped, loaded>>

(* The metadata arrived (its errors are swallowed): candidates are ranked   *)
(* and limited and the loop starts with the first.  With none of them       *)
(* eligible the call fails, after having cancelled the older monitor.       *)
StartLoop(c, n) ==
  /\ pc[c] = "meta"
  /\ \/ /\ n = 0
        /\ pc' = [pc EXCEPT ![c] = "error"]
        /\ UNCHANGED <<loop, progress>>
     \/ /\ n > 0
        /\ pc' = [pc EXCEPT ![c] = "loop"]
        /\ loop' = [loop EXCEPT ![c] = "session"]
        /\ total' = [total EXCEPT ![c] = n]
        /\ position' = [position EXCEPT ![c] = 1]
        /\ attempt' = [attempt EXCEPT ![c] = 1]
        /\ UNCHANGED failures
  /\ UNCHANGED <<request, reaped, registry, loaded>>

(* async_resolve_media has n ranked candidates.  With a target player it    *)
(* takes the player over and prepares the session, else it goes straight to *)
(* preparing candidates.                                                    *)
ResolveRanks(c, n) ==
  /\ pc[c] = "streams"
  /\ kind[c] = "resolve"
  /\ n > 0
  /\ total' = [total EXCEPT ![c] = n]
  /\ position' = [position EXCEPT ![c] = 1]
  /\ \/ /\ target[c] = NoPlayer
        /\ pc' = [pc EXCEPT ![c] = "prepare"]
        /\ UNCHANGED <<loop, registry>>
     \/ /\ target[c] # NoPlayer
        /\ pc' = [pc EXCEPT ![c] = "session"]
        /\ TakeOver(c, target[c])
  /\ UNCHANGED <<request, attempt, failures, reaped, loaded>>

(* async_prepare_player_session returned.  It never raises: failing player  *)
(* services are logged inside.                                              *)
SessionReady(c) ==
  /\ pc[c] = "session"
  /\ pc' = [pc EXCEPT ![c] = IF kind[c] = "url" THEN "command" ELSE "prepare"]
  /\ UNCHANGED <<request, loop, progress, reaped, registry, loaded>>

(* play_url's single play_media command, delivered or not.                  *)
CommandUrl(c) ==
  /\ pc[c] = "command"
  /\ \E end \in {"done", "error"} : pc' = [pc EXCEPT ![c] = end]
  /\ UNCHANGED <<request, loop, progress, reaped, registry, loaded>>

(* One candidate of a media-source request failed its validation.  The next *)
(* one is tried; after the last one the failure is notified (if there is a  *)
(* player) and the request fails.                                           *)
ResolveRejects(c) ==
  /\ pc[c] = "prepare"
  /\ failures' = [failures EXCEPT ![c] = Append(@, position[c])]
  /\ \/ /\ position[c] < total[c]
        /\ position' = [position EXCEPT ![c] = @ + 1]
        /\ UNCHANGED pc
     \/ /\ position[c] = total[c]
        /\ pc' = [pc EXCEPT ![c] = "failed"]
        /\ UNCHANGED position
  /\ UNCHANGED <<request, loop, total, attempt, reaped, registry, loaded>>

(* A candidate validated: the subtitle track, if any, is awaited next.      *)
ResolvePrepares(c) ==
  /\ pc[c] = "prepare"
  /\ pc' = [pc EXCEPT ![c] = "subtitle"]
  /\ UNCHANGED <<request, loop, progress, reaped, registry, loaded>>

(* Slips: the monitor is told that it supervises the first candidate; it is *)
(* handed the whole ranking instead of what is left of it.                  *)
RegisterAsFirst(c) ==
  /\ pc[c] = "subtitle"
  /\ pc' = [pc EXCEPT ![c] = "done"]
  /\ target[c] # NoPlayer
  /\ loop' = [loop EXCEPT ![c] = "wait"]
  /\ attempt' = [attempt EXCEPT ![c] = 1]
  /\ playback_tasks' = [playback_tasks EXCEPT ![target[c]] = c]
  /\ UNCHANGED <<request, total, position, failures, reaped, loaded, owner, contended>>

RegisterWholeRanking(c) ==
  /\ pc[c] = "subtitle"
  /\ pc' = [pc EXCEPT ![c] = "done"]
  /\ target[c] # NoPlayer
  /\ loop' = [loop EXCEPT ![c] = "wait"]
  /\ position' = [position EXCEPT ![c] = 1]
  /\ attempt' = [attempt EXCEPT ![c] = 1]
  /\ playback_tasks' = [playback_tasks EXCEPT ![target[c]] = c]
  /\ UNCHANGED <<request, total, failures, reaped, loaded, owner, contended>>

(* With a player: create the monitor task, store it (whatever the registry  *)
(* holds by now) and return the URL, which Home Assistant then sends to the *)
(* player itself.  Without a player: just return it.                        *)
Register(c) ==
  LET p == target[c] IN
  /\ pc[c] = "subtitle"
  /\ pc' = [pc EXCEPT ![c] = "done"]
  /\ \/ /\ p = NoPlayer
        /\ UNCHANGED <<loop, attempt, registry>>
     \/ /\ p # NoPlayer
        /\ loop' = [loop EXCEPT ![c] = "wait"]
        /\ attempt' = [attempt EXCEPT ![c] = position[c]]
        /\ playback_tasks' = [playback_tasks EXCEPT ![p] = c]
        /\ contended' = IF owner[p] = c THEN contended ELSE contended \cup {p}
        /\ UNCHANGED owner
  /\ UNCHANGED <<request, total, position, failures, reaped, loaded>>

-----------------------------------------------------------------------------
(* The fallback loop: the body of async_play_ranked_candidates and of the   *)
(* monitor async_monitor_initial_and_fallback, over _async_attempt_candidate*)

(* What ends with the loop: a service call returns or raises with it.       *)
FinishHandler(c, end) ==
  pc' = IF kind[c] = "play" THEN [pc EXCEPT ![c] = end] ELSE pc

LoopSession(c) ==
  /\ loop[c] = "session"
  /\ loop' = [loop EXCEPT ![c] = "prepare"]
  /\ UNCHANGED <<request, pc, progress, reaped, registry, loaded>>

(* The candidate resolved and play_media returned.                          *)
LoopSends(c) ==
  /\ loop[c] = "prepare"
  /\ loop' = [loop EXCEPT ![c] = "wait"]
  /\ UNCHANGED <<request, pc, progress, reaped, registry, loaded>>

(* async_wait_for_playback_start saw the player playing.                    *)
LoopSucceeds(c) ==
  /\ loop[c] = "wait"
  /\ loop' = [loop EXCEPT ![c] = "started"]
  /\ FinishHandler(c, "done")
  /\ UNCHANGED <<request, progress, reaped, registry, loaded>>

(* A slip: a loop that does not stop at its last candidate.                 *)
LoopRetriesLast(c) ==
  /\ loop[c] \in {"prepare", "wait"}
  /\ loop' = [loop EXCEPT ![c] = "session"]
  /\ IF position[c] < total[c]
     THEN /\ failures' = [failures EXCEPT ![c] = Append(@, position[c])]
          /\ position' = [position EXCEPT ![c] = @ + 1]
          /\ attempt' = [attempt EXCEPT ![c] = @ + 1]
     ELSE UNCHANGED <<failures, position, attempt>>
  /\ UNCHANGED <<request, pc, total, reaped, registry, loaded>>

(* The attempt failed: an exception while resolving or sending (the command *)
(* may have reached the player), or no playback within the timeout.  Its    *)
(* failure is recorded and the next candidate announced; after the last one *)
(* the failure of all is notified.                                          *)
LoopFails(c) ==
  /\ loop[c] \in {"prepare", "wait"}
  /\ failures' = [failures EXCEPT ![c] = Append(@, position[c])]
  /\ \/ /\ position[c] < total[c]
        /\ loop' = [loop EXCEPT ![c] = "session"]
        /\ position' = [position EXCEPT ![c] = @ + 1]
        /\ attempt' = [attempt EXCEPT ![c] = @ + 1]
        /\ UNCHANGED pc
     \/ /\ position[c] = total[c]
        /\ loop' = [loop EXCEPT ![c] = "failed"]
        /\ FinishHandler(c, "failed")
        /\ UNCHANGED <<position, attempt>>
  /\ UNCHANGED <<request, total, reaped, registry, loaded>>

(* Slips: the callback pops the player's entry whoever owns it; it returns  *)
(* before the pop.                                                          *)
RemoveWhatever(c) ==
  /\ kind[c] = "resolve"
  /\ loop[c] \in {"started", "failed", "cancelled"}
  /\ ~reaped[c]
  /\ reaped' = [reaped EXCEPT ![c] = TRUE]
  /\ playback_tasks' = [playback_tasks EXCEPT ![target[c]] = NoCall]
  /\ UNCHANGED <<request, pc, loop, progress, loaded, owner, contended>>

RemoveNothing(c) ==
  /\ kind[c] = "resolve"
  /\ loop[c] \in {"started", "failed", "cancelled"}
  /\ ~reaped[c]
  /\ reaped' = [reaped EXCEPT ![c] = TRUE]
  /\ UNCHANGED <<request, pc, loop, progress, registry, loaded>>

(* _remove_finished, the done callback of a monitor that ended in any way:  *)
(* the registry entry goes only if it still is this task.                   *)
RemoveFinished(c) ==
  /\ kind[c] = "resolve"
  /\ loop[c] \in {"started", "failed", "cancelled"}
  /\ ~reaped[c]
  /\ reaped' = [reaped EXCEPT ![c] = TRUE]
  /\ playback_tasks' = [p \in Players |->
       IF p = target[c] /\ playback_tasks[p] = c THEN NoCall
                                                 ELSE playback_tasks[p]]
  /\ UNCHANGED <<request, pc, loop, progress, loaded, owner, contended>>

-----------------------------------------------------------------------------
(* The caller (a script, an automation, a client) cancels a pending call,   *)
(* or an exception that no handler retries leaves it.                       *)
Aborts(c) ==
  /\ pc[c] \in Awaiting
  /\ pc' = [pc EXCEPT ![c] = "error"]
  /\ loop' = IF pc[c] = "loop" THEN [loop EXCEPT ![c] = "cancelled"] ELSE loop
  /\ UNCHANGED <<request, progress, reaped, registry, loaded>>

(* async_unload_entry, once the platforms are unloaded: every registered    *)
(* monitor is cancelled and the registry cleared.  Calls in flight keep     *)
(* their reference to the runtime and go on.                                *)
Unload ==
  /\ loaded
  /\ loaded' = FALSE
  /\ loop' = [c \in Calls |->
                IF Live(c) /\ \E p \in Players : playback_tasks[p] = c
                THEN "cancelled" ELSE loop[c]]
  /\ playback_tasks' = [p \in Players |-> NoCall]
  /\ owner' = [p \in Players |-> NoCall]
  /\ UNCHANGED <<request, pc, progress, reaped, contended>>

HandlerStep(c) ==
  \/ NoStreams(c) \/ PlayTakesOver(c) \/ SessionReady(c) \/ CommandUrl(c)
  \/ ResolveRejects(c) \/ ResolvePrepares(c) \/ Register(c)
  \/ \E n \in RankedLengths : StartLoop(c, n) \/ ResolveRanks(c, n)

LoopStep(c) ==
  \/ LoopSession(c) \/ LoopSends(c) \/ LoopSucceeds(c) \/ LoopFails(c)

Next ==
  \/ \E c \in Calls, k \in AllKinds, p \in Players \cup {NoPlayer} :
       Begin(c, k, p)
  \/ \E c \in Calls : HandlerStep(c) \/ LoopStep(c) \/ RemoveFinished(c)
  \/ \E c \in Calls : Aborts(c)
  \/ Unload

Spec == Init /\ [][Next]_vars

(* Every suspended step is resumed: provider and stream-server requests     *)
(* carry timeouts, the start-up wait has a deadline, callbacks are run by   *)
(* the event loop, and the media_player services are assumed to return.     *)
(* Nobody has to start, cancel or unload anything.                          *)
Fairness ==
  \A c \in Calls :
    WF_vars(HandlerStep(c)) /\ WF_vars(LoopStep(c)) /\ WF_vars(RemoveFinished(c))

FairSpec == Spec /\ Fairness

-----------------------------------------------------------------------------
TypeOK ==
  /\ kind \in [Calls -> AllKinds \cup {"none"}]
  /\ target \in [Calls -> Players \cup {NoPlayer}]
  /\ pc \in [Calls -> Awaiting \cup Ended \cup {"idle"}]
  /\ loop \in [Calls -> Working \cup {"none", "started", "failed", "cancelled"}]
  /\ total \in [Calls -> Nat]
  /\ position \in [Calls -> Nat]
  /\ attempt \in [Calls -> Nat]
  /\ failures \in [Calls -> Seq(Nat)]
  /\ reaped \in [Calls -> BOOLEAN]
  /\ playback_tasks \in [Players -> Calls \cup {NoCall}]
  /\ loaded \in BOOLEAN
  /\ owner \in [Players -> Calls \cup {NoCall}]
  /\ contended \in SUBSET Players

(* The failures recorded for a request are exactly the ranks below the      *)
(* candidate in hand, each once and in rank order, whichever of the three   *)
(* places recorded them (validation in async_resolve_media, the initial     *)
(* wait of the monitor, the loop): so the attempt number announced is the   *)
(* rank being tried, no candidate is skipped or tried twice, and the report *)
(* "attempts=total" comes with one reason per candidate.                    *)
RanksUpTo(n) == [i \in 1..n |-> i]

FailureAccounting ==
  \A c \in Calls :
    /\ Live(c) \/ loop[c] = "started" =>
         /\ failures[c] = RanksUpTo(position[c] - 1)
         /\ attempt[c] = position[c]
         /\ position[c] \in 1..total[c]
    /\ "failed" \in {loop[c], pc[c]} => failures[c] = RanksUpTo(total[c])

(* A request tries MaxCount candidates at most, whatever the option         *)
(* holds and wherever the attempts are made, and none is reported to have   *)
(* failed before one was tried, even if the option holds 0.                 *)
(* (limit_ranked_candidates, async_resolve_media, the loop and the monitor) *)
AttemptsLimited ==
  \A c \in Calls :
    /\ Live(c) => attempt[c] \in 1..MaxCount
    /\ "failed" \in {loop[c], pc[c]} => Len(failures[c]) \in 1..MaxCount

(* Unless a request that had been superseded registered a monitor late, the *)
(* live monitor of a player is the one in playback_tasks and belongs to the *)
(* call that took the player over last; so there is at most one, and a      *)
(* newer playback or an unload has stopped every older one.                 *)
MonitorDiscipline ==
  \A c \in Calls :
    LiveMonitor(c) /\ target[c] \notin contended =>
      playback_tasks[target[c]] = c /\ owner[target[c]] = c

(* What playback_tasks holds is a monitor of that player which is running,  *)
(* or has ended by itself and whose done callback is due: never a cancelled *)
(* task, never a task whose callback has come and gone.                     *)
RegistrySound ==
  \A p \in Players : playback_tasks[p] # NoCall =>
    LET c == playback_tasks[p] IN
    /\ kind[c] = "resolve" /\ target[c] = p
    /\ Live(c) \/ (loop[c] \in {"started", "failed"} /\ ~reaped[c])

(* A running monitor leaves the registry only by being cancelled or by      *)
(* another monitor replacing it: the done callback of an older task never   *)
(* evicts it (_remove_finished checks identity).                            *)
NoForeignEviction ==
  [][\A p \in Players, c \in Calls :
       playback_tasks[p] = c /\ Live(c) /\ playback_tasks'[p] # c =>
         loop'[c] # loop[c] \/ playback_tasks'[p] # NoCall]_vars

(* Every request that was made ends, whatever its streams and player do.    *)
CallsEnd ==
  \A c \in Calls : (pc[c] # "idle") ~> (pc[c] \in Ended)

(* Once requests stop coming the registry empties: every monitor ends and   *)
(* its callback removes it.                                                 *)
RegistryDrains ==
  <>[](\A p \in Players : playback_tasks[p] = NoCall)

(* CHANGELOG 0.5.0, "Cancela supervisores anteriores cuando se inicia una   *)
(* nueva reproduccion en el mismo dispositivo": once a newer request has    *)
(* taken the player over, no older loop or monitor is still at work on it.  *)
(* Violated: the loop of handle_play is registered nowhere, and a           *)
(* media-source request registers its monitor without looking whether it    *)
(* was superseded meanwhile.                                                *)
NewerPlaybackStopsOlder ==
  \A c \in Calls : Live(c) => owner[target[c]] \in {c, NoCall}
=============================================================================
