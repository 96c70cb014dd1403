---------------------------- MODULE CacheCleanup ----------------------------
(***************************************************************************)
(* StreamServerCacheCleanupTracker: thirty seconds after the tracked       *)
(* player has stopped, ask the stream server to discard its cache; a       *)
(* playback that begins meanwhile cancels the pending request.             *)
(*                                                                         *)
(* The pending cleanup is an asyncio task remembered in _cleanup_task.     *)
(* Cancelling it is a request: the task unwinds later, and its finally     *)
(* clause then resets _cleanup_task, whatever is stored there by now.      *)
(*                                                                         *)
(* The names are its own, for it may stand beside what else is modelled of *)
(* a player.                                                               *)
(***************************************************************************)
EXTENDS Integers

CONSTANTS
  Players,  \* media_player entities
  Tasks,    \* bound: cleanup tasks that exist at the same time
  NoTask,   \* no pending cleanup
  NoPlayer  \* nothing tracked

ASSUME NamesOK == NoTask \notin Tasks /\ NoPlayer \notin Players

(* What the tracker distinguishes in a player's state: "active" stands for  *)
(* playing, buffering and paused, "terminal" for idle, off, standby and     *)
(* unavailable, "other" for every other state and for a missing entity.     *)
StateClasses == {"active", "terminal", "other"}

VARIABLES
  player_state,  \* class of each player's current state
  tracked,       \* _player
  cleanup_task,  \* _cleanup_task
  task,          \* each task: "free", "sleeping", "posting", "unwinding"
  stopped,       \* async_stop has run
  due,           \* history: a cleanup was scheduled and nothing annulled it
  erased         \* history: an unwinding task reset its successor's handle

cleanup_vars == <<player_state, tracked, cleanup_task, task, stopped, due, erased>>

CleanupInit ==
  /\ player_state \in [Players -> StateClasses]
  /\ tracked = NoPlayer
  /\ cleanup_task = NoTask
  /\ task = [t \in Tasks |-> "free"]
  /\ stopped = FALSE
  /\ due = FALSE
  /\ erased = FALSE

Pending(t) == task[t] \in {"sleeping", "posting"}

-----------------------------------------------------------------------------
(* The tasks once _cancel_cleanup has run.                                  *)
Cancelled ==
  [t \in Tasks |-> IF t = cleanup_task /\ Pending(t) THEN "unwinding" ELSE task[t]]

CancelCleanup ==
  /\ task' = Cancelled
  /\ cleanup_task' = NoTask
  /\ due' = FALSE

(* Slips: nothing is cancelled first; the new task is the one cancelled.    *)
ScheduleAnother ==
  \E t \in Tasks :
    /\ task[t] = "free"
    /\ task' = [task EXCEPT ![t] = "sleeping"]
    /\ cleanup_task' = t
    /\ due' = TRUE

ScheduleThenCancel ==
  \E t \in Tasks :
    /\ task[t] = "free"
    /\ task' = [task EXCEPT ![t] = "unwinding"]
    /\ cleanup_task' = NoTask
    /\ due' = TRUE

(* _schedule_cleanup: cancel what is pending, then create a new task, which *)
(* runs up to its sleep.                                                    *)
ScheduleCleanup ==
  \E t \in Tasks :
    /\ task[t] = "free"
    /\ task' = [Cancelled EXCEPT ![t] = "sleeping"]
    /\ cleanup_task' = t
    /\ due' = TRUE

(* A play or play_url service call names (or defaults to) player p:         *)
(* _handle_service_call prepares the tracker for it.                        *)
Prepare(p) ==
  /\ ~stopped
  /\ CancelCleanup
  /\ tracked' = p
  /\ UNCHANGED <<player_state, stopped, erased>>

(* A slip: activity of the player is not looked at.                         *)
PlayerReportsTerminalOnly(p, class) ==
  /\ player_state' = [player_state EXCEPT ![p] = class]
  /\ \/ /\ p = tracked /\ class = "terminal"
        /\ ScheduleCleanup
     \/ /\ p # tracked \/ class # "terminal"
        /\ UNCHANGED <<task, cleanup_task, due>>
  /\ UNCHANGED <<tracked, stopped, erased>>

(* Player p reports a state, possibly the one it had; the tracker's         *)
(* listener runs within the report.                                         *)
PlayerReports(p, class) ==
  /\ player_state' = [player_state EXCEPT ![p] = class]
  /\ \/ /\ p = tracked /\ class = "active"
        /\ CancelCleanup
     \/ /\ p = tracked /\ class = "terminal"
        /\ ScheduleCleanup
     \/ /\ p # tracked \/ class = "other"
        /\ UNCHANGED <<task, cleanup_task, due>>
  /\ UNCHANGED <<tracked, stopped, erased>>

(* The finally clause of _delayed_cleanup, however the task ended.          *)
Ends(t) ==
  /\ task' = [task EXCEPT ![t] = "free"]
  /\ cleanup_task' = NoTask

(* The sleep is over.  The cleanup is requested if the player tracked now   *)
(* is in a terminal state now, and a control URL can be derived.            *)
Wakes(t) ==
  /\ task[t] = "sleeping"
  /\ \/ /\ tracked # NoPlayer
        /\ player_state[tracked] = "terminal"
        /\ task' = [task EXCEPT ![t] = "posting"]
        /\ UNCHANGED cleanup_task
     \/ Ends(t)
  /\ due' = FALSE
  /\ UNCHANGED <<player_state, tracked, stopped, erased>>

(* The request was answered, or failed: both are only logged.               *)
PostEnds(t) ==
  /\ task[t] = "posting"
  /\ Ends(t)
  /\ UNCHANGED <<player_state, tracked, stopped, due, erased>>

(* A cancelled task gets its CancelledError.                                *)
Unwinds(t) ==
  /\ task[t] = "unwinding"
  /\ Ends(t)
  /\ erased' = (erased \/ cleanup_task # NoTask)
  /\ UNCHANGED <<player_state, tracked, stopped, due>>

(* A slip: a stopped tracker still knows its player.                        *)
StopKeepingPlayer ==
  /\ ~stopped
  /\ CancelCleanup
  /\ stopped' = TRUE
  /\ UNCHANGED <<player_state, tracked, erased>>

(* async_stop.                                                              *)
Stop ==
  /\ ~stopped
  /\ CancelCleanup
  /\ tracked' = NoPlayer
  /\ stopped' = TRUE
  /\ UNCHANGED <<player_state, erased>>

CleanupNext ==
  \/ \E p \in Players : Prepare(p)
  \/ \E p \in Players, class \in StateClasses : PlayerReports(p, class)
  \/ \E t \in Tasks : Wakes(t) \/ PostEnds(t) \/ Unwinds(t)
  \/ Stop

CleanupSpec == CleanupInit /\ [][CleanupNext]_cleanup_vars

(* Sleeps end, requests are bounded by their ten-second timeout, and the    *)
(* event loop delivers cancellations.  Players owe nothing.                 *)
CleanupFairness ==
  \A t \in Tasks : /\ WF_cleanup_vars(Wakes(t))
                   /\ WF_cleanup_vars(PostEnds(t))
                   /\ WF_cleanup_vars(Unwinds(t))

FairCleanupSpec == CleanupSpec /\ CleanupFairness

-----------------------------------------------------------------------------
CleanupTypeOK ==
  /\ player_state \in [Players -> StateClasses]
  /\ tracked \in Players \cup {NoPlayer}
  /\ cleanup_task \in Tasks \cup {NoTask}
  /\ task \in [Tasks -> {"free", "sleeping", "posting", "unwinding"}]
  /\ stopped \in BOOLEAN
  /\ due \in BOOLEAN
  /\ erased \in BOOLEAN

(* _cleanup_task never holds a task that has ended or is already cancelled, *)
(* so the guard "not task.done()" of _cancel_cleanup is never what saves it.*)
HandleIsPending ==
  cleanup_task # NoTask => Pending(cleanup_task)

(* As long as no finally clause has reset the handle of a newer task, every *)
(* pending cleanup is the one _cleanup_task holds: it can be cancelled, and *)
(* there is at most one.                                                    *)
PendingIsKnown ==
  ~erased => \A t \in Tasks : Pending(t) => cleanup_task = t

(* ... and then a player that is in use has no cleanup pending against it,  *)
(* nor has a stopped tracker.                                               *)
InUseIsSafe ==
  ~erased /\ (stopped \/ (tracked # NoPlayer /\ player_state[tracked] = "active")) =>
    cleanup_task = NoTask \/ task[cleanup_task] = "posting"

(* No request is started on behalf of a tracker that was stopped, not even  *)
(* by a task whose handle was lost.                                         *)
StopIsFinal ==
  [][\A t \in Tasks :
        task[t] = "sleeping" /\ task'[t] = "posting" => ~stopped]_cleanup_vars

(* A cleanup that was scheduled is followed by its decision: a request, or  *)
(* the player, a new playback or the stop annuls it.  Losing the handle     *)
(* does not lose the cleanup.                                               *)
DueIsServed == due ~> ~due

(* tests/test_cache_cleanup.py, test_new_playback_cancels_pending_cleanup:  *)
(* once the tracked player plays again no cleanup is left pending.          *)
(* Violated after two terminal reports in a row.                            *)
NewPlaybackCancelsPending ==
  tracked # NoPlayer /\ player_state[tracked] = "active" =>
    \A t \in Tasks : task[t] # "sleeping"
=============================================================================
