--------------------------- MODULE AccountTracker ---------------------------
(***************************************************************************)
(* StremioAccountPlaybackTracker: the playback session of one player, the  *)
(* seek that resumes a saved position, and the progress writes to the      *)
(* account, which a lock serializes.                                       *)
(*                                                                         *)
(* A position is the identity of the report that carried it: report k is   *)
(* the k-th state change of the player that bore a position.  What matters *)
(* is whose position is stored under whose title, and in which order.      *)
(*                                                                         *)
(* hass.async_create_task runs a task up to its first suspension, so the   *)
(* identity check of _write_progress, and the way to the lock, belong to   *)
(* the report that created the task.                                       *)
(***************************************************************************)
EXTENDS Integers, Sequences

CONSTANTS
  Media,       \* titles
  Sessions,    \* bound: PlaybackSession objects
  MaxReports,  \* bound: reports that carry a position
  MaxWaiting,  \* bound: writes waiting for the lock
  NoMedia,     \* the title of a session that does not exist yet
  NoSession    \* self.session is None, or nobody

ASSUME TrackerConstantsOK ==
  /\ MaxReports \in Nat
  /\ MaxWaiting \in Nat
  /\ NoMedia \notin Media
  /\ NoSession \notin Sessions

Reports == 0..MaxReports  \* 0: no position yet

VARIABLES
  screen,   \* what the player shows; nothing counts as any other title
  heard,    \* history: for each report with a position, the session that took it
  session,  \* self.session
  media,    \* each session's title
  resume,   \* each session's resume: "none", "saved", "seeking", "sought"
  last,     \* each session's last_position
  waiting,  \* tasks waiting for _write_lock, in order
  sending,  \* writes that were let through and are not answered
  remote,   \* the position the account holds for each title
  stopping, \* async_stop: "no", "flushing", "done"
  owed,     \* history: each title's position when playback last paused or stopped
  lost      \* history: a write was lost

tracker_vars == <<screen, heard, session, media, resume, last, waiting, sending,
                  remote, stopping, owed, lost>>

player == <<screen, heard, owed, lost>>
track  == <<session, media, resume, last>>
writes == <<waiting, sending, remote>>

\* A write task: the session it is for, and whether async_stop awaits it.
Tasks == [of : Sessions, flush : BOOLEAN]

Writes == [of : Sessions, flush : BOOLEAN, at : Reports]

TrackerInit ==
  /\ screen \in Media
  /\ heard = <<>>
  /\ session = NoSession
  /\ media = [s \in Sessions |-> NoMedia]
  /\ resume = [s \in Sessions |-> "none"]
  /\ last = [s \in Sessions |-> 0]
  /\ waiting = <<>>
  /\ sending = {}
  /\ remote = [m \in Media |-> 0]
  /\ stopping = "no"
  /\ owed = [m \in Media |-> 0]
  /\ lost = FALSE

-----------------------------------------------------------------------------
(* prepare_session, from a play service call (never with a resume position) *)
(* or from the media source, before anything is sent to the player.  A      *)
(* resume position below fifteen seconds counts as none.                    *)
Prepare(s, m, saved) ==
  /\ stopping # "done"
  /\ media[s] = NoMedia
  /\ session' = s
  /\ media' = [media EXCEPT ![s] = m]
  /\ resume' = [resume EXCEPT ![s] = IF saved THEN "saved" ELSE "none"]
  /\ UNCHANGED <<player, last, writes, stopping>>

(* _write_progress(s), created while s is the session: it passes the        *)
(* identity check and gets in line for the lock.                            *)
Enqueue(s, flush) == waiting' = Append(waiting, [of |-> s, flush |-> flush])

(* When a report leads to a write: a position is known, and the state is    *)
(* terminal (paused, idle, off, standby, unavailable) or sixty seconds have *)
(* passed since the last write was created.                                 *)
WriteOnlyWhenDue(position, state, due) == position > 0 /\ due  \* a slip

WriteWanted(position, state, due) == position > 0 /\ (state = "terminal" \/ due)

(* The player, whatever it shows, changes state or attributes; the listener *)
(* of the current session runs within the report.                           *)
PlayerReports(m, state, positioned, due) ==
  LET s == session
      position == IF positioned THEN Len(heard) + 1 ELSE last[s]
  IN
  /\ session # NoSession
  /\ positioned => Len(heard) < MaxReports
  /\ WriteWanted(position, state, due) => Len(waiting) < MaxWaiting
  /\ screen' = m
  /\ heard' = IF positioned THEN Append(heard, s) ELSE heard
  /\ last' = [last EXCEPT ![s] = position]
  /\ resume' = IF state = "playing" /\ resume[s] = "saved"
               THEN [resume EXCEPT ![s] = "seeking"] ELSE resume
  /\ IF WriteWanted(position, state, due) THEN Enqueue(s, FALSE) ELSE UNCHANGED waiting
  /\ owed' = IF state = "terminal" THEN [owed EXCEPT ![media[s]] = position] ELSE owed
  /\ UNCHANGED <<session, media, sending, remote, stopping, lost>>

(* Without a session nobody listens.                                        *)
PlayerUnheard(m) ==
  /\ session = NoSession
  /\ screen' = m
  /\ UNCHANGED <<heard, owed, lost, track, writes, stopping>>

(* _apply_resume after its sleep: seek, if the session is still the current *)
(* one.  Where the seek takes the player shows in later reports.            *)
SeekAnyway(s) ==  \* a slip: no identity check
  /\ resume[s] = "seeking"
  /\ resume' = [resume EXCEPT ![s] = "sought"]
  /\ UNCHANGED <<player, session, media, last, writes, stopping>>

ApplyResume(s) ==
  /\ resume[s] = "seeking"
  /\ resume' = [resume EXCEPT ![s] = IF session = s THEN "sought" ELSE "none"]
  /\ UNCHANGED <<player, session, media, last, writes, stopping>>

-----------------------------------------------------------------------------
(* The lock is free for the next in line.                                   *)
Unlocked == TRUE  \* a slip: writes go out as they come

LockFree == sending = {}

(* The position a write carries is read when it gets the lock.              *)
CurrentPosition(s) ==  \* a slip: of whatever session is current by then
  IF session = NoSession THEN last[s] ELSE last[session]

Position(s) == last[s]

LetThrough ==
  /\ waiting # <<>>
  /\ LockFree
  /\ sending' = sending \cup {[of |-> Head(waiting).of, flush |-> Head(waiting).flush,
                               at |-> Position(Head(waiting).of)]}
  /\ waiting' = Tail(waiting)
  /\ UNCHANGED <<player, track, remote, stopping>>

(* What follows when async_stop's own write has ended: the listeners go and *)
(* so does the session.                                                     *)
EndStop(w) ==
  IF w.flush THEN stopping' = "done" /\ session' = NoSession
             ELSE UNCHANGED <<stopping, session>>

(* The account stored the position.                                         *)
PutSucceeds(w) ==
  /\ w \in sending
  /\ sending' = sending \ {w}
  /\ remote' = [remote EXCEPT ![media[w.of]] = w.at]
  /\ EndStop(w)
  /\ UNCHANGED <<player, media, resume, last, waiting>>

PutLeavesStop(w) ==  \* a slip: the exception leaves async_stop too
  /\ w \in sending
  /\ sending' = sending \ {w}
  /\ lost' = TRUE
  /\ UNCHANGED <<screen, heard, owed, track, waiting, remote, stopping>>

(* The request failed, before or after the account stored the position, or  *)
(* the title is not in the library; only logged.                            *)
PutIsLost(w) ==
  /\ w \in sending
  /\ sending' = sending \ {w}
  /\ remote' \in {remote, [remote EXCEPT ![media[w.of]] = w.at]}
  /\ lost' = TRUE
  /\ EndStop(w)
  /\ UNCHANGED <<screen, heard, owed, media, resume, last, waiting>>

(* async_stop, when the entity is removed.  With a position to flush, the   *)
(* listeners stay until the write is answered.                              *)
Stop ==
  /\ stopping = "no"
  /\ \/ /\ session # NoSession
        /\ last[session] > 0
        /\ Enqueue(session, TRUE)
        /\ stopping' = "flushing"
        /\ UNCHANGED session
     \/ /\ session # NoSession => last[session] = 0
        /\ stopping' = "done"
        /\ session' = NoSession
        /\ UNCHANGED waiting
  /\ UNCHANGED <<player, media, resume, last, sending, remote>>

TrackerNext ==
  \/ \E s \in Sessions, m \in Media, saved \in BOOLEAN : Prepare(s, m, saved)
  \/ \E m \in Media, state \in {"playing", "terminal", "other"},
        positioned, due \in BOOLEAN : PlayerReports(m, state, positioned, due)
  \/ \E m \in Media : PlayerUnheard(m)
  \/ \E s \in Sessions : ApplyResume(s)
  \/ LetThrough
  \/ \E w \in sending : PutSucceeds(w) \/ PutIsLost(w)
  \/ Stop

TrackerSpec == TrackerInit /\ [][TrackerNext]_tracker_vars

(* Sleeps end and requests are bounded by the session's timeout.            *)
TrackerFairness ==
  /\ WF_tracker_vars(LetThrough)
  /\ WF_tracker_vars(\E w \in sending : PutSucceeds(w) \/ PutIsLost(w))
  /\ \A s \in Sessions : WF_tracker_vars(ApplyResume(s))

FairTrackerSpec == TrackerSpec /\ TrackerFairness

-----------------------------------------------------------------------------
TrackerTypeOK ==
  /\ screen \in Media
  /\ heard \in Seq(Sessions)
  /\ session \in Sessions \cup {NoSession}
  /\ media \in [Sessions -> Media \cup {NoMedia}]
  /\ resume \in [Sessions -> {"none", "saved", "seeking", "sought"}]
  /\ last \in [Sessions -> Reports]
  /\ waiting \in Seq(Tasks)
  /\ sending \subseteq Writes
  /\ remote \in [Media -> Reports]
  /\ stopping \in {"no", "flushing", "done"}
  /\ owed \in [Media -> Reports]
  /\ lost \in BOOLEAN

(* The position stored for a title was heard by a session on that title:    *)
(* sessions that follow each other, and writes of an old session that get   *)
(* the lock when a new one is current, never mix their positions.           *)
OwnReports ==
  \A m \in Media : remote[m] > 0 =>
    media[heard[remote[m]]] = m

(* The account never goes back to an older position of a title: the lock    *)
(* keeps writes in the order of the reports behind them, over all sessions. *)
RemoteMovesForward ==
  [][\A m \in Media : remote'[m] >= remote[m]]_tracker_vars

(* docs/stremio-account.md, "immediately when playback pauses or stops":    *)
(* what the player reported then reaches the account unless a write is      *)
(* lost, whatever other titles are requested meanwhile.                     *)
PauseIsSaved ==
  \A m \in Media : \A k \in Reports : owed[m] = k ~> remote[m] >= k \/ lost

(* async_stop ends even if its last write fails.                            *)
StopEnds == stopping = "flushing" ~> stopping = "done"

(* docs/stremio-account.md: selecting a resume item plays it, "then seeks   *)
(* the physical media_player to the saved position".  Violated: the title   *)
(* still playing when the item is selected consumes the seek.               *)
SeekHitsResumedTitle ==
  [][\A s \in Sessions :
       resume[s] # "sought" /\ resume'[s] = "sought" => screen = media[s]]_tracker_vars
=============================================================================
