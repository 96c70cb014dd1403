-------------------------- MODULE PlaybackAttempt ---------------------------
(***************************************************************************)
(* One candidate on one player: async_prepare_player_session (stop the old *)
(* media, quit the Cast receiver), the play_media command, and the polls   *)
(* of async_wait_for_playback_start, which decide from what the player     *)
(* reports whether the candidate started.                                  *)
(*                                                                         *)
(* "attempt" is _async_attempt_candidate, which sends the command itself;  *)
(* "monitor" is a media-source request, whose URL Home Assistant sends     *)
(* while the monitor already polls.                                        *)
(*                                                                         *)
(* The player is free: it may obey a service call at once, late or never,  *)
(* end, fail, or change state by itself; only media that left the screen   *)
(* does not come back.  Clocks count polls; a sleep may last one too long. *)
(***************************************************************************)
EXTENDS Integers

CONSTANTS
  Settled,   \* polls in three seconds
  Grace,     \* polls in _MIN_STARTUP_GRACE_SECONDS
  Deadline,  \* polls until the deadline, which is at least three seconds
  OffPolls,  \* polls in _CAST_OFF_TIMEOUT_SECONDS
  LastPolls  \* polls in the two seconds of the last wait

ASSUME TimesOK ==
  /\ Settled \in Nat /\ Grace \in Nat /\ Deadline \in Nat
  /\ OffPolls \in Nat /\ LastPolls \in Nat
  /\ Deadline >= Settled

Success    == {"playing", "paused"}
Transition == {"buffering"}           \* and "on", "opening"
Inactive   == {"off", "idle"}         \* "standby" behaves as "idle"
Absent     == {"unavailable"}         \* and "unknown"
States     == Success \cup Transition \cup Inactive \cup Absent \cup {"missing"}

VARIABLES
  entry,     \* "attempt" or "monitor"
  stops,     \* the stop_before_play option
  resets,    \* a Cast player with cast_reset_before_play
  exposes,   \* the platform reports media_content_id
  state,     \* the state the player reports
  shows,     \* what it really shows: "nothing", "old", "new"
  sent,      \* the play command reached the player
  pc,        \* where the attempt is suspended
  changed,   \* of async_prepare_player_session: a service call succeeded
  clock,     \* polls of the wait in hand
  clear,     \* history: how the reset ended, "seen" or "told twice"
  initial,   \* initial_value
  moved,     \* state_changed
  started,   \* seen_transition
  steady     \* history: every poll saw the old media, in one state

vars == <<entry, stops, resets, exposes, state, shows, sent, pc, changed, clock,
          clear, initial, moved, started, steady>>

config   == <<entry, stops, resets, exposes>>
player   == <<state, shows>>
session  == <<changed, clear>>
evidence == <<initial, moved, started, steady>>

(* What a player can report of what it shows.                               *)
Reports(what) ==
  IF what = "nothing" THEN Inactive \cup Transition \cup Absent \cup {"missing"}
  ELSE Success \cup Transition \cup Absent \cup {"missing"}

(* The identity among the attributes of its state.                          *)
Content == IF exposes /\ state \in Success \cup Transition THEN shows ELSE "nothing"

Init ==
  /\ entry \in {"attempt", "monitor"}
  /\ stops \in BOOLEAN
  /\ resets \in BOOLEAN
  /\ exposes \in BOOLEAN
  /\ shows \in {"nothing", "old"}
  /\ state \in Reports(shows)
  /\ sent = FALSE
  /\ pc = "look"
  /\ changed = FALSE
  /\ clock = 0
  /\ clear = "no"
  /\ initial = "none"
  /\ moved = FALSE
  /\ started = FALSE
  /\ steady = TRUE

-----------------------------------------------------------------------------
(* The player.                                                              *)
PlayerActs(what, value) ==
  /\ \/ what = shows
     \/ what = "nothing"
     \/ what = "new" /\ sent
  /\ value \in Reports(what)
  /\ state' = value
  /\ shows' = what
  /\ UNCHANGED <<config, sent, pc, session, clock, evidence>>

-----------------------------------------------------------------------------
(* async_prepare_player_session.                                            *)

(* Media is stopped if the option says so and there may be any.  A player   *)
(* that is neither to be stopped nor reset is left alone.                   *)
Look ==
  /\ pc = "look"
  /\ pc' = IF stops /\ state \notin Inactive \cup Absent \cup {"missing"}
           THEN "stop"
           ELSE IF resets THEN "reset" ELSE "prepare"
  /\ UNCHANGED <<config, player, sent, session, clock, evidence>>

(* media_stop returned or raised (which is logged), and the player was      *)
(* given eight tenths of a second.                                          *)
Stopped(ok) ==
  /\ pc = "stop"
  /\ changed' = ok
  /\ pc' = IF resets THEN "reset" ELSE IF ok THEN "last" ELSE "prepare"
  /\ UNCHANGED <<config, player, sent, clear, clock, evidence>>

(* The Cast application is quit unless the player is off.                   *)
Reset ==
  /\ pc = "reset"
  /\ pc' = IF state = "off" THEN "off" ELSE "quit"
  /\ UNCHANGED <<config, player, sent, session, clock, evidence>>

Quit(ok) ==
  /\ pc = "quit"
  /\ changed' = (changed \/ ok)
  /\ pc' = "off"
  /\ UNCHANGED <<config, player, sent, clear, clock, evidence>>

(* A slip: the reset is not repeated for a player that ignored it.          *)
PollOffOnce ==
  /\ pc = "off"
  /\ pc' = "prepare"
  /\ clear' = IF state \in Inactive \cup {"missing"} THEN "seen" ELSE clear
  /\ UNCHANGED <<config, player, sent, changed, clock, evidence>>

(* _async_wait_until_inactive: five seconds for the receiver to close.      *)
PollOff ==
  /\ pc = "off"
  /\ \/ /\ clock < OffPolls
        /\ state \in Inactive \cup {"missing"}
        /\ clear' = "seen"
        /\ pc' = "prepare"
        /\ clock' = 0
     \/ /\ clock < OffPolls
        /\ state \notin Inactive \cup {"missing"}
        /\ \E late \in {0, 1} : clock' = clock + 1 + late
        /\ UNCHANGED <<pc, clear>>
     \/ /\ clock >= OffPolls
        /\ pc' = "again"
        /\ clock' = 0
        /\ UNCHANGED clear
  /\ UNCHANGED <<config, player, sent, changed, evidence>>

(* The second pass: media_stop and turn_off, whatever they answer.          *)
Again ==
  /\ pc = "again"
  /\ clear' = "told twice"
  /\ pc' = "last"
  /\ UNCHANGED <<config, player, sent, changed, clock, evidence>>

(* The last wait of two seconds, after the second pass or after a stop      *)
(* without reset.  Its outcome is logged and otherwise ignored.             *)
PollLast ==
  /\ pc = "last"
  /\ \/ /\ clock < LastPolls
        /\ state \notin Inactive \cup {"missing"}
        /\ \E late \in {0, 1} : clock' = clock + 1 + late
        /\ UNCHANGED pc
     \/ /\ clock >= LastPolls \/ state \in Inactive \cup {"missing"}
        /\ pc' = "prepare"
        /\ clock' = 0
  /\ UNCHANGED <<config, player, sent, session, evidence>>

-----------------------------------------------------------------------------
(* The candidate is resolved, or not (an attempt then fails).               *)
Prepared(ok) ==
  /\ pc = "prepare"
  /\ pc' = IF ~ok THEN "failed" ELSE IF entry = "attempt" THEN "send" ELSE "wait"
  /\ UNCHANGED <<config, player, sent, session, clock, evidence>>

(* play_media reached the player or not, and returned or raised.            *)
Send(reached, ok) ==
  /\ pc = "send"
  /\ ok => reached
  /\ sent' = reached
  /\ pc' = IF ok THEN "wait" ELSE "failed"
  /\ UNCHANGED <<config, player, session, clock, evidence>>

(* Home Assistant sends the URL of a media-source request.                  *)
HassSends ==
  /\ pc = "wait" /\ entry = "monitor"
  /\ ~sent
  /\ sent' = TRUE
  /\ UNCHANGED <<config, player, pc, session, clock, evidence>>

(* A slip: a content id that is not the expected one counts for as much as  *)
(* none.                                                                    *)
EvidentLater(matches, hasMoved) ==
  matches \/ hasMoved \/ started \/ clock >= Settled

(* A player reporting success is believed if it shows the expected content, *)
(* if its state changed since the first poll, if it was seen in transition, *)
(* or after three seconds if it shows no content id.                        *)
Evident(matches, hasMoved) ==
  matches \/ hasMoved \/ started \/ (Content = "nothing" /\ clock >= Settled)

(* Slip: the grace period does not depend on a transition.                  *)
HopelessAfterGrace ==
  state \in Inactive /\ clock >= Grace

Hopeless ==
  \/ state \in Inactive /\ clock >= Grace /\ started
  \/ state \in Absent /\ clock >= Settled

(* One round of the loop of async_wait_for_playback_start.                  *)
Poll ==
  LET hasMoved == moved \/ (initial # "none" /\ state # initial)
      taken    == state \in Success /\ Evident(Content = "new", hasMoved)
  IN
  /\ pc = "wait"
  /\ clock < Deadline
  /\ initial' = IF initial = "none" THEN state ELSE initial
  /\ moved' = hasMoved
  /\ started' = (started \/ state \in Transition)
  /\ steady' = (steady /\ Content = "old" /\ state \in Success /\ ~hasMoved)
  /\ \/ taken /\ pc' = "started" /\ UNCHANGED clock
     \/ ~taken /\ Hopeless /\ pc' = "failed" /\ UNCHANGED clock
     \/ /\ ~taken /\ ~Hopeless
        /\ \E late \in {0, 1} : clock' = clock + 1 + late
        /\ UNCHANGED pc
  /\ UNCHANGED <<config, player, sent, session>>

(* A slip: a player seen in transition gets the whole time again.           *)
TimedOutUnlessStarted ==
  /\ pc = "wait"
  /\ clock >= Deadline
  /\ pc' = IF started THEN pc ELSE "failed"
  /\ clock' = IF started THEN 0 ELSE clock
  /\ UNCHANGED <<config, player, sent, session, evidence>>

(* The deadline has passed; the player is not looked at again.              *)
TimedOut ==
  /\ pc = "wait"
  /\ clock >= Deadline
  /\ pc' = "failed"
  /\ UNCHANGED <<config, player, sent, session, clock, evidence>>

Session ==
  \/ Look \/ Reset \/ PollOff \/ Again \/ PollLast
  \/ \E ok \in BOOLEAN : Stopped(ok) \/ Quit(ok)

Attempt ==
  \/ Session \/ Poll \/ TimedOut
  \/ \E ok \in BOOLEAN : Prepared(ok) \/ \E reached \in BOOLEAN : Send(reached, ok)

Next ==
  \/ Attempt
  \/ HassSends
  \/ \E what \in {"nothing", "old", "new"}, value \in States : PlayerActs(what, value)

Spec == Init /\ [][Next]_vars

(* Sleeps end, and service calls return.  Nothing is owed by the player, or *)
(* by Home Assistant to a media-source request.                             *)
FairSpec == Spec /\ WF_vars(Attempt)

-----------------------------------------------------------------------------
(* Part of TypeOK: what is true or false.                                   *)
FlagsOK ==
  /\ stops \in BOOLEAN /\ resets \in BOOLEAN /\ exposes \in BOOLEAN /\ sent \in BOOLEAN
  /\ changed \in BOOLEAN /\ moved \in BOOLEAN /\ started \in BOOLEAN
  /\ steady \in BOOLEAN

TypeOK ==
  /\ FlagsOK
  /\ entry \in {"attempt", "monitor"}
  /\ state \in States
  /\ shows \in {"nothing", "old", "new"}
  /\ state \in Reports(shows)
  /\ pc \in {"look", "stop", "reset", "quit", "off", "again", "last", "prepare",
             "send", "wait", "started", "failed"}
  /\ clock \in Nat
  /\ pc \in {"look", "stop", "reset", "quit", "again", "prepare", "send"} => clock = 0
  /\ clear \in {"no", "seen", "told twice"}
  /\ initial \in States \cup {"none"}

(* With the reset enabled, no candidate is resolved or sent before the      *)
(* receiver was seen inactive or, after five seconds, told a second time to *)
(* stop: whatever the services answer and in whatever state it was found.   *)
CleanOrToldTwice ==
  resets /\ pc \in {"prepare", "send", "wait"} => clear # "no"

(* Old media that just goes on, in one state and with its own content id,   *)
(* is never taken for the start of the candidate.                           *)
SteadyStaleRejected ==
  pc = "started" => ~steady

(* An attempt is given up before its deadline only for a player that is     *)
(* unavailable or was seen to change: one that has been idle throughout is  *)
(* slow, not broken, and has the whole time the option grants.              *)
SlowPlayersGetTheirTime ==
  [][pc = "wait" /\ pc' = "failed" /\ clock < Deadline =>
       moved' \/ state \in Absent]_vars

(* The attempt ends, whatever the player does or ignores.                   *)
AttemptEnds == <>(pc \in {"started", "failed"})

(* session_control.py, of a Cast player that ignored both passes of the     *)
(* reset: "playback startup verification will reject stale media".          *)
(* Violated: old media that is paused, resumed or buffers between two polls *)
(* is taken for the start.                                                  *)
StaleIsRejected ==
  [][clear = "told twice" /\ exposes /\ pc = "wait" /\ pc' = "started"
       => shows # "old"]_vars
=============================================================================
