--------------------------- MODULE AccountClient ----------------------------
(***************************************************************************)
(* StremioAccountClient: the record of one library item, as the account    *)
(* keeps it and as the client copied it, the progress writes that start    *)
(* from the copy, and the refreshes that replace it.                       *)
(*                                                                         *)
(* One unit of time stands for sixty seconds.  A write computes the whole  *)
(* new record from the copy, sends it and, once it is answered, makes it   *)
(* the copy if the copy is still the object the write started from.  There *)
(* is one write at a time (the tracker holds a lock) and one refresh (the  *)
(* coordinator's); the tracker exists only after the first refresh, so     *)
(* there is always a copy.  Other devices may change the record too.       *)
(***************************************************************************)
EXTENDS Integers, FiniteSetsExt

CONSTANTS
  Videos,      \* episodes of the item; a movie has one
  Duration,    \* their durations
  MaxChanges,  \* bound: changes of the record at the account
  MaxSeen,     \* bound: time watched of each video
  MaxSeeks,    \* bound: forward seeks in each video
  MaxTurns,    \* bound: changes from one video to another
  NoVideo      \* of an item that was never played

ASSUME ConstantsOK ==
  /\ NoVideo \notin Videos
  /\ Duration \in [Videos -> Nat \ {0}]
  /\ {MaxChanges, MaxSeen, MaxSeeks, MaxTurns} \subseteq Nat

DeltaCap == 2  \* 120_000 milliseconds

None == {}

VARIABLES
  account,  \* the record at the account
  copy,     \* the item in _raw_library
  put,      \* the write under way, or None
  fetch,    \* the record a library request under way was served, or None
  video,    \* what the player shows
  at,       \* its position
  seen,     \* history: time each video was watched
  seeks,    \* history: forward seeks in each video
  spent,    \* history: time watched, with DeltaCap for each forward seek
  turns     \* history: changes of video

vars == <<account, copy, put, fetch, video, at, seen, seeks, spent, turns>>

sync   == <<account, copy, put, fetch>>
viewer == <<video, at, seen, seeks, spent, turns>>

-----------------------------------------------------------------------------
(* The record.  version is not a field of it: it numbers the states the     *)
(* record went through at the account.                                      *)
Blank(v) ==
  [video |-> v, offset |-> 0, duration |-> 0, watched |-> 0, overall |-> 0,
   flagged |-> FALSE, times |-> 0, removed |-> FALSE, version |-> 0]

(* The record goes on with video v; one without a video goes on with any.   *)
Continues(rec, v) == rec.video \in {v, NoVideo}

(* Slips: the delta is not capped; every write of a completed video counts  *)
(* as a viewing.                                                            *)
WholeDelta(rec, v, position) ==
  IF Continues(rec, v) /\ position > rec.offset THEN position - rec.offset ELSE 0

OneMoreTime(rec, v) == rec.times + 1

(* What a write counts as watched: the advance since the last position, at  *)
(* most two minutes of it, and nothing when the item turns to a new video.  *)
Delta(rec, v, position) ==
  IF Continues(rec, v) /\ position > rec.offset
  THEN Min({position - rec.offset, DeltaCap}) ELSE 0

(* A slip: all of the video's time is added by every write.                 *)
OverallAddedUp(rec, v, position) ==
  rec.overall + rec.watched + Delta(rec, v, position)

(* overallTimeWatched: it grows with the time of the video, and by all of   *)
(* that once more when the item turns to another video.                     *)
Overall(rec, v, position) ==
  rec.overall + (IF Continues(rec, v) THEN Delta(rec, v, position) ELSE rec.watched)

(* timesWatched of a video of which nine tenths have been watched.          *)
TimesWatched(rec, v) ==
  IF Continues(rec, v) /\ rec.flagged THEN rec.times ELSE rec.times + 1

(* async_update_progress, up to its request: the record to be stored.  The  *)
(* longest duration ever reported for the item counts.                      *)
Progress(rec, v, position) ==
  LET duration == Max({Duration[v], rec.duration})
      watched  == (IF Continues(rec, v) THEN rec.watched ELSE 0) + Delta(rec, v, position)
      complete == 10 * watched >= 9 * duration
  IN [rec EXCEPT !.video = v, !.offset = position, !.duration = duration,
        !.watched = watched, !.overall = Overall(rec, v, position), !.removed = FALSE,
        !.flagged = complete \/ (Continues(rec, v) /\ rec.flagged),
        !.times = IF complete THEN TimesWatched(rec, v) ELSE rec.times]

-----------------------------------------------------------------------------
Init ==
  /\ video \in Videos
  /\ account \in {Blank(v) : v \in Videos \cup {NoVideo}}
  /\ copy = account
  /\ put = None
  /\ fetch = None
  /\ at = 0
  /\ seen = [v \in Videos |-> 0]
  /\ seeks = [v \in Videos |-> 0]
  /\ spent = 0
  /\ turns = 0

(* The viewer watches on, seeks, or turns to another video.                 *)
Watch ==
  /\ at < Duration[video]
  /\ seen[video] < MaxSeen
  /\ at' = at + 1
  /\ seen' = [seen EXCEPT ![video] = @ + 1]
  /\ spent' = spent + 1
  /\ UNCHANGED <<sync, video, seeks, turns>>

Seek(to) ==
  /\ to > at => seeks[video] < MaxSeeks
  /\ at' = to
  /\ IF to > at THEN /\ seeks' = [seeks EXCEPT ![video] = @ + 1]
                     /\ spent' = spent + DeltaCap
                ELSE UNCHANGED <<seeks, spent>>
  /\ UNCHANGED <<sync, video, seen, turns>>

Turn(v) ==
  /\ v # video
  /\ turns < MaxTurns
  /\ video' = v
  /\ at' = 0
  /\ turns' = turns + 1
  /\ UNCHANGED <<sync, seen, seeks, spent>>

(* Another device removes the item from the library.                        *)
RemoveElsewhere ==
  /\ account.version < MaxChanges
  /\ ~account.removed
  /\ account' = [account EXCEPT !.removed = TRUE, !.version = @ + 1]
  /\ UNCHANGED <<copy, put, fetch, viewer>>

(* A write begins: the item is found in the copy, removed or not.           *)
StartWrite ==
  /\ put = None
  /\ at > 0
  /\ put' = {[rec |-> Progress(copy, video, at), stored |-> FALSE, ours |-> TRUE]}
  /\ UNCHANGED <<account, copy, fetch, viewer>>

(* The account stores the record, whatever it held.                         *)
StoreWrite(w) ==
  /\ w \in put
  /\ ~w.stored
  /\ account.version < MaxChanges
  /\ account' = [w.rec EXCEPT !.version = account.version + 1]
  /\ put' = {[w EXCEPT !.rec = account', !.stored = TRUE]}
  /\ UNCHANGED <<copy, fetch, viewer>>

(* A slip: the answer becomes the copy whatever the copy is by now.         *)
AnswerAlwaysKept(w) ==
  /\ w \in put
  /\ w.stored
  /\ copy' = w.rec
  /\ put' = None
  /\ UNCHANGED <<account, fetch, viewer>>

AnswerWrite(w) ==
  /\ w \in put
  /\ w.stored
  /\ copy' = IF w.ours THEN w.rec ELSE copy
  /\ put' = None
  /\ UNCHANGED <<account, fetch, viewer>>

(* The request fails, before or after the account stored the record.        *)
LoseWrite(w) ==
  /\ w \in put
  /\ put' = None
  /\ UNCHANGED <<account, copy, fetch, viewer>>

(* A refresh is served, is answered, or fails.                              *)
ServeFetch ==
  /\ fetch = None
  /\ fetch' = {account}
  /\ UNCHANGED <<account, copy, put, viewer>>

AnswerFetchOnce(rec) ==  \* a slip: what is loaded is not loaded again
  /\ rec \in fetch
  /\ fetch' = None
  /\ UNCHANGED <<account, copy, put, viewer>>

AnswerFetch(rec) ==
  /\ rec \in fetch
  /\ copy' = rec
  /\ put' = {[w EXCEPT !.ours = FALSE] : w \in put}
  /\ fetch' = None
  /\ UNCHANGED <<account, viewer>>

LoseFetch ==
  /\ fetch # None
  /\ fetch' = None
  /\ UNCHANGED <<account, copy, put, viewer>>

Next ==
  \/ Watch \/ RemoveElsewhere \/ StartWrite \/ ServeFetch \/ LoseFetch
  \/ \E to \in 0..Duration[video] : Seek(to)
  \/ \E v \in Videos : Turn(v)
  \/ \E w \in put : StoreWrite(w) \/ AnswerWrite(w) \/ LoseWrite(w)
  \/ \E rec \in fetch : AnswerFetch(rec)

Spec == Init /\ [][Next]_vars

(* The coordinator refreshes periodically, and not every refresh fails.     *)
Fairness ==
  /\ WF_vars(ServeFetch)
  /\ SF_vars(\E rec \in fetch : AnswerFetch(rec))

FairSpec == Spec /\ Fairness

-----------------------------------------------------------------------------
Records ==
  [video : Videos \cup {NoVideo}, offset : Nat, duration : Nat, watched : Nat, overall : Nat,
   flagged : BOOLEAN, times : Nat, removed : BOOLEAN, version : Nat]

TypeOK ==
  /\ account \in Records
  /\ copy \in Records
  /\ \A w \in put : w \in [rec : Records, stored : BOOLEAN, ours : BOOLEAN]
  /\ fetch \subseteq Records
  /\ video \in Videos
  /\ at \in 0..Duration[video]
  /\ seen \in [Videos -> Nat]
  /\ seeks \in [Videos -> Nat]
  /\ spent \in Nat
  /\ turns \in Nat

(* No write, from however stale a copy and whatever was lost before it,     *)
(* counts as watched more than was watched of the video and two minutes for *)
(* each forward seek.                                                       *)
WatchedIsEarned ==
  \A rec \in {account, copy} :
    rec.watched <= IF rec.video = NoVideo THEN 0
                   ELSE seen[rec.video] + DeltaCap * seeks[rec.video]

(* overallTimeWatched counts no minute more than twice, once as it is       *)
(* watched and once when the item turns to another video, however many      *)
(* turns, stale copies and lost writes there were; and the second count is  *)
(* of the videos turned away from, not of the present one.                  *)
(* (async_update_progress)                                                  *)
OverallAtMostTwice ==
  \A rec \in {account, copy} : rec.overall + rec.watched <= 2 * spent

(* A viewing counts once, however often its end is reported and whichever   *)
(* copy a write starts from: there are no more than videos turned to.       *)
ViewingCountsOnce == account.times <= turns + 1

(* The answer of a write never takes the copy back behind a refresh that    *)
(* overtook it; only the answer of a refresh served earlier can.            *)
OnlyRefreshGoesBack ==
  [][copy'.version < copy.version => fetch # None /\ fetch' = None]_vars

(* Whatever overlapped, the copy comes to know every change of the record:  *)
(* a copy that went back is stale until the next refresh only.              *)
CopyCatchesUp ==
  \A n \in 1..MaxChanges : account.version >= n ~> copy.version >= n

(* docs/stremio-account.md, "Only items that already exist in the linked    *)
(* Stremio library are updated": playing a title that was removed from the  *)
(* library does not put it back.  Violated.                                 *)
RemovedStaysRemoved == [][account.removed => account'.removed]_vars
=============================================================================
