--------------------------- MODULE Account_proofs ---------------------------
(***************************************************************************)
(* The client of the account: watched time is earned and a viewing counts  *)
(* once, for any episodes, durations and viewers, however writes and       *)
(* refreshes overlap or are lost; and only a refresh takes the copy back.  *)
(*                                                                         *)
(* The playback tracker, for any titles, sessions and bounds: positions of *)
(* different sessions never mix, and the account never goes back to an     *)
(* older position.                                                         *)
(***************************************************************************)
EXTENDS AccountClient, AccountTracker, TLAPS

-----------------------------------------------------------------------------
(* The client of the account.                                               *)

Puts == [rec : Records, stored : BOOLEAN, ours : BOOLEAN]

(* The records held anywhere: at the account, in the copy, under way.       *)
Held == {account, copy} \cup fetch \cup {w.rec : w \in put}

(* The video that a record goes on with: its own, or what is watched.       *)
Of(rec) == IF rec.video = NoVideo THEN video ELSE rec.video

(* What a write that starts from the record now would count is earned.      *)
Earned(rec) ==
  /\ rec.video = NoVideo => rec.watched = 0
  /\ rec.watched + Delta(rec, video, at) <= seen[Of(rec)] + DeltaCap * seeks[Of(rec)]

(* It counts at most twice, with the second count of its own video to come. *)
Twice(rec) == rec.overall + rec.watched + 2 * Delta(rec, video, at) <= 2 * spent

(* The record counts the viewing of the present video only if it says so.   *)
Counted(rec) ==
  /\ rec.times <= turns + 1
  /\ rec.video # video \/ ~rec.flagged => rec.times <= turns

(* Nothing under way is newer than the account; a write that may still      *)
(* become the copy is not older than the copy.                              *)
VersionsOK ==
  /\ copy.version <= account.version
  /\ \A rec \in fetch : rec.version <= account.version
  /\ \A w \in put : w.stored /\ w.ours =>
       copy.version <= w.rec.version /\ w.rec.version <= account.version

Good(rec) == Earned(rec) /\ Twice(rec) /\ Counted(rec)

RecordsOK == \A rec \in Held : Good(rec)

ClientInv == TypeOK /\ RecordsOK /\ VersionsOK

(* Records that tell the same of the viewing.                               *)
SameViewing(r, s) ==
  /\ r.video = s.video /\ r.offset = s.offset /\ r.watched = s.watched
  /\ r.overall = s.overall
  /\ r.times = s.times /\ r.flagged = s.flagged

-----------------------------------------------------------------------------
(* The smaller of two numbers.                                              *)
LEMMA MinOfTwo ==
  ASSUME NEW a \in Int, NEW b \in Int
  PROVE  Min({a, b}) = IF a <= b THEN a ELSE b
<1>1. \E x \in {a, b} : \A y \in {a, b} : x <= y
  OBVIOUS
<1>2. Min({a, b}) \in {a, b} /\ \A y \in {a, b} : Min({a, b}) <= y
  BY <1>1 DEF Min
<1>3. QED BY <1>2

(* The larger of two numbers.                                               *)
LEMMA MaxOfTwo ==
  ASSUME NEW a \in Nat, NEW b \in Nat
  PROVE  Max({a, b}) \in Nat
<1>1. \E x \in {a, b} : \A y \in {a, b} : x >= y
  OBVIOUS
<1>2. Max({a, b}) \in {a, b}
  BY <1>1 DEF Max
<1>3. QED BY <1>2

(* What a write counts, in numbers.                                         *)
LEMMA DeltaIs ==
  ASSUME NEW rec \in Records, NEW v, NEW p \in Nat
  PROVE  /\ Delta(rec, v, p) = IF Continues(rec, v) /\ p > rec.offset
                               THEN IF p - rec.offset <= 2 THEN p - rec.offset ELSE 2
                               ELSE 0
         /\ Delta(rec, v, p) \in 0..2
<1>1. rec.offset \in Nat
  BY DEF Records
<1>2. Min({p - rec.offset, DeltaCap}) = IF p - rec.offset <= 2 THEN p - rec.offset ELSE 2
  BY <1>1, MinOfTwo DEF DeltaCap
<1>3. CASE Continues(rec, v) /\ p > rec.offset
  BY <1>1, <1>2, <1>3 DEF Delta
<1>4. CASE ~(Continues(rec, v) /\ p > rec.offset)
  BY <1>4 DEF Delta
<1>5. QED BY <1>3, <1>4

(* The types of what the records and the viewer are compared by.            *)
LEMMA Types ==
  ASSUME TypeOK
  PROVE  /\ at \in Nat /\ turns \in Nat /\ video \in Videos
         /\ \A v \in Videos : seen[v] \in Nat /\ seeks[v] \in Nat /\ Duration[v] \in Nat
         /\ Held \subseteq Records /\ spent \in Nat
<1>1. \A v \in Videos : seen[v] \in Nat /\ seeks[v] \in Nat /\ Duration[v] \in Nat
  BY ConstantsOK DEF TypeOK
<1>2. at \in 0..Duration[video] /\ video \in Videos /\ turns \in Nat /\ spent \in Nat
  BY DEF TypeOK
<1>3. Held \subseteq Records
  BY DEF TypeOK, Held, Records
<1>4. QED BY <1>1, <1>2, <1>3

(* The types of the parts of a record.                                      *)
LEMMA RecordTypes ==
  ASSUME NEW rec \in Records
  PROVE  /\ rec.video \in Videos \cup {NoVideo} /\ rec.offset \in Nat
         /\ rec.watched \in Nat /\ rec.overall \in Nat
         /\ rec.times \in Nat /\ rec.version \in Nat /\ rec.duration \in Nat
BY DEF Records

(* Records that tell the same are as good as each other.                    *)
LEMMA SameIsAsGood ==
  ASSUME NEW r, NEW s, SameViewing(r, s), Good(r)
  PROVE  Good(s)
<1>1. Delta(r, video, at) = Delta(s, video, at) /\ Of(r) = Of(s)
  BY DEF SameViewing, Delta, Continues, Of
<1>2. QED BY <1>1 DEF SameViewing, Good, Earned, Twice, Counted

(* A step of account, copy and requests: every record tells what one of     *)
(* before told, or is good itself.                                          *)
LEMMA SyncStep ==
  ASSUME ClientInv, UNCHANGED viewer,
         \A rec \in Held' : Good(rec) \/ \E old \in Held : SameViewing(old, rec)
  PROVE  RecordsOK'
<1> SUFFICES ASSUME NEW rec \in Held' PROVE Good(rec)'
  BY DEF RecordsOK
<1>1. Good(rec)
  BY SameIsAsGood DEF ClientInv, RecordsOK
<1>2. QED BY <1>1 DEF Good, Earned, Twice, Counted, Of, viewer

-----------------------------------------------------------------------------
(* The viewer watches on or seeks: what was seen, or the two minutes of a   *)
(* seek, cover what the next write may count.                               *)
LEMMA MovesKeep ==
  ASSUME ClientInv, UNCHANGED <<sync, video, turns>>, at' \in 0..Duration[video],
         \/ /\ at' = at + 1
            /\ seen' = [seen EXCEPT ![video] = @ + 1]
            /\ spent' = spent + 1
            /\ UNCHANGED seeks
         \/ /\ at' > at
            /\ seeks' = [seeks EXCEPT ![video] = @ + 1]
            /\ spent' = spent + DeltaCap
            /\ UNCHANGED seen
         \/ /\ at' <= at
            /\ UNCHANGED <<seen, seeks, spent>>
  PROVE  ClientInv'
<1>1. /\ TypeOK /\ at \in Nat /\ at' \in Nat /\ video \in Videos /\ turns \in Nat
      /\ spent \in Nat
      /\ \A v \in Videos : seen[v] \in Nat /\ seeks[v] \in Nat
      /\ Held' = Held /\ Held \subseteq Records /\ UNCHANGED <<account, copy, put, fetch>>
  <2>1. /\ TypeOK /\ at \in Nat /\ video \in Videos /\ turns \in Nat /\ spent \in Nat
        /\ \A v \in Videos : seen[v] \in Nat /\ seeks[v] \in Nat /\ Duration[v] \in Nat
        /\ Held \subseteq Records
    BY Types DEF ClientInv
  <2>2. UNCHANGED <<account, copy, put, fetch>>
    BY DEF sync
  <2>3. Held' = Held
    BY <2>2 DEF Held
  <2>4. at' \in Nat
    BY <2>1
  <2>5. QED BY <2>1, <2>2, <2>3, <2>4
<1>2. TypeOK'
  <2>1. seen' \in [Videos -> Nat] /\ seeks' \in [Videos -> Nat] /\ spent' \in Nat
    BY <1>1 DEF TypeOK, DeltaCap
  <2>2. QED BY <1>1, <2>1 DEF TypeOK
<1>3. VersionsOK'
  BY <1>1 DEF ClientInv, VersionsOK
<1>4. RecordsOK'
  <2> SUFFICES ASSUME NEW rec \in Held PROVE Good(rec)'
    BY <1>1 DEF RecordsOK
  <2>1. rec \in Records /\ Earned(rec) /\ Twice(rec) /\ Counted(rec)
    BY <1>1 DEF ClientInv, RecordsOK, Good
  <2>2. /\ Of(rec) \in Videos /\ rec.offset \in Nat
        /\ rec.watched \in Nat /\ rec.overall \in Nat
    BY <1>1, <2>1, RecordTypes DEF Of
  <2>3. Counted(rec)' /\ Of(rec)' = Of(rec) /\ (rec.video = NoVideo => rec.watched = 0)
    BY <2>1 DEF Counted, Of, Earned
  <2> DEFINE d == Delta(rec, video, at)
             e == Delta(rec, video, at')
             v == Of(rec)
             on == Continues(rec, video)
  <2>4. /\ d = IF on /\ at > rec.offset
                THEN IF at - rec.offset <= 2 THEN at - rec.offset ELSE 2 ELSE 0
        /\ e = IF on /\ at' > rec.offset
                THEN IF at' - rec.offset <= 2 THEN at' - rec.offset ELSE 2 ELSE 0
        /\ d \in 0..2 /\ e \in 0..2
    BY <1>1, <2>1, DeltaIs
  <2>5. /\ rec.watched + d <= seen[v] + 2 * seeks[v]
        /\ seen[v] \in Nat /\ seeks[v] \in Nat
        /\ rec.overall + rec.watched + 2 * d <= 2 * spent
    BY <1>1, <2>1, <2>2 DEF Earned, Twice, DeltaCap
  <2> SUFFICES /\ rec.watched + e <= seen'[v] + 2 * seeks'[v]
               /\ rec.overall + rec.watched + 2 * e <= 2 * spent'
    BY <1>1, <2>3 DEF Good, Earned, Twice, DeltaCap, Of
  <2> HIDE DEF d, e, v, on
  <2>7. CASE at' = at + 1 /\ seen' = [seen EXCEPT ![video] = @ + 1] /\ spent' = spent + 1
             /\ UNCHANGED seeks
    <3>1. seeks'[v] = seeks[v] /\ seen'[v] = IF v = video THEN seen[v] + 1 ELSE seen[v]
      BY <1>1, <2>2, <2>7 DEF TypeOK, v
    <3>2. e <= d + 1
      BY <1>1, <2>2, <2>4, <2>7
    <3>3. CASE v = video
      BY <1>1, <2>2, <2>4, <2>5, <2>7, <3>1, <3>2, <3>3
    <3>4. CASE v # video
      <4>1. ~on
        BY <3>4 DEF on, v, Of, Continues
      <4>2. e = 0 /\ d = 0
        BY <2>4, <4>1
      <4>3. QED BY <1>1, <2>2, <2>5, <2>7, <3>1, <3>4, <4>2
    <3>5. QED BY <3>3, <3>4
  <2>8. CASE seeks' = [seeks EXCEPT ![video] = @ + 1] /\ spent' = spent + DeltaCap
             /\ UNCHANGED seen
    <3>1. seen'[v] = seen[v] /\ seeks'[v] = IF v = video THEN seeks[v] + 1 ELSE seeks[v]
      BY <1>1, <2>2, <2>8 DEF TypeOK, v
    <3>2. spent' = spent + 2
      BY <2>8 DEF DeltaCap
    <3>3. CASE v = video
      BY <1>1, <2>2, <2>4, <2>5, <3>1, <3>2, <3>3
    <3>4. CASE v # video
      <4>1. ~on
        BY <3>4 DEF on, v, Of, Continues
      <4>2. e = 0 /\ d = 0
        BY <2>4, <4>1
      <4>3. QED BY <1>1, <2>2, <2>5, <3>1, <3>2, <3>4, <4>2
    <3>5. QED BY <3>3, <3>4
  <2>9. CASE at' <= at /\ UNCHANGED <<seen, seeks, spent>>
    <3>1. seen'[v] = seen[v] /\ seeks'[v] = seeks[v] /\ spent' = spent
      BY <2>9
    <3>2. e <= d
      BY <1>1, <2>2, <2>4, <2>9
    <3>3. QED BY <1>1, <2>2, <2>4, <2>5, <3>1, <3>2
  <2>10. QED BY <2>7, <2>8, <2>9
<1>5. QED BY <1>2, <1>3, <1>4 DEF ClientInv

(* The viewer turns to another video, from its beginning.                   *)
LEMMA TurnKeeps ==
  ASSUME ClientInv, NEW v \in Videos, Turn(v)
  PROVE  ClientInv'
<1>1. /\ video' = v /\ at' = 0 /\ turns' = turns + 1 /\ UNCHANGED <<seen, seeks, spent>>
      /\ UNCHANGED <<account, copy, put, fetch>>
  BY DEF Turn, sync
<1>2. /\ TypeOK /\ at \in Nat /\ turns \in Nat /\ video \in Videos /\ spent \in Nat
      /\ \A x \in Videos : seen[x] \in Nat /\ seeks[x] \in Nat /\ Duration[x] \in Nat
      /\ Held \subseteq Records /\ Held' = Held
  BY <1>1, Types DEF ClientInv, Held
<1>3. TypeOK'
  <2>1. 0 \in 0..Duration[v] /\ turns + 1 \in Nat
    BY <1>2
  <2>2. QED BY <1>1, <1>2, <2>1 DEF TypeOK
<1>4. VersionsOK'
  BY <1>1 DEF ClientInv, VersionsOK
<1>5. RecordsOK'
  <2> SUFFICES ASSUME NEW rec \in Held PROVE Good(rec)'
    BY <1>2 DEF RecordsOK
  <2>1. rec \in Records /\ Earned(rec) /\ Twice(rec) /\ Counted(rec)
    BY <1>2 DEF ClientInv, RecordsOK, Good
  <2>2. /\ Of(rec) \in Videos /\ rec.offset \in Nat /\ rec.watched \in Nat
        /\ rec.overall \in Nat /\ rec.times \in Nat
    BY <1>2, <2>1, RecordTypes DEF Of
  <2>3. Delta(rec, v, 0) = 0 /\ Delta(rec, video, at) \in 0..2
    BY <1>2, <2>1, <2>2, DeltaIs
  <2>4. Counted(rec)'
    BY <1>1, <1>2, <2>1, <2>2 DEF Counted
  <2>5. Twice(rec)'
    <3>1. rec.overall + rec.watched + 2 * Delta(rec, video, at) <= 2 * spent
      BY <2>1 DEF Twice
    <3>2. rec.overall + rec.watched + 2 * 0 <= 2 * spent
      BY <1>2, <2>2, <2>3, <3>1
    <3>3. QED BY <1>1, <2>3, <3>2 DEF Twice
  <2>6. Earned(rec)'
    <3>1. rec.watched + Delta(rec, video, at) <= seen[Of(rec)] + 2 * seeks[Of(rec)]
          /\ seen[Of(rec)] \in Nat /\ seeks[Of(rec)] \in Nat
          /\ (rec.video = NoVideo => rec.watched = 0)
      BY <1>2, <2>1, <2>2 DEF Earned, DeltaCap
    <3>2. CASE rec.video = NoVideo
      <4>1. Of(rec)' = v /\ rec.watched = 0 /\ seen[v] \in Nat /\ seeks[v] \in Nat
        BY <1>1, <1>2, <3>1, <3>2 DEF Of
      <4>2. 0 + 0 <= seen[v] + 2 * seeks[v]
        BY <4>1
      <4>3. QED BY <1>1, <2>3, <4>1, <4>2 DEF Earned, DeltaCap
    <3>3. CASE rec.video # NoVideo
      <4>1. Of(rec)' = Of(rec)
        BY <3>3 DEF Of
      <4>2. rec.watched + 0 <= seen[Of(rec)] + 2 * seeks[Of(rec)]
        BY <2>2, <2>3, <3>1
      <4>3. QED BY <1>1, <2>3, <3>3, <4>1, <4>2 DEF Earned, DeltaCap
    <3>4. QED BY <3>2, <3>3
  <2>7. QED BY <2>4, <2>5, <2>6 DEF Good
<1>6. QED BY <1>3, <1>4, <1>5 DEF ClientInv

(* The record that a write computes is a record, and counts what is earned. *)
LEMMA ProgressIsGood ==
  ASSUME ClientInv
  PROVE  LET new == Progress(copy, video, at)
         IN new \in Records /\ Good(new)
<1> DEFINE new      == Progress(copy, video, at)
           on       == Continues(copy, video)
           duration == Max({Duration[video], copy.duration})
           watched  == (IF on THEN copy.watched ELSE 0) + Delta(copy, video, at)
           overall  == Overall(copy, video, at)
           complete == 10 * watched >= 9 * duration
           flagged  == complete \/ (on /\ copy.flagged)
           times    == IF complete THEN TimesWatched(copy, video) ELSE copy.times
<1>1. /\ TypeOK /\ copy \in Records /\ at \in Nat /\ turns \in Nat /\ video \in Videos
      /\ \A v \in Videos : seen[v] \in Nat /\ seeks[v] \in Nat /\ Duration[v] \in Nat
      /\ Earned(copy) /\ Twice(copy) /\ Counted(copy) /\ spent \in Nat
  BY Types DEF ClientInv, RecordsOK, Held, Good
<1>2. /\ copy.offset \in Nat /\ copy.watched \in Nat /\ copy.times \in Nat
      /\ copy.overall \in Nat
      /\ copy.duration \in Nat /\ copy.version \in Nat /\ Delta(copy, video, at) \in 0..2
  BY <1>1, RecordTypes, DeltaIs
<1>3. duration \in Nat
  BY <1>1, <1>2, MaxOfTwo
<1>4. watched \in Nat /\ times \in Nat /\ overall \in Nat
  BY <1>2 DEF TimesWatched, Overall
<1>5. flagged \in BOOLEAN
  BY Zenon
<1>6. new = [copy EXCEPT !.video = video, !.offset = at, !.duration = duration,
              !.watched = watched, !.overall = overall, !.removed = FALSE,
              !.flagged = flagged, !.times = times]
  BY Zenon DEF Progress
<1>7. ~on => Delta(copy, video, at) = 0
  BY <1>1, DeltaIs
<1>8. watched <= seen[video] + 2 * seeks[video]
  <2>1. CASE on
    <3>1. Of(copy) = video
      BY <2>1 DEF Of, Continues
    <3>2. QED BY <1>1, <2>1, <3>1 DEF Earned, DeltaCap
  <2>2. CASE ~on
    <3>1. watched = 0
      BY <1>7, <2>2
    <3> HIDE DEF watched
    <3>2. QED BY <1>1, <3>1
  <2>3. QED BY <2>1, <2>2
<1>9. overall + watched <= 2 * spent
  <2>1. copy.overall + copy.watched + 2 * Delta(copy, video, at) <= 2 * spent
    BY <1>1 DEF Twice
  <2>2. CASE on
    BY <1>1, <1>2, <2>1, <2>2 DEF Overall
  <2>3. CASE ~on
    BY <1>1, <1>2, <1>7, <2>1, <2>3 DEF Overall
  <2>4. QED BY <2>2, <2>3
<1>10. times <= turns + 1 /\ (~flagged => times <= turns)
  <2>1. /\ copy.times <= turns + 1
        /\ ~(on /\ copy.flagged) => copy.times <= turns
    BY <1>1 DEF Counted, Continues
  <2>2. CASE complete /\ on /\ copy.flagged
    BY <2>1, <2>2 DEF TimesWatched
  <2>3. CASE complete /\ ~(on /\ copy.flagged)
    <3>1. times = copy.times + 1 /\ flagged
      BY <2>3 DEF TimesWatched
    <3> HIDE DEF times, flagged
    <3>2. QED BY <1>1, <1>2, <2>1, <2>3, <3>1
  <2>4. CASE ~complete
    <3>1. times = copy.times /\ (~flagged => ~(on /\ copy.flagged))
      BY <2>4
    <3> HIDE DEF times, flagged
    <3>2. QED BY <2>1, <3>1
  <2>5. QED BY <2>2, <2>3, <2>4
<1> HIDE DEF on, duration, watched, overall, complete, flagged, times, new
<1>11. new \in Records
  <2>1. [copy EXCEPT !.video = video, !.offset = at, !.duration = duration,
          !.watched = watched, !.overall = overall, !.times = times] \in Records
    BY <1>1, <1>3, <1>4 DEF Records
  <2>2. \A r \in Records : [r EXCEPT !.removed = FALSE, !.flagged = flagged] \in Records
    BY <1>5 DEF Records
  <2>3. new = [[copy EXCEPT !.video = video, !.offset = at, !.duration = duration,
                 !.watched = watched, !.overall = overall, !.times = times]
                 EXCEPT !.removed = FALSE, !.flagged = flagged]
    BY <1>1, <1>6 DEF Records
  <2>4. QED BY <2>1, <2>2, <2>3
<1>12. /\ new.video = video /\ new.offset = at /\ new.watched = watched
       /\ new.overall = overall /\ new.times = times
  BY <1>1, <1>6 DEF Records
<1>13. new.flagged = flagged
  BY <1>1, <1>6 DEF Records
<1>14. Delta(new, video, at) = 0
  BY <1>1, <1>11, <1>12, DeltaIs
<1>15. Earned(new)
  <2>1. Of(new) = video /\ new.video # NoVideo
    BY <1>1, <1>12, ConstantsOK DEF Of
  <2>2. watched + 0 <= seen[video] + 2 * seeks[video]
    BY <1>4, <1>8
  <2>3. QED BY <1>12, <1>14, <2>1, <2>2 DEF Earned, DeltaCap
<1>16. Twice(new)
  <2>1. overall + watched + 2 * 0 <= 2 * spent
    BY <1>1, <1>4, <1>9
  <2>2. QED BY <1>12, <1>14, <2>1 DEF Twice
<1>17. Counted(new)
  BY <1>10, <1>12, <1>13 DEF Counted
<1>18. QED BY <1>11, <1>15, <1>16, <1>17 DEF new, Good

-----------------------------------------------------------------------------
(* Watching on.                                                             *)
LEMMA WatchKeeps == ClientInv /\ Watch => ClientInv'
<1> SUFFICES ASSUME ClientInv, Watch PROVE ClientInv'
  OBVIOUS
<1>1. /\ at \in Nat /\ video \in Videos /\ Duration[video] \in Nat
      /\ at \in 0..Duration[video]
  BY Types DEF ClientInv, TypeOK
<1>2. /\ UNCHANGED <<sync, video, turns>> /\ UNCHANGED seeks /\ at' = at + 1
      /\ seen' = [seen EXCEPT ![video] = @ + 1] /\ at < Duration[video]
      /\ spent' = spent + 1
  BY DEF Watch
<1>3. at' \in 0..Duration[video]
  BY <1>1, <1>2
<1>4. QED BY <1>2, <1>3, MovesKeep

(* Seeking, forward or back.                                                *)
LEMMA SeekKeeps ==
  ASSUME ClientInv, NEW to \in 0..Duration[video], Seek(to)
  PROVE  ClientInv'
<1>1. at \in Nat /\ video \in Videos /\ Duration[video] \in Nat
  BY Types DEF ClientInv
<1>2. /\ UNCHANGED <<sync, video, turns>> /\ UNCHANGED seen /\ at' = to
      /\ \/ to > at /\ seeks' = [seeks EXCEPT ![video] = @ + 1] /\ spent' = spent + DeltaCap
         \/ ~(to > at) /\ UNCHANGED <<seeks, spent>>
  BY DEF Seek
<1>3. \/ at' > at /\ seeks' = [seeks EXCEPT ![video] = @ + 1] /\ spent' = spent + DeltaCap
         /\ UNCHANGED seen
      \/ at' <= at /\ UNCHANGED <<seen, seeks, spent>>
  BY <1>1, <1>2
<1>4. QED BY <1>2, <1>3, MovesKeep

(* The item is removed elsewhere: the record tells the same of the viewing. *)
LEMMA RemoveKeeps == ClientInv /\ RemoveElsewhere => ClientInv'
<1> SUFFICES ASSUME ClientInv, RemoveElsewhere PROVE ClientInv'
  OBVIOUS
<1> DEFINE new == [account EXCEPT !.removed = TRUE, !.version = @ + 1]
<1>1. account' = new /\ UNCHANGED <<copy, put, fetch>> /\ UNCHANGED viewer
  BY DEF RemoveElsewhere
<1>2. account \in Records /\ copy \in Records /\ fetch \subseteq Records
      /\ \A w \in put : w \in Puts /\ w.rec \in Records
  BY DEF ClientInv, TypeOK, Puts
<1>3. account.version \in Nat /\ \A r \in Records : r.version \in Nat
  BY <1>2, RecordTypes
<1>4. new \in Records /\ new.version = account.version + 1 /\ SameViewing(account, new)
  <2>1. [account EXCEPT !.version = account.version + 1] \in Records
    BY <1>2, <1>3 DEF Records
  <2>2. \A r \in Records : [r EXCEPT !.removed = TRUE] \in Records
    BY DEF Records
  <2>3. new = [[account EXCEPT !.version = account.version + 1] EXCEPT !.removed = TRUE]
    BY <1>2 DEF Records
  <2>4. new.version = account.version + 1
    BY <1>2 DEF Records
  <2>5. /\ new.video = account.video /\ new.offset = account.offset
        /\ new.watched = account.watched /\ new.times = account.times
        /\ new.overall = account.overall
    BY <1>2 DEF Records
  <2>6. new.flagged = account.flagged
    BY <1>2 DEF Records
  <2>7. QED BY <2>1, <2>2, <2>3, <2>4, <2>5, <2>6 DEF SameViewing
<1> HIDE DEF new
<1>5. TypeOK'
  BY <1>1, <1>4 DEF ClientInv, TypeOK, viewer
<1>6. RecordsOK'
  <2>1. ASSUME NEW rec \in Held'
        PROVE  \E old \in Held : SameViewing(old, rec)
    <3>1. rec = new \/ rec \in Held
      BY <1>1 DEF Held
    <3>2. account \in Held /\ SameViewing(rec, rec)
      BY DEF Held, SameViewing
    <3>3. QED BY <1>4, <3>1, <3>2
  <2>2. QED BY <1>1, <2>1, SyncStep
<1>7. VersionsOK'
  <2>1. copy.version <= account.version + 1 /\ \A rec \in fetch : rec.version <= account.version + 1
    BY <1>2, <1>3 DEF ClientInv, VersionsOK
  <2>2. \A w \in put : w.stored /\ w.ours =>
          copy.version <= w.rec.version /\ w.rec.version <= account.version + 1
    BY <1>2, <1>3 DEF ClientInv, VersionsOK
  <2>3. QED BY <1>1, <1>4, <2>1, <2>2 DEF VersionsOK
<1>8. QED BY <1>5, <1>6, <1>7 DEF ClientInv

(* A write begins with the record computed from the copy.                   *)
LEMMA StartKeeps == ClientInv /\ StartWrite => ClientInv'
<1> SUFFICES ASSUME ClientInv, StartWrite PROVE ClientInv'
  OBVIOUS
<1> DEFINE new == Progress(copy, video, at)
           w   == [rec |-> new, stored |-> FALSE, ours |-> TRUE]
<1>1. put = {} /\ put' = {w} /\ UNCHANGED <<account, copy, fetch>> /\ UNCHANGED viewer
  BY DEF StartWrite, None
<1>2. new \in Records /\ Good(new)
  BY ProgressIsGood
<1>3. w \in Puts /\ w.rec = new /\ ~w.stored
  <2> HIDE DEF new
  <2>1. QED BY <1>2 DEF Puts
<1> HIDE DEF w, new
<1>4. TypeOK'
  BY <1>1, <1>3 DEF ClientInv, TypeOK, viewer, Puts
<1>5. RecordsOK'
  <2>1. ASSUME NEW rec \in Held'
        PROVE  Good(rec) \/ \E old \in Held : SameViewing(old, rec)
    <3>1. rec = new \/ rec \in Held
      BY <1>1, <1>3 DEF Held
    <3>2. SameViewing(rec, rec)
      BY DEF SameViewing
    <3>3. QED BY <1>2, <3>1, <3>2
  <2>2. QED BY <1>1, <2>1, SyncStep
<1>6. VersionsOK'
  BY <1>1, <1>3 DEF ClientInv, VersionsOK
<1>7. QED BY <1>4, <1>5, <1>6 DEF ClientInv

(* The account stores the record, as its newest state.                      *)
LEMMA StoreKeeps ==
  ASSUME ClientInv, NEW w \in put, StoreWrite(w)
  PROVE  ClientInv'
<1> DEFINE new == [w.rec EXCEPT !.version = account.version + 1]
           put1 == [w EXCEPT !.rec = account', !.stored = TRUE]
<1>1. /\ account' = new /\ put' = {put1}
      /\ UNCHANGED <<copy, fetch>> /\ UNCHANGED viewer
  BY DEF StoreWrite
<1>2. /\ account \in Records /\ copy \in Records /\ fetch \subseteq Records
      /\ w \in Puts /\ w.rec \in Records /\ w.rec \in Held
  BY DEF ClientInv, TypeOK, Puts, Held
<1>3. account.version \in Nat /\ \A r \in Records : r.version \in Nat
  BY <1>2, RecordTypes
<1>4. new \in Records /\ new.version = account.version + 1 /\ SameViewing(w.rec, new)
  <2>1. new \in Records
    BY <1>2, <1>3 DEF Records
  <2>2. new.version = account.version + 1
    BY <1>2 DEF Records
  <2>3. /\ new.video = w.rec.video /\ new.offset = w.rec.offset
        /\ new.watched = w.rec.watched /\ new.times = w.rec.times
        /\ new.overall = w.rec.overall
    BY <1>2 DEF Records
  <2>4. new.flagged = w.rec.flagged
    BY <1>2 DEF Records
  <2>5. QED BY <2>1, <2>2, <2>3, <2>4 DEF SameViewing
<1> HIDE DEF new
<1>5. put1 \in Puts /\ put1.rec = new
  <2>1. \A x \in Puts, r \in Records :
          /\ [x EXCEPT !.rec = r, !.stored = TRUE] \in Puts
          /\ [x EXCEPT !.rec = r, !.stored = TRUE].rec = r
    BY DEF Puts
  <2>2. QED BY <1>1, <1>2, <1>4, <2>1
<1> HIDE DEF put1
<1>6. TypeOK'
  BY <1>1, <1>4, <1>5 DEF ClientInv, TypeOK, viewer, Puts
<1>7. RecordsOK'
  <2>1. ASSUME NEW rec \in Held'
        PROVE  \E old \in Held : SameViewing(old, rec)
    <3>1. rec = new \/ rec \in Held
      BY <1>1, <1>5 DEF Held
    <3>2. SameViewing(rec, rec)
      BY DEF SameViewing
    <3>3. QED BY <1>2, <1>4, <3>1, <3>2
  <2>2. QED BY <1>1, <2>1, SyncStep
<1>8. VersionsOK'
  <2>1. copy.version <= account.version + 1 /\ \A rec \in fetch : rec.version <= account.version + 1
    BY <1>2, <1>3 DEF ClientInv, VersionsOK
  <2>2. QED BY <1>1, <1>3, <1>4, <1>5, <2>1 DEF VersionsOK
<1>9. QED BY <1>6, <1>7, <1>8 DEF ClientInv

(* The other steps move records about, or forget them.                      *)
LEMMA Moved ==
  ASSUME ClientInv, UNCHANGED <<account, viewer>>,
         copy' \in Held, fetch' \subseteq Held,
         \A w \in put' : w \in Puts /\ w.rec \in Held,
         VersionsOK'
  PROVE  ClientInv'
<1>1. Held \subseteq Records /\ account \in Held
  BY Types DEF ClientInv, Held
<1>2. TypeOK'
  BY <1>1 DEF ClientInv, TypeOK, viewer, Puts
<1>3. Held' \subseteq Held
  BY <1>1 DEF Held
<1>4. \A rec \in Held' : Good(rec)
  BY <1>3 DEF ClientInv, RecordsOK
<1>5. RecordsOK'
  BY <1>4, SyncStep
<1>6. QED BY <1>2, <1>5 DEF ClientInv

(* A write is answered, and becomes the copy it started from.               *)
LEMMA AnswerWriteKeeps ==
  ASSUME ClientInv, NEW w \in put, AnswerWrite(w)
  PROVE  ClientInv'
<1>1. /\ copy' = (IF w.ours THEN w.rec ELSE copy) /\ put' = {} /\ w.stored
      /\ UNCHANGED <<account, fetch>> /\ UNCHANGED viewer
  BY DEF AnswerWrite, None
<1>2. copy' \in Held /\ fetch' \subseteq Held
  BY <1>1 DEF Held
<1>3. VersionsOK'
  BY <1>1 DEF ClientInv, VersionsOK
<1>4. QED BY <1>1, <1>2, <1>3, Moved

(* A write is lost: the copy is what it was.                                *)
LEMMA LoseWriteKeeps ==
  ASSUME ClientInv, NEW w \in put, LoseWrite(w)
  PROVE  ClientInv'
<1>1. put' = {} /\ UNCHANGED <<account, copy, fetch>> /\ UNCHANGED viewer
  BY DEF LoseWrite, None
<1>2. copy' \in Held /\ fetch' \subseteq Held
  BY <1>1 DEF Held
<1>3. VersionsOK'
  BY <1>1 DEF ClientInv, VersionsOK
<1>4. QED BY <1>1, <1>2, <1>3, Moved

(* A refresh is served with the record the account has.                     *)
LEMMA ServeFetchKeeps == ClientInv /\ ServeFetch => ClientInv'
<1> SUFFICES ASSUME ClientInv, ServeFetch PROVE ClientInv'
  OBVIOUS
<1>1. fetch' = {account} /\ UNCHANGED <<account, copy, put>> /\ UNCHANGED viewer
  BY DEF ServeFetch
<1>2. copy' \in Held /\ fetch' \subseteq Held /\ \A w \in put : w \in Puts /\ w.rec \in Held
  BY <1>1 DEF Held, ClientInv, TypeOK, Puts
<1>3. VersionsOK'
  <2>1. account.version \in Nat
    BY RecordTypes DEF ClientInv, TypeOK
  <2>2. QED BY <1>1, <2>1 DEF ClientInv, VersionsOK
<1>4. QED BY <1>1, <1>2, <1>3, Moved

(* A refresh is answered: no write under way may become the copy any more.  *)
LEMMA AnswerFetchKeeps ==
  ASSUME ClientInv, NEW rec \in fetch, AnswerFetch(rec)
  PROVE  ClientInv'
<1>1. /\ copy' = rec /\ put' = {[w EXCEPT !.ours = FALSE] : w \in put} /\ fetch' = {}
      /\ UNCHANGED account /\ UNCHANGED viewer
  BY DEF AnswerFetch, None
<1>2. copy' \in Held /\ fetch' \subseteq Held
  BY <1>1 DEF Held
<1>3. \A w \in put' : w \in Puts /\ w.rec \in Held /\ ~w.ours
  <2> SUFFICES ASSUME NEW w \in put
               PROVE  LET u == [w EXCEPT !.ours = FALSE]
                      IN u \in Puts /\ u.rec \in Held /\ ~u.ours
    BY <1>1
  <2>1. w \in Puts /\ w.rec \in Held
    BY DEF ClientInv, TypeOK, Puts, Held
  <2>2. \A x \in Puts : /\ [x EXCEPT !.ours = FALSE] \in Puts
                          /\ [x EXCEPT !.ours = FALSE].rec = x.rec
                          /\ ~[x EXCEPT !.ours = FALSE].ours
    BY DEF Puts
  <2>3. QED BY <2>1, <2>2
<1>4. VersionsOK'
  BY <1>1, <1>3 DEF ClientInv, VersionsOK
<1>5. QED BY <1>1, <1>2, <1>3, <1>4, Moved

(* A refresh is lost.                                                       *)
LEMMA LoseFetchKeeps == ClientInv /\ LoseFetch => ClientInv'
<1> SUFFICES ASSUME ClientInv, LoseFetch PROVE ClientInv'
  OBVIOUS
<1>1. fetch' = {} /\ UNCHANGED <<account, copy, put>> /\ UNCHANGED viewer
  BY DEF LoseFetch, None
<1>2. copy' \in Held /\ fetch' \subseteq Held /\ \A w \in put : w \in Puts /\ w.rec \in Held
  BY <1>1 DEF Held, ClientInv, TypeOK, Puts
<1>3. VersionsOK'
  BY <1>1 DEF ClientInv, VersionsOK
<1>4. QED BY <1>1, <1>2, <1>3, Moved

-----------------------------------------------------------------------------
(* At first the copy is the blank record, of which nothing is counted.      *)
LEMMA InitHolds == Init => ClientInv
<1> SUFFICES ASSUME Init PROVE ClientInv
  OBVIOUS
<1>1. PICK v \in Videos \cup {NoVideo} : account = Blank(v)
  BY DEF Init
<1>2. /\ video \in Videos /\ copy = Blank(v) /\ put = {} /\ fetch = {}
      /\ at = 0 /\ turns = 0 /\ spent = 0 /\ \A x \in Videos : seen[x] = 0 /\ seeks[x] = 0
      /\ seen \in [Videos -> Nat] /\ seeks \in [Videos -> Nat]
  BY <1>1 DEF Init, None
<1>3. Blank(v) \in Records
  BY DEF Blank, Records
<1>4. at \in 0..Duration[video]
  BY <1>2, ConstantsOK
<1>5. TypeOK
  BY <1>1, <1>2, <1>3, <1>4 DEF TypeOK
<1>6. VersionsOK
  BY <1>1, <1>2 DEF VersionsOK, Blank
<1>7. Good(Blank(v))
  <2>1. /\ Blank(v).video = v /\ Blank(v).offset = 0 /\ Blank(v).watched = 0
        /\ Blank(v).times = 0 /\ Blank(v).overall = 0
    BY DEF Blank
  <2>2. Delta(Blank(v), video, at) = 0
    BY <1>2, <2>1 DEF Delta
  <2>3. Of(Blank(v)) \in Videos
    BY <1>2, <2>1 DEF Of
  <2>4. seen[Of(Blank(v))] = 0 /\ seeks[Of(Blank(v))] = 0
    BY <1>2, <2>3
  <2>5. QED BY <1>2, <2>1, <2>2, <2>4 DEF Good, Earned, Twice, Counted, DeltaCap
<1>8. RecordsOK
  BY <1>1, <1>2, <1>7 DEF RecordsOK, Held
<1>9. QED BY <1>5, <1>6, <1>8 DEF ClientInv

(* Every step keeps the invariant.                                          *)
LEMMA StepKeeps == ClientInv /\ [Next]_vars => ClientInv'
<1> SUFFICES ASSUME ClientInv, [Next]_vars PROVE ClientInv'
  OBVIOUS
<1>1. CASE Watch
  BY <1>1, WatchKeeps
<1>2. CASE RemoveElsewhere
  BY <1>2, RemoveKeeps
<1>3. CASE StartWrite
  BY <1>3, StartKeeps
<1>4. CASE ServeFetch
  BY <1>4, ServeFetchKeeps
<1>5. CASE LoseFetch
  BY <1>5, LoseFetchKeeps
<1>6. CASE \E to \in 0..Duration[video] : Seek(to)
  BY <1>6, SeekKeeps
<1>7. CASE \E v \in Videos : Turn(v)
  BY <1>7, TurnKeeps
<1>8. CASE \E w \in put : StoreWrite(w) \/ AnswerWrite(w) \/ LoseWrite(w)
  BY <1>8, StoreKeeps, AnswerWriteKeeps, LoseWriteKeeps
<1>9. CASE \E rec \in fetch : AnswerFetch(rec)
  BY <1>9, AnswerFetchKeeps
<1>10. CASE UNCHANGED vars
  <2>1. /\ UNCHANGED <<account, copy, put, fetch>> /\ UNCHANGED viewer
    BY <1>10 DEF vars, viewer
  <2>2. copy' \in Held /\ fetch' \subseteq Held /\ \A w \in put : w \in Puts /\ w.rec \in Held
    BY <2>1 DEF Held, ClientInv, TypeOK, Puts
  <2>3. VersionsOK'
    BY <2>1 DEF ClientInv, VersionsOK
  <2>4. QED BY <2>1, <2>2, <2>3, Moved
<1>11. QED BY <1>1, <1>2, <1>3, <1>4, <1>5, <1>6, <1>7, <1>8, <1>9, <1>10 DEF Next

(* The invariant, of every reachable state.                                 *)
THEOREM Invariant == Spec => []ClientInv
BY InitHolds, StepKeeps, PTL DEF Spec

(* The variables keep their types.                                          *)
THEOREM TypeCorrect == Spec => []TypeOK
<1>1. ClientInv => TypeOK
  BY DEF ClientInv
<1>2. QED BY <1>1, Invariant, PTL

(* async_update_progress counts no more than was watched and two minutes    *)
(* for each forward seek, whatever overlapped and was lost.                 *)
THEOREM WatchedEarned == Spec => []WatchedIsEarned
<1>1. ClientInv => WatchedIsEarned
  <2> SUFFICES ASSUME ClientInv, NEW rec \in {account, copy}
               PROVE  rec.watched <= IF rec.video = NoVideo THEN 0
                                     ELSE seen[rec.video] + DeltaCap * seeks[rec.video]
    BY DEF WatchedIsEarned
  <2>1. /\ rec \in Records /\ Earned(rec) /\ at \in Nat
        /\ \A v \in Videos : seen[v] \in Nat /\ seeks[v] \in Nat
    BY Types DEF ClientInv, RecordsOK, Held, Good
  <2>2. /\ rec.watched \in Nat /\ rec.video \in Videos \cup {NoVideo}
        /\ Delta(rec, video, at) \in 0..2
    BY <2>1, RecordTypes, DeltaIs
  <2>3. CASE rec.video = NoVideo
    BY <2>1, <2>2, <2>3 DEF Earned
  <2>4. CASE rec.video # NoVideo
    <3>1. Of(rec) = rec.video /\ rec.video \in Videos
      BY <2>2, <2>4 DEF Of
    <3>2. QED BY <2>1, <2>2, <2>4, <3>1 DEF Earned, DeltaCap
  <2>5. QED BY <2>3, <2>4
<1>2. QED BY <1>1, Invariant, PTL

(* overallTimeWatched counts nothing more than twice, and what it holds of  *)
(* the present video only once.                                             *)
THEOREM OverallTwice == Spec => []OverallAtMostTwice
<1>1. ClientInv => OverallAtMostTwice
  <2> SUFFICES ASSUME ClientInv, NEW rec \in {account, copy}
               PROVE  rec.overall + rec.watched <= 2 * spent
    BY DEF OverallAtMostTwice
  <2>1. rec \in Records /\ Twice(rec) /\ at \in Nat /\ spent \in Nat
    BY Types DEF ClientInv, RecordsOK, Held, Good
  <2>2. rec.watched \in Nat /\ rec.overall \in Nat /\ Delta(rec, video, at) \in 0..2
    BY <2>1, RecordTypes, DeltaIs
  <2>3. QED BY <2>1, <2>2 DEF Twice
<1>2. QED BY <1>1, Invariant, PTL

(* timesWatched grows at most once for each video that was turned to.       *)
THEOREM CountsOnce == Spec => []ViewingCountsOnce
<1>1. ClientInv => ViewingCountsOnce
  BY DEF ClientInv, RecordsOK, Held, Good, Counted, ViewingCountsOnce
<1>2. QED BY <1>1, Invariant, PTL

(* Only the answer of a refresh takes the copy back: the answer of a write  *)
(* replaces the copy it started from and no other.                          *)
THEOREM OnlyRefresh == Spec => OnlyRefreshGoesBack
<1>1. ClientInv /\ [Next]_vars =>
        [copy'.version < copy.version => fetch # None /\ fetch' = None]_vars
  <2> SUFFICES ASSUME ClientInv, Next, copy'.version < copy.version
               PROVE  fetch # None /\ fetch' = None
    OBVIOUS
  <2>1. copy.version \in Nat /\ account.version \in Nat
    BY RecordTypes DEF ClientInv, TypeOK
  <2>2. copy' # copy
    BY <2>1
  <2>3. CASE \E w \in put : AnswerWrite(w)
    BY <2>1, <2>2, <2>3 DEF AnswerWrite, ClientInv, VersionsOK, TypeOK, Records
  <2>4. CASE \E rec \in fetch : AnswerFetch(rec)
    BY <2>4 DEF AnswerFetch, None
  <2>5. QED
    BY <2>2, <2>3, <2>4 DEF Next, Watch, Seek, Turn, RemoveElsewhere, StartWrite, StoreWrite,
       LoseWrite, ServeFetch, LoseFetch, sync
<1>2. QED BY <1>1, Invariant, PTL DEF Spec, OnlyRefreshGoesBack

-----------------------------------------------------------------------------
(* The playback tracker.                                                    *)
(* The inductive invariant.                                                 *)

(* A session has a title before it is heard of, listened to or written; and *)
(* what the current session holds is the newest report of all, if any.      *)
SessionInv ==
  /\ session # NoSession => media[session] \in Media /\ last[session] \in {0, Len(heard)}
  /\ \A s \in Sessions : media[s] = NoMedia => last[s] = 0
  /\ \A k \in 1..Len(heard) : media[heard[k]] \in Media

(* Every position kept anywhere was heard by the session it is kept for.    *)
PositionInv ==
  /\ \A s \in Sessions : last[s] > 0 => last[s] <= Len(heard) /\ heard[last[s]] = s
  /\ \A w \in sending : w.at \in 1..Len(heard) /\ heard[w.at] = w.of
  /\ \A m \in Media : remote[m] > 0 =>
       remote[m] <= Len(heard) /\ media[heard[remote[m]]] = m

(* The lock: one write at a time, and no write behind it, or in line, is    *)
(* older than one before it or than what the account holds.                 *)
OrderInv ==
  /\ \A v, w \in sending : v = w
  /\ \A i \in 1..Len(waiting) : last[waiting[i].of] > 0
  /\ \A i, j \in 1..Len(waiting) :
       i <= j => last[waiting[i].of] <= last[waiting[j].of]
  /\ \A w \in sending, i \in 1..Len(waiting) : w.at <= last[waiting[i].of]
  /\ \A m \in Media, i \in 1..Len(waiting) : remote[m] <= last[waiting[i].of]
  /\ \A m \in Media, w \in sending : remote[m] <= w.at

TrackerInv == TrackerTypeOK /\ SessionInv /\ PositionInv /\ OrderInv

(* The elements of a queue, before and after one is appended.               *)
LEMMA QueueAppend ==
  ASSUME NEW S, NEW q \in Seq(S), NEW e \in S
  PROVE  /\ Len(q) \in Nat
         /\ \A i \in 1..Len(q) : q[i] \in S
         /\ Append(q, e) \in Seq(S)
         /\ Len(Append(q, e)) = Len(q) + 1
         /\ \A i \in 1..Len(q) : Append(q, e)[i] = q[i]
         /\ Append(q, e)[Len(q) + 1] = e
OBVIOUS

(* Nobody has been heard, and the account holds nothing.                    *)
LEMMA TrackerInvInit == TrackerInit => TrackerInv
<1> SUFFICES ASSUME TrackerInit PROVE TrackerInv
  OBVIOUS
<1> USE TrackerConstantsOK DEF TrackerInit
<1>0. <<>> \in Seq(Sessions) /\ <<>> \in Seq(Tasks) /\ 0 \in Reports
  BY DEF Reports
<1>1. TrackerTypeOK
  BY <1>0 DEF TrackerTypeOK
<1>2. SessionInv /\ PositionInv /\ OrderInv
  BY DEF SessionInv, PositionInv, OrderInv
<1> QED BY <1>1, <1>2 DEF TrackerInv

-----------------------------------------------------------------------------
(* A report changes what its session holds, and may sending a write in line.    *)
(* The write it adds is the newest: the session holds the newest report.    *)
LEMMA ReportStep ==
  ASSUME TrackerInv, NEW m \in Media, NEW state \in {"playing", "terminal", "other"},
         NEW positioned \in BOOLEAN, NEW due \in BOOLEAN,
         PlayerReports(m, state, positioned, due)
  PROVE  TrackerInv'
<1> DEFINE s  == session
           position == IF positioned THEN Len(heard) + 1 ELSE last[s]
<1> USE TrackerConstantsOK DEF TrackerInv
<1>1. /\ s \in Sessions /\ media[s] \in Media
      /\ heard \in Seq(Sessions) /\ Len(heard) \in Nat
      /\ last[s] \in {0, Len(heard)}
      /\ waiting \in Seq(Tasks)
  BY DEF PlayerReports, TrackerTypeOK, SessionInv
<1>2. /\ positioned => Len(heard) < MaxReports
      /\ screen' = m
      /\ heard' = IF positioned THEN Append(heard, s) ELSE heard
      /\ last' = [last EXCEPT ![s] = position]
      /\ resume' \in {[resume EXCEPT ![s] = "seeking"], resume}
      /\ waiting' \in {Append(waiting, [of |-> s, flush |-> FALSE]), waiting}
      /\ waiting' # waiting => position > 0
      /\ owed' \in {[owed EXCEPT ![media[s]] = position], owed}
      /\ UNCHANGED <<session, media, sending, remote, stopping, lost>>
  BY DEF PlayerReports, WriteWanted, Enqueue
<1>3. position \in Reports /\ [of |-> s, flush |-> FALSE] \in Tasks
  BY <1>1, <1>2 DEF TrackerTypeOK, Reports, Tasks
<1> HIDE DEF s
<1>4. TrackerTypeOK'
  <2>1. heard' \in Seq(Sessions)
    BY <1>1, <1>2
  <2>2. waiting' \in Seq(Tasks)
    <3>1. Append(waiting, [of |-> s, flush |-> FALSE]) \in Seq(Tasks)
      BY <1>1, <1>3, QueueAppend
    <3> QED BY <1>1, <1>2, <3>1, Zenon
  <2>3. last' \in [Sessions -> Reports]
    BY <1>2, <1>3 DEF TrackerTypeOK
  <2>5. owed' \in [Media -> Reports]
    <3>1. CASE owed' = owed
      BY <3>1 DEF TrackerTypeOK
    <3>2. CASE owed' = [owed EXCEPT ![media[s]] = position]
      BY <1>3, <3>2 DEF TrackerTypeOK
    <3> QED BY <1>2, <3>1, <3>2
  <2>4. resume' \in [Sessions -> {"none", "saved", "seeking", "sought"}]
    BY <1>1, <1>2 DEF TrackerTypeOK
  <2> QED BY <1>2, <2>1, <2>2, <2>3, <2>4, <2>5 DEF TrackerTypeOK
<1>5. /\ Len(heard') \in {Len(heard), Len(heard) + 1}
      /\ Len(heard') = IF positioned THEN Len(heard) + 1 ELSE Len(heard)
      /\ \A k \in 1..Len(heard) : heard'[k] = heard[k]
      /\ positioned => heard'[Len(heard) + 1] = s
  BY <1>1, <1>2
<1>6. /\ last'[s] = position /\ position >= last[s]
      /\ \A t \in Sessions : t # s => last'[t] = last[t]
  BY <1>1, <1>2, <1>3 DEF TrackerTypeOK, Reports
<1>7. SessionInv'
  BY <1>1, <1>2, <1>5, <1>6 DEF SessionInv, s
<1>8. PositionInv'
  <2>1. \A t \in Sessions : last'[t] > 0 => last'[t] <= Len(heard') /\ heard'[last'[t]] = t
    <3> SUFFICES ASSUME NEW t \in Sessions, last'[t] > 0
                 PROVE  last'[t] <= Len(heard') /\ heard'[last'[t]] = t
      OBVIOUS
    <3>1. CASE last'[t] = last[t]
      <4>1. last[t] \in 1..Len(heard) /\ heard[last[t]] = t
        BY <1>1, <3>1 DEF PositionInv, TrackerTypeOK, Reports
      <4> QED BY <1>1, <1>5, <3>1, <4>1
    <3>2. CASE t = s /\ positioned
      BY <1>1, <1>5, <1>6, <3>2
    <3> QED BY <1>6, <3>1, <3>2
  <2>2. \A w \in sending : w.at \in 1..Len(heard') /\ heard'[w.at] = w.of
    BY <1>1, <1>2, <1>5 DEF PositionInv
  <2>3. \A n \in Media : remote[n] > 0 =>
          remote[n] <= Len(heard') /\ media[heard'[remote[n]]] = n
    <3>1. \A n \in Media : remote[n] > 0 =>
            remote[n] \in 1..Len(heard) /\ media[heard[remote[n]]] = n
      BY <1>1 DEF PositionInv, TrackerTypeOK, Reports
    <3> QED BY <1>1, <1>5, <3>1
  <2> QED BY <1>2, <2>1, <2>2, <2>3 DEF PositionInv
<1>9. OrderInv'
  <2>1. \A i \in 1..Len(waiting) : waiting[i] \in Tasks /\ waiting[i].of \in Sessions
    <3>1. \A i \in 1..Len(waiting) : waiting[i] \in Tasks
      BY <1>1, <1>3, QueueAppend
    <3> QED BY <3>1 DEF Tasks
  <2>2. \A i \in 1..Len(waiting) : waiting'[i] = waiting[i]
    BY <1>1, <1>2
  <2>3. \/ Len(waiting') = Len(waiting)
        \/ /\ Len(waiting') = Len(waiting) + 1
           /\ waiting'[Len(waiting) + 1].of = s
           /\ position > 0
    BY <1>1, <1>2
  <2>4. \A t \in Sessions : last[t] \in Nat /\ last[t] <= Len(heard) /\ last'[t] >= last[t]
    <3>1. \A t \in Sessions : last[t] \in Nat
      BY DEF TrackerTypeOK, Reports
    <3>2. \A t \in Sessions : last[t] <= Len(heard)
      BY <1>1, <3>1 DEF PositionInv
    <3>3. \A t \in Sessions : last'[t] >= last[t]
      BY <1>6, <3>1
    <3> QED BY <3>1, <3>2, <3>3
  <2>5. position > 0 => position >= Len(heard)
    BY <1>1
  <2>6. position > 0 => \A t \in Sessions : last'[t] <= position
    BY <1>1, <1>5, <1>6, <2>4, <2>5
  <2>7. position \in Nat /\ Len(waiting) \in Nat
    BY <1>1, <1>3 DEF Reports
  <2>8. \A i, j \in 1..Len(waiting) :
          i <= j => last'[waiting[i].of] <= last'[waiting[j].of]
    <3> SUFFICES ASSUME NEW i \in 1..Len(waiting), NEW j \in 1..Len(waiting), i <= j
                 PROVE  last'[waiting[i].of] <= last'[waiting[j].of]
      OBVIOUS
    <3>1. last[waiting[i].of] <= last[waiting[j].of] /\ last[waiting[i].of] > 0
      BY DEF OrderInv
    <3>2. CASE waiting[i].of # s
      BY <1>6, <2>1, <2>4, <3>1, <3>2
    <3>3. CASE waiting[i].of = s
      <4>1. last[s] = Len(heard) /\ last[waiting[j].of] = Len(heard)
        BY <1>1, <2>1, <2>4, <3>1, <3>3
      <4>2. waiting[j].of = s
        BY <1>1, <2>1, <3>1, <3>3, <4>1 DEF PositionInv
      <4> QED BY <1>1, <1>3, <3>3, <4>2, <2>4, <1>6 DEF Reports
    <3> QED BY <3>2, <3>3
  <2>9. \A w \in sending : w.at \in Nat /\ w.at <= Len(heard)
    BY <1>1 DEF PositionInv
  <2>10. \A n \in Media : remote[n] \in Nat /\ remote[n] <= Len(heard)
    BY <1>1 DEF PositionInv, TrackerTypeOK, Reports
  <2>15. \A i \in 1..Len(waiting') :
           \/ i \in 1..Len(waiting) /\ waiting'[i] = waiting[i]
           \/ waiting'[i].of = s /\ position > 0 /\ i = Len(waiting) + 1
    BY <2>2, <2>3, <2>7
  <2>16. \A i \in 1..Len(waiting) :
           /\ last[waiting[i].of] \in Nat /\ last[waiting[i].of] > 0
           /\ last'[waiting[i].of] \in Nat /\ last'[waiting[i].of] >= last[waiting[i].of]
    <3>1. \A i \in 1..Len(waiting) : last[waiting[i].of] > 0
      BY DEF OrderInv
    <3>2. \A t \in Sessions : last'[t] \in Nat
      BY <1>6, <2>4, <2>7
    <3> QED BY <2>1, <2>4, <3>1, <3>2
  <2>11. \A i \in 1..Len(waiting') : waiting'[i].of \in Sessions /\ last'[waiting'[i].of] > 0
    <3> SUFFICES ASSUME NEW i \in 1..Len(waiting')
                 PROVE  waiting'[i].of \in Sessions /\ last'[waiting'[i].of] > 0
      OBVIOUS
    <3>1. CASE i \in 1..Len(waiting) /\ waiting'[i] = waiting[i]
      BY <2>1, <2>16, <3>1
    <3>2. CASE waiting'[i].of = s /\ position > 0
      BY <1>1, <1>6, <3>2
    <3> QED BY <2>15, <3>1, <3>2
  <2>12. \A i, j \in 1..Len(waiting') :
           i <= j => last'[waiting'[i].of] <= last'[waiting'[j].of]
    <3> SUFFICES ASSUME NEW i \in 1..Len(waiting'), NEW j \in 1..Len(waiting'), i <= j
                 PROVE  last'[waiting'[i].of] <= last'[waiting'[j].of]
      OBVIOUS
    <3>1. CASE j \in 1..Len(waiting) /\ waiting'[j] = waiting[j]
      <4>1. i \in 1..Len(waiting)
        BY <2>7, <3>1
      <4> QED BY <2>2, <2>8, <3>1, <4>1
    <3>2. CASE waiting'[j].of = s /\ position > 0
      BY <1>6, <2>6, <2>11, <3>2
    <3> QED BY <2>15, <3>1, <3>2
  <2>13. \A w \in sending, i \in 1..Len(waiting') : w.at <= last'[waiting'[i].of]
    <3> SUFFICES ASSUME NEW w \in sending, NEW i \in 1..Len(waiting')
                 PROVE  w.at <= last'[waiting'[i].of]
      OBVIOUS
    <3>1. CASE i \in 1..Len(waiting) /\ waiting'[i] = waiting[i]
      <4>1. w.at <= last[waiting[i].of]
        BY <3>1 DEF OrderInv
      <4> QED BY <2>9, <2>16, <3>1, <4>1
    <3>2. CASE waiting'[i].of = s /\ position > 0
      BY <1>1, <1>6, <2>5, <2>7, <2>9, <3>2
    <3> QED BY <2>15, <3>1, <3>2
  <2>14. \A n \in Media, i \in 1..Len(waiting') : remote[n] <= last'[waiting'[i].of]
    <3> SUFFICES ASSUME NEW n \in Media, NEW i \in 1..Len(waiting')
                 PROVE  remote[n] <= last'[waiting'[i].of]
      OBVIOUS
    <3>1. CASE i \in 1..Len(waiting) /\ waiting'[i] = waiting[i]
      <4>1. remote[n] <= last[waiting[i].of]
        BY <3>1 DEF OrderInv
      <4> QED BY <2>10, <2>16, <3>1, <4>1
    <3>2. CASE waiting'[i].of = s /\ position > 0
      BY <1>1, <1>6, <2>5, <2>7, <2>10, <3>2
    <3> QED BY <2>15, <3>1, <3>2
  <2> QED BY <1>2, <2>11, <2>12, <2>13, <2>14 DEF OrderInv
<1> QED BY <1>4, <1>7, <1>8, <1>9

(* A new session begins with no position, and nobody was heard under it.    *)
LEMMA PrepareStep ==
  ASSUME TrackerInv, NEW s \in Sessions, NEW m \in Media, NEW saved \in BOOLEAN,
         Prepare(s, m, saved)
  PROVE  TrackerInv'
<1> USE TrackerConstantsOK DEF TrackerInv, Prepare, player, writes
<1>1. TrackerTypeOK'
  BY DEF TrackerTypeOK
<1>2. last[s] = 0 /\ heard' = heard /\ last' = last /\ waiting' = waiting /\ sending' = sending
      /\ remote' = remote
  BY DEF SessionInv
<1>3. \A k \in 1..Len(heard) : heard[k] \in Sessions /\ media'[heard[k]] = media[heard[k]]
  BY DEF TrackerTypeOK, SessionInv
<1>4. SessionInv'
  BY <1>2, <1>3 DEF SessionInv, TrackerTypeOK
<1>5. PositionInv'
  BY <1>2, <1>3 DEF PositionInv, TrackerTypeOK, Reports
<1>6. OrderInv'
  BY <1>2 DEF OrderInv
<1> QED BY <1>1, <1>4, <1>5, <1>6

(* The write that gets the lock carries what its session holds, which is    *)
(* not older than the account's position nor newer than the next in line.   *)
LEMMA LetThroughStep == ASSUME TrackerInv, LetThrough PROVE TrackerInv'
<1> DEFINE s == Head(waiting).of
           w == [of |-> s, flush |-> Head(waiting).flush, at |-> last[s]]
<1> USE TrackerConstantsOK DEF TrackerInv
<1>1. /\ waiting \in Seq(Tasks) /\ waiting # <<>> /\ Head(waiting) \in Tasks
      /\ Head(waiting) = waiting[1] /\ 1 \in 1..Len(waiting)
  BY DEF LetThrough, TrackerTypeOK
<1>2. /\ sending = {} /\ sending' = {w} /\ waiting' = Tail(waiting)
      /\ UNCHANGED <<player, track, remote, stopping>>
  BY DEF LetThrough, LockFree, Position
<1>3. s \in Sessions /\ last[s] \in Reports /\ w \in Writes
  BY <1>1 DEF Tasks, Writes, TrackerTypeOK
<1>4. TrackerTypeOK'
  BY <1>1, <1>2, <1>3 DEF TrackerTypeOK, player, track
<1>5. SessionInv'
  BY <1>2 DEF SessionInv, player, track
<1>6. PositionInv'
  <2>1. w.at \in 1..Len(heard) /\ heard[w.at] = w.of
    BY <1>1, <1>3 DEF PositionInv, OrderInv, Reports, TrackerTypeOK
  <2> QED BY <1>2, <2>1 DEF PositionInv, player, track
<1>7. OrderInv'
  <2>1. /\ Len(waiting') = Len(waiting) - 1
        /\ \A i \in 1..Len(waiting') : waiting'[i] = waiting[i + 1] /\ i + 1 \in 1..Len(waiting)
    BY <1>1, <1>2
  <2>2. w.at = last[waiting[1].of]
    BY <1>1
  <2>3. last' = last /\ remote' = remote
    BY <1>2 DEF track
  <2> HIDE DEF w
  <2>4. \A i \in 1..Len(waiting') : w.at <= last[waiting'[i].of]
    BY <1>1, <2>1, <2>2 DEF OrderInv
  <2>5. \A m \in Media : remote[m] <= w.at
    BY <1>1, <2>2 DEF OrderInv
  <2> QED BY <1>1, <1>2, <2>1, <2>3, <2>4, <2>5 DEF OrderInv
<1> QED BY <1>4, <1>5, <1>6, <1>7

(* An answered write leaves the lock free and the account not behind anyone *)
(* in line.                                                                 *)
LEMMA PutStep ==
  ASSUME TrackerInv, NEW w \in sending, PutSucceeds(w) \/ PutIsLost(w)
  PROVE  TrackerInv' /\ \A m \in Media : remote'[m] >= remote[m]
<1> DEFINE n == media[w.of]
<1> USE TrackerConstantsOK DEF TrackerInv
<1>1. /\ w \in Writes /\ w.at \in Nat /\ w.of \in Sessions
      /\ w.at \in 1..Len(heard) /\ heard[w.at] = w.of /\ n \in Media
      /\ sending' = {}
  BY DEF PutSucceeds, PutIsLost, TrackerTypeOK, Writes, Reports, PositionInv, SessionInv, OrderInv
<1>2. /\ heard' = heard /\ media' = media /\ last' = last /\ waiting' = waiting
      /\ remote' \in {[remote EXCEPT ![n] = w.at], remote}
      /\ session' \in {NoSession, session}
      /\ stopping' \in {"done", stopping}
      /\ screen' = screen /\ resume' = resume /\ owed' = owed /\ lost' \in {TRUE, lost}
  BY DEF PutSucceeds, PutIsLost, EndStop, player
<1> HIDE DEF n
<1>3. TrackerTypeOK'
  BY <1>1, <1>2 DEF TrackerTypeOK, Writes
<1>4. \A m \in Media : remote'[m] = remote[m] \/ (m = n /\ remote'[m] = w.at)
  BY <1>1, <1>2 DEF TrackerTypeOK
<1>5. SessionInv'
  BY <1>2 DEF SessionInv
<1>6. PositionInv'
  BY <1>1, <1>2, <1>4 DEF PositionInv, TrackerTypeOK, n
<1>7. OrderInv'
  BY <1>1, <1>2, <1>4 DEF OrderInv
<1>8. \A m \in Media : remote'[m] >= remote[m]
  <2>1. \A m \in Media : remote[m] \in Nat
    BY DEF TrackerTypeOK, Reports
  <2>2. \A m \in Media : remote[m] <= w.at
    BY DEF OrderInv
  <2> QED BY <1>1, <1>4, <2>1, <2>2
<1> QED BY <1>3, <1>5, <1>6, <1>7, <1>8

(* async_stop's own write is the newest, as any write of the session is.    *)
LEMMA StopStep == ASSUME TrackerInv, Stop PROVE TrackerInv'
<1> USE TrackerConstantsOK DEF TrackerInv
<1>1. /\ heard' = heard /\ media' = media /\ last' = last /\ sending' = sending
      /\ remote' = remote /\ screen' = screen /\ resume' = resume
      /\ owed' = owed /\ lost' = lost
  BY DEF Stop, player
<1>2. CASE /\ session # NoSession /\ last[session] > 0
           /\ waiting' = Append(waiting, [of |-> session, flush |-> TRUE])
           /\ stopping' = "flushing" /\ session' = session
  <2>1. /\ session \in Sessions /\ last[session] = Len(heard)
        /\ waiting \in Seq(Tasks) /\ [of |-> session, flush |-> TRUE] \in Tasks
    BY <1>2 DEF SessionInv, TrackerTypeOK, Tasks
  <2>2. TrackerTypeOK'
    BY <1>1, <1>2, <2>1 DEF TrackerTypeOK
  <2>3. SessionInv' /\ PositionInv'
    BY <1>1, <1>2 DEF SessionInv, PositionInv
  <2>4. /\ Len(waiting') = Len(waiting) + 1 /\ Len(waiting) \in Nat
        /\ \A i \in 1..Len(waiting) : waiting'[i] = waiting[i]
        /\ waiting'[Len(waiting) + 1].of = session
        /\ \A i \in 1..Len(waiting) : waiting[i].of \in Sessions
    <3>1. \A i \in 1..Len(waiting) : waiting[i] \in Tasks
      BY <2>1, QueueAppend
    <3>2. \A i \in 1..Len(waiting) : waiting[i].of \in Sessions
      BY <3>1 DEF Tasks
    <3> QED BY <1>2, <2>1, <3>2, QueueAppend
  <2>5. /\ \A t \in Sessions : last[t] \in Nat /\ last[t] <= last[session]
        /\ \A w \in sending : w.at <= last[session]
        /\ \A m \in Media : remote[m] \in Nat /\ remote[m] <= last[session]
    BY <1>2, <2>1 DEF PositionInv, TrackerTypeOK, Reports
  <2>6. OrderInv'
    BY <1>1, <1>2, <2>1, <2>4, <2>5 DEF OrderInv
  <2> QED BY <2>2, <2>3, <2>6
<1>3. CASE stopping' = "done" /\ session' = NoSession /\ waiting' = waiting
  <2>1. TrackerTypeOK'
    BY <1>1, <1>3 DEF TrackerTypeOK
  <2>2. SessionInv' /\ PositionInv' /\ OrderInv'
    BY <1>1, <1>3 DEF SessionInv, PositionInv, OrderInv
  <2> QED BY <2>1, <2>2
<1> QED BY <1>2, <1>3 DEF Stop, Enqueue

(* Every step keeps the inductive invariant and takes no title back.        *)
LEMMA TrackerStep ==
  TrackerInv /\ [TrackerNext]_tracker_vars
    => TrackerInv' /\ \A m \in Media : remote'[m] >= remote[m]
<1> SUFFICES ASSUME TrackerInv, [TrackerNext]_tracker_vars
             PROVE  TrackerInv' /\ \A m \in Media : remote'[m] >= remote[m]
  OBVIOUS
<1>0. \A m \in Media : remote[m] \in Nat
  BY TrackerConstantsOK DEF TrackerInv, TrackerTypeOK, Reports
<1>1. CASE UNCHANGED tracker_vars
  BY <1>0, <1>1 DEF tracker_vars, TrackerInv, TrackerTypeOK, SessionInv, PositionInv, OrderInv
<1>2. ASSUME NEW s \in Sessions, NEW m \in Media, NEW saved \in BOOLEAN, Prepare(s, m, saved)
      PROVE  TrackerInv' /\ remote' = remote
  BY <1>2, PrepareStep DEF Prepare, writes
<1>3. ASSUME NEW m \in Media, NEW state \in {"playing", "terminal", "other"},
             NEW positioned \in BOOLEAN, NEW due \in BOOLEAN,
             PlayerReports(m, state, positioned, due)
      PROVE  TrackerInv' /\ remote' = remote
  BY <1>3, ReportStep DEF PlayerReports
<1>4. ASSUME NEW m \in Media, PlayerUnheard(m) PROVE TrackerInv' /\ remote' = remote
  BY <1>4 DEF PlayerUnheard, TrackerInv, TrackerTypeOK, SessionInv, PositionInv,
                     OrderInv, track, writes
<1>5. ASSUME NEW s \in Sessions, ApplyResume(s) PROVE TrackerInv' /\ remote' = remote
  BY <1>5 DEF ApplyResume, TrackerInv, TrackerTypeOK, SessionInv, PositionInv,
                     OrderInv, player, writes
<1>6. CASE LetThrough
  BY <1>0, <1>6, LetThroughStep DEF LetThrough
<1>7. ASSUME NEW w \in sending, PutSucceeds(w) \/ PutIsLost(w)
      PROVE  TrackerInv' /\ \A m \in Media : remote'[m] >= remote[m]
  BY <1>7, PutStep
<1>8. CASE Stop
  <2>1. TrackerInv' /\ remote' = remote
    BY <1>8, StopStep DEF Stop
  <2> QED BY <1>0, <2>1
<1> QED BY <1>0, <1>1, <1>2, <1>3, <1>4, <1>5, <1>6, <1>7, <1>8 DEF TrackerNext

(* The inductive invariant holds in every reachable state.                  *)
LEMMA TrackerInvariance == TrackerSpec => []TrackerInv
BY TrackerInvInit, TrackerStep, PTL DEF TrackerSpec

(* Every variable keeps its type.                                           *)
THEOREM TrackerTypeCorrect == TrackerSpec => []TrackerTypeOK
<1>1. TrackerInv => TrackerTypeOK
  BY DEF TrackerInv
<1> QED BY TrackerInvariance, <1>1, PTL

(* The position the account holds for a title was heard by a session on     *)
(* that title, however sessions and their writes overlap.                   *)
THEOREM OnlyOwnReports == TrackerSpec => []OwnReports
<1>1. TrackerInv => OwnReports
  BY DEF TrackerInv, PositionInv, OwnReports
<1> QED BY TrackerInvariance, <1>1, PTL

(* The account never goes back to an older position of a title.             *)
THEOREM MovesForward == TrackerSpec => RemoteMovesForward
<1>1. TrackerInv /\ [TrackerNext]_tracker_vars
        => [\A m \in Media : remote'[m] >= remote[m]]_tracker_vars
  BY TrackerStep
<1> QED BY TrackerInvariance, <1>1, PTL DEF TrackerSpec, RemoteMovesForward
=============================================================================
