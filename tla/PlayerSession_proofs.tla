------------------------ MODULE PlayerSession_proofs ------------------------
(***************************************************************************)
(* Proofs about one player.  First PlaybackAttempt, for any lengths of its *)
(* waits: the safety of the reset and of the start-up detection; that the  *)
(* attempt ends is left to TLC.  Then CacheCleanup, which looks at the     *)
(* player once it has stopped, for any players and any number of cleanup   *)
(* tasks.                                                                  *)
(***************************************************************************)
EXTENDS PlaybackAttempt, CacheCleanup, TLAPS

-----------------------------------------------------------------------------
(* The inductive invariant.                                                 *)

(* With a reset, the last wait comes after the second pass only.            *)
ResetInv == resets /\ pc = "last" => clear = "told twice"

(* What the flags remember of the polls: a transition, once seen, ends the  *)
(* steadiness and either was the first state or changed it.                 *)
EvidenceInv ==
  /\ steady => ~started /\ ~moved
  /\ started /\ ~moved => initial \in Transition
  /\ initial = "none" => ~started

IInv ==
  /\ TypeOK
  /\ ResetInv
  /\ CleanOrToldTwice
  /\ EvidenceInv
  /\ SteadyStaleRejected

(* The flags are Boolean.                                                   *)
LEMMA FlagsStep == FlagsOK /\ [Next]_vars => FlagsOK'
<1> SUFFICES ASSUME FlagsOK, [Next]_vars PROVE FlagsOK'
  OBVIOUS
<1> USE DEF FlagsOK, config, player, session, evidence
<1>1. CASE Look \/ Reset \/ PollOff \/ Again \/ PollLast \/ TimedOut \/ HassSends
  <2>1. CASE Look \/ Reset \/ PollOff
    BY <2>1, Zenon DEF Look, Reset, PollOff
  <2>2. CASE Again \/ PollLast \/ TimedOut
    BY <2>2, Zenon DEF Again, PollLast, TimedOut
  <2>3. CASE HassSends
    BY <2>3, Zenon DEF HassSends
  <2> QED BY <1>1, <2>1, <2>2, <2>3, Zenon
<1>2. ASSUME NEW ok \in BOOLEAN, Stopped(ok) \/ Quit(ok) \/ Prepared(ok)
      PROVE  FlagsOK'
  <2>1. changed' \in BOOLEAN
    BY <1>2, Zenon DEF Stopped, Quit, Prepared
  <2> QED BY <1>2, <2>1, Zenon DEF Stopped, Quit, Prepared
<1>3. ASSUME NEW ok \in BOOLEAN, NEW reached \in BOOLEAN, Send(reached, ok)
      PROVE  FlagsOK'
  BY <1>3, Zenon DEF Send
<1>4. CASE Poll
  BY <1>4, Zenon DEF Poll
<1>5. ASSUME NEW what \in {"nothing", "old", "new"}, NEW value \in States,
             PlayerActs(what, value)
      PROVE  FlagsOK'
  BY <1>5, Zenon DEF PlayerActs
<1>6. CASE UNCHANGED vars
  BY <1>6, Zenon DEF vars
<1> QED BY <1>1, <1>2, <1>3, <1>4, <1>5, <1>6, Zenon DEF Next, Attempt, Session

(* A sleep, on time or late, and a new wait leave a number on the clock.    *)
LEMMA ClockStep ==
  clock \in Nat /\ (clock' = 0 \/ clock' = clock \/ \E late \in {0, 1} : clock' = clock + 1 + late)
    => clock' \in Nat
<1> SUFFICES ASSUME clock \in Nat,
                    clock' = 0 \/ clock' = clock \/ \E late \in {0, 1} : clock' = clock + 1 + late
             PROVE  clock' \in Nat
  OBVIOUS
<1>1. ASSUME NEW late \in {0, 1}, clock' = clock + 1 + late PROVE clock' \in Nat
  <2>1. late \in Nat
    OBVIOUS
  <2> QED BY <1>1, <2>1
<1> QED BY <1>1

(* At the start nothing was polled, reset or sent.                          *)
LEMMA InitIInv == Init => IInv
<1> SUFFICES ASSUME Init PROVE IInv
  OBVIOUS
<1>1. FlagsOK
  BY Zenon DEF Init, FlagsOK
<1>2. state \in States /\ state \in Reports(shows) /\ shows \in {"nothing", "old", "new"}
  BY DEF Init, Reports, States, Success, Transition, Inactive, Absent
<1>3. TypeOK
  BY <1>1, <1>2 DEF Init, TypeOK
<1> QED BY <1>3 DEF Init, IInv, ResetInv, CleanOrToldTwice, EvidenceInv, SteadyStaleRejected

(* Nothing the player does disturbs the invariant: only polls look at it.   *)
LEMMA PlayerStep ==
  ASSUME IInv, FlagsOK', NEW what \in {"nothing", "old", "new"}, NEW value \in States,
         PlayerActs(what, value)
  PROVE  IInv'
<1>1. state' = value /\ shows' = what /\ value \in Reports(what)
  BY DEF PlayerActs
<1>2. UNCHANGED <<entry, stops, resets, exposes, sent, pc, changed, clear, clock,
                  initial, moved, started, steady>>
  BY DEF PlayerActs, config, session, evidence
<1>3. TypeOK'
  BY <1>1, <1>2 DEF IInv, TypeOK
<1> QED BY <1>2, <1>3 DEF IInv, ResetInv, CleanOrToldTwice, EvidenceInv, SteadyStaleRejected

(* The preparation of the session, the command and the deadline.            *)
LEMMA SessionStep ==
  ASSUME IInv, FlagsOK', Session \/ TimedOut \/ HassSends
  PROVE  IInv'
<1> USE TimesOK DEF IInv, TypeOK, ResetInv, CleanOrToldTwice, EvidenceInv,
    SteadyStaleRejected, config, player, session, evidence
<1>1. CASE Look
  BY <1>1 DEF Look
<1>2. ASSUME NEW ok \in BOOLEAN, Stopped(ok) PROVE IInv'
  BY <1>2 DEF Stopped
<1>3. CASE Reset
  BY <1>3 DEF Reset
<1>4. ASSUME NEW ok \in BOOLEAN, Quit(ok) PROVE IInv'
  BY <1>4 DEF Quit
<1>5. CASE PollOff
  <2>1. clock' \in Nat
    <3>1. clock' = 0 \/ clock' = clock \/ \E late \in {0, 1} : clock' = clock + 1 + late
      BY <1>5, Zenon DEF PollOff
    <3>2. clock \in Nat
      OBVIOUS
    <3> QED BY <3>1, <3>2, ClockStep, Zenon
  <2>2. /\ pc = "off" /\ changed' = changed /\ sent' = sent
        /\ UNCHANGED <<config, player, evidence>>
        /\ \/ pc' = "prepare" /\ clear' = "seen" /\ clock' = 0
           \/ pc' = "off" /\ clear' = clear
           \/ pc' = "again" /\ clear' = clear /\ clock' = 0
    BY <1>5 DEF PollOff
  <2> QED BY <2>1, <2>2
<1>6. CASE Again
  BY <1>6 DEF Again
<1>7. CASE PollLast
  <2>1. clock' \in Nat
    <3>1. clock' = 0 \/ clock' = clock \/ \E late \in {0, 1} : clock' = clock + 1 + late
      BY <1>7, Zenon DEF PollLast
    <3>2. clock \in Nat
      OBVIOUS
    <3> QED BY <3>1, <3>2, ClockStep, Zenon
  <2>2. /\ pc = "last" /\ sent' = sent
        /\ UNCHANGED <<config, player, session, evidence>>
        /\ \/ pc' = "last"
           \/ pc' = "prepare" /\ clock' = 0
    BY <1>7 DEF PollLast
  <2> QED BY <2>1, <2>2
<1>8. CASE TimedOut
  BY <1>8 DEF TimedOut
<1>9. CASE HassSends
  BY <1>9 DEF HassSends
<1> QED BY <1>1, <1>2, <1>3, <1>4, <1>5, <1>6, <1>7, <1>8, <1>9 DEF Session

(* Resolving and sending the candidate.                                     *)
LEMMA CommandStep ==
  ASSUME IInv, FlagsOK', NEW ok \in BOOLEAN, NEW reached \in BOOLEAN,
         Prepared(ok) \/ Send(reached, ok)
  PROVE  IInv'
<1> USE DEF IInv, TypeOK, ResetInv, CleanOrToldTwice, EvidenceInv,
    SteadyStaleRejected, config, player, session, evidence
<1>1. CASE Prepared(ok)
  BY <1>1 DEF Prepared
<1>2. CASE Send(reached, ok)
  BY <1>2 DEF Send
<1> QED BY <1>1, <1>2

(* One poll of the start-up wait.  A player still showing the old content   *)
(* in the state of the first poll gives none of the four pieces of evidence.*)
LEMMA PollStep == ASSUME IInv, FlagsOK', Poll PROVE IInv'
<1> DEFINE hasMoved == moved \/ (initial # "none" /\ state # initial)
           taken == state \in Success /\ Evident(Content = "new", hasMoved)
<1>1. /\ pc = "wait"
      /\ initial' = IF initial = "none" THEN state ELSE initial
      /\ moved' = hasMoved
      /\ started' = (started \/ state \in Transition)
      /\ steady' = (steady /\ Content = "old" /\ state \in Success /\ ~hasMoved)
      /\ pc' \in {"started", "failed", "wait"}
      /\ pc' = "started" => taken
      /\ UNCHANGED <<config, player, sent, session>>
  BY DEF Poll
<1>2. TypeOK'
  <2>1. clock' \in Nat
    <3>1. clock \in Nat
      BY DEF IInv, TypeOK
    <3>2. clock' = clock \/ \E late \in {0, 1} : clock' = clock + 1 + late
      BY Zenon DEF Poll
    <3> QED BY <3>1, <3>2, ClockStep, Zenon
  <2>2. initial' \in States \cup {"none"}
    BY <1>1 DEF IInv, TypeOK
  <2> HIDE DEF hasMoved, taken
  <2> QED BY <1>1, <2>1, <2>2 DEF IInv, TypeOK, config, player, session
<1>3. ResetInv' /\ CleanOrToldTwice'
  BY <1>1 DEF IInv, ResetInv, CleanOrToldTwice, config, session
<1>4. EvidenceInv'
  BY <1>1 DEF IInv, TypeOK, EvidenceInv, Success, Transition, Inactive, Absent, States
<1>5. SteadyStaleRejected'
  BY <1>1 DEF IInv, EvidenceInv, SteadyStaleRejected, Evident, Content
<1> QED BY <1>2, <1>3, <1>4, <1>5 DEF IInv

(* Every step preserves the invariant.                                      *)
LEMMA NextIInv == IInv /\ [Next]_vars => IInv'
<1> SUFFICES ASSUME IInv, [Next]_vars PROVE IInv'
  OBVIOUS
<1>1. FlagsOK'
  BY FlagsStep DEF IInv, TypeOK
<1>2. CASE UNCHANGED vars
  <2>1. TypeOK'
    BY <1>1, <1>2 DEF vars, IInv, TypeOK
  <2> QED BY <1>2, <2>1 DEF vars, IInv, ResetInv, CleanOrToldTwice, EvidenceInv,
        SteadyStaleRejected
<1> QED BY <1>1, <1>2, PlayerStep, SessionStep, CommandStep, PollStep DEF Next, Attempt

(* The invariant always holds.                                              *)
LEMMA Invariance == Spec => []IInv
BY InitIInv, NextIInv, PTL DEF Spec

-----------------------------------------------------------------------------
(* Every variable of an attempt keeps its type, and a wait begins with a    *)
(* fresh clock.                                                             *)
THEOREM TypeCorrect == Spec => []TypeOK
<1>1. IInv => TypeOK
  BY DEF IInv
<1> QED BY <1>1, Invariance, PTL

(* With the reset enabled nothing is resolved or sent before the receiver   *)
(* was seen inactive or told twice, however long the waits are.             *)
THEOREM CleanOrTold == Spec => []CleanOrToldTwice
<1>1. IInv => CleanOrToldTwice
  BY DEF IInv
<1> QED BY <1>1, Invariance, PTL

(* Old media that just goes on is never taken for the start.                *)
THEOREM SteadyRejected == Spec => []SteadyStaleRejected
<1>1. IInv => SteadyStaleRejected
  BY DEF IInv
<1> QED BY <1>1, Invariance, PTL

(* A player that has been idle throughout is waited for until the deadline. *)
THEOREM SlowWaitedFor == Spec => SlowPlayersGetTheirTime
<1> DEFINE Patience ==
      pc = "wait" /\ pc' = "failed" /\ clock < Deadline => moved' \/ state \in Absent
<1>1. ASSUME IInv, [Next]_vars, pc = "wait", pc' = "failed", clock < Deadline
      PROVE  moved' \/ state \in Absent
  <2>1. Poll
    <3>1. ~Session
      BY <1>1 DEF Session, Look, Stopped, Reset, Quit, PollOff, Again, PollLast
    <3>2. ~TimedOut
      <4>1. clock \in Nat /\ Deadline \in Nat
        BY <1>1, TimesOK DEF IInv, TypeOK
      <4> QED BY <1>1, <4>1 DEF TimedOut
    <3>3. ~HassSends /\ ~UNCHANGED vars
      BY <1>1 DEF HassSends, vars
    <3>4. \A ok, reached : ~Prepared(ok) /\ ~Send(reached, ok)
      BY <1>1 DEF Prepared, Send
    <3>5. \A what, value : ~PlayerActs(what, value)
      BY <1>1 DEF PlayerActs
    <3> QED BY <1>1, <3>1, <3>2, <3>3, <3>4, <3>5, Zenon DEF Next, Attempt
  <2>2. /\ moved' = (moved \/ (initial # "none" /\ state # initial))
        /\ Hopeless
    BY <1>1, <2>1 DEF Poll
  <2>3. CASE state \in Inactive /\ started
    <3>1. moved \/ initial \in Transition
      BY <1>1, <2>3 DEF IInv, EvidenceInv
    <3> QED BY <2>2, <2>3, <3>1 DEF Transition, Inactive
  <2> QED BY <2>2, <2>3 DEF Hopeless
<1>2. IInv /\ [Next]_vars => [Patience]_vars
  BY <1>1
<1> QED BY <1>2, Invariance, PTL DEF Spec, SlowPlayersGetTheirTime

-----------------------------------------------------------------------------
(* What a stopped tracker has forgotten, and the inductive invariant.       *)
StoppedTracksNobody == stopped => tracked = NoPlayer

CleanupInv ==
  /\ CleanupTypeOK
  /\ HandleIsPending
  /\ PendingIsKnown
  /\ InUseIsSafe
  /\ StoppedTracksNobody

(* Cancelling leaves no pending task behind as long as no handle was lost.  *)
LEMMA CancelClears ==
  ASSUME CleanupTypeOK, HandleIsPending, PendingIsKnown
  PROVE  /\ Cancelled \in [Tasks -> {"free", "sleeping", "posting", "unwinding"}]
         /\ ~erased => \A t \in Tasks : Cancelled[t] \notin {"sleeping", "posting"}
BY DEF CleanupTypeOK, HandleIsPending, PendingIsKnown, Cancelled, Pending

(* Nothing is tracked and nothing pending at the start.                     *)
LEMMA InitCleanupInv == CleanupInit => CleanupInv
BY NamesOK DEF CleanupInit, CleanupInv, CleanupTypeOK, HandleIsPending,
  PendingIsKnown, InUseIsSafe, StoppedTracksNobody, Pending

(* Every handler, and every step of a task, keeps the inductive invariant.  *)
LEMMA NextCleanupInv == CleanupInv /\ [CleanupNext]_cleanup_vars => CleanupInv'
<1> SUFFICES ASSUME CleanupInv, [CleanupNext]_cleanup_vars PROVE CleanupInv'
  OBVIOUS
<1> USE NamesOK DEF CleanupTypeOK, HandleIsPending, PendingIsKnown,
      InUseIsSafe, StoppedTracksNobody, Pending
<1>1. CASE UNCHANGED cleanup_vars
  BY <1>1 DEF CleanupInv, cleanup_vars
<1>2. ASSUME NEW p \in Players, Prepare(p) PROVE CleanupInv'
  BY <1>2, CancelClears DEF CleanupInv, Prepare, CancelCleanup
<1>3. ASSUME NEW p \in Players, NEW class \in StateClasses,
             PlayerReports(p, class)
      PROVE  CleanupInv'
  <2>1. CASE p = tracked /\ class = "active" /\ CancelCleanup
    BY <1>3, <2>1, CancelClears DEF CleanupInv, PlayerReports, CancelCleanup
  <2>2. CASE p = tracked /\ class = "terminal" /\ ScheduleCleanup
    <3>1. PICK t \in Tasks :
            /\ task[t] = "free"
            /\ task' = [Cancelled EXCEPT ![t] = "sleeping"]
            /\ cleanup_task' = t
            /\ due' = TRUE
      BY <2>2 DEF ScheduleCleanup
    <3>2. /\ tracked' = tracked /\ stopped' = stopped /\ erased' = erased
          /\ player_state' = [player_state EXCEPT ![p] = "terminal"]
      BY <1>3, <2>2 DEF PlayerReports
    <3> QED BY <2>2, <3>1, <3>2, CancelClears DEF CleanupInv, StateClasses
  <2>3. CASE UNCHANGED <<task, cleanup_task, due>> /\ (p # tracked \/ class = "other")
    BY <1>3, <2>3 DEF CleanupInv, PlayerReports, StateClasses
  <2> QED BY <1>3, <2>1, <2>2, <2>3 DEF PlayerReports
<1>4. ASSUME NEW t \in Tasks, Wakes(t) PROVE CleanupInv'
  BY <1>4 DEF CleanupInv, Wakes, Ends
<1>5. ASSUME NEW t \in Tasks, PostEnds(t) PROVE CleanupInv'
  BY <1>5 DEF CleanupInv, PostEnds, Ends
<1>6. ASSUME NEW t \in Tasks, Unwinds(t) PROVE CleanupInv'
  BY <1>6 DEF CleanupInv, Unwinds, Ends
<1>7. CASE Stop
  BY <1>7, CancelClears DEF CleanupInv, Stop, CancelCleanup
<1> QED BY <1>1, <1>2, <1>3, <1>4, <1>5, <1>6, <1>7 DEF CleanupNext

(* The inductive invariant holds in every reachable state.                  *)
LEMMA CleanupInvariance == CleanupSpec => []CleanupInv
BY InitCleanupInv, NextCleanupInv, PTL DEF CleanupSpec

(* Every variable keeps its type, for any number of players and tasks.      *)
THEOREM CleanupTypeCorrect == CleanupSpec => []CleanupTypeOK
<1>1. CleanupInv => CleanupTypeOK
  BY DEF CleanupInv
<1> QED BY CleanupInvariance, <1>1, PTL

(* The handle is never left on a task that has already ended.               *)
THEOREM HandlePending == CleanupSpec => []HandleIsPending
<1>1. CleanupInv => HandleIsPending
  BY DEF CleanupInv
<1> QED BY CleanupInvariance, <1>1, PTL

(* Until a finally clause resets the handle of a newer task, every pending  *)
(* cleanup is the one _cleanup_task holds, so there is at most one.         *)
THEOREM PendingKnown == CleanupSpec => []PendingIsKnown
<1>1. CleanupInv => PendingIsKnown
  BY DEF CleanupInv
<1> QED BY CleanupInvariance, <1>1, PTL

(* ... and none is pending against a player in use, or after the stop.      *)
THEOREM InUseSafe == CleanupSpec => []InUseIsSafe
<1>1. CleanupInv => InUseIsSafe
  BY DEF CleanupInv
<1> QED BY CleanupInvariance, <1>1, PTL

(* A stopped tracker starts no request, even by a task whose handle was     *)
(* lost: it no longer knows a player.                                       *)
THEOREM StopFinal == CleanupSpec => StopIsFinal
<1>1. CleanupInv /\ [CleanupNext]_cleanup_vars =>
        [\A t \in Tasks : task[t] = "sleeping" /\ task'[t] = "posting" => ~stopped]_cleanup_vars
  <2> SUFFICES ASSUME CleanupInv, CleanupNext, NEW t \in Tasks,
                      task[t] = "sleeping", task'[t] = "posting", stopped
               PROVE  FALSE
    BY DEF StopIsFinal
  <2> USE DEF CleanupInv, CleanupTypeOK, StoppedTracksNobody
  <2>1. ASSUME NEW p \in Players, NEW class \in StateClasses,
               PlayerReports(p, class)
        PROVE  FALSE
    BY <2>1, NamesOK DEF PlayerReports
  <2>2. ASSUME NEW u \in Tasks, Wakes(u) PROVE FALSE
    BY <2>2 DEF Wakes, Ends
  <2>3. ASSUME NEW u \in Tasks, PostEnds(u) \/ Unwinds(u) PROVE FALSE
    BY <2>3 DEF PostEnds, Unwinds, Ends
  <2>4. ASSUME NEW p \in Players, Prepare(p) PROVE FALSE
    BY <2>4 DEF Prepare
  <2>5. CASE Stop
    BY <2>5 DEF Stop
  <2> QED BY <2>1, <2>2, <2>3, <2>4, <2>5 DEF CleanupNext
<1> QED BY CleanupInvariance, <1>1, PTL DEF CleanupSpec, StopIsFinal
=============================================================================
