----------------------- MODULE PlaybackSupervisor_proofs -----------------------
(***************************************************************************)
(* Proofs about PlaybackSupervisor, for any sets of requests and players:  *)
(* type correctness, the accounting of failures, the discipline of the     *)
(* monitor registry, and that it implements RankedFallback.                *)
(***************************************************************************)
EXTENDS FallbackRefinement, SequenceTheorems, TLAPS

-----------------------------------------------------------------------------
(* The inductive invariant.                                                 *)

(* How the suspension point of a handler, the entry point of its request    *)
(* and the state of its loop go together.  Only a media-source handler that *)
(* has returned has a monitor; a service call's loop runs inside the call.  *)
ControlAt(c) ==
  /\ kind[c] = "none" <=> pc[c] = "idle"
  /\ kind[c] \in {"play", "url"} => target[c] \in Players
  /\ pc[c] \in {"meta", "loop"} => kind[c] = "play"
  /\ pc[c] = "command" => kind[c] = "url"
  /\ pc[c] \in {"prepare", "subtitle"} => kind[c] = "resolve"
  /\ pc[c] = "session" =>
       kind[c] \in {"resolve", "url"} /\ target[c] \in Players
  /\ kind[c] = "url" => pc[c] # "streams"
  /\ loop[c] # "none" =>
       /\ target[c] \in Players
       /\ \/ kind[c] = "play" /\ pc[c] \in IF Live(c) THEN {"loop"} ELSE Ended
          \/ kind[c] = "resolve" /\ pc[c] = "done"
  /\ reaped[c] => kind[c] = "resolve" /\ loop[c] # "none" /\ ~Live(c)

ControlInv == \A c \in Calls : ControlAt(c)

(* The three places that record failures hand on one gapless count.         *)
Trying(c) ==
  \/ Live(c)
  \/ kind[c] = "resolve" /\ pc[c] \in {"session", "prepare", "subtitle"}

FailureAt(c) ==
  /\ Trying(c) \/ loop[c] = "started" =>
       failures[c] = RanksUpTo(position[c] - 1) /\ position[c] \in 1..total[c]
  /\ Live(c) \/ loop[c] = "started" => attempt[c] = position[c]
  /\ "failed" \in {loop[c], pc[c]} => failures[c] = RanksUpTo(total[c])
  /\ pc[c] \in {"idle", "streams", "meta"} => failures[c] = <<>>

FailureInv == \A c \in Calls : FailureAt(c)

IInv ==
  /\ TypeOK
  /\ ControlInv
  /\ FailureInv
  /\ MonitorDiscipline
  /\ RegistrySound

-----------------------------------------------------------------------------
(* Type correctness.                                                        *)

(* limit_ranked_candidates answers none exactly when there is nothing to    *)
(* rank, and never more than there are or than MaxCount, whatever the       *)
(* option.                                                                  *)
LEMMA LimitBounds ==
  ASSUME NEW n \in Nat, NEW enabled \in BOOLEAN, NEW option \in Int
  PROVE  /\ LimitRanked(n, enabled, option) \in 0..MaxCount
         /\ LimitRanked(n, enabled, option) <= n
         /\ LimitRanked(n, enabled, option) = 0 <=> n = 0
BY ConstantsOK DEF LimitRanked, Clamp

(* Every number of candidates a request can rank keeps to the limit.        *)
LEMMA RankedLengthsLimited == RankedLengths \subseteq 0..MaxCount
<1> SUFFICES ASSUME NEW n \in 0..MaxStreams, NEW enabled \in BOOLEAN, NEW option \in CountOptions
             PROVE  LimitRanked(n, enabled, option) \in 0..MaxCount
  BY DEF RankedLengths
<1>1. n \in Nat /\ option \in Int
  BY ConstantsOK
<1> QED BY <1>1, LimitBounds

(* Such a number is a natural one.                                          *)
LEMMA RankedLengthsNat == RankedLengths \subseteq Nat
BY RankedLengthsLimited, ConstantsOK

(* Taking a player over (_cancel_playback_task) keeps the types of the      *)
(* registry and of the loops it may cancel.                                 *)
LEMMA TakeOverType ==
  ASSUME TypeOK, NEW c \in Calls, NEW p \in Players, TakeOver(c, p)
  PROVE  /\ playback_tasks' \in [Players -> Calls \cup {NoCall}]
         /\ loop' \in [Calls -> Working \cup {"none", "started", "failed", "cancelled"}]
         /\ owner' \in [Players -> Calls \cup {NoCall}]
         /\ contended' \in SUBSET Players
BY DEF TypeOK, TakeOver

(* Every step keeps the types; a request to take a player over names one.   *)
LEMMA TypeStep == TypeOK /\ ControlInv /\ [Next]_vars => TypeOK'
<1> SUFFICES ASSUME TypeOK, ControlInv, [Next]_vars PROVE TypeOK'
  OBVIOUS
<1> USE DEF TypeOK, request, progress, registry, Working, Awaiting, Ended, AllKinds
<1>1. ASSUME NEW c \in Calls, NEW k \in AllKinds, NEW p \in Players \cup {NoPlayer},
             Begin(c, k, p)
      PROVE  TypeOK'
  <2>1. CASE k = "url"
    BY <1>1, <2>1, TakeOverType DEF Begin
  <2>2. CASE k # "url"
    BY <1>1, <2>2 DEF Begin
  <2> QED BY <2>1, <2>2
<1>2. ASSUME NEW c \in Calls, NoStreams(c) PROVE TypeOK'
  BY <1>2 DEF NoStreams
<1>3. ASSUME NEW c \in Calls, PlayTakesOver(c) PROVE TypeOK'
  BY <1>3, TakeOverType DEF PlayTakesOver, ControlInv, ControlAt
<1>4. ASSUME NEW c \in Calls, SessionReady(c) PROVE TypeOK'
  BY <1>4 DEF SessionReady
<1>5. ASSUME NEW c \in Calls, CommandUrl(c) PROVE TypeOK'
  BY <1>5 DEF CommandUrl
<1>6. ASSUME NEW c \in Calls, ResolveRejects(c) PROVE TypeOK'
  <2>1. Append(failures[c], position[c]) \in Seq(Nat)
    OBVIOUS
  <2>2. failures' \in [Calls -> Seq(Nat)]
    BY <1>6, <2>1 DEF ResolveRejects
  <2>3. pc' \in [Calls -> Awaiting \cup Ended \cup {"idle"}]
    BY <1>6 DEF ResolveRejects
  <2>4. position' \in [Calls -> Nat]
    <3>1. position[c] \in Nat /\ position[c] + 1 \in Nat
      OBVIOUS
    <3>2. \/ position' = [position EXCEPT ![c] = position[c] + 1]
          \/ position' = position
      BY <1>6 DEF ResolveRejects
    <3> QED BY <3>1, <3>2
  <2> QED BY <1>6, <2>2, <2>3, <2>4 DEF ResolveRejects
<1>7. ASSUME NEW c \in Calls, ResolvePrepares(c) PROVE TypeOK'
  BY <1>7 DEF ResolvePrepares
<1>8. ASSUME NEW c \in Calls, Register(c) PROVE TypeOK'
  <2>1. CASE target[c] = NoPlayer
    BY <1>8, <2>1, ConstantsOK DEF Register
  <2>2. CASE target[c] # NoPlayer
    <3>1. target[c] \in Players
      BY <2>2
    <3>2. /\ loop' = [loop EXCEPT ![c] = "wait"]
          /\ attempt' = [attempt EXCEPT ![c] = position[c]]
          /\ playback_tasks' = [playback_tasks EXCEPT ![target[c]] = c]
          /\ contended' \in {contended, contended \cup {target[c]}}
          /\ pc' = [pc EXCEPT ![c] = "done"]
      BY <1>8, <2>2 DEF Register
    <3>3. UNCHANGED <<kind, target, total, position, failures, reaped, loaded, owner>>
      BY <1>8, <2>2 DEF Register
    <3> QED BY <3>1, <3>2, <3>3
  <2> QED BY <2>1, <2>2
<1>9. ASSUME NEW c \in Calls, NEW n \in RankedLengths, StartLoop(c, n) PROVE TypeOK'
  <2>1. n \in Nat
    BY RankedLengthsNat
  <2>2. CASE n = 0
    <3>1. pc' = [pc EXCEPT ![c] = "error"]
      BY <1>9, <2>2 DEF StartLoop
    <3>2. UNCHANGED <<kind, target, loop, total, position, attempt, failures,
                      reaped, registry, loaded>>
      BY <1>9, <2>2 DEF StartLoop
    <3> QED BY <3>1, <3>2
  <2>3. CASE n # 0
    <3>1. /\ pc' = [pc EXCEPT ![c] = "loop"]
          /\ loop' = [loop EXCEPT ![c] = "session"]
          /\ total' = [total EXCEPT ![c] = n]
          /\ position' = [position EXCEPT ![c] = 1]
          /\ attempt' = [attempt EXCEPT ![c] = 1]
          /\ UNCHANGED <<kind, target, failures, reaped, registry, loaded>>
      BY <1>9, <2>1, <2>3 DEF StartLoop
    <3> QED BY <2>1, <3>1
  <2> QED BY <2>2, <2>3
<1>10. ASSUME NEW c \in Calls, NEW n \in RankedLengths, ResolveRanks(c, n) PROVE TypeOK'
  BY <1>10, RankedLengthsNat, TakeOverType DEF ResolveRanks
<1>11. ASSUME NEW c \in Calls, LoopSession(c) PROVE TypeOK'
  BY <1>11 DEF LoopSession
<1>12. ASSUME NEW c \in Calls, LoopSends(c) PROVE TypeOK'
  BY <1>12 DEF LoopSends
<1>13. ASSUME NEW c \in Calls, LoopSucceeds(c) PROVE TypeOK'
  BY <1>13 DEF LoopSucceeds, FinishHandler
<1>14. ASSUME NEW c \in Calls, LoopFails(c) PROVE TypeOK'
  <2>1. Append(failures[c], position[c]) \in Seq(Nat)
    OBVIOUS
  <2>2. failures' \in [Calls -> Seq(Nat)]
    BY <1>14, <2>1 DEF LoopFails
  <2>3. pc' \in [Calls -> Awaiting \cup Ended \cup {"idle"}]
    BY <1>14 DEF LoopFails, FinishHandler
  <2>4. /\ position' \in [Calls -> Nat]
        /\ attempt' \in [Calls -> Nat]
        /\ loop' \in [Calls -> Working \cup {"none", "started", "failed", "cancelled"}]
    <3>1. position[c] + 1 \in Nat /\ attempt[c] + 1 \in Nat
      OBVIOUS
    <3>2. CASE position[c] < total[c]
      <4>1. /\ position' = [position EXCEPT ![c] = position[c] + 1]
            /\ attempt' = [attempt EXCEPT ![c] = attempt[c] + 1]
            /\ loop' = [loop EXCEPT ![c] = "session"]
        BY <1>14, <3>2 DEF LoopFails
      <4> QED BY <3>1, <4>1
    <3>3. CASE ~(position[c] < total[c])
      <4>1. /\ UNCHANGED <<position, attempt>>
            /\ loop' = [loop EXCEPT ![c] = "failed"]
        BY <1>14, <3>3 DEF LoopFails
      <4> QED BY <4>1
    <3> QED BY <3>2, <3>3
  <2>5. UNCHANGED <<kind, target, total, reaped, registry, loaded>>
    BY <1>14 DEF LoopFails
  <2> QED BY <2>2, <2>3, <2>4, <2>5
<1>15. ASSUME NEW c \in Calls, RemoveFinished(c) PROVE TypeOK'
  BY <1>15 DEF RemoveFinished
<1>16. ASSUME NEW c \in Calls, Aborts(c) PROVE TypeOK'
  BY <1>16 DEF Aborts
<1>17. CASE Unload
  BY <1>17 DEF Unload
<1>18. CASE UNCHANGED vars
  BY <1>18 DEF vars
<1> QED
  BY <1>1, <1>2, <1>3, <1>4, <1>5, <1>6, <1>7, <1>8, <1>9, <1>10, <1>11, <1>12,
     <1>13, <1>14, <1>15, <1>16, <1>17, <1>18 DEF Next, HandlerStep, LoopStep

-----------------------------------------------------------------------------
(* Control.                                                                 *)

(* No step of a handler, a loop or a callback leaves the control states:    *)
(* a service call's loop lives within the call, a monitor after it.         *)
LEMMA ControlStep ==
  TypeOK /\ ControlInv /\ RegistrySound /\ [Next]_vars => ControlInv'
<1> SUFFICES ASSUME TypeOK, ControlInv, RegistrySound, [Next]_vars, NEW d \in Calls
             PROVE  ControlAt(d)'
  BY DEF ControlInv
<1>0. /\ ControlAt(d)
      /\ \A p \in Players : playback_tasks[p] = d => kind[d] = "resolve"
  BY ConstantsOK DEF ControlInv, RegistrySound
<1> USE <1>0 DEF TypeOK, ControlAt, request, progress, registry, Working, Awaiting,
    Ended, AllKinds, Live
<1>1. ASSUME NEW c \in Calls, NEW k \in AllKinds, NEW p \in Players \cup {NoPlayer},
             Begin(c, k, p) PROVE ControlAt(d)'
  BY <1>1 DEF Begin, TakeOver
<1>2. ASSUME NEW c \in Calls, NoStreams(c) PROVE ControlAt(d)'
  BY <1>2 DEF NoStreams
<1>3. ASSUME NEW c \in Calls, PlayTakesOver(c) PROVE ControlAt(d)'
  <2>1. kind[c] = "play" /\ pc[c] = "streams" /\ loop[c] = "none" /\ target[c] \in Players
    BY <1>3 DEF PlayTakesOver, ControlInv
  <2>2. CASE d = c
    BY <1>3, <2>1, <2>2 DEF PlayTakesOver, TakeOver
  <2>3. CASE d # c
    BY <1>3, <2>1, <2>3 DEF PlayTakesOver, TakeOver
  <2> QED BY <2>2, <2>3
<1>4. ASSUME NEW c \in Calls, SessionReady(c) PROVE ControlAt(d)'
  BY <1>4 DEF SessionReady
<1>5. ASSUME NEW c \in Calls, CommandUrl(c) PROVE ControlAt(d)'
  BY <1>5 DEF CommandUrl
<1>6. ASSUME NEW c \in Calls, ResolveRejects(c) PROVE ControlAt(d)'
  BY <1>6 DEF ResolveRejects
<1>7. ASSUME NEW c \in Calls, ResolvePrepares(c) PROVE ControlAt(d)'
  BY <1>7 DEF ResolvePrepares
<1>8. ASSUME NEW c \in Calls, Register(c) PROVE ControlAt(d)'
  BY <1>8 DEF Register
<1>9. ASSUME NEW c \in Calls, NEW n \in RankedLengths, StartLoop(c, n) PROVE ControlAt(d)'
  BY <1>9 DEF StartLoop
<1>10. ASSUME NEW c \in Calls, NEW n \in RankedLengths, ResolveRanks(c, n) PROVE ControlAt(d)'
  BY <1>10 DEF ResolveRanks, TakeOver
<1>11. ASSUME NEW c \in Calls, LoopSession(c) PROVE ControlAt(d)'
  BY <1>11 DEF LoopSession
<1>12. ASSUME NEW c \in Calls, LoopSends(c) PROVE ControlAt(d)'
  BY <1>12 DEF LoopSends
<1>13. ASSUME NEW c \in Calls, LoopSucceeds(c) PROVE ControlAt(d)'
  BY <1>13 DEF LoopSucceeds, FinishHandler
<1>14. ASSUME NEW c \in Calls, LoopFails(c) PROVE ControlAt(d)'
  BY <1>14 DEF LoopFails, FinishHandler
<1>15. ASSUME NEW c \in Calls, RemoveFinished(c) PROVE ControlAt(d)'
  BY <1>15 DEF RemoveFinished
<1>16. ASSUME NEW c \in Calls, Aborts(c) PROVE ControlAt(d)'
  BY <1>16 DEF Aborts
<1>17. CASE Unload
  BY <1>17 DEF Unload
<1>18. CASE UNCHANGED vars
  BY <1>18 DEF vars
<1> QED
  BY <1>1, <1>2, <1>3, <1>4, <1>5, <1>6, <1>7, <1>8, <1>9, <1>10, <1>11, <1>12,
     <1>13, <1>14, <1>15, <1>16, <1>17, <1>18 DEF Next, HandlerStep, LoopStep

-----------------------------------------------------------------------------
(* Failure accounting.                                                      *)

(* Recording the next rank extends the gapless count.                       *)
LEMMA RanksUpToAppend ==
  ASSUME NEW n \in Nat, n > 0
  PROVE  Append(RanksUpTo(n - 1), n) = RanksUpTo(n)
BY DEF RanksUpTo

(* A request that has recorded nothing has recorded the ranks up to zero.   *)
LEMMA RanksUpToZero == RanksUpTo(0) = <<>>
BY DEF RanksUpTo

(* The rank after one that is not the last.                                 *)
LEMMA NextRank ==
  ASSUME NEW last \in Nat, NEW n \in 1..last, n < last
  PROVE  n + 1 \in 1..last /\ n + 1 - 1 = n
OBVIOUS

(* Each of the three places that record a failure extends the gapless       *)
(* list, and handing a request to its monitor keeps it.                     *)
LEMMA FailureStep == TypeOK /\ ControlInv /\ FailureInv /\ [Next]_vars => FailureInv'
<1> SUFFICES ASSUME TypeOK, ControlInv, FailureInv, [Next]_vars, NEW d \in Calls
             PROVE  FailureAt(d)'
  BY DEF FailureInv
<1>0. ControlAt(d) /\ FailureAt(d)
  BY DEF FailureInv, ControlInv
<1> USE <1>0 DEF TypeOK, ControlAt, FailureAt, Trying, request, progress, registry,
    Working, Awaiting, Ended, AllKinds, Live
<1>1. ASSUME NEW c \in Calls, NEW k \in AllKinds, NEW p \in Players \cup {NoPlayer},
             Begin(c, k, p) PROVE FailureAt(d)'
  BY <1>1 DEF Begin, TakeOver
<1>2. ASSUME NEW c \in Calls, NoStreams(c) PROVE FailureAt(d)'
  BY <1>2 DEF NoStreams
<1>3. ASSUME NEW c \in Calls, PlayTakesOver(c) PROVE FailureAt(d)'
  BY <1>3 DEF PlayTakesOver, TakeOver
<1>4. ASSUME NEW c \in Calls, SessionReady(c) PROVE FailureAt(d)'
  BY <1>4 DEF SessionReady
<1>5. ASSUME NEW c \in Calls, CommandUrl(c) PROVE FailureAt(d)'
  BY <1>5 DEF CommandUrl
<1>6. ASSUME NEW c \in Calls, ResolveRejects(c) PROVE FailureAt(d)'
  <2>1. CASE d # c
    BY <1>6, <2>1 DEF ResolveRejects
  <2>2. CASE d = c
    <3>1. failures'[c] = RanksUpTo(position[c])
      <4>1. failures[c] = RanksUpTo(position[c] - 1) /\ position[c] \in 1..total[c]
        BY <1>6, <2>2 DEF ResolveRejects
      <4>2. Append(RanksUpTo(position[c] - 1), position[c]) = RanksUpTo(position[c])
        <5>1. position[c] \in Nat /\ position[c] > 0
          BY <4>1
        <5> QED BY <5>1, RanksUpToAppend, Zenon
      <4> QED BY <1>6, <4>1, <4>2 DEF ResolveRejects
    <3>2. CASE position[c] < total[c]
      <4>1. position'[c] = position[c] + 1 /\ total' = total /\ pc' = pc /\ loop' = loop /\ kind' = kind
        BY <1>6, <3>2 DEF ResolveRejects
      <4>2. loop[c] = "none"
        BY <1>6, <2>2 DEF ResolveRejects
      <4>3. position[c] \in 1..total[c] /\ pc[c] = "prepare"
        BY <1>6, <2>2 DEF ResolveRejects
      <4>4. position'[c] \in 1..total'[c] /\ position'[c] - 1 = position[c]
        <5>1. total[c] \in Nat /\ position[c] \in 1..total[c]
          BY <4>3 DEF TypeOK
        <5>2. position'[c] = position[c] + 1 /\ total'[c] = total[c]
          BY <4>1
        <5>3. position[c] + 1 \in 1..total[c] /\ position[c] + 1 - 1 = position[c]
          BY <3>2, <5>1, NextRank
        <5> QED BY <5>2, <5>3
      <4> QED BY <2>2, <3>1, <4>1, <4>2, <4>3, <4>4
    <3>3. CASE ~(position[c] < total[c])
      BY <1>6, <2>2, <3>1, <3>3 DEF ResolveRejects
    <3> QED BY <3>2, <3>3
  <2> QED BY <2>1, <2>2
<1>7. ASSUME NEW c \in Calls, ResolvePrepares(c) PROVE FailureAt(d)'
  BY <1>7 DEF ResolvePrepares
<1>8. ASSUME NEW c \in Calls, Register(c) PROVE FailureAt(d)'
  BY <1>8 DEF Register
<1>9. ASSUME NEW c \in Calls, NEW n \in RankedLengths, StartLoop(c, n) PROVE FailureAt(d)'
  <2>1. CASE d # c \/ n = 0
    BY <1>9, <2>1 DEF StartLoop
  <2>2. CASE d = c /\ n # 0
    <3>1. /\ failures'[c] = RanksUpTo(0)
          /\ position'[c] = 1 /\ attempt'[c] = 1 /\ total'[c] = n /\ n > 0 /\ n \in Nat
          /\ pc'[c] = "loop" /\ loop'[c] = "session"
      BY <1>9, <2>2, RanksUpToZero, RankedLengthsNat DEF StartLoop
    <3> QED BY <2>2, <3>1
  <2> QED BY <2>1, <2>2
<1>10. ASSUME NEW c \in Calls, NEW n \in RankedLengths, ResolveRanks(c, n) PROVE FailureAt(d)'
  <2>1. CASE d # c
    BY <1>10, <2>1 DEF ResolveRanks, TakeOver
  <2>2. CASE d = c
    <3>1. /\ failures'[c] = RanksUpTo(0)
          /\ position'[c] = 1 /\ total'[c] = n /\ n > 0 /\ n \in Nat
          /\ pc'[c] \in {"session", "prepare"} /\ loop'[c] = "none" /\ kind'[c] = kind[c]
      BY <1>10, <2>2, RanksUpToZero, RankedLengthsNat DEF ResolveRanks, TakeOver
    <3> QED BY <2>2, <3>1
  <2> QED BY <2>1, <2>2
<1>11. ASSUME NEW c \in Calls, LoopSession(c) PROVE FailureAt(d)'
  BY <1>11 DEF LoopSession
<1>12. ASSUME NEW c \in Calls, LoopSends(c) PROVE FailureAt(d)'
  BY <1>12 DEF LoopSends
<1>13. ASSUME NEW c \in Calls, LoopSucceeds(c) PROVE FailureAt(d)'
  BY <1>13 DEF LoopSucceeds, FinishHandler
<1>14. ASSUME NEW c \in Calls, LoopFails(c) PROVE FailureAt(d)'
  <2>1. CASE d # c
    BY <1>14, <2>1 DEF LoopFails, FinishHandler
  <2>2. CASE d = c
    <3>1. failures'[c] = RanksUpTo(position[c])
      <4>1. failures[c] = RanksUpTo(position[c] - 1) /\ position[c] \in 1..total[c]
        BY <1>14, <2>2 DEF LoopFails
      <4>2. Append(RanksUpTo(position[c] - 1), position[c]) = RanksUpTo(position[c])
        <5>1. position[c] \in Nat /\ position[c] > 0
          BY <4>1
        <5> QED BY <5>1, RanksUpToAppend, Zenon
      <4> QED BY <1>14, <4>1, <4>2 DEF LoopFails
    <3>2. CASE position[c] < total[c]
      <4>1. /\ position'[c] = position[c] + 1 /\ attempt'[c] = attempt[c] + 1
            /\ total' = total /\ kind' = kind /\ pc' = pc /\ loop'[c] = "session"
        BY <1>14, <3>2 DEF LoopFails
      <4>2. position[c] \in 1..total[c] /\ attempt[c] = position[c]
        BY <1>14, <2>2 DEF LoopFails
      <4>3. pc[c] \in {"loop", "done"}
        BY <1>14, <2>2, <3>2 DEF LoopFails
      <4>4. position'[c] \in 1..total'[c] /\ position'[c] - 1 = position[c]
        <5>1. total[c] \in Nat /\ position[c] \in 1..total[c]
          BY <4>2 DEF TypeOK
        <5>2. position'[c] = position[c] + 1 /\ total'[c] = total[c]
          BY <4>1
        <5>3. position[c] + 1 \in 1..total[c] /\ position[c] + 1 - 1 = position[c]
          BY <3>2, <5>1, NextRank
        <5> QED BY <5>2, <5>3
      <4> QED BY <2>2, <3>1, <4>1, <4>2, <4>3, <4>4
    <3>3. CASE ~(position[c] < total[c])
      BY <1>14, <2>2, <3>1, <3>3 DEF LoopFails, FinishHandler
    <3> QED BY <3>2, <3>3
  <2> QED BY <2>1, <2>2
<1>15. ASSUME NEW c \in Calls, RemoveFinished(c) PROVE FailureAt(d)'
  BY <1>15 DEF RemoveFinished
<1>16. ASSUME NEW c \in Calls, Aborts(c) PROVE FailureAt(d)'
  BY <1>16 DEF Aborts
<1>17. CASE Unload
  BY <1>17 DEF Unload
<1>18. CASE UNCHANGED vars
  BY <1>18 DEF vars
<1> QED
  BY <1>1, <1>2, <1>3, <1>4, <1>5, <1>6, <1>7, <1>8, <1>9, <1>10, <1>11, <1>12,
     <1>13, <1>14, <1>15, <1>16, <1>17, <1>18 DEF Next, HandlerStep, LoopStep

-----------------------------------------------------------------------------
(* The registry.                                                            *)

RegistryAt(q) ==
  playback_tasks[q] # NoCall =>
    /\ kind[playback_tasks[q]] = "resolve"
    /\ target[playback_tasks[q]] = q
    /\ \/ Live(playback_tasks[q])
       \/ /\ loop[playback_tasks[q]] \in {"started", "failed"}
          /\ ~reaped[playback_tasks[q]]

(* Taking a player over empties its entry and leaves the others sound: the  *)
(* task it cancels is registered for no other player.                       *)
LEMMA TakeOverRegistry ==
  ASSUME TypeOK, RegistrySound, NEW c \in Calls, NEW p \in Players, TakeOver(c, p),
         UNCHANGED reaped,
         \A d \in Calls : kind[d] = "resolve" => kind'[d] = kind[d] /\ target'[d] = target[d],
         NEW q \in Players
  PROVE  RegistryAt(q)'
<1> USE ConstantsOK DEF TypeOK, RegistryAt, Live, Working
<1>1. RegistryAt(p) /\ RegistryAt(q)
  BY DEF RegistrySound
<1>2. CASE q = p
  BY <1>2 DEF TakeOver
<1>3. CASE q # p /\ playback_tasks[q] # NoCall
  <2> DEFINE e == playback_tasks[q]
  <2>1. e \in Calls /\ playback_tasks'[q] = e /\ e # playback_tasks[p]
    BY <1>1, <1>3 DEF TakeOver
  <2>2. loop'[e] = loop[e] /\ kind'[e] = kind[e] /\ target'[e] = target[e]
    BY <1>1, <1>3, <2>1 DEF TakeOver
  <2> QED BY <1>1, <1>3, <2>1, <2>2
<1>4. CASE q # p /\ playback_tasks[q] = NoCall
  BY <1>4 DEF TakeOver
<1> QED BY <1>2, <1>3, <1>4

(* No step leaves a cancelled or forgotten task in playback_tasks: whoever  *)
(* cancels a monitor also pops it, and the callback pops only its own.      *)
LEMMA RegistryStep ==
  TypeOK /\ ControlInv /\ RegistrySound /\ [Next]_vars => RegistrySound'
<1> SUFFICES ASSUME TypeOK, ControlInv, RegistrySound, [Next]_vars, NEW q \in Players
             PROVE  RegistryAt(q)'
  BY DEF RegistrySound, RegistryAt
<1>0. (\A r \in Players : RegistryAt(r)) /\ \A d \in Calls : ControlAt(d)
  BY DEF ControlInv, RegistrySound, RegistryAt
<1> USE <1>0, ConstantsOK DEF TypeOK, ControlAt, RegistryAt, request, progress, registry,
    Working, Awaiting, Ended, AllKinds, Live
<1>1. ASSUME NEW c \in Calls, NEW k \in AllKinds, NEW p \in Players \cup {NoPlayer},
             Begin(c, k, p) PROVE RegistryAt(q)'
  <2>1. CASE k = "url"
    <3>1. p \in Players /\ TakeOver(c, p) /\ reaped' = reaped
      BY <1>1, <2>1 DEF Begin
    <3>2. kind[c] = "none" /\ kind' = [kind EXCEPT ![c] = k]
          /\ target' = [target EXCEPT ![c] = p]
      BY <1>1 DEF Begin
    <3> QED BY <3>1, <3>2, TakeOverRegistry
  <2>2. CASE k # "url"
    BY <1>1, <2>2 DEF Begin
  <2> QED BY <2>1, <2>2
<1>2. ASSUME NEW c \in Calls, NoStreams(c) PROVE RegistryAt(q)'
  BY <1>2 DEF NoStreams
<1>3. ASSUME NEW c \in Calls, PlayTakesOver(c) PROVE RegistryAt(q)'
  BY <1>3, TakeOverRegistry DEF PlayTakesOver
<1>4. ASSUME NEW c \in Calls, SessionReady(c) PROVE RegistryAt(q)'
  BY <1>4 DEF SessionReady
<1>5. ASSUME NEW c \in Calls, CommandUrl(c) PROVE RegistryAt(q)'
  BY <1>5 DEF CommandUrl
<1>6. ASSUME NEW c \in Calls, ResolveRejects(c) PROVE RegistryAt(q)'
  BY <1>6 DEF ResolveRejects
<1>7. ASSUME NEW c \in Calls, ResolvePrepares(c) PROVE RegistryAt(q)'
  BY <1>7 DEF ResolvePrepares
<1>8. ASSUME NEW c \in Calls, Register(c) PROVE RegistryAt(q)'
  <2>1. CASE target[c] = NoPlayer
    BY <1>8, <2>1 DEF Register
  <2>2. CASE target[c] # NoPlayer
    <3>1. target[c] \in Players /\ kind[c] = "resolve" /\ loop[c] = "none" /\ ~reaped[c]
      <4>1. ControlAt(c) /\ pc[c] = "subtitle"
        BY <1>8 DEF Register
      <4> QED BY <4>1, <2>2
    <3>2. /\ playback_tasks' = [playback_tasks EXCEPT ![target[c]] = c]
          /\ UNCHANGED <<kind, target, reaped>>
          /\ loop' = [loop EXCEPT ![c] = "wait"]
      BY <1>8, <2>2 DEF Register
    <3>3. CASE q = target[c]
      BY <3>1, <3>2, <3>3
    <3>4. CASE q # target[c]
      BY <3>1, <3>2, <3>4
    <3> QED BY <3>3, <3>4
  <2> QED BY <2>1, <2>2
<1>9. ASSUME NEW c \in Calls, NEW n \in RankedLengths, StartLoop(c, n) PROVE RegistryAt(q)'
  BY <1>9 DEF StartLoop
<1>10. ASSUME NEW c \in Calls, NEW n \in RankedLengths, ResolveRanks(c, n) PROVE RegistryAt(q)'
  <2>1. CASE target[c] = NoPlayer
    BY <1>10, <2>1 DEF ResolveRanks
  <2>2. CASE target[c] # NoPlayer
    BY <1>10, <2>2, TakeOverRegistry DEF ResolveRanks
  <2> QED BY <2>1, <2>2
<1>11. ASSUME NEW c \in Calls, LoopSession(c) PROVE RegistryAt(q)'
  BY <1>11 DEF LoopSession
<1>12. ASSUME NEW c \in Calls, LoopSends(c) PROVE RegistryAt(q)'
  BY <1>12 DEF LoopSends
<1>13. ASSUME NEW c \in Calls, LoopSucceeds(c) PROVE RegistryAt(q)'
  BY <1>13 DEF LoopSucceeds, FinishHandler
<1>14. ASSUME NEW c \in Calls, LoopFails(c) PROVE RegistryAt(q)'
  <2>1. UNCHANGED <<kind, target, reaped, playback_tasks>> /\ Live(c)
    BY <1>14 DEF LoopFails
  <2>2. /\ loop'[c] \in {"session", "failed"}
        /\ \A e \in Calls : e # c => loop'[e] = loop[e]
    BY <1>14 DEF LoopFails
  <2>3. ControlAt(c) /\ RegistryAt(q)
    BY <1>0
  <2>4. CASE playback_tasks[q] = c
    <3>1. ~reaped'[c]
      BY <2>1, <2>3
    <3> QED BY <2>1, <2>2, <2>3, <2>4, <3>1
  <2>5. CASE playback_tasks[q] # c
    <3>1. playback_tasks[q] # NoCall => loop'[playback_tasks[q]] = loop[playback_tasks[q]]
      BY <2>2, <2>5
    <3> QED BY <2>1, <2>3, <3>1
  <2> QED BY <2>4, <2>5
<1>15. ASSUME NEW c \in Calls, RemoveFinished(c) PROVE RegistryAt(q)'
  BY <1>15 DEF RemoveFinished
<1>16. ASSUME NEW c \in Calls, Aborts(c) PROVE RegistryAt(q)'
  BY <1>16 DEF Aborts
<1>17. CASE Unload
  BY <1>17 DEF Unload
<1>18. CASE UNCHANGED vars
  BY <1>18 DEF vars
<1> QED
  BY <1>1, <1>2, <1>3, <1>4, <1>5, <1>6, <1>7, <1>8, <1>9, <1>10, <1>11, <1>12,
     <1>13, <1>14, <1>15, <1>16, <1>17, <1>18 DEF Next, HandlerStep, LoopStep

MonitorAt(c) ==
  LiveMonitor(c) /\ target[c] \notin contended =>
    playback_tasks[target[c]] = c /\ owner[target[c]] = c

(* A live monitor stays the registered one of the newest request on every   *)
(* player that no superseded request registered for.                        *)
LEMMA MonitorStep ==
  TypeOK /\ ControlInv /\ RegistrySound /\ MonitorDiscipline /\ [Next]_vars
    => MonitorDiscipline'
<1> SUFFICES ASSUME TypeOK, ControlInv, RegistrySound, MonitorDiscipline,
                    [Next]_vars, NEW d \in Calls
             PROVE  MonitorAt(d)'
  BY DEF MonitorDiscipline, MonitorAt
<1>0. MonitorAt(d) /\ ControlAt(d)
  BY DEF ControlInv, MonitorDiscipline, MonitorAt
<1> USE <1>0, ConstantsOK DEF TypeOK, ControlAt, MonitorAt, LiveMonitor, request, progress,
    registry, Working, Awaiting, Ended, AllKinds, Live
<1>1. ASSUME NEW c \in Calls, NEW k \in AllKinds, NEW p \in Players \cup {NoPlayer},
             Begin(c, k, p) PROVE MonitorAt(d)'
  BY SMTT(30), <1>1 DEF Begin, TakeOver
<1>2. ASSUME NEW c \in Calls, NoStreams(c) PROVE MonitorAt(d)'
  BY <1>2 DEF NoStreams
<1>3. ASSUME NEW c \in Calls, PlayTakesOver(c) PROVE MonitorAt(d)'
  BY SMTT(30), <1>3 DEF PlayTakesOver, TakeOver
<1>4. ASSUME NEW c \in Calls, SessionReady(c) PROVE MonitorAt(d)'
  BY <1>4 DEF SessionReady
<1>5. ASSUME NEW c \in Calls, CommandUrl(c) PROVE MonitorAt(d)'
  BY <1>5 DEF CommandUrl
<1>6. ASSUME NEW c \in Calls, ResolveRejects(c) PROVE MonitorAt(d)'
  BY <1>6 DEF ResolveRejects
<1>7. ASSUME NEW c \in Calls, ResolvePrepares(c) PROVE MonitorAt(d)'
  BY <1>7 DEF ResolvePrepares
<1>8. ASSUME NEW c \in Calls, Register(c) PROVE MonitorAt(d)'
  BY <1>8 DEF Register
<1>9. ASSUME NEW c \in Calls, NEW n \in RankedLengths, StartLoop(c, n) PROVE MonitorAt(d)'
  BY <1>9 DEF StartLoop
<1>10. ASSUME NEW c \in Calls, NEW n \in RankedLengths, ResolveRanks(c, n) PROVE MonitorAt(d)'
  BY SMTT(30), <1>10 DEF ResolveRanks, TakeOver
<1>11. ASSUME NEW c \in Calls, LoopSession(c) PROVE MonitorAt(d)'
  BY <1>11 DEF LoopSession
<1>12. ASSUME NEW c \in Calls, LoopSends(c) PROVE MonitorAt(d)'
  BY <1>12 DEF LoopSends
<1>13. ASSUME NEW c \in Calls, LoopSucceeds(c) PROVE MonitorAt(d)'
  BY <1>13 DEF LoopSucceeds, FinishHandler
<1>14. ASSUME NEW c \in Calls, LoopFails(c) PROVE MonitorAt(d)'
  BY <1>14 DEF LoopFails, FinishHandler
<1>15. ASSUME NEW c \in Calls, RemoveFinished(c) PROVE MonitorAt(d)'
  BY <1>15 DEF RemoveFinished
<1>16. ASSUME NEW c \in Calls, Aborts(c) PROVE MonitorAt(d)'
  BY <1>16 DEF Aborts
<1>17. CASE Unload
  BY <1>17 DEF Unload
<1>18. CASE UNCHANGED vars
  BY <1>18 DEF vars
<1> QED
  BY <1>1, <1>2, <1>3, <1>4, <1>5, <1>6, <1>7, <1>8, <1>9, <1>10, <1>11, <1>12,
     <1>13, <1>14, <1>15, <1>16, <1>17, <1>18 DEF Next, HandlerStep, LoopStep

-----------------------------------------------------------------------------
(* The theorems.                                                            *)

(* Nothing was requested yet: the inductive invariant holds.                *)
LEMMA InitIInv == Init => IInv
<1> SUFFICES ASSUME Init PROVE IInv
  OBVIOUS
<1> USE DEF Init
<1>1. TypeOK
  BY DEF TypeOK, Working, Awaiting, Ended, AllKinds
<1>2. ControlInv
  BY DEF ControlInv, ControlAt, Live, Working
<1>3. FailureInv
  BY DEF FailureInv, FailureAt, Trying, Live, Working
<1>4. MonitorDiscipline /\ RegistrySound
  BY DEF MonitorDiscipline, RegistrySound, LiveMonitor, Live, Working
<1> QED BY <1>1, <1>2, <1>3, <1>4 DEF IInv

(* Every step of the supervisor keeps the inductive invariant.              *)
LEMMA NextIInv == IInv /\ [Next]_vars => IInv'
BY TypeStep, ControlStep, FailureStep, RegistryStep, MonitorStep DEF IInv

(* The inductive invariant holds in every reachable state.                  *)
THEOREM Invariance == Spec => []IInv
BY InitIInv, NextIInv, PTL DEF Spec

(* In every reachable state each variable has the type TypeOK gives it,     *)
(* whatever the number of requests, players and streams.                    *)
THEOREM TypeCorrect == Spec => []TypeOK
<1>1. IInv => TypeOK
  BY DEF IInv
<1> QED BY <1>1, Invariance, PTL

(* Whatever the interleaving of requests, cancellations and unloads, the    *)
(* failures recorded for a request are the ranks below the candidate in     *)
(* hand, in order, and a reported failure carries one per candidate.        *)
THEOREM FailuresAccounted == Spec => []FailureAccounting
<1>1. IInv => FailureAccounting
  BY DEF IInv, FailureInv, FailureAt, FailureAccounting, Trying
<1> QED BY <1>1, Invariance, PTL

-----------------------------------------------------------------------------
(* The number of candidates.                                                *)

Failed(c) == "failed" \in {loop[c], pc[c]}

LimitInv ==
  \A c \in Calls : total[c] \in 0..MaxCount /\ (Failed(c) => total[c] # 0)

(* A request is given its candidates once, and at least one.                *)
LEMMA TotalStep ==
  ASSUME TypeOK, [Next]_vars, NEW c \in Calls
  PROVE  total'[c] = total[c] \/ total'[c] \in RankedLengths \ {0}
<1> USE DEF TypeOK, request, progress
<1>1. CASE \E d \in Calls, n \in RankedLengths : StartLoop(d, n) \/ ResolveRanks(d, n)
  <2>1. PICK d \in Calls, n \in RankedLengths : StartLoop(d, n) \/ ResolveRanks(d, n)
    BY <1>1
  <2>2. n \in Nat
    BY RankedLengthsNat
  <2>3. CASE StartLoop(d, n)
    BY <2>2, <2>3 DEF StartLoop
  <2>4. CASE ResolveRanks(d, n)
    BY <2>2, <2>4 DEF ResolveRanks
  <2> QED BY <2>1, <2>3, <2>4
<1>2. CASE UNCHANGED total
  BY <1>2
<1>3. ASSUME NEW d \in Calls, HandlerStep(d) PROVE
        UNCHANGED total \/ \E n \in RankedLengths : StartLoop(d, n) \/ ResolveRanks(d, n)
  BY <1>3 DEF HandlerStep, NoStreams, PlayTakesOver, SessionReady, CommandUrl, ResolveRejects,
     ResolvePrepares, Register
<1>4. ASSUME NEW d \in Calls, LoopStep(d) PROVE UNCHANGED total
  BY <1>4 DEF LoopStep, LoopSession, LoopSends, LoopSucceeds, LoopFails
<1>5. ASSUME NEW d \in Calls, RemoveFinished(d) \/ Aborts(d) PROVE UNCHANGED total
  BY <1>5 DEF RemoveFinished, Aborts
<1>6. ASSUME NEW d \in Calls, NEW k \in AllKinds, NEW p \in Players \cup {NoPlayer},
             Begin(d, k, p)
      PROVE  UNCHANGED total
  BY <1>6 DEF Begin
<1>7. CASE Unload
  BY <1>7 DEF Unload
<1>8. CASE UNCHANGED vars
  BY <1>8 DEF vars
<1> QED BY <1>1, <1>2, <1>3, <1>4, <1>5, <1>6, <1>7, <1>8 DEF Next

(* Only a request that has a candidate in hand fails.                       *)
LEMMA FailedStep ==
  ASSUME TypeOK, ControlInv, [Next]_vars, NEW c \in Calls, Failed(c)'
  PROVE  Failed(c) \/ Trying(c)
<1> USE DEF TypeOK, Failed, Trying, Live, Working
<1>1. ASSUME NEW d \in Calls, HandlerStep(d) PROVE Failed(c) \/ Trying(c)
  <2>1. CASE NoStreams(d) \/ PlayTakesOver(d) \/ SessionReady(d) \/ CommandUrl(d)
    BY <2>1 DEF NoStreams, PlayTakesOver, SessionReady, CommandUrl, TakeOver
  <2>2. CASE ResolveRejects(d) \/ ResolvePrepares(d) \/ Register(d)
    <3>1. ControlAt(d)
      BY DEF ControlInv
    <3>2. pc[d] \in {"prepare", "subtitle"} => Trying(d)
      BY <3>1 DEF ControlAt
    <3> QED BY <2>2, <3>2 DEF ResolveRejects, ResolvePrepares, Register
  <2>3. CASE \E n \in RankedLengths : StartLoop(d, n) \/ ResolveRanks(d, n)
    BY <2>3 DEF StartLoop, ResolveRanks, TakeOver
  <2> QED BY <1>1, <2>1, <2>2, <2>3 DEF HandlerStep
<1>2. ASSUME NEW d \in Calls, LoopStep(d) PROVE Failed(c) \/ Trying(c)
  BY <1>2 DEF LoopStep, LoopSession, LoopSends, LoopSucceeds, LoopFails, FinishHandler
<1>3. ASSUME NEW d \in Calls, RemoveFinished(d) \/ Aborts(d) PROVE Failed(c) \/ Trying(c)
  BY <1>3 DEF RemoveFinished, Aborts
<1>4. ASSUME NEW d \in Calls, NEW k \in AllKinds, NEW p \in Players \cup {NoPlayer},
             Begin(d, k, p)
      PROVE  Failed(c) \/ Trying(c)
  BY <1>4 DEF Begin, TakeOver
<1>5. CASE Unload
  BY <1>5 DEF Unload
<1>6. CASE UNCHANGED vars
  BY <1>6 DEF vars
<1> QED BY <1>1, <1>2, <1>3, <1>4, <1>5, <1>6 DEF Next

(* Whatever the option holds, a request tries MaxCount candidates at most,  *)
(* and is reported to have failed only after it tried at least one.         *)
THEOREM AttemptsAreLimited == Spec => []AttemptsLimited
<1>1. Init => LimitInv
  <2> SUFFICES ASSUME Init, NEW c \in Calls
               PROVE  total[c] \in 0..MaxCount /\ ~Failed(c)
    BY DEF LimitInv
  <2>1. total[c] = 0 /\ pc[c] = "idle" /\ loop[c] = "none"
    BY DEF Init
  <2>2. 0 \in 0..MaxCount
    BY ConstantsOK
  <2> QED BY <2>1, <2>2 DEF Failed
<1>2. IInv /\ LimitInv /\ [Next]_vars => LimitInv'
  <2> SUFFICES ASSUME IInv, LimitInv, [Next]_vars, NEW c \in Calls
               PROVE  (total[c] \in 0..MaxCount /\ (Failed(c) => total[c] # 0))'
    BY DEF LimitInv
  <2>1. total[c] \in 0..MaxCount /\ (Failed(c) => total[c] # 0)
    BY DEF LimitInv
  <2>2. RankedLengths \subseteq 0..MaxCount
    BY RankedLengthsLimited
  <2>3. total'[c] = total[c] \/ total'[c] \in RankedLengths \ {0}
    BY TotalStep DEF IInv
  <2>4. Trying(c) => total[c] # 0
    <3>1. Trying(c) => position[c] \in 1..total[c]
      BY DEF IInv, FailureInv, FailureAt
    <3> QED BY <2>1, <3>1
  <2>5. Failed(c)' => Failed(c) \/ Trying(c)
    BY FailedStep DEF IInv
  <2> HIDE DEF Failed
  <2> QED BY <2>1, <2>2, <2>3, <2>4, <2>5
<1>3. IInv /\ LimitInv => AttemptsLimited
  <2> SUFFICES ASSUME IInv, LimitInv, NEW c \in Calls
               PROVE  /\ Live(c) => attempt[c] \in 1..MaxCount
                      /\ Failed(c) => Len(failures[c]) \in 1..MaxCount
    BY DEF AttemptsLimited, Failed
  <2>1. FailureAt(c) /\ total[c] \in 0..MaxCount /\ (Failed(c) => total[c] # 0)
    BY DEF IInv, FailureInv, LimitInv
  <2>2. Live(c) => attempt[c] \in 1..MaxCount
    <3>1. Live(c) => position[c] \in 1..total[c] /\ attempt[c] = position[c]
      BY <2>1 DEF FailureAt, Trying
    <3>2. MaxCount \in Nat /\ total[c] \in 0..MaxCount
      BY <2>1, ConstantsOK
    <3> HIDE DEF Live
    <3> QED BY <3>1, <3>2
  <2>3. Failed(c) => failures[c] = RanksUpTo(total[c])
    BY <2>1 DEF FailureAt, Failed
  <2>4. Len(RanksUpTo(total[c])) = total[c]
    BY <2>1 DEF RanksUpTo
  <2>5. Failed(c) => total[c] \in 1..MaxCount
    BY <2>1, ConstantsOK
  <2> HIDE DEF Failed
  <2> QED BY <2>2, <2>3, <2>4, <2>5
<1> QED BY <1>1, <1>2, <1>3, Invariance, PTL DEF Spec

-----------------------------------------------------------------------------
(* On a player where no superseded request registered late, the live        *)
(* monitor is the registered one and belongs to the newest request.         *)
THEOREM MonitorsDisciplined == Spec => []MonitorDiscipline
<1>1. IInv => MonitorDiscipline
  BY DEF IInv
<1> QED BY <1>1, Invariance, PTL

(* playback_tasks never holds a cancelled task, nor one whose done callback *)
(* has already run.                                                         *)
THEOREM RegistryIsSound == Spec => []RegistrySound
<1>1. IInv => RegistrySound
  BY DEF IInv
<1> QED BY <1>1, Invariance, PTL

(* A running monitor leaves the registry only by being cancelled or         *)
(* replaced: no done callback of another task evicts it.                    *)
THEOREM NoEviction == Spec => NoForeignEviction
<1> DEFINE Kept(q, e) ==
      playback_tasks[q] = e /\ Live(e) /\ playback_tasks'[q] # e =>
        loop'[e] # loop[e] \/ playback_tasks'[q] # NoCall
<1>1. ASSUME IInv, [Next]_vars, NEW q \in Players, NEW e \in Calls PROVE Kept(q, e)
  <2> USE <1>1, ConstantsOK DEF IInv, TypeOK, Live, Working, registry
  <2>0. CASE UNCHANGED playback_tasks
    BY <2>0
  <2>1. ASSUME NEW c \in Calls, NEW p \in Players, TakeOver(c, p) PROVE Kept(q, e)
    BY <2>1 DEF TakeOver
  <2>2. ASSUME NEW c \in Calls, Register(c) PROVE Kept(q, e)
    BY <2>2 DEF Register
  <2>3. ASSUME NEW c \in Calls, RemoveFinished(c) PROVE Kept(q, e)
    BY <2>3 DEF RemoveFinished
  <2>4. CASE Unload
    BY <2>4 DEF Unload
  <2>5. ASSUME NEW c \in Calls, PlayTakesOver(c) PROVE Kept(q, e)
    BY <2>1, <2>5 DEF PlayTakesOver, ControlInv, ControlAt
  <2>6. ASSUME NEW c \in Calls, NEW n \in RankedLengths, ResolveRanks(c, n)
        PROVE  Kept(q, e)
    BY <2>0, <2>1, <2>6 DEF ResolveRanks
  <2>7. ASSUME NEW c \in Calls, NEW k \in AllKinds, NEW p \in Players \cup {NoPlayer},
               Begin(c, k, p)
        PROVE  Kept(q, e)
    BY <2>0, <2>1, <2>7 DEF Begin
  <2>8. ASSUME NEW c \in Calls,
               \/ NoStreams(c) \/ SessionReady(c) \/ CommandUrl(c) \/ ResolveRejects(c)
               \/ ResolvePrepares(c) \/ LoopStep(c) \/ Aborts(c)
        PROVE  UNCHANGED playback_tasks
    BY <2>8 DEF NoStreams, SessionReady, CommandUrl, ResolveRejects, ResolvePrepares,
       LoopStep, LoopSession, LoopSends, LoopSucceeds, LoopFails, Aborts
  <2>9. ASSUME NEW c \in Calls, NEW n \in RankedLengths, StartLoop(c, n)
        PROVE  UNCHANGED playback_tasks
    BY <2>9 DEF StartLoop
  <2> QED
    BY <2>0, <2>2, <2>3, <2>4, <2>5, <2>6, <2>7, <2>8, <2>9 DEF Next, HandlerStep, vars
<1>2. IInv /\ [Next]_vars =>
        [\A p \in Players, c \in Calls : Kept(p, c)]_vars
  BY <1>1
<1> QED BY <1>2, Invariance, PTL DEF Spec, NoForeignEviction

-----------------------------------------------------------------------------
(* The refinement.                                                          *)

(* What one step may do to one request, in the terms of RankedFallback.     *)
Became(d, from, to) == PhaseOf(d) \in from /\ PhaseOf(d)' \in to

Same(d) == total'[d] = total[d] /\ failures'[d] = failures[d]

FallbackMove(d) ==
  \/ Became(d, {"idle"}, {"trying"}) /\ total'[d] > 0 /\ failures'[d] = failures[d]
  \/ /\ Len(failures[d]) + 1 <= total[d]
     /\ Became(d, {"trying"},
               IF Len(failures[d]) + 1 < total[d] THEN {"trying"} ELSE {"failed"})
     /\ total'[d] = total[d]
     /\ failures'[d] = Append(failures[d], Len(failures[d]) + 1)
  \/ Became(d, {"trying"}, {"started", "stopped"}) /\ Same(d)
  \/ Became(d, {"idle"}, {"stopped"}) /\ Same(d)
  \/ PhaseOf(d)' = PhaseOf(d) /\ Same(d)

(* The failures up to rank n are n failures.                                *)
LEMMA LenRanks == ASSUME NEW n \in Nat PROVE Len(RanksUpTo(n)) = n
BY DEF RanksUpTo

(* Every step of the supervisor is one of the moves above, seen from any    *)
(* one request.                                                             *)
LEMMA MoveStep ==
  ASSUME IInv, [Next]_vars, NEW d \in Calls PROVE FallbackMove(d)
<1>0. /\ ControlAt(d) /\ FailureAt(d)
      /\ \A p \in Players : playback_tasks[p] = d => kind[d] = "resolve"
  BY ConstantsOK DEF IInv, ControlInv, FailureInv, RegistrySound
<1> USE <1>0 DEF IInv, TypeOK, ControlAt, FailureAt, Trying, Live, Ranking, PhaseOf,
    FallbackMove, Became, Same, request, progress, registry, Working, Awaiting, Ended, AllKinds
<1>1. ASSUME NEW c \in Calls, NEW k \in AllKinds, NEW p \in Players \cup {NoPlayer},
             Begin(c, k, p) PROVE FallbackMove(d)
  <2>1. CASE k = "url"
    BY <1>1, <2>1 DEF Begin, TakeOver
  <2>2. CASE k # "url"
    BY <1>1, <2>2 DEF Begin
  <2> QED BY <2>1, <2>2
<1>2. ASSUME NEW c \in Calls, NoStreams(c) PROVE FallbackMove(d)
  BY <1>2 DEF NoStreams
<1>3. ASSUME NEW c \in Calls, PlayTakesOver(c) PROVE FallbackMove(d)
  BY <1>3 DEF PlayTakesOver, TakeOver
<1>4. ASSUME NEW c \in Calls, SessionReady(c) PROVE FallbackMove(d)
  BY <1>4 DEF SessionReady
<1>5. ASSUME NEW c \in Calls, CommandUrl(c) PROVE FallbackMove(d)
  BY <1>5 DEF CommandUrl
<1>6. ASSUME NEW c \in Calls, ResolveRejects(c) PROVE FallbackMove(d)
  <2>1. CASE d # c
    BY <1>6, <2>1 DEF ResolveRejects
  <2>2. CASE d = c
    <3>1. /\ failures[c] = RanksUpTo(position[c] - 1) /\ position[c] \in 1..total[c]
          /\ PhaseOf(c) = "trying"
      BY <1>6, <2>2 DEF ResolveRejects
    <3>2. position[c] - 1 \in Nat /\ (position[c] - 1) + 1 = position[c]
      BY <3>1
    <3>3. Len(failures[c]) + 1 = position[c]
      BY <3>1, <3>2, LenRanks
    <3>4. failures'[c] = Append(failures[c], position[c]) /\ total'[c] = total[c]
      BY <1>6 DEF ResolveRejects
    <3>5. PhaseOf(c)' = IF position[c] < total[c] THEN "trying" ELSE "failed"
      BY <1>6, <2>2, <3>1 DEF ResolveRejects
    <3> QED BY <2>2, <3>1, <3>3, <3>4, <3>5
  <2> QED BY <2>1, <2>2
<1>7. ASSUME NEW c \in Calls, ResolvePrepares(c) PROVE FallbackMove(d)
  BY <1>7 DEF ResolvePrepares
<1>8. ASSUME NEW c \in Calls, Register(c) PROVE FallbackMove(d)
  BY <1>8 DEF Register
<1>9. ASSUME NEW c \in Calls, NEW n \in RankedLengths, StartLoop(c, n) PROVE FallbackMove(d)
  BY <1>9 DEF StartLoop
<1>10. ASSUME NEW c \in Calls, NEW n \in RankedLengths, ResolveRanks(c, n) PROVE FallbackMove(d)
  BY <1>10 DEF ResolveRanks, TakeOver
<1>11. ASSUME NEW c \in Calls, LoopSession(c) PROVE FallbackMove(d)
  BY <1>11 DEF LoopSession
<1>12. ASSUME NEW c \in Calls, LoopSends(c) PROVE FallbackMove(d)
  BY <1>12 DEF LoopSends
<1>13. ASSUME NEW c \in Calls, LoopSucceeds(c) PROVE FallbackMove(d)
  BY <1>13 DEF LoopSucceeds, FinishHandler
<1>14. ASSUME NEW c \in Calls, LoopFails(c) PROVE FallbackMove(d)
  <2>1. CASE d # c
    BY <1>14, <2>1 DEF LoopFails, FinishHandler
  <2>2. CASE d = c
    <3>1. /\ failures[c] = RanksUpTo(position[c] - 1) /\ position[c] \in 1..total[c]
          /\ PhaseOf(c) = "trying"
      BY <1>14, <2>2 DEF LoopFails
    <3>2. position[c] - 1 \in Nat /\ (position[c] - 1) + 1 = position[c]
      BY <3>1
    <3>3. Len(failures[c]) + 1 = position[c]
      BY <3>1, <3>2, LenRanks
    <3>4. failures'[c] = Append(failures[c], position[c]) /\ total'[c] = total[c]
      BY <1>14 DEF LoopFails
    <3>5. PhaseOf(c)' = IF position[c] < total[c] THEN "trying" ELSE "failed"
      BY <1>14, <2>2, <3>1 DEF LoopFails, FinishHandler
    <3> QED BY <2>2, <3>1, <3>3, <3>4, <3>5
  <2> QED BY <2>1, <2>2
<1>15. ASSUME NEW c \in Calls, RemoveFinished(c) PROVE FallbackMove(d)
  BY <1>15 DEF RemoveFinished
<1>16. ASSUME NEW c \in Calls, Aborts(c) PROVE FallbackMove(d)
  BY <1>16 DEF Aborts
<1>17. CASE Unload
  BY <1>17 DEF Unload
<1>18. CASE UNCHANGED vars
  BY <1>18 DEF vars
<1> QED
  BY <1>1, <1>2, <1>3, <1>4, <1>5, <1>6, <1>7, <1>8, <1>9, <1>10, <1>11, <1>12,
     <1>13, <1>14, <1>15, <1>16, <1>17, <1>18 DEF Next, HandlerStep, LoopStep

(* Each request, and so the program, implements the abstract supervision:   *)
(* initial states map to initial states, and each step of a request maps to *)
(* one abstract step of it or leaves its abstract state alone.              *)
THEOREM Refinement == Spec => ImplementsFallback
<1>1. Init => Fallback!Init
  BY DEF Init, Fallback!Init, PhaseOf, Ranking, Live, Working
<1>2. ASSUME IInv, [Next]_vars PROVE [Fallback!Next]_Fallback!vars
  <2>1. ASSUME NEW d \in Calls
        PROVE  \/ Fallback!Offer(d) \/ Fallback!Reject(d)
               \/ Fallback!Finish(d) \/ Fallback!Rest(d)
    <3>1. FallbackMove(d)
      BY <1>2, MoveStep
    <3> QED
      BY <2>1, <3>1 DEF FallbackMove, Became, Same, Fallback!Offer, Fallback!Reject,
         Fallback!Finish, Fallback!Rest, Fallback!Moves
  <2> QED BY <2>1 DEF Fallback!Next
<1> QED BY <1>1, <1>2, Invariance, PTL DEF Spec, ImplementsFallback, Fallback!Spec
=============================================================================
