-------------------------- MODULE Subtitles_proofs --------------------------
(***************************************************************************)
(* A diagnosis names its own failures and a URL works for exactly its      *)
(* time, for any number of calls and providers and any age of the cache.   *)
(***************************************************************************)
EXTENDS Subtitles, WellFoundedInduction, TLAPS

Stages   == {"new", "ask", "download", "done"}
Outcomes == {"", "none", "provider", "proxy", "server", "failed", "raised"}
Tracks   == [lang : 0..Unwanted, of : Providers \cup {0}]
CallRec  == [stage : Stages, kind : {"play", "diagnose"}, convert : BOOLEAN,
             track : Tracks, outcome : Outcomes]
Replies  == Requests \cup {"", "tracks", "error"}

(* The providers that failed a call.                                        *)
FailedOf(answers) == {p \in Providers : answers[p] = "error"}

(* What a call that has not begun, and one whose answers are in, reports.   *)
ReportAt(c) ==
  /\ call[c].stage = "new" => report[c] = {} /\ FailedOf(asked[c]) = {}
  /\ (call[c].kind = "diagnose" /\ call[c].stage \in {"download", "done"}
      /\ call[c].outcome # "raised")
       => report[c] = FailedOf(asked[c])

(* A token is in the cache until it has expired; only its own call puts it  *)
(* there, once.                                                             *)
TokenAt(c) ==
  /\ handed[c] = Gone => cache[c] = Gone
  /\ handed[c] # Gone =>
       /\ call[c].stage = "done"
       /\ handed[c] <= clock
       /\ cache[c] = handed[c] + CACHE \/ (cache[c] = Gone /\ handed[c] + CACHE <= clock)

(* The last read was of a URL that had been handed out.                     *)
ReadInv == read.token # Gone => handed[read.token] # Gone

IInv ==
  /\ TypeOK
  /\ \A c \in Calls : ReportAt(c)
  /\ \A c \in Calls : TokenAt(c)
  /\ ReadInv
  /\ ServedForItsTime

-----------------------------------------------------------------------------
(* A set of natural numbers has a least one.                                *)
LEMMA Least ==
  ASSUME NEW S \in SUBSET Nat, S # {}
  PROVE  \E x \in S : \A y \in S : x <= y
<1>1. PICK x \in S : \A y \in S : ~(<<y, x>> \in OpToRel(<, Nat))
  BY NatLessThanWellFounded, WFMin
<1>2. \A y \in S : ~(y < x)
  BY <1>1 DEF OpToRel
<1>3. QED BY <1>2

(* choose_subtitle chooses a track: of the best place the first one.        *)
LEMMA SelectedIsTrack ==
  ASSUME NEW P \in SUBSET Providers, NEW preferring \in BOOLEAN
  PROVE  Selected(P, preferring) \in Tracks
<1> DEFINE tracks == UNION {[lang : Offers[p], of : {p}] : p \in P \cup {0}}
           wanted == {t \in tracks : preferring => t.lang # Unwanted}
           place(t) == IF preferring THEN t.lang ELSE 0
           better(t, u) == place(t) < place(u) \/ (place(t) = place(u) /\ t.of < u.of)
<1>1. wanted \subseteq Tracks
  <2>1. 1..Unwanted \subseteq 0..Unwanted
    BY DEF Unwanted
  <2>2. QED BY <2>1, ConfigurationOK DEF Tracks
<1>2. \A t \in Tracks : place(t) \in Nat /\ t.of \in Nat
  <2>1. \A t \in Tracks : t.lang \in 0..99 /\ t.of \in Providers \cup {0}
    BY DEF Tracks, Unwanted
  <2>2. 0..99 \subseteq Nat /\ Providers \cup {0} \subseteq Nat
    BY ConfigurationOK
  <2>3. QED BY <2>1, <2>2
<1>3. NoTrack \in Tracks
  BY DEF NoTrack, Tracks, Unwanted
<1>4. CASE wanted = {}
  BY <1>3, <1>4 DEF Selected
<1>5. CASE wanted # {}
  <2>1. Selected(P, preferring) = CHOOSE t \in wanted : \A u \in wanted : ~better(u, t)
    BY <1>5 DEF Selected
  <2> HIDE DEF wanted, place
  <2>2. \E t \in wanted : \A u \in wanted : ~better(u, t)
    <3> DEFINE places == {place(t) : t \in wanted}
    <3>1. places \in SUBSET Nat /\ places # {}
      BY <1>1, <1>2, <1>5
    <3>2. PICK l \in places : \A k \in places : l <= k
      BY <3>1, Least
    <3> DEFINE firsts == {t.of : t \in {u \in wanted : place(u) = l}}
    <3>3. firsts \in SUBSET Nat /\ firsts # {}
      BY <1>1, <1>2, <3>2
    <3>4. PICK f \in firsts : \A k \in firsts : f <= k
      BY <3>3, Least
    <3>5. PICK t \in wanted : place(t) = l /\ t.of = f
      BY <3>4
    <3>6. ASSUME NEW u \in wanted PROVE ~better(u, t)
      <4>1. /\ place(u) \in Nat /\ u.of \in Nat /\ place(t) \in Nat /\ t.of \in Nat
            /\ l <= place(u)
        BY <1>1, <1>2, <3>2
      <4>2. place(u) = l => f <= u.of
        BY <3>4
      <4>3. QED BY <3>5, <4>1, <4>2
    <3>7. QED BY <3>6
  <2>3. QED BY <1>1, <2>1, <2>2
<1>6. QED BY <1>4, <1>5

(* The invariant, call by call.                                             *)
Typed ==
  /\ clock \in 0..MaxClock
  /\ call \in [Calls -> CallRec]
  /\ asked \in [Calls -> [Providers -> Replies]]
  /\ errors \in SUBSET Providers
  /\ report \in [Calls -> SUBSET Providers]
  /\ cache \in [Calls -> {Gone} \cup (CACHE..(CACHE + MaxClock))]
  /\ handed \in [Calls -> {Gone} \cup (0..MaxClock)]
  /\ read \in [at : 0..MaxClock, token : Calls \cup {Gone}, served : BOOLEAN]
  /\ \A c \in Calls : call[c].outcome = "" <=> call[c].stage # "done"

(* The type invariant with its sets named.                                  *)
LEMMA TypedIs == TypeOK <=> Typed
BY DEF TypeOK, Typed, CallRec, Tracks, Stages, Outcomes, Replies

(* A step that changes the record and the answers of one call.              *)
LEMMA CallStep ==
  ASSUME IInv, NEW c \in Calls, NEW r \in CallRec, NEW answers \in [Providers -> Replies],
         call' = [call EXCEPT ![c] = r], asked' = [asked EXCEPT ![c] = answers],
         UNCHANGED <<clock, cache, handed, read>>, errors' \in SUBSET Providers,
         report' \in [Calls -> SUBSET Providers],
         \A d \in Calls \ {c} : report'[d] = report[d],
         r.outcome = "" <=> r.stage # "done", r.stage # "new", call[c].stage # "done",
         (r.kind = "diagnose" /\ r.stage \in {"download", "done"} /\ r.outcome # "raised")
              => report'[c] = FailedOf(answers)
  PROVE  IInv'
<1>1. Typed /\ (\A d \in Calls : ReportAt(d) /\ TokenAt(d)) /\ ReadInv /\ ServedForItsTime
  BY TypedIs DEF IInv
<1>2. \A d \in Calls : /\ call'[d] = IF d = c THEN r ELSE call[d]
                       /\ asked'[d] = IF d = c THEN answers ELSE asked[d]
  BY <1>1 DEF Typed
<1>3. TypeOK'
  <2>1. call' \in [Calls -> CallRec] /\ asked' \in [Calls -> [Providers -> Replies]]
    BY <1>1 DEF Typed
  <2>2. \A d \in Calls : call'[d].outcome = "" <=> call'[d].stage # "done"
    BY <1>1, <1>2 DEF Typed
  <2>3. Typed'
    BY <1>1, <2>1, <2>2 DEF Typed
  <2>4. QED BY <2>3 DEF TypeOK, Typed, CallRec, Tracks, Stages, Outcomes, Replies
<1>4. ASSUME NEW d \in Calls PROVE ReportAt(d)'
  <2>1. CASE d = c
    <3>1. call'[d] = r /\ asked'[d] = answers /\ report'[d] = report'[c]
      BY <1>2, <2>1
    <3>2. QED BY <3>1 DEF ReportAt
  <2>2. CASE d # c
    <3>1. call'[d] = call[d] /\ asked'[d] = asked[d] /\ report'[d] = report[d]
      BY <1>2, <2>2
    <3>2. QED BY <1>1, <3>1 DEF ReportAt
  <2>3. QED BY <2>1, <2>2
<1>5. \A d \in Calls : TokenAt(d)'
  BY <1>1, <1>2 DEF TokenAt
<1>6. ReadInv' /\ ServedForItsTime'
  BY <1>1 DEF ReadInv, ServedForItsTime
<1>7. QED BY <1>3, <1>4, <1>5, <1>6 DEF IInv

(* All answers are in: a track is chosen, and the errors are reported.      *)
LEMMA CollectStep ==
  ASSUME IInv, NEW c \in Calls, NEW answers \in [Providers -> Replies], Collect(c, answers),
         call[c].stage \in {"new", "ask"}, UNCHANGED <<clock, cache, handed, read>>
  PROVE  IInv'
<1>1. Typed /\ call[c] \in CallRec /\ report \in [Calls -> SUBSET Providers]
  BY TypedIs DEF IInv, Typed
<1> DEFINE chosen(preferring) == Selected({p \in Providers : answers[p] = "tracks"}, preferring)
           follows(track, raises) ==
             IF raises THEN <<"done", "raised">>
             ELSE IF track = NoTrack THEN <<"done", "none">>
             ELSE IF call[c].convert THEN <<"download", "">> ELSE <<"done", "provider">>
<1>2. PICK preferring \in BOOLEAN, raises \in BOOLEAN :
        LET track == chosen(preferring)
            next  == follows(track, raises)
        IN /\ asked' = [asked EXCEPT ![c] = answers] /\ errors' = FailedOf(answers)
           /\ report' = IF call[c].kind = "diagnose" /\ ~raises
                        THEN [report EXCEPT ![c] = FailedOf(answers)] ELSE report
           /\ call' = [call EXCEPT ![c].stage = next[1], ![c].outcome = next[2],
                                   ![c].track = track]
  BY DEF Collect, FailedOf
<1> DEFINE track == chosen(preferring)
           next  == follows(track, raises)
           r     == [call[c] EXCEPT !.stage = next[1], !.outcome = next[2], !.track = track]
<1>3. track \in Tracks
  BY SelectedIsTrack
<1>4. /\ next[1] \in {"download", "done"} /\ next[2] \in Outcomes
      /\ next[2] = "" <=> next[1] # "done"
      /\ raises => next[2] = "raised"
  BY DEF Outcomes
<1>5. r \in CallRec /\ r.stage = next[1] /\ r.kind = call[c].kind /\ r.outcome = next[2]
  <2> HIDE DEF next, track, chosen, follows
  <2>1. next[1] \in Stages
    BY <1>4 DEF Stages
  <2>2. QED BY <1>1, <1>3, <1>4, <2>1 DEF CallRec
<1>6. call' = [call EXCEPT ![c] = r]
  BY <1>1, <1>2 DEF Typed
<1> HIDE DEF next, track, r, chosen, follows
<1>7. FailedOf(answers) \in SUBSET Providers
  BY DEF FailedOf
<1>8. /\ report' \in [Calls -> SUBSET Providers]
      /\ \A d \in Calls \ {c} : report'[d] = report[d]
      /\ call[c].kind = "diagnose" /\ ~raises => report'[c] = FailedOf(answers)
  BY <1>1, <1>2, <1>7
<1>9. /\ r.stage # "new" /\ call[c].stage # "done" /\ errors' \in SUBSET Providers
      /\ r.outcome = "" <=> r.stage # "done"
      /\ r.kind = "diagnose" /\ r.outcome # "raised" => report'[c] = FailedOf(answers)
  BY <1>2, <1>4, <1>5, <1>7, <1>8
<1>10. r \in CallRec
  BY <1>5
<1>11. QED
  BY <1>2, <1>6, <1>8, <1>9, <1>10, CallStep

-----------------------------------------------------------------------------
(* A call begins, or has nothing to do.                                     *)
LEMMA SkipStep == ASSUME IInv, NEW c \in Calls, Skip(c) PROVE IInv'
<1> DEFINE r == [call[c] EXCEPT !.stage = "done", !.outcome = "none"]
<1>1. Typed /\ call[c] \in CallRec /\ ReportAt(c) /\ asked[c] \in [Providers -> Replies]
      /\ report \in [Calls -> SUBSET Providers] /\ errors \in SUBSET Providers
  BY TypedIs DEF IInv, Typed
<1>2. call[c].stage = "new" /\ UNCHANGED <<clock, asked, errors, report, cache, handed, read>>
  BY DEF Skip
<1>3. r \in CallRec /\ r.stage = "done" /\ r.outcome = "none"
  <2>1. "done" \in Stages /\ "none" \in Outcomes
    BY DEF Stages, Outcomes
  <2>2. QED BY <1>1, <2>1 DEF CallRec
<1>4. call' = [call EXCEPT ![c] = r] /\ asked' = [asked EXCEPT ![c] = asked[c]]
  BY <1>1, <1>2 DEF Skip, Typed
<1> HIDE DEF r
<1>5. report'[c] = FailedOf(asked[c])
  BY <1>1, <1>2 DEF ReportAt
<1>6. QED BY <1>1, <1>2, <1>3, <1>4, <1>5, CallStep

LEMMA AskStep ==
  ASSUME IInv, NEW c \in Calls, NEW serving \in SUBSET Providers, NEW request \in Requests,
         Ask(c, serving, request)
  PROVE  IInv'
<1> DEFINE requests == [p \in Providers |-> IF p \in serving THEN request ELSE ""]
           r        == [call[c] EXCEPT !.stage = "ask"]
<1>1. Typed /\ call[c] \in CallRec /\ report \in [Calls -> SUBSET Providers]
      /\ errors \in SUBSET Providers
  BY TypedIs DEF IInv, Typed
<1>2. requests \in [Providers -> Replies]
  BY DEF Replies
<1>3. call[c].stage = "new" /\ UNCHANGED <<clock, cache, handed, read>>
  BY DEF Ask
<1>4. CASE Collect(c, requests)
  BY <1>2, <1>3, <1>4, CollectStep
<1>5. CASE /\ asked' = [asked EXCEPT ![c] = requests]
           /\ call' = [call EXCEPT ![c].stage = "ask"]
           /\ UNCHANGED <<errors, report>>
  <2>1. r \in CallRec /\ r.stage = "ask" /\ r.outcome = call[c].outcome
    <3>1. "ask" \in Stages
      BY DEF Stages
    <3>2. QED BY <1>1, <3>1 DEF CallRec
  <2>2. call[c].outcome = ""
    BY <1>1, <1>3 DEF Typed
  <2>3. call' = [call EXCEPT ![c] = r]
    BY <1>1, <1>5 DEF Typed
  <2> HIDE DEF r, requests
  <2>4. QED BY <1>1, <1>2, <1>3, <1>5, <2>1, <2>2, <2>3, CallStep
<1>6. QED BY <1>4, <1>5 DEF Ask

(* A provider answers; the last answer completes the request.               *)
LEMMA AnswerStep ==
  ASSUME IInv, NEW c \in Calls, NEW p \in Providers, NEW reply \in {"plain", "tracks", "error"},
         Answer(c, p, reply)
  PROVE  IInv'
<1> DEFINE answers == [asked[c] EXCEPT ![p] = reply]
<1>1. Typed /\ call[c] \in CallRec /\ report \in [Calls -> SUBSET Providers]
      /\ errors \in SUBSET Providers /\ asked[c] \in [Providers -> Replies]
  BY TypedIs DEF IInv, Typed
<1>2. answers \in [Providers -> Replies]
  BY <1>1 DEF Replies, Requests
<1>3. call[c].stage = "ask" /\ UNCHANGED <<clock, cache, handed, read>>
  BY DEF Answer
<1>4. CASE Collect(c, answers)
  BY <1>2, <1>3, <1>4, CollectStep
<1>5. CASE asked' = [asked EXCEPT ![c] = answers] /\ UNCHANGED <<call, errors, report>>
  <2>1. call' = [call EXCEPT ![c] = call[c]] /\ call[c].outcome = ""
    BY <1>1, <1>3, <1>5 DEF Typed
  <2> HIDE DEF answers
  <2>2. QED BY <1>1, <1>2, <1>3, <1>5, <2>1, CallStep
<1>6. QED BY <1>4, <1>5 DEF Answer

(* The download fails, and no other ends with it.                           *)
LEMMA DownloadFailsStep == ASSUME IInv, NEW c \in Calls, DownloadFails(c) PROVE IInv'
<1> DEFINE how == IF call[c].kind = "play" THEN "server" ELSE "failed"
           r   == [call[c] EXCEPT !.stage = "done", !.outcome = how]
<1>1. Typed /\ call[c] \in CallRec /\ ReportAt(c) /\ asked[c] \in [Providers -> Replies]
      /\ report \in [Calls -> SUBSET Providers] /\ errors \in SUBSET Providers
  BY TypedIs DEF IInv, Typed
<1>2. call[c].stage = "download" /\ UNCHANGED <<clock, asked, errors, report, cache, handed, read>>
  BY DEF DownloadFails, ReportAfter
<1>3. r \in CallRec /\ r.stage = "done" /\ r.outcome # "" /\ r.kind = call[c].kind
  <2>1. "done" \in Stages /\ how \in Outcomes /\ how # ""
    BY DEF Stages, Outcomes
  <2> HIDE DEF how
  <2>2. QED BY <1>1, <2>1 DEF CallRec
<1>4. call' = [call EXCEPT ![c] = r] /\ asked' = [asked EXCEPT ![c] = asked[c]]
  BY <1>1, <1>2 DEF DownloadFails, Typed
<1> HIDE DEF r
<1>5. r.kind = "diagnose" => report'[c] = FailedOf(asked[c])
  BY <1>1, <1>2, <1>3 DEF ReportAt, Typed
<1>6. QED BY <1>1, <1>2, <1>3, <1>4, <1>5, CallStep

(* The numbers among it.                                                    *)
LEMMA Numbers ==
  ASSUME Typed
  PROVE  /\ clock \in Nat /\ clock <= MaxClock /\ CACHE \in Nat \ {0} /\ MaxClock \in Nat
         /\ \A d \in Calls : handed[d] # Gone => handed[d] \in Nat
<1>1. CACHE \in Nat \ {0} /\ MaxClock \in Nat
  BY ConfigurationOK
<1>2. clock \in 0..MaxClock /\ handed \in [Calls -> {Gone} \cup (0..MaxClock)]
  BY DEF Typed
<1>3. \A d \in Calls : handed[d] # Gone => handed[d] \in 0..MaxClock
  BY <1>2
<1>4. 0..MaxClock \subseteq Nat
  BY <1>1
<1>5. QED BY <1>1, <1>2, <1>3, <1>4

(* Purging changes no URL that works.                                       *)
LEMMA PurgedTokens ==
  ASSUME IInv
  PROVE  /\ Purged(cache) \in [Calls -> {Gone} \cup (CACHE..(CACHE + MaxClock))]
         /\ \A d \in Calls :
              /\ handed[d] = Gone => Purged(cache)[d] = Gone
              /\ handed[d] # Gone =>
                   IF handed[d] + CACHE <= clock THEN Purged(cache)[d] = Gone
                   ELSE Purged(cache)[d] = handed[d] + CACHE
<1>1. /\ clock \in Nat /\ CACHE \in Nat \ {0} /\ MaxClock \in Nat
      /\ cache \in [Calls -> {Gone} \cup (CACHE..(CACHE + MaxClock))]
      /\ handed \in [Calls -> {Gone} \cup (0..MaxClock)]
      /\ \A d \in Calls : TokenAt(d)
  <2>1. Typed /\ \A d \in Calls : TokenAt(d)
    BY TypedIs DEF IInv
  <2>2. QED BY <2>1, Numbers DEF Typed
<1>2. QED BY <1>1 DEF Purged, Gone, TokenAt

(* The download succeeds, and its URL is handed out.                        *)
LEMMA DownloadStep == ASSUME IInv, NEW c \in Calls, Download(c) PROVE IInv'
<1> DEFINE r == [call[c] EXCEPT !.stage = "done", !.outcome = "proxy"]
<1>1. Typed /\ (\A d \in Calls : ReportAt(d) /\ TokenAt(d)) /\ ReadInv /\ ServedForItsTime
  BY TypedIs DEF IInv
<1>2. /\ call[c] \in CallRec /\ clock \in Nat /\ CACHE \in Nat \ {0} /\ MaxClock \in Nat
      /\ clock <= MaxClock
  BY <1>1, Numbers DEF Typed
<1>3. call[c].stage = "download" /\ UNCHANGED <<clock, asked, errors, report, read>>
  BY DEF Download, ReportAfter
<1>4. r \in CallRec /\ r.stage = "done" /\ r.outcome = "proxy" /\ r.kind = call[c].kind
  <2>1. "done" \in Stages /\ "proxy" \in Outcomes
    BY DEF Stages, Outcomes
  <2>2. QED BY <1>2, <2>1 DEF CallRec
<1>5. call' = [call EXCEPT ![c] = r]
  BY <1>1 DEF Download, Typed
<1> HIDE DEF r
<1>6. \A d \in Calls : call'[d] = IF d = c THEN r ELSE call[d]
  BY <1>1, <1>5 DEF Typed
<1>7. /\ handed' \in [Calls -> {Gone} \cup (0..MaxClock)]
      /\ handed'[c] = clock /\ \A d \in Calls \ {c} : handed'[d] = handed[d]
  BY <1>1, <1>2 DEF Download, Typed
<1>8. /\ cache' \in [Calls -> {Gone} \cup (CACHE..(CACHE + MaxClock))]
      /\ cache'[c] = clock + CACHE /\ \A d \in Calls \ {c} : cache'[d] = Purged(cache)[d]
  BY <1>2, PurgedTokens DEF Download
<1>9. handed[c] = Gone
  BY <1>1, <1>3 DEF TokenAt
<1>10. TypeOK'
  <2>1. call' \in [Calls -> CallRec]
    BY <1>1, <1>4, <1>5 DEF Typed
  <2>2. \A d \in Calls : call'[d].outcome = "" <=> call'[d].stage # "done"
    BY <1>1, <1>4, <1>6 DEF Typed
  <2>3. Typed'
    BY <1>1, <1>3, <1>7, <1>8, <2>1, <2>2 DEF Typed
  <2>4. QED BY <2>3 DEF TypeOK, Typed, CallRec, Tracks, Stages, Outcomes, Replies
<1>11. ASSUME NEW d \in Calls PROVE ReportAt(d)'
  <2>1. /\ call'[d].stage = "new" => call[d].stage = "new"
        /\ call'[d].kind = call[d].kind
        /\ call'[d].stage \in {"download", "done"} => call[d].stage \in {"download", "done"}
        /\ call[d].outcome = "raised" => call'[d].outcome = "raised"
    BY <1>1, <1>3, <1>4, <1>6 DEF Typed
  <2>2. asked' = asked /\ report' = report
    BY <1>3
  <2>3. QED BY <1>1, <2>1, <2>2 DEF ReportAt
<1>12. ASSUME NEW d \in Calls PROVE TokenAt(d)'
  <2>1. CASE d = c
    BY <1>2, <1>3, <1>4, <1>6, <1>7, <1>8, <2>1 DEF TokenAt, Gone
  <2>2. CASE d # c
    <3>1. /\ call'[d] = call[d] /\ handed'[d] = handed[d] /\ cache'[d] = Purged(cache)[d]
          /\ clock' = clock
      BY <1>3, <1>6, <1>7, <1>8, <2>2
    <3>2. handed[d] # Gone => handed[d] \in Nat
      BY <1>1, Numbers
    <3>3. QED BY <1>1, <1>2, <3>1, <3>2, PurgedTokens DEF TokenAt
  <2>3. QED BY <2>1, <2>2
<1>13. ReadInv' /\ ServedForItsTime'
  <2>1. read.token # Gone => read.token \in Calls \ {c}
    BY <1>1, <1>9 DEF ReadInv, Typed
  <2>2. QED BY <1>1, <1>3, <1>7, <2>1 DEF ReadInv, ServedForItsTime
<1>14. QED BY <1>10, <1>11, <1>12, <1>13 DEF IInv

(* A read serves exactly the URLs that have not expired.                    *)
LEMMA ReadStep == ASSUME IInv, NEW c \in Calls, Read(c) PROVE IInv'
<1>1. Typed /\ (\A d \in Calls : ReportAt(d) /\ TokenAt(d))
  BY TypedIs DEF IInv
<1>2. UNCHANGED <<clock, call, asked, errors, report, handed>> /\ handed[c] # Gone
      /\ cache' = Purged(cache)
  BY DEF Read
<1>3. /\ clock \in Nat /\ clock <= MaxClock /\ CACHE \in Nat \ {0} /\ MaxClock \in Nat
      /\ handed[c] \in Nat
  BY <1>1, <1>2, Numbers
<1>4. /\ read' \in [at : 0..MaxClock, token : Calls \cup {Gone}, served : BOOLEAN]
      /\ read'.token = c /\ read'.at = clock /\ read'.served = (Purged(cache)[c] # Gone)
  BY <1>2, <1>3 DEF Read
<1>5. TypeOK'
  <2>1. Typed'
    BY <1>1, <1>2, <1>4, PurgedTokens DEF Typed
  <2>2. QED BY <2>1 DEF TypeOK, Typed, CallRec, Tracks, Stages, Outcomes, Replies
<1>6. \A d \in Calls : ReportAt(d)'
  BY <1>1, <1>2 DEF ReportAt
<1>7. ASSUME NEW d \in Calls PROVE TokenAt(d)'
  <2>1. handed[d] # Gone => handed[d] \in Nat
    BY <1>1, Numbers
  <2>2. QED BY <1>1, <1>2, <1>3, <2>1, PurgedTokens DEF TokenAt
<1>8. (Purged(cache)[c] # Gone) <=> clock < handed[c] + CACHE
  BY <1>2, <1>3, PurgedTokens DEF Gone
<1>9. ReadInv' /\ ServedForItsTime'
  BY <1>2, <1>4, <1>8 DEF ReadInv, ServedForItsTime
<1>10. QED BY <1>5, <1>6, <1>7, <1>9 DEF IInv

(* Time passes.                                                             *)
LEMMA TickStep == ASSUME IInv, Tick PROVE IInv'
<1>1. Typed /\ (\A d \in Calls : ReportAt(d) /\ TokenAt(d)) /\ ReadInv /\ ServedForItsTime
  BY TypedIs DEF IInv
<1>2. /\ clock \in Nat /\ clock' = clock + 1 /\ clock' \in 0..MaxClock /\ CACHE \in Nat
      /\ UNCHANGED <<call, asked, errors, report, cache, handed, read>>
  <2>1. clock \in Nat /\ MaxClock \in Nat /\ CACHE \in Nat
    BY <1>1, Numbers
  <2>2. QED BY <2>1 DEF Tick
<1>3. TypeOK'
  <2>1. Typed'
    BY <1>1, <1>2 DEF Typed
  <2>2. QED BY <2>1 DEF TypeOK, Typed, CallRec, Tracks, Stages, Outcomes, Replies
<1>4. \A d \in Calls : ReportAt(d)'
  BY <1>1, <1>2 DEF ReportAt
<1>5. ASSUME NEW d \in Calls PROVE TokenAt(d)'
  <2>1. handed[d] # Gone => handed[d] \in Nat
    BY <1>1, Numbers
  <2>2. QED BY <1>1, <1>2, <2>1 DEF TokenAt
<1>6. ReadInv' /\ ServedForItsTime'
  BY <1>1, <1>2 DEF ReadInv, ServedForItsTime
<1>7. QED BY <1>3, <1>4, <1>5, <1>6 DEF IInv

-----------------------------------------------------------------------------
LEMMA InitIInv == Init => IInv
<1> SUFFICES ASSUME Init PROVE IInv
  OBVIOUS
<1>1. TypeOK
  <2>1. \A c \in Calls : call[c] \in CallRec /\ call[c].outcome = "" /\ call[c].stage = "new"
    <3>1. NoTrack \in Tracks
      BY DEF NoTrack, Tracks, Unwanted
    <3>2. QED BY <3>1 DEF Init, CallRec, Stages, Outcomes
  <2>2. call \in [Calls -> CallRec]
    BY <2>1 DEF Init
  <2>3. /\ 0 \in 0..MaxClock /\ cache \in [Calls -> {Gone}] /\ handed \in [Calls -> {Gone}]
        /\ read \in [at : {0}, token : {Gone}, served : {FALSE}]
        /\ asked \in [Calls -> [Providers -> Replies]] /\ report \in [Calls -> SUBSET Providers]
    <3>1. 0 \in 0..MaxClock
      BY ConfigurationOK
    <3>2. cache \in [Calls -> {Gone}] /\ handed \in [Calls -> {Gone}]
      BY DEF Init
    <3>3. read \in [at : {0}, token : {Gone}, served : {FALSE}]
      BY DEF Init
    <3>4. asked \in [Calls -> [Providers -> Replies]] /\ report \in [Calls -> SUBSET Providers]
      BY DEF Init, Replies
    <3>5. QED BY <3>1, <3>2, <3>3, <3>4
  <2>4. Typed
    BY <2>1, <2>2, <2>3 DEF Init, Typed
  <2>5. QED BY <2>4, TypedIs
<1>2. \A c \in Calls : call[c].stage = "new"
  BY DEF Init
<1>3. \A c \in Calls : ReportAt(c) /\ TokenAt(c)
  BY <1>2 DEF Init, ReportAt, TokenAt, FailedOf
<1>4. ReadInv /\ ServedForItsTime
  BY DEF Init, ReadInv, ServedForItsTime
<1>5. QED BY <1>1, <1>3, <1>4 DEF IInv

LEMMA NextIInv == IInv /\ [Next]_vars => IInv'
<1> SUFFICES ASSUME IInv, [Next]_vars PROVE IInv'
  OBVIOUS
<1>1. CASE \E c \in Calls : Skip(c)
  BY <1>1, SkipStep
<1>2. CASE \E c \in Calls, serving \in SUBSET Providers, request \in Requests :
             Ask(c, serving, request)
  BY <1>2, AskStep
<1>3. CASE \E c \in Calls, p \in Providers, reply \in {"plain", "tracks", "error"} :
             Answer(c, p, reply)
  BY <1>3, AnswerStep
<1>4. CASE \E c \in Calls : Download(c) \/ DownloadFails(c) \/ Read(c)
  BY <1>4, DownloadStep, DownloadFailsStep, ReadStep
<1>5. CASE Tick
  BY <1>5, TickStep
<1>6. CASE UNCHANGED vars
  <2>1. UNCHANGED <<clock, call, asked, errors, report, cache, handed, read>>
    BY <1>6 DEF vars
  <2>2. TypeOK'
    BY <2>1 DEF IInv, TypeOK
  <2>3. \A c \in Calls : ReportAt(c)' /\ TokenAt(c)'
    BY <2>1 DEF IInv, ReportAt, TokenAt
  <2>4. ReadInv' /\ ServedForItsTime'
    BY <2>1 DEF IInv, ReadInv, ServedForItsTime
  <2>5. QED BY <2>2, <2>3, <2>4 DEF IInv
<1>7. QED BY <1>1, <1>2, <1>3, <1>4, <1>5, <1>6 DEF Next

THEOREM Invariant == Spec => []IInv
BY InitIInv, NextIInv, PTL DEF Spec

(* The state of calls, answers and tokens is of its type.                   *)
THEOREM TypeCorrect == Spec => []TypeOK
<1>1. IInv => TypeOK
  BY DEF IInv
<1>2. QED BY <1>1, Invariant, PTL

(* A diagnosis names the providers that failed it and no other call's,      *)
(* however many calls overlap. (handle_subtitle_diagnostics, get_subtitles) *)
THEOREM DiagnosisOwn == Spec => []DiagnosisIsOwn
<1>1. IInv => DiagnosisIsOwn
  BY DEF IInv, ReportAt, FailedOf, DiagnosisIsOwn
<1>2. QED BY <1>1, Invariant, PTL

(* A URL works for its time and not after it, whatever other calls purge.   *)
(* (async_prepare_url, get, _purge_expired)                                 *)
THEOREM ServedInTime == Spec => []ServedForItsTime
<1>1. IInv => ServedForItsTime
  BY DEF IInv
<1>2. QED BY <1>1, Invariant, PTL

=============================================================================
