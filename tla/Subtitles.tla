----------------------------- MODULE Subtitles ------------------------------
(***************************************************************************)
(* Subtitle tracks: the providers are asked, again without extras if those *)
(* are refused; the track of the preferred language is downloaded and kept *)
(* by SubtitleProxy under a token for six hours, for a receiver to read.   *)
(* Calls of the play service and of the diagnostics overlap, and share the *)
(* errors that the manager remembers of its last call.                     *)
(***************************************************************************)
EXTENDS Integers, FiniteSets

CONSTANTS
  Calls,      \* calls, each made once; also the token of the call
  Providers,  \* add-ons with the role "subtitle", numbered from 1
  Offers,     \* languages of each, as places in the order of preference, and
              \* of the stream itself, number 0; a language not wanted is Unwanted
  CACHE,      \* _CACHE_SECONDS
  MaxClock    \* bound

Unwanted == 99

ASSUME ConfigurationOK ==
  /\ Providers \subseteq Nat \ {0}
  /\ Offers \in [Providers \cup {0} -> SUBSET (1..Unwanted)]
  /\ CACHE \in Nat \ {0}
  /\ MaxClock \in Nat

VARIABLES
  clock,    \* monotonic()
  call,     \* stage, kind, the option to convert, track and outcome of each call
  asked,    \* what each provider was asked in each call, or has answered
  errors,   \* last_subtitle_errors
  report,   \* provider_errors in the response of each diagnosis
  cache,    \* the expiry of each token, or Gone
  handed,   \* history: when the URL of each token was handed out
  read      \* history: the last read: when, what token, and whether it was served

vars == <<clock, call, asked, errors, report, cache, handed, read>>

Gone     == -1
NoTrack  == [lang |-> 0, of |-> 0]
Requests == {"extras", "plain"}

TypeOK ==
  /\ clock \in 0..MaxClock
  /\ call \in [Calls -> [stage : {"new", "ask", "download", "done"},
                         kind : {"play", "diagnose"},
                         convert : BOOLEAN,
                         track : [lang : 0..Unwanted, of : Providers \cup {0}],
                         outcome : {"", "none", "provider", "proxy", "server", "failed", "raised"}]]
  /\ asked \in [Calls -> [Providers -> Requests \cup {"", "tracks", "error"}]]
  /\ errors \in SUBSET Providers
  /\ report \in [Calls -> SUBSET Providers]
  /\ cache \in [Calls -> {Gone} \cup (CACHE..(CACHE + MaxClock))]
  /\ handed \in [Calls -> {Gone} \cup (0..MaxClock)]
  /\ read \in [at : 0..MaxClock, token : Calls \cup {Gone}, served : BOOLEAN]
  /\ \A c \in Calls : call[c].outcome = "" <=> call[c].stage # "done"

-----------------------------------------------------------------------------
Init ==
  /\ clock = 0
  /\ call \in [Calls -> [stage : {"new"}, kind : {"play", "diagnose"}, convert : BOOLEAN,
                         track : {NoTrack}, outcome : {""}]]
  /\ asked = [c \in Calls |-> [p \in Providers |-> ""]]
  /\ errors = {}
  /\ report = [c \in Calls |-> {}]
  /\ cache = [c \in Calls |-> Gone]
  /\ handed = [c \in Calls |-> Gone]
  /\ read = [at |-> 0, token |-> Gone, served |-> FALSE]

(* choose_subtitle among the tracks of the stream and of these providers:   *)
(* the most preferred language, of the first that has it; and if the list   *)
(* of preferences is empty the first track, whatever its language.          *)
Selected(providers, preferring) ==
  LET tracks == UNION {[lang : Offers[p], of : {p}] : p \in providers \cup {0}}
      wanted == {t \in tracks : preferring => t.lang # Unwanted}
      place(t) == IF preferring THEN t.lang ELSE 0
      better(t, u) == place(t) < place(u) \/ (place(t) = place(u) /\ t.of < u.of)
  IN IF wanted = {} THEN NoTrack
     ELSE CHOOSE t \in wanted : \A u \in wanted : ~better(u, t)

(* The rest of the call, once all answers of the providers are there.  A    *)
(* diagnosis only then looks for a player, and raises if there is none.     *)
Collect(c, answers) ==
  \E preferring, raises \in BOOLEAN :
    LET failing == {p \in Providers : answers[p] = "error"}
        track   == Selected({p \in Providers : answers[p] = "tracks"}, preferring)
        next    == IF raises THEN <<"done", "raised">>
                   ELSE IF track = NoTrack THEN <<"done", "none">>
                   ELSE IF call[c].convert THEN <<"download", "">> ELSE <<"done", "provider">>
    IN
    /\ raises => call[c].kind = "diagnose"
    /\ asked' = [asked EXCEPT ![c] = answers]
    /\ errors' = failing
    /\ report' = IF call[c].kind = "diagnose" /\ ~raises THEN [report EXCEPT ![c] = errors']
                 ELSE report
    /\ call' = [call EXCEPT ![c].stage = next[1], ![c].outcome = next[2], ![c].track = track]

(* Subtitles are disabled, or there is no stream to diagnose, or not the    *)
(* one that was asked for.                                                  *)
Skip(c) ==
  /\ call[c].stage = "new"
  /\ call' = [call EXCEPT ![c].stage = "done", ![c].outcome = "none"]
  /\ UNCHANGED <<clock, asked, errors, report, cache, handed, read>>

(* get_subtitles begins, with the providers that serve the media, and for a *)
(* play with what the stream tells of its file.                             *)
Ask(c, serving, request) ==
  LET requests == [p \in Providers |-> IF p \in serving THEN request ELSE ""]
  IN
  /\ call[c].stage = "new"
  /\ call[c].kind = "diagnose" => request = "plain"
  /\ IF serving = {} THEN Collect(c, requests)
     ELSE /\ asked' = [asked EXCEPT ![c] = requests]
          /\ call' = [call EXCEPT ![c].stage = "ask"]
          /\ UNCHANGED <<errors, report>>
  /\ UNCHANGED <<clock, cache, handed, read>>

(* A provider answers or fails; a refused request with extras is made again *)
(* without.                                                                 *)
Answer(c, p, reply) ==
  LET answers == [asked[c] EXCEPT ![p] = reply]
  IN
  /\ call[c].stage = "ask"
  /\ asked[c][p] \in Requests
  /\ reply = "plain" => asked[c][p] = "extras"
  /\ IF \E q \in Providers : answers[q] \in Requests
     THEN /\ asked' = [asked EXCEPT ![c] = answers]
          /\ UNCHANGED <<call, errors, report>>
     ELSE Collect(c, answers)
  /\ UNCHANGED <<clock, cache, handed, read>>

(* Slips: the errors go into the response when it is complete; the last     *)
(* moment counts as within the time.                                        *)
ReportWithUrl(c) ==
  IF call[c].kind = "diagnose" THEN [report EXCEPT ![c] = errors] ELSE report
PurgedLate(tokens) == [c \in Calls |-> IF tokens[c] < clock THEN Gone ELSE tokens[c]]

(* What the download adds to the report.                                    *)
ReportAfter(c) == report

(* _purge_expired.                                                          *)
Purged(tokens) == [c \in Calls |-> IF tokens[c] <= clock THEN Gone ELSE tokens[c]]

(* async_prepare_url succeeds.                                              *)
Download(c) ==
  /\ call[c].stage = "download"
  /\ cache' = [Purged(cache) EXCEPT ![c] = clock + CACHE]
  /\ handed' = [handed EXCEPT ![c] = clock]
  /\ call' = [call EXCEPT ![c].stage = "done", ![c].outcome = "proxy"]
  /\ report' = ReportAfter(c)
  /\ UNCHANGED <<clock, asked, errors, read>>

(* It raises: the stream-server is to convert the track that is played.     *)
DownloadFails(c) ==
  /\ call[c].stage = "download"
  /\ call' = [call EXCEPT ![c].stage = "done",
                          ![c].outcome = IF call[c].kind = "play" THEN "server" ELSE "failed"]
  /\ report' = ReportAfter(c)
  /\ UNCHANGED <<clock, asked, errors, cache, handed, read>>

(* SubtitleProxyView.get.                                                   *)
Read(c) ==
  /\ handed[c] # Gone
  /\ cache' = Purged(cache)
  /\ read' = [at |-> clock, token |-> c, served |-> cache'[c] # Gone]
  /\ UNCHANGED <<clock, call, asked, errors, report, handed>>

Tick ==
  /\ clock < MaxClock
  /\ clock' = clock + 1
  /\ UNCHANGED <<call, asked, errors, report, cache, handed, read>>

Next ==
  \/ \E c \in Calls : Skip(c)
  \/ \E c \in Calls, serving \in SUBSET Providers, request \in Requests :
       Ask(c, serving, request)
  \/ \E c \in Calls, p \in Providers, reply \in {"plain", "tracks", "error"} : Answer(c, p, reply)
  \/ \E c \in Calls : Download(c) \/ DownloadFails(c) \/ Read(c)
  \/ Tick

Spec == Init /\ [][Next]_vars

-----------------------------------------------------------------------------
(* The response of a diagnosis names the providers that failed it, and none *)
(* that failed another call of the same time: last_subtitle_errors is read  *)
(* before any other call can write it.                                      *)
(* (handle_subtitle_diagnostics, get_subtitles)                             *)
DiagnosisIsOwn ==
  \A c \in {d \in Calls : call[d].stage = "done" /\ call[d].outcome # "raised"} :
    call[c].kind = "diagnose" => report[c] = {p \in Providers : asked[c][p] = "error"}

(* A URL works for its six hours, whatever other calls purge, and not after *)
(* them.  (async_prepare_url, get, _purge_expired)                          *)
ServedForItsTime ==
  read.token # Gone => read.served = (read.at < handed[read.token] + CACHE)
=============================================================================
