------------------------- MODULE LatinLookup_proofs -------------------------
(***************************************************************************)
(* What is hidden has no source that any provider offered half an hour     *)
(* before: the type invariant of LatinLookup, and HiddenHasNoSource, for   *)
(* any providers, titles, tasks, slots and age of the cache.               *)
(***************************************************************************)
EXTENDS LatinLookup, TLAPS

Calls == [phase : Phases, title : Titles, began : 0..MaxClock, next : 0..3,
          unsure : BOOLEAN, waiting : SUBSET Providers, later : SUBSET Providers,
          match : BOOLEAN, failed : BOOLEAN, result : Verdicts]

Asking  == {"primary", "secondary"}
Running == {"queued", "meta", "primary", "secondary"}

(* No steady provider offered the item i before that time.                  *)
Late(i, time) == \A p \in steady : i \in Serves[p] => since[p][i] >= time

(* The same of all samples of a title.                                      *)
AllLate(t, time) == \A n \in 1..Len(Sample[t]) : Late(Sample[t][n], time)

(* What holds of the record r of a call: samples that were looked up        *)
(* without a doubt had no source when it began, nor does a provider that    *)
(* has answered about the sample at hand; what it hid had none within the   *)
(* age of the cache; and only a task inside the semaphore waits for answers. *)
Sound(r) ==
  /\ r.began <= clock
  /\ r.phase \notin Asking => r.waiting = {}
  /\ r.phase \in Running => r.next <= Len(Sample[r.title])
  /\ r.phase \in Running /\ ~r.unsure =>
       \A n \in 1..(r.next - 1) : Late(Sample[r.title][n], r.began)
  /\ r.phase \in Asking =>
       /\ r.next >= 1
       /\ \A p \in steady \ (r.waiting \cup r.later) :
            Sample[r.title][r.next] \in Serves[p] =>
              r.match \/ r.failed \/ since[p][Sample[r.title][r.next]] >= r.began
  /\ r.phase = "done" /\ r.result = "no" => AllLate(r.title, r.began - CACHE + 1)

TimesOK == \A p \in Providers, i \in Items : since[p][i] = Never \/ since[p][i] <= clock

CacheOK == \A t \in Titles : cache[t].verdict = "no" =>
             cache[t].at <= clock /\ AllLate(t, cache[t].at)

ProbesOK == \A k \in Tasks : Sound(probe[k])

LookupInv == TypeOK /\ TimesOK /\ CacheOK /\ ProbesOK

-----------------------------------------------------------------------------
(* Places of a list, by its length.                                         *)
LEMMA Middle ==
  ASSUME NEW n \in Nat, n > 3
  PROVE  1 \in 1..n /\ (n \div 2) + 1 \in 1..n /\ n \in 1..n
OBVIOUS

(* A short list.                                                            *)
LEMMA Few ==
  ASSUME NEW n \in Nat \ {0}, n <= 3
  PROVE  n \in 1..3
OBVIOUS

(* The sample after one that is not the last.                               *)
LEMMA Following ==
  ASSUME NEW m \in 1..3, NEW n \in 1..m, n # m
  PROVE  n + 1 \in 0..3 /\ n + 1 <= m
OBVIOUS

(* Before the first sample there is none.                                   *)
LEMMA NoneBefore ==
  ASSUME NEW m \in 0..1, NEW l \in 1..3
  PROVE  m <= l /\ \A n \in 1..(m - 1) : FALSE
OBVIOUS

(* representative_ids returns one to three of the ids.                      *)
LEMMA RepresentativeType ==
  ASSUME NEW ids \in Seq(Items), ids # << >>, NEW rep, rep = RepresentativeIds(ids)
  PROVE  /\ rep \in Seq(Items)
         /\ Len(rep) \in 1..3
         /\ \A n \in 1..Len(rep) : rep[n] \in Items
<1>1. Len(ids) \in Nat \ {0} /\ \A n \in 1..Len(ids) : ids[n] \in Items
  OBVIOUS
<1>2. CASE Len(ids) <= 3
  <2>1. rep = ids
    BY <1>2 DEF RepresentativeIds
  <2>2. Len(ids) \in 1..3
    <3>1. Len(ids) \in Nat \ {0}
      BY <1>1
    <3>2. QED BY <3>1, <1>2, Few
  <2>3. QED BY <1>1, <2>1, <2>2
<1>3. CASE Len(ids) > 3
  <2>1. 1 \in 1..Len(ids) /\ (Len(ids) \div 2) + 1 \in 1..Len(ids) /\ Len(ids) \in 1..Len(ids)
    BY <1>1, <1>3, Middle
  <2>2. rep = <<ids[1], ids[(Len(ids) \div 2) + 1], ids[Len(ids)]>>
    BY <1>1, <1>3 DEF RepresentativeIds
  <2>3. QED BY <1>1, <2>1, <2>2
<1>4. QED BY <1>1, <1>2, <1>3

(* Every title has one to three samples.                                    *)
LEMMA SampleType ==
  ASSUME NEW t \in Titles
  PROVE  /\ Sample[t] \in Seq(Items)
         /\ Len(Sample[t]) \in 1..3
         /\ \A n \in 1..Len(Sample[t]) : Sample[t][n] \in Items
<1>1. CASE t \in Series /\ Videos[t] # << >>
  <2>1. Videos[t] \in Seq(Items) /\ Sample[t] = RepresentativeIds(Videos[t])
    BY <1>1, ConfigurationOK DEF Sample
  <2>2. QED BY <1>1, <2>1, RepresentativeType
<1>2. CASE ~(t \in Series /\ Videos[t] # << >>)
  <2>1. Sample[t] = <<t>> /\ t \in Items
    BY <1>2, ConfigurationOK DEF Sample, Titles
  <2>2. QED BY <2>1
<1>3. QED BY <1>1, <1>2

(* Samples and the time of an offer, by their types.                        *)
LEMMA SinceType ==
  ASSUME TypeOK, NEW p \in Providers, NEW i \in Items
  PROVE  since[p][i] \in Int
<1>1. since[p] \in [Items -> 0..Never]
  BY DEF TypeOK
<1>2. since[p][i] \in 0..Never /\ Never \in Nat
  BY <1>1, ConfigurationOK DEF Never
<1>3. QED BY <1>2

(* Steady providers are providers.                                          *)
LEMMA SteadyType ==
  ASSUME TypeOK
  PROVE  steady \subseteq Providers
BY DEF TypeOK

(* No offer before a time is no offer before an earlier one.                *)
LEMMA Earlier ==
  ASSUME TypeOK, NEW t \in Titles, NEW a \in Int, NEW b \in Int, b <= a, AllLate(t, a)
  PROVE  AllLate(t, b)
<1> SUFFICES ASSUME NEW n \in 1..Len(Sample[t]), NEW p \in steady,
                    Sample[t][n] \in Serves[p]
             PROVE  since[p][Sample[t][n]] >= b
  BY DEF AllLate, Late
<1>1. since[p][Sample[t][n]] >= a
  BY DEF AllLate, Late
<1>2. since[p][Sample[t][n]] \in Int
  BY SampleType, SteadyType, SinceType
<1>3. QED BY <1>1, <1>2

(* A step of one call, which leaves the providers alone.                    *)
LEMMA OneProbe ==
  ASSUME LookupInv, NEW k \in Tasks, NEW r \in Calls, Sound(r),
         probe' = [probe EXCEPT ![k] = r],
         cache' \in [Titles -> [at : 0..MaxClock, verdict : {"yes", "no"}] \cup {Nothing}],
         CacheOK', UNCHANGED <<clock, loaded, steady, since>>
  PROVE  LookupInv'
<1>1. probe \in [Tasks -> Calls] /\ TypeOK
  BY DEF LookupInv, TypeOK, Calls
<1>2. probe' \in [Tasks -> Calls] /\ probe'[k] = r
      /\ \A j \in Tasks \ {k} : probe'[j] = probe[j]
  BY <1>1
<1>3. TypeOK'
  BY <1>1, <1>2 DEF TypeOK, Calls
<1>4. TimesOK'
  BY DEF LookupInv, TimesOK
<1>5. ProbesOK'
  <2>1. \A q : Sound(q) => Sound(q)'
    BY DEF Sound, AllLate, Late
  <2>2. \A j \in Tasks : Sound(probe'[j])
    BY <1>2 DEF LookupInv, ProbesOK
  <2>3. QED BY <2>1, <2>2 DEF ProbesOK, Sound, AllLate, Late
<1>6. QED BY <1>3, <1>4, <1>5 DEF LookupInv

(* _availability ends, and remembers what is certain.                       *)
LEMMA FinishKeeps ==
  ASSUME LookupInv, NEW k \in Tasks, NEW r \in Calls, NEW verdict \in Verdicts,
         r.began = probe[k].began, r.began <= clock, r.waiting = {},
         verdict = "no" => AllLate(r.title, r.began),
         Finish(k, r, verdict), UNCHANGED <<clock, loaded, steady, since>>
  PROVE  LookupInv'
<1> DEFINE q == [r EXCEPT !.phase = "done", !.result = verdict, !.match = FALSE,
                          !.failed = FALSE, !.unsure = FALSE, !.next = 0]
<1>1. probe' = [probe EXCEPT ![k] = q]
  BY DEF Finish
<1>2. q \in Calls /\ q.phase = "done" /\ q.result = verdict /\ q.title = r.title
      /\ q.began = r.began /\ q.waiting = {}
  <2>1. q \in Calls
    <3>1. [r EXCEPT !.phase = "done", !.result = verdict, !.next = 0] \in Calls
      <4>1. "done" \in Phases /\ 0 \in 0..3
        BY DEF Phases
      <4>2. QED BY <4>1 DEF Calls
    <3>2. \A c \in Calls : [c EXCEPT !.match = FALSE, !.failed = FALSE, !.unsure = FALSE] \in Calls
      BY DEF Calls
    <3>3. q = [[r EXCEPT !.phase = "done", !.result = verdict, !.next = 0]
                 EXCEPT !.match = FALSE, !.failed = FALSE, !.unsure = FALSE]
      BY DEF Calls
    <3> HIDE DEF q
    <3>4. QED BY <3>1, <3>2, <3>3
  <2>2. q.phase = "done" /\ q.result = verdict
    BY DEF Calls
  <2>3. q.title = r.title /\ q.began = r.began /\ q.waiting = {}
    BY DEF Calls
  <2>4. QED BY <2>1, <2>2, <2>3
<1>3. r.began \in 0..MaxClock /\ r.title \in Titles /\ TypeOK
  BY DEF Calls, LookupInv
<1>4. Sound(q)
  <2>1. verdict = "no" => AllLate(r.title, r.began - CACHE + 1)
    BY <1>3, Earlier, ConfigurationOK
  <2> HIDE DEF q
  <2>2. QED BY <1>2, <2>1 DEF Sound, Running, Asking
<1> HIDE DEF q
<1>5. /\ cache' \in [Titles -> [at : 0..MaxClock, verdict : {"yes", "no"}] \cup {Nothing}]
      /\ \A t \in Titles : \/ cache'[t] = cache[t]
                           \/ /\ t = r.title
                              /\ cache'[t] = [at |-> r.began, verdict |-> verdict]
  <2>1. cache \in [Titles -> [at : 0..MaxClock, verdict : {"yes", "no"}] \cup {Nothing}]
    BY <1>3 DEF TypeOK
  <2>2. CASE verdict = "unknown"
    BY <2>1, <2>2 DEF Finish
  <2>3. CASE verdict # "unknown"
    <3>1. cache' = [cache EXCEPT ![r.title] = [at |-> r.began, verdict |-> verdict]]
      BY <2>3 DEF Finish, Stamp
    <3>2. [at |-> r.began, verdict |-> verdict] \in [at : 0..MaxClock, verdict : {"yes", "no"}]
      BY <1>3, <2>3 DEF Verdicts
    <3>3. QED BY <2>1, <3>1, <3>2, <1>3
  <2>4. QED BY <2>2, <2>3
<1>6. CacheOK'
  <2> SUFFICES ASSUME NEW t \in Titles, cache'[t].verdict = "no"
               PROVE  cache'[t].at <= clock /\ AllLate(t, cache'[t].at)
    BY DEF CacheOK, AllLate, Late
  <2>1. CASE cache'[t] = cache[t]
    BY <2>1 DEF LookupInv, CacheOK
  <2>2. CASE t = r.title /\ cache'[t] = [at |-> r.began, verdict |-> verdict]
    BY <2>2
  <2>3. QED BY <1>5, <2>1, <2>2
<1>7. QED BY <1>1, <1>2, <1>4, <1>5, <1>6, OneProbe

(* One sample has been looked up.                                           *)
LEMMA NextItemKeeps ==
  ASSUME LookupInv, NEW k \in Tasks, NEW r \in Calls, NEW found \in Verdicts,
         r.began = probe[k].began, r.began <= clock, r.waiting = {},
         r.next \in 1..Len(Sample[r.title]),
         ~r.unsure => \A n \in 1..(r.next - 1) : Late(Sample[r.title][n], r.began),
         found = "no" => Late(Sample[r.title][r.next], r.began),
         NextItem(k, r, found), UNCHANGED <<clock, loaded, steady, since>>
  PROVE  LookupInv'
<1> DEFINE unsure == r.unsure \/ found = "unknown"
           last   == found = "yes" \/ r.next = Len(Sample[r.title])
<1>1. r.title \in Titles /\ r.unsure \in BOOLEAN /\ r.next \in 0..3
  BY DEF Calls
<1>2. Len(Sample[r.title]) \in 1..3
  BY <1>1, SampleType
<1>3. ~unsure /\ found = "no" =>
        \A n \in 1..r.next : Late(Sample[r.title][n], r.began)
  <2> SUFFICES ASSUME ~unsure, found = "no", NEW n \in 1..r.next
               PROVE  Late(Sample[r.title][n], r.began)
    OBVIOUS
  <2>1. n = r.next \/ n \in 1..(r.next - 1)
    BY <1>1
  <2>2. QED BY <2>1
<1>4. CASE last
  <2> DEFINE verdict == IF found = "no" /\ unsure THEN "unknown" ELSE found
  <2>1. Finish(k, r, verdict) /\ verdict \in Verdicts
    BY <1>4 DEF NextItem, Verdicts
  <2>2. verdict = "no" => AllLate(r.title, r.began)
    BY <1>3, <1>4 DEF AllLate
  <2> HIDE DEF verdict
  <2>3. QED BY <2>1, <2>2, FinishKeeps
<1>5. CASE ~last
  <2> DEFINE q == [r EXCEPT !.phase = "queued", !.next = @ + 1, !.unsure = unsure]
  <2>1. probe' = [probe EXCEPT ![k] = q] /\ UNCHANGED cache
    BY <1>5 DEF NextItem
  <2>2. r.next + 1 \in 0..3 /\ r.next + 1 <= Len(Sample[r.title])
    <3>1. r.next # Len(Sample[r.title])
      BY <1>5, Zenon
    <3>2. QED BY <1>2, <3>1, Following
  <2>3. /\ q \in Calls /\ q.phase = "queued" /\ q.title = r.title /\ q.began = r.began
        /\ q.next = r.next + 1 /\ q.unsure = unsure /\ q.waiting = {}
    BY <2>2 DEF Calls, Phases
  <2>4. Sound(q)
    <3>1. found \in {"no", "unknown"}
      BY <1>5 DEF Verdicts
    <3>2. ~q.unsure => \A n \in 1..(q.next - 1) : Late(Sample[r.title][n], r.began)
      <4>1. q.next - 1 = r.next
        BY <1>1, <2>3
      <4>2. ~unsure => \A n \in 1..r.next : Late(Sample[r.title][n], r.began)
        BY <1>3, <3>1, Zenon
      <4> HIDE DEF q
      <4>3. QED BY <2>3, <4>1, <4>2, Zenon
    <3> HIDE DEF q
    <3>3. QED BY <2>2, <2>3, <3>2 DEF Sound, Running, Asking
  <2> HIDE DEF q
  <2>5. cache' \in [Titles -> [at : 0..MaxClock, verdict : {"yes", "no"}] \cup {Nothing}]
    BY <2>1 DEF LookupInv, TypeOK
  <2>6. CacheOK'
    BY <2>1 DEF LookupInv, CacheOK, AllLate, Late
  <2>7. QED BY <2>1, <2>3, <2>4, <2>5, <2>6, OneProbe
<1>6. QED BY <1>4, <1>5

-----------------------------------------------------------------------------
(* The record of a call, and what the invariant says of it.                 *)
LEMMA Record ==
  ASSUME LookupInv, NEW k \in Tasks
  PROVE  /\ probe \in [Tasks -> Calls] /\ probe[k] \in Calls /\ Sound(probe[k])
         /\ probe[k].began \in 0..MaxClock /\ probe[k].title \in Titles
         /\ probe[k].next \in 0..3 /\ probe[k].unsure \in BOOLEAN
         /\ probe[k].phase \in Phases /\ probe[k].began <= clock
         /\ Len(Sample[probe[k].title]) \in 1..3
         /\ probe[k].phase \notin Asking => probe[k].waiting = {}
<1>1. probe \in [Tasks -> Calls]
  BY DEF LookupInv, TypeOK, Calls
<1>2. probe[k] \in Calls /\ Sound(probe[k])
  BY <1>1 DEF LookupInv, ProbesOK
<1>3. /\ probe[k].began \in 0..MaxClock /\ probe[k].title \in Titles
      /\ probe[k].next \in 0..3 /\ probe[k].unsure \in BOOLEAN /\ probe[k].phase \in Phases
  BY <1>2 DEF Calls
<1>4. QED BY <1>1, <1>2, <1>3, SampleType DEF Sound

(* A step of one call that leaves the cache alone.                          *)
LEMMA OneProbeOnly ==
  ASSUME LookupInv, NEW k \in Tasks, NEW r \in Calls, Sound(r),
         probe' = [probe EXCEPT ![k] = r], UNCHANGED <<clock, loaded, steady, since, cache>>
  PROVE  LookupInv'
<1>1. cache' \in [Titles -> [at : 0..MaxClock, verdict : {"yes", "no"}] \cup {Nothing}]
  BY DEF LookupInv, TypeOK
<1>2. CacheOK'
  BY DEF LookupInv, CacheOK, AllLate, Late
<1>3. UNCHANGED <<clock, loaded, steady, since>>
  OBVIOUS
<1>4. QED BY <1>1, <1>2, <1>3, OneProbe

(* A probe begins, or is answered from the cache: what the entry says was   *)
(* true at its time, which is not older than the cache allows.              *)
LEMMA BeginKeeps ==
  ASSUME LookupInv, NEW k \in Tasks, NEW t \in Titles, Begin(k, t)
  PROVE  LookupInv'
<1> DEFINE r == [probe[k] EXCEPT !.title = t, !.began = clock, !.unsure = FALSE,
                                 !.next = IF t \in Series THEN 0 ELSE 1]
<1>1. clock \in 0..MaxClock /\ TypeOK /\ probe[k] \in Calls
  BY Record DEF LookupInv, TypeOK
<1>2. r \in Calls
  <2>1. (IF t \in Series THEN 0 ELSE 1) \in 0..3
    OBVIOUS
  <2>2. QED BY <1>1, <2>1 DEF Calls
<1>3. r.title = t /\ r.began = clock /\ r.next \in 0..1 /\ r.waiting = {}
  <2>1. probe[k].waiting = {}
    BY Record DEF Begin, Asking
  <2>2. QED BY <1>1, <2>1 DEF Calls
<1>4. Len(Sample[t]) \in 1..3
  BY SampleType
<1>5. CASE Fresh(t)
  <2> DEFINE q == [r EXCEPT !.phase = "done", !.result = cache[t].verdict, !.next = 0]
  <2>1. probe' = [probe EXCEPT ![k] = q] /\ UNCHANGED <<clock, loaded, steady, since, cache>>
    BY <1>5 DEF Begin
  <2>2. cache[t].verdict \in Verdicts /\ cache[t] # Nothing
        /\ cache[t].at \in 0..MaxClock /\ clock - cache[t].at < CACHE
    <3>1. cache[t] \in [at : 0..MaxClock, verdict : {"yes", "no"}] \cup {Nothing}
      BY <1>1 DEF TypeOK
    <3>2. cache[t] # Nothing
      BY <1>5 DEF Fresh, Nothing
    <3>3. QED BY <1>5, <3>1, <3>2 DEF Fresh, Verdicts
  <2> HIDE DEF r
  <2>3. q \in Calls
    <3>1. "done" \in Phases /\ 0 \in 0..3
      BY DEF Phases
    <3>2. QED BY <1>2, <2>2, <3>1 DEF Calls
  <2>4. q.phase = "done" /\ q.result = cache[t].verdict /\ q.title = t /\ q.began = clock
        /\ q.waiting = {}
    BY <1>2, <1>3 DEF Calls
  <2>5. cache[t].verdict = "no" => AllLate(t, clock - CACHE + 1)
    <3>1. SUFFICES ASSUME cache[t].verdict = "no" PROVE AllLate(t, clock - CACHE + 1)
      OBVIOUS
    <3>2. AllLate(t, cache[t].at)
      BY <3>1 DEF LookupInv, CacheOK
    <3>3. clock - CACHE + 1 <= cache[t].at /\ cache[t].at \in Int /\ clock - CACHE + 1 \in Int
      BY <1>1, <2>2, ConfigurationOK
    <3>4. QED BY <1>1, <3>2, <3>3, Earlier
  <2> HIDE DEF q
  <2>6. Sound(q)
    BY <1>1, <2>4, <2>5 DEF Sound, Running, Asking
  <2>7. QED BY <2>1, <2>3, <2>6, OneProbeOnly
<1>6. CASE ~Fresh(t)
  <2> DEFINE q == [r EXCEPT !.phase = "queued", !.result = "unknown"]
  <2>1. probe' = [probe EXCEPT ![k] = q] /\ UNCHANGED <<clock, loaded, steady, since, cache>>
    BY <1>6 DEF Begin
  <2> HIDE DEF r
  <2>2. q \in Calls /\ q.phase = "queued" /\ q.title = t /\ q.began = clock
        /\ q.next \in 0..1 /\ q.waiting = {}
    <3>1. "queued" \in Phases /\ "unknown" \in Verdicts
      BY DEF Phases, Verdicts
    <3>2. QED BY <1>2, <1>3, <3>1 DEF Calls
  <2> HIDE DEF q
  <2>3. q.next <= Len(Sample[q.title]) /\ \A n \in 1..(q.next - 1) : FALSE
    <3>1. q.next \in 0..1 /\ Len(Sample[q.title]) \in 1..3
      BY <1>4, <2>2
    <3>2. QED BY <3>1, NoneBefore
  <2>4. q.began <= clock /\ q.phase \notin Asking /\ q.phase # "done" /\ q.waiting = {}
    BY <1>1, <2>2 DEF Asking
  <2>5. Sound(q)
    BY <2>3, <2>4 DEF Sound
  <2>6. QED BY <2>1, <2>2, <2>5, OneProbeOnly
<1>7. QED BY <1>5, <1>6

(* A task enters the semaphore: every steady provider of the item is asked. *)
LEMMA AcquireKeeps ==
  ASSUME LookupInv, NEW k \in Tasks, Acquire(k)
  PROVE  LookupInv'
<1> DEFINE primary   == Compatible(Item(k), FALSE)
           secondary == Compatible(Item(k), TRUE)
           asking    == [probe[k] EXCEPT !.match = FALSE, !.failed = FALSE]
<1>1. /\ probe[k] \in Calls /\ Sound(probe[k]) /\ probe[k].phase = "queued"
      /\ probe[k].waiting = {} /\ UNCHANGED <<clock, loaded, steady, since>>
  BY Record DEF Acquire, Asking
<1>2. asking \in Calls
  BY <1>1 DEF Calls
<1>3. /\ asking.phase = "queued" /\ asking.title = probe[k].title
      /\ asking.began = probe[k].began /\ asking.next = probe[k].next
      /\ asking.unsure = probe[k].unsure /\ asking.waiting = {}
  BY <1>1 DEF Calls
<1>4. /\ probe[k].next <= Len(Sample[probe[k].title])
      /\ probe[k].began <= clock
      /\ ~probe[k].unsure =>
           \A n \in 1..(probe[k].next - 1) : Late(Sample[probe[k].title][n], probe[k].began)
  BY <1>1 DEF Sound, Running
<1>5. CASE probe[k].next = 0 /\ probe' = [probe EXCEPT ![k].phase = "meta"] /\ UNCHANGED cache
  <2> DEFINE q == [probe[k] EXCEPT !.phase = "meta"]
  <2>1. probe' = [probe EXCEPT ![k] = q]
    BY <1>5
  <2>2. /\ q \in Calls /\ q.phase = "meta" /\ q.title = probe[k].title
        /\ q.began = probe[k].began /\ q.next = probe[k].next /\ q.unsure = probe[k].unsure
        /\ q.waiting = {}
    BY <1>1 DEF Calls, Phases
  <2> HIDE DEF q
  <2>3. Sound(q)
    BY <1>4, <2>2 DEF Sound, Running, Asking
  <2>4. QED BY <1>1, <1>5, <2>1, <2>2, <2>3, OneProbeOnly
<1>6. CASE /\ probe[k].next > 0
           /\ primary \cup secondary = {}
           /\ NextItem(k, asking, "unknown")
  <2>1. asking.next \in 1..Len(Sample[asking.title])
    BY <1>3, <1>4, <1>6, Record
  <2>2. "unknown" \in Verdicts
    BY DEF Verdicts
  <2> HIDE DEF asking
  <2>3. QED BY <1>1, <1>2, <1>3, <1>4, <1>6, <2>1, <2>2, NextItemKeeps
<1>7. CASE /\ probe[k].next > 0
           /\ primary \cup secondary # {}
           /\ probe' = [probe EXCEPT ![k] =
                          IF primary # {}
                          THEN [asking EXCEPT !.phase = "primary", !.waiting = primary,
                                              !.later = secondary]
                          ELSE [asking EXCEPT !.phase = "secondary", !.waiting = secondary,
                                              !.later = {}]]
           /\ UNCHANGED cache
  <2>1. primary \subseteq Providers /\ secondary \subseteq Providers
        /\ \A p \in steady : Item(k) \in Serves[p] => p \in primary \cup secondary
    BY DEF Compatible, LookupInv, TypeOK
  <2> HIDE DEF primary, secondary, asking
  <2> DEFINE q == IF primary # {}
                  THEN [asking EXCEPT !.phase = "primary", !.waiting = primary,
                                      !.later = secondary]
                  ELSE [asking EXCEPT !.phase = "secondary", !.waiting = secondary,
                                      !.later = {}]
  <2>2. "primary" \in Phases /\ "secondary" \in Phases
    BY DEF Phases
  <2>3. q \in Calls
    BY <1>2, <2>1, <2>2 DEF Calls
  <2>4. /\ q.phase \in Asking /\ q.title = probe[k].title
        /\ q.began = probe[k].began /\ q.next = probe[k].next /\ q.unsure = probe[k].unsure
    BY <1>2, <1>3 DEF Calls, Asking
  <2>5. q.waiting \cup q.later = primary \cup secondary
    BY <1>2 DEF Calls
  <2>6. probe' = [probe EXCEPT ![k] = q]
    BY <1>7
  <2> HIDE DEF q
  <2>7. Sound(q)
    <3>1. q.next >= 1 /\ q.phase \in Running /\ q.phase # "done"
      BY <1>7, <2>4, Record DEF Asking, Running
    <3>2. \A p \in steady \ (q.waiting \cup q.later) : Sample[q.title][q.next] \notin Serves[p]
      BY <2>1, <2>4, <2>5 DEF Item
    <3>3. QED BY <1>4, <2>4, <3>1, <3>2 DEF Sound
  <2>8. QED BY <1>1, <1>7, <2>3, <2>6, <2>7, OneProbeOnly
<1>8. QED BY <1>5, <1>6, <1>7 DEF Acquire

(* The metadata of a series arrives, or the verdict is open.                *)
LEMMA MetaAnswerKeeps ==
  ASSUME LookupInv, NEW k \in Tasks, NEW ok \in BOOLEAN, MetaAnswer(k, ok)
  PROVE  LookupInv'
<1>1. /\ probe[k] \in Calls /\ Sound(probe[k]) /\ probe[k].phase = "meta"
      /\ probe[k].began <= clock /\ UNCHANGED <<clock, loaded, steady, since>>
      /\ Len(Sample[probe[k].title]) \in 1..3 /\ probe[k].waiting = {}
  BY Record DEF MetaAnswer, Asking
<1>2. CASE ok
  <2> DEFINE q == [probe[k] EXCEPT !.phase = "queued", !.next = 1]
  <2>1. probe' = [probe EXCEPT ![k] = q] /\ UNCHANGED cache
    BY <1>2 DEF MetaAnswer
  <2>2. /\ q \in Calls /\ q.phase = "queued" /\ q.title = probe[k].title
        /\ q.began = probe[k].began /\ q.next = 1 /\ q.waiting = {}
    <3>1. "queued" \in Phases /\ 1 \in 0..3
      BY DEF Phases
    <3>2. QED BY <1>1, <3>1 DEF Calls
  <2> HIDE DEF q
  <2>3. q.next <= Len(Sample[q.title]) /\ \A n \in 1..(q.next - 1) : FALSE
    <3>1. q.next \in 0..1 /\ Len(Sample[q.title]) \in 1..3
      BY <1>1, <2>2
    <3>2. QED BY <3>1, NoneBefore
  <2>4. q.began <= clock /\ q.phase \notin Asking /\ q.phase # "done" /\ q.waiting = {}
    BY <1>1, <2>2 DEF Asking
  <2>5. Sound(q)
    BY <2>3, <2>4 DEF Sound
  <2>6. QED BY <1>1, <2>1, <2>2, <2>5, OneProbeOnly
<1>3. CASE ~ok
  <2>1. Finish(k, probe[k], "unknown") /\ "unknown" \in Verdicts
    BY <1>3 DEF MetaAnswer, Verdicts
  <2>2. QED BY <1>1, <2>1, FinishKeeps
<1>4. QED BY <1>2, <1>3

(* A provider answers: it has no source now, or has matched, or has failed. *)
LEMMA AnswerKeeps ==
  ASSUME LookupInv, NEW k \in Tasks, NEW p \in Providers, NEW ok \in BOOLEAN, Answer(k, p, ok)
  PROVE  LookupInv'
<1> DEFINE old == probe[k]
           i   == Sample[old.title][old.next]
           hit == ok /\ since[p][i] <= clock
           r   == [old EXCEPT !.waiting = @ \ {p}, !.match = @ \/ hit, !.failed = @ \/ ~ok]
<1>1. /\ old \in Calls /\ Sound(old) /\ p \in old.waiting
      /\ old.phase \in Asking /\ old.began \in Int /\ old.title \in Titles
      /\ UNCHANGED <<clock, loaded, steady, since>>
  BY Record DEF Answer
<1>2. \/ /\ r.waiting # {}
         /\ probe' = [probe EXCEPT ![k] = r]
         /\ UNCHANGED cache
      \/ /\ r.waiting = {} /\ ~r.match
         /\ probe' = [probe EXCEPT ![k] = [r EXCEPT !.phase = "secondary",
                                                   !.waiting = r.later, !.later = {}]]
         /\ UNCHANGED cache
      \/ /\ r.waiting = {} /\ (r.match \/ r.later = {})
         /\ NextItem(k, [r EXCEPT !.later = {}], Found(r))
  BY Zenon DEF Answer, Item
<1>3. old.waiting \subseteq Providers /\ old.later \subseteq Providers
      /\ old.match \in BOOLEAN /\ old.failed \in BOOLEAN
  BY <1>1 DEF Calls
<1>4. r \in Calls
  <2>1. (old.match \/ hit) \in BOOLEAN /\ (old.failed \/ ~ok) \in BOOLEAN
        /\ old.waiting \ {p} \in SUBSET Providers
    BY <1>3
  <2> HIDE DEF hit
  <2>2. QED BY <1>1, <2>1 DEF Calls
<1>5. /\ r.waiting = old.waiting \ {p} /\ r.later = old.later
      /\ r.phase = old.phase /\ r.title = old.title /\ r.began = old.began
      /\ r.next = old.next
  BY <1>1 DEF Calls
<1>6. r.unsure = old.unsure /\ r.match = (old.match \/ hit) /\ r.failed = (old.failed \/ ~ok)
  BY <1>1, Zenon DEF Calls
<1>7. /\ old.began <= clock /\ old.next \in 1..Len(Sample[old.title])
      /\ ~old.unsure =>
           \A n \in 1..(old.next - 1) : Late(Sample[old.title][n], old.began)
      /\ \A q \in steady \ (old.waiting \cup old.later) :
           i \in Serves[q] => old.match \/ old.failed \/ since[q][i] >= old.began
  <2>1. old.next \in 0..3 /\ Len(Sample[old.title]) \in 1..3
    BY Record
  <2>2. old.next >= 1 /\ old.next <= Len(Sample[old.title])
    BY <1>1 DEF Sound, Asking, Running
  <2>3. old.next \in 1..Len(Sample[old.title])
    BY <2>1, <2>2
  <2>4. QED BY <1>1, <2>3 DEF Sound, Asking, Running
<1>8. i \in Items
  BY <1>1, <1>7, SampleType
<1> HIDE DEF r, old, i
<1>9. \A q \in steady \ (r.waiting \cup r.later) :
        i \in Serves[q] => r.match \/ r.failed \/ since[q][i] >= r.began
  <2> SUFFICES ASSUME NEW q \in steady, q \notin r.waiting, q \notin r.later,
                      i \in Serves[q], ~r.match, ~r.failed
               PROVE  since[q][i] >= r.began
    OBVIOUS
  <2>1. CASE q = p
    <3>1. ok /\ ~hit
      BY <1>6, Zenon
    <3>2. ~(since[p][i] <= clock)
      BY <3>1
    <3>3. since[p][i] = Never /\ clock \in 0..MaxClock
      BY <3>2, <1>8 DEF LookupInv, TimesOK, TypeOK
    <3>4. since[p][i] \in Int /\ clock \in Int
      BY <3>3, ConfigurationOK DEF Never
    <3>5. QED BY <1>1, <1>5, <1>7, <2>1, <3>2, <3>4
  <2>2. CASE q # p
    <3>1. q \notin old.waiting /\ q \notin old.later
      BY <1>5, <2>2
    <3>2. ~old.match /\ ~old.failed
      BY <1>6, Zenon
    <3>3. QED BY <1>5, <1>7, <3>1, <3>2
  <2>3. QED BY <2>1, <2>2
<1>10. CASE r.waiting # {} /\ probe' = [probe EXCEPT ![k] = r] /\ UNCHANGED cache
  <2>1. r.phase # "done"
    BY <1>1, <1>5 DEF Asking
  <2>2. Sound(r)
    BY <1>1, <1>5, <1>6, <1>7, <1>9, <2>1 DEF Sound, i
  <2>3. QED BY <1>1, <1>4, <1>10, <2>2, OneProbeOnly
<1>11. CASE /\ r.waiting = {} /\ ~r.match
            /\ probe' = [probe EXCEPT ![k] = [r EXCEPT !.phase = "secondary",
                                                      !.waiting = r.later, !.later = {}]]
            /\ UNCHANGED cache
  <2> DEFINE q == [r EXCEPT !.phase = "secondary", !.waiting = r.later, !.later = {}]
  <2>1. "secondary" \in Phases /\ r.later \in SUBSET Providers
    BY <1>4 DEF Phases, Calls
  <2>2. q \in Calls
    BY <1>4, <2>1 DEF Calls
  <2>3. /\ q.phase = "secondary" /\ q.waiting \cup q.later = r.waiting \cup r.later
        /\ q.title = r.title /\ q.began = r.began /\ q.next = r.next
    BY <1>4, <1>11 DEF Calls
  <2>4. q.unsure = r.unsure /\ q.match = r.match /\ q.failed = r.failed
    BY <1>4 DEF Calls
  <2>5. probe' = [probe EXCEPT ![k] = q]
    BY <1>11
  <2> HIDE DEF q
  <2>6. Sound(q)
    <3>1. q.phase \in Asking /\ q.phase # "done"
      BY <2>3 DEF Asking
    <3>2. \A x \in steady \ (q.waiting \cup q.later) :
            i \in Serves[x] => q.match \/ q.failed \/ since[x][i] >= q.began
      BY <1>9, <2>3, <2>4
    <3>3. q.began = old.began /\ q.title = old.title /\ q.next = old.next
          /\ i = Sample[q.title][q.next] /\ q.unsure = old.unsure
      BY <1>5, <1>6, <2>3, <2>4 DEF i
    <3>4. q.began <= clock /\ q.next >= 1 /\ q.next <= Len(Sample[q.title])
      BY <1>7, <3>3, Record
    <3>5. ~q.unsure => \A n \in 1..(q.next - 1) : Late(Sample[q.title][n], q.began)
      BY <1>7, <3>3, Zenon
    <3>6. QED BY <3>1, <3>2, <3>3, <3>4, <3>5 DEF Sound
  <2>7. QED BY <1>1, <1>11, <2>2, <2>5, <2>6, OneProbeOnly
<1>12. CASE /\ r.waiting = {} /\ (r.match \/ r.later = {})
            /\ NextItem(k, [r EXCEPT !.later = {}], Found(r))
  <2> DEFINE q == [r EXCEPT !.later = {}]
  <2>1. /\ q \in Calls /\ q.waiting = {} /\ q.title = r.title /\ q.began = r.began
        /\ q.next = r.next /\ q.unsure = r.unsure
    BY <1>4, <1>12 DEF Calls
  <2>2. Found(r) \in Verdicts
    BY DEF Found, Verdicts
  <2>3. Found(r) = "no" => Late(i, r.began)
    <3>1. SUFFICES ASSUME Found(r) = "no" PROVE Late(i, r.began)
      OBVIOUS
    <3>2. ~r.match /\ ~r.failed
      BY <3>1 DEF Found
    <3>3. r.waiting \cup r.later = {}
      BY <1>12, <3>2
    <3>4. QED BY <1>9, <3>2, <3>3 DEF Late
  <2>4. NextItem(k, q, Found(r))
    BY <1>12
  <2> HIDE DEF q
  <2>5. /\ q.began = probe[k].began /\ q.began <= clock
        /\ q.next \in 1..Len(Sample[q.title])
        /\ ~q.unsure => \A n \in 1..(q.next - 1) : Late(Sample[q.title][n], q.began)
        /\ Found(r) = "no" => Late(Sample[q.title][q.next], q.began)
    BY <1>5, <1>6, <1>7, <2>1, <2>3 DEF old, i
  <2>6. QED BY <1>1, <2>1, <2>2, <2>4, <2>5, NextItemKeeps
<1>13. QED BY <1>2, <1>10, <1>11, <1>12

(* The manifests are loaded again.                                          *)
LEMMA RefreshKeeps ==
  ASSUME LookupInv, NEW up \in SUBSET Providers, Refresh(up)
  PROVE  LookupInv'
<1>1. steady' \subseteq steady /\ UNCHANGED <<clock, since, cache, probe>>
      /\ loaded' \in SUBSET Providers /\ steady' \in SUBSET loaded'
  BY DEF Refresh, LookupInv, TypeOK
<1>2. TypeOK' /\ TimesOK'
  BY <1>1 DEF LookupInv, TypeOK, TimesOK
<1>3. CacheOK'
  BY <1>1 DEF LookupInv, CacheOK, AllLate, Late
<1>4. ProbesOK'
  <2> SUFFICES ASSUME NEW k \in Tasks PROVE Sound(probe[k])'
    BY DEF ProbesOK
  <2>1. Sound(probe[k])
    BY DEF LookupInv, ProbesOK
  <2>2. QED BY <1>1, <2>1 DEF Sound, AllLate, Late
<1>5. QED BY <1>2, <1>3, <1>4 DEF LookupInv

(* A source appears, at the time of the clock, which no call and no entry   *)
(* of the cache is ahead of.                                                *)
LEMMA OfferKeeps ==
  ASSUME LookupInv, NEW p \in Providers, NEW i \in Items, Offer(p, i)
  PROVE  LookupInv'
<1> DEFINE StillLate(j, time) == \A q \in steady : j \in Serves[q] => since'[q][j] >= time
           StillAll(t, time)  == \A n \in 1..Len(Sample[t]) : StillLate(Sample[t][n], time)
<1>1. /\ since' = [since EXCEPT ![p][i] = clock] /\ clock \in 0..MaxClock
      /\ UNCHANGED <<clock, loaded, steady, cache, probe>> /\ TypeOK
  BY DEF Offer, LookupInv, TypeOK
<1>2. /\ since' \in [Providers -> [Items -> 0..Never]]
      /\ \A q \in Providers, j \in Items :
           since'[q][j] = since[q][j] \/ since'[q][j] = clock
  <2>1. since \in [Providers -> [Items -> 0..Never]] /\ clock \in 0..Never
    BY <1>1, ConfigurationOK DEF TypeOK, Never
  <2>2. QED BY <1>1, <2>1
<1>3. TypeOK' /\ TimesOK'
  BY <1>1, <1>2 DEF LookupInv, TypeOK, TimesOK
<1>4. \A j \in Items, time \in Int : time <= clock /\ Late(j, time) => StillLate(j, time)
  BY <1>1, <1>2, SteadyType DEF Late
<1>5. \A t \in Titles, time \in Int : time <= clock /\ AllLate(t, time) => StillAll(t, time)
  <2> SUFFICES ASSUME NEW t \in Titles, NEW time \in Int, time <= clock, AllLate(t, time)
               PROVE  StillAll(t, time)
    OBVIOUS
  <2>1. \A n \in 1..Len(Sample[t]) : Sample[t][n] \in Items
    BY SampleType
  <2>2. QED BY <1>4, <2>1 DEF AllLate
<1>6. CacheOK'
  <2> SUFFICES ASSUME NEW t \in Titles, cache[t].verdict = "no"
               PROVE  cache[t].at <= clock /\ StillAll(t, cache[t].at)
    BY <1>1 DEF CacheOK, AllLate, Late
  <2>1. cache[t].at <= clock /\ AllLate(t, cache[t].at)
    BY DEF LookupInv, CacheOK
  <2>2. cache[t].at \in Int
    BY <1>1, ConfigurationOK DEF TypeOK, Nothing
  <2>3. QED BY <1>5, <2>1, <2>2
<1>7. ProbesOK'
  <2> SUFFICES ASSUME NEW k \in Tasks PROVE Sound(probe[k])'
    BY DEF ProbesOK
  <2> PICK r : r = probe[k]
    OBVIOUS
  <2>1. /\ Sound(r) /\ r.began \in 0..MaxClock /\ r.title \in Titles /\ r.next \in 0..3
        /\ r.began <= clock /\ Len(Sample[r.title]) \in 1..3
    BY Record
  <2>2. r = probe[k]'
    BY <1>1
  <2>3. r.phase \in Running /\ ~r.unsure =>
          \A n \in 1..(r.next - 1) : StillLate(Sample[r.title][n], r.began)
    <3> SUFFICES ASSUME r.phase \in Running, ~r.unsure, NEW n \in 1..(r.next - 1)
                 PROVE  StillLate(Sample[r.title][n], r.began)
      OBVIOUS
    <3>1. Late(Sample[r.title][n], r.began) /\ r.next <= Len(Sample[r.title])
      BY <2>1 DEF Sound
    <3>2. n \in 1..Len(Sample[r.title]) /\ r.began \in Int
      BY <2>1, <3>1
    <3>3. Sample[r.title][n] \in Items
      BY <2>1, <3>2, SampleType
    <3>4. QED BY <1>4, <2>1, <3>1, <3>2, <3>3
  <2>4. r.phase \in Asking =>
          \A q \in steady \ (r.waiting \cup r.later) :
            Sample[r.title][r.next] \in Serves[q] =>
              r.match \/ r.failed \/ since'[q][Sample[r.title][r.next]] >= r.began
    <3> SUFFICES ASSUME r.phase \in Asking, NEW q \in steady, q \notin r.waiting,
                        q \notin r.later, Sample[r.title][r.next] \in Serves[q],
                        ~r.match, ~r.failed
                 PROVE  since'[q][Sample[r.title][r.next]] >= r.began
      OBVIOUS
    <3>1. since[q][Sample[r.title][r.next]] >= r.began /\ r.next >= 1
          /\ r.next <= Len(Sample[r.title])
      BY <2>1 DEF Sound, Asking, Running
    <3>2. r.next \in 1..Len(Sample[r.title]) /\ r.began \in Int
      BY <2>1, <3>1
    <3>3. Sample[r.title][r.next] \in Items /\ q \in Providers
      BY <1>1, <2>1, <3>2, SampleType, SteadyType
    <3>4. QED BY <1>2, <2>1, <3>1, <3>3
  <2>5. r.phase = "done" /\ r.result = "no" => StillAll(r.title, r.began - CACHE + 1)
    <3>1. r.began - CACHE + 1 \in Int /\ r.began - CACHE + 1 <= clock
      BY <1>1, <2>1, ConfigurationOK
    <3>2. QED BY <1>5, <2>1, <3>1 DEF Sound
  <2>6. QED BY <1>1, <2>1, <2>2, <2>3, <2>4, <2>5 DEF Sound, AllLate, Late
<1>8. QED BY <1>3, <1>6, <1>7 DEF LookupInv

(* Time goes by.                                                            *)
LEMMA TickKeeps ==
  ASSUME LookupInv, Tick
  PROVE  LookupInv'
<1>1. clock' \in 0..MaxClock /\ clock <= clock' /\ clock \in 0..MaxClock
      /\ UNCHANGED <<loaded, steady, since, cache, probe>> /\ TypeOK
  BY ConfigurationOK DEF Tick, LookupInv, TypeOK
<1>2. TypeOK'
  BY <1>1 DEF TypeOK
<1>3. TimesOK'
  <2> SUFFICES ASSUME NEW p \in Providers, NEW i \in Items
               PROVE  since[p][i] = Never \/ since[p][i] <= clock'
    BY <1>1 DEF TimesOK
  <2>1. since[p][i] \in Int
    BY <1>1, SinceType
  <2>2. since[p][i] = Never \/ since[p][i] <= clock
    BY DEF LookupInv, TimesOK
  <2>3. QED BY <1>1, <2>1, <2>2
<1>4. CacheOK'
  <2> SUFFICES ASSUME NEW t \in Titles, cache[t].verdict = "no"
               PROVE  cache[t].at <= clock' /\ AllLate(t, cache[t].at)
    BY <1>1 DEF CacheOK, AllLate, Late
  <2>1. cache[t].at <= clock /\ AllLate(t, cache[t].at)
    BY DEF LookupInv, CacheOK
  <2>2. cache[t].at \in Int
    BY <1>1, ConfigurationOK DEF TypeOK, Nothing
  <2>3. QED BY <1>1, <2>1, <2>2
<1>5. ProbesOK'
  <2> SUFFICES ASSUME NEW k \in Tasks PROVE Sound(probe[k])'
    BY DEF ProbesOK
  <2>1. Sound(probe[k]) /\ probe[k].began \in 0..MaxClock /\ probe[k].began <= clock
    BY Record
  <2>2. probe[k].began <= clock'
    BY <1>1, <2>1
  <2>3. QED BY <1>1, <2>1, <2>2 DEF Sound, AllLate, Late
<1>6. QED BY <1>2, <1>3, <1>4, <1>5 DEF LookupInv

(* Nothing has been looked up.                                              *)
LEMMA InitInv ==
  ASSUME Init
  PROVE  LookupInv
<1>1. clock = 0 /\ 0 \in 0..MaxClock /\ Never \in 0..Never /\ 0 \in 0..3
  BY ConfigurationOK DEF Init, Never
<1>2. PICK t \in Titles :
        probe = [k \in Tasks |->
                  [phase |-> "idle", title |-> t, began |-> 0, next |-> 0, unsure |-> FALSE,
                   waiting |-> {}, later |-> {}, match |-> FALSE, failed |-> FALSE,
                   result |-> "unknown"]]
  BY DEF Init
<1>3. TypeOK
  <2>1. loaded = Providers /\ steady = loaded /\ since \in [Providers -> [Items -> 0..Never]]
        /\ cache \in [Titles -> [at : 0..MaxClock, verdict : {"yes", "no"}] \cup {Nothing}]
    BY <1>1 DEF Init
  <2>2. "idle" \in Phases /\ "unknown" \in Verdicts /\ {} \in SUBSET Providers
    BY DEF Phases, Verdicts
  <2>3. probe \in [Tasks -> Calls]
    BY <1>1, <1>2, <2>2 DEF Calls
  <2>4. QED BY <1>1, <2>1, <2>3 DEF TypeOK, Calls
<1>4. TimesOK /\ CacheOK
  BY DEF Init, TimesOK, CacheOK, Nothing
<1>5. ProbesOK
  BY <1>1, <1>2 DEF ProbesOK, Sound, Running, Asking
<1>6. QED BY <1>3, <1>4, <1>5 DEF LookupInv

(* The invariant is inductive.                                              *)
LEMMA StepKeeps ==
  ASSUME LookupInv, [Next]_vars
  PROVE  LookupInv'
<1>1. CASE UNCHANGED vars
  BY <1>1 DEF vars, LookupInv, TypeOK, TimesOK, CacheOK, ProbesOK, Sound, AllLate, Late
<1>2. ASSUME NEW k \in Tasks, NEW t \in Titles, Begin(k, t) PROVE LookupInv'
  BY <1>2, BeginKeeps
<1>3. ASSUME NEW k \in Tasks, Acquire(k) PROVE LookupInv'
  BY <1>3, AcquireKeeps
<1>4. ASSUME NEW k \in Tasks, Ends(k) PROVE LookupInv'
  BY <1>4, MetaAnswerKeeps, AnswerKeeps DEF Ends
<1>5. ASSUME NEW up \in SUBSET Providers, Refresh(up) PROVE LookupInv'
  BY <1>5, RefreshKeeps
<1>6. ASSUME NEW p \in Providers, NEW i \in Items, Offer(p, i) PROVE LookupInv'
  BY <1>6, OfferKeeps
<1>7. CASE Tick
  BY <1>7, TickKeeps
<1>8. QED BY <1>1, <1>2, <1>3, <1>4, <1>5, <1>6, <1>7 DEF Next

(* What is known of calls, cache and offers holds always.                   *)
THEOREM Invariant == Spec => []LookupInv
<1>1. QED BY InitInv, StepKeeps, PTL DEF Spec

(* Every variable of the lookup keeps its type.                             *)
THEOREM TypeCorrect == Spec => []TypeOK
<1>1. LookupInv => TypeOK
  BY DEF LookupInv
<1>2. QED BY <1>1, Invariant, PTL

(* A hidden title had no source half an hour before, of any provider whose  *)
(* manifest stayed loaded, whatever failed, answered late or was cached.    *)
THEOREM HiddenSound == Spec => []HiddenHasNoSource
<1>1. LookupInv => HiddenHasNoSource
  <2> SUFFICES ASSUME LookupInv, NEW k \in Tasks, probe[k].phase = "done",
                      probe[k].result = "no", NEW p \in steady, NEW n \in Ignored(k, p)
               PROVE  FALSE
    BY DEF HiddenHasNoSource
  <2> DEFINE t == probe[k].title
             i == Sample[t][n]
  <2>1. AllLate(t, probe[k].began - CACHE + 1) /\ probe[k].began \in Int /\ t \in Titles
    BY Record DEF Sound
  <2>2. n \in 1..Len(Sample[t]) /\ i \in Serves[p] /\ since[p][i] <= probe[k].began - CACHE
    BY DEF Ignored
  <2>3. since[p][i] >= probe[k].began - CACHE + 1
    BY <2>1, <2>2 DEF AllLate, Late
  <2>4. since[p][i] \in Int
    BY <2>1, <2>2, SampleType, SteadyType, SinceType DEF LookupInv
  <2> HIDE DEF t, i
  <2>5. QED BY <2>1, <2>2, <2>3, <2>4, ConfigurationOK
<1>2. QED BY <1>1, Invariant, PTL


=============================================================================
