----------------------- MODULE ContentResolver_proofs -----------------------
(***************************************************************************)
(* What the resolve service answers is true, for any series, films,        *)
(* episodes and answers to the search, and a library that changes at any   *)
(* time.                                                                   *)
(***************************************************************************)
EXTENDS ContentResolver, FiniteSetTheorems, WellFoundedInduction, TLAPS

-----------------------------------------------------------------------------
(* The inductive invariant.                                                 *)

(* Episode e follows a position that the library had.                       *)
IsNext(s, e) == \E p \in held[s] : e > p /\ \A x \in Regular(s) : p < x => e <= x

(* The library had a position that no regular episode follows, or none.     *)
NothingFollows(s) == \E p \in held[s] : p = Absent \/ \A e \in Regular(s) : e <= p

CandidateOK(c, list) ==
  /\ c.rank \in DOMAIN list
  /\ c.of = list[c.rank].id
  /\ c.of \in Series => c.item \in 1..99 /\ (Automatic => IsNext(c.of, c.item))

(* What is known once a result has been dealt with.                         *)
PassedOK(r, cands, remarks, fails) ==
  /\ r.id \in Movies => cands # {}
  /\ r.id \in Series \ fails =>
       /\ cands = {} /\ "up_to_date" \notin remarks
            => IF Automatic THEN Episodes[r.id] = {} ELSE Requested(r.id) = {}
       /\ Automatic => (\E c \in cands : c.priority = 2) \/ NothingFollows(r.id)

(* The probes under way.                                                    *)
ProbesOK(s) ==
  /\ probes # {}
  /\ s \in Series =>
       /\ probes \subseteq 1..99
       /\ Automatic => /\ \A e \in probes : IsNext(s, e)
                       /\ priority # 2 => NothingFollows(s)

HeldInv   == \A s \in Series : library[s] \in held[s]
SearchInv == stage = "search" => DOMAIN plausible = {} /\ at = 0 /\ found = {} /\ notes = {}
ProbeInv  == stage = "probe" => ProbesOK(plausible[at].id)
FoundInv  == \A c \in found : CandidateOK(c, plausible)
PassedInv == \A i \in DOMAIN plausible :
               i < at \/ stage = "answered" => PassedOK(plausible[i], found, notes, failed)
NotesInv  == "up_to_date" \in notes => Automatic

Refusals        == {"error", "unsupported"}
Refused(status) == [status |-> status, pick |-> Nobody]

AnswerInv ==
  /\ stage # "answered" => answer.status = "none"
  /\ stage = "answered" => \/ answer \in {Refused(status) : status \in Refusals}
                           \/ answer = Conclude(found, notes)

IInv ==
  /\ TypeOK
  /\ HeldInv
  /\ SearchInv
  /\ ProbeInv
  /\ FoundInv
  /\ PassedInv
  /\ NotesInv
  /\ AnswerInv

-----------------------------------------------------------------------------
(* The operators.                                                           *)

(* A set of natural numbers has a first one, and First finds it.            *)
LEMMA Least ==
  ASSUME NEW S \in SUBSET Nat, S # {}
  PROVE  Earliest(S) \in S /\ \A x \in S : Earliest(S) <= x
<1>1. PICK e \in S : \A x \in S : ~(<<x, e>> \in OpToRel(<, Nat))
  BY NatLessThanWellFounded, WFMin
<1>2. \A x \in S : e <= x
  <2>1. \A x \in S : ~(x < e)
    BY <1>1 DEF OpToRel
  <2> QED BY <2>1
<1>3. e \in First(S)
  BY <1>2 DEF First
<1>4. Earliest(S) \in First(S)
  BY <1>3 DEF Earliest
<1> QED BY <1>4 DEF First

(* First is empty only for the empty set.                                   *)
LEMMA FirstIsEmpty ==
  ASSUME NEW S \in SUBSET Nat, First(S) = {}
  PROVE  S = {}
BY Least DEF First

(* There is a best one among candidates of which those of one rank are of   *)
(* one title, and those of a series have numbers for items.                 *)
LEMMA BestIsOne ==
  ASSUME NEW cands \in SUBSET Candidate, cands # {},
         \A c, d \in cands : c.rank = d.rank => c.of = d.of,
         \A c \in cands : c.of \in Series => c.item \in 1..99
  PROVE  Best(cands) \in cands
<1> DEFINE better(d, c) == Less(Key(d), Key(c))
<1>1. \A c \in cands : /\ c.priority \in 0..2 /\ c.rank \in Nat
                       /\ c.seeders \in 0..MaxSeeders /\ c.has \in BOOLEAN
  BY DEF Candidate
<1>2. PICK a \in cands : \A d \in cands : d.priority <= a.priority
  <2> DEFINE P == {2 - c.priority : c \in cands}
  <2>1. P \in SUBSET Nat /\ P # {}
    BY <1>1
  <2>2. PICK p \in P : \A q \in P : p <= q
    BY <2>1, Least
  <2>3. PICK a \in cands : p = 2 - a.priority
    BY <2>2
  <2>4. \A d \in cands : 2 - a.priority <= 2 - d.priority
    BY <2>2, <2>3
  <2> QED BY <1>1, <2>4
<1> DEFINE A == {c \in cands : c.priority = a.priority}
<1>3. PICK b \in A : \A d \in A : d.has => b.has
  BY <1>1
<1> DEFINE B == {c \in A : c.has = b.has}
<1>4. PICK s \in B : \A d \in B : d.seeders <= s.seeders
  <2> DEFINE P == {MaxSeeders - c.seeders : c \in B}
  <2>1. P \in SUBSET Nat /\ P # {}
    BY <1>1, ConfigurationOK
  <2>2. PICK p \in P : \A q \in P : p <= q
    BY <2>1, Least
  <2>3. PICK s \in B : p = MaxSeeders - s.seeders
    BY <2>2
  <2>4. \A d \in B : MaxSeeders - s.seeders <= MaxSeeders - d.seeders
    BY <2>2, <2>3
  <2>5. \A d \in B : d.seeders \in Int
    BY <1>1, ConfigurationOK
  <2>6. MaxSeeders \in Int
    BY ConfigurationOK
  <2> HIDE DEF B
  <2> QED BY <2>3, <2>4, <2>5, <2>6
<1> DEFINE S == {c \in B : c.seeders = s.seeders}
<1>5. PICK t \in S : \A d \in S : t.rank <= d.rank
  <2> DEFINE P == {c.rank : c \in S}
  <2>1. P \in SUBSET Nat /\ P # {}
    BY <1>1
  <2>2. PICK p \in P : \A q \in P : p <= q
    BY <2>1, Least
  <2> QED BY <2>2
<1> DEFINE T == {c \in S : c.rank = t.rank}
<1>6. PICK u \in T : \A d \in T : d.of \in Series => u.item <= d.item
  <2>1. CASE t.of \in Series
    <3> DEFINE P == {c.item : c \in T}
    <3>1. P \in SUBSET Nat /\ P # {}
      BY <2>1
    <3>2. PICK p \in P : \A q \in P : p <= q
      BY <3>1, Least
    <3> QED BY <3>2
  <2>2. CASE t.of \notin Series
    BY <2>2
  <2> QED BY <2>1, <2>2
<1>7. ASSUME NEW d \in cands
      PROVE  ~better(d, u) /\ (Key(d) = Key(u) /\ d.of \in Series => u.item <= d.item)
  <2> DEFINE h(c) == IF c.has THEN 0 ELSE 1
  <2>1. /\ d.priority <= u.priority
        /\ d.priority = u.priority => h(u) <= h(d)
        /\ d.priority = u.priority /\ h(u) = h(d) => d.seeders <= u.seeders
        /\ d.priority = u.priority /\ h(u) = h(d) /\ d.seeders = u.seeders => u.rank <= d.rank
    BY <1>1, <1>2, <1>3, <1>4, <1>5, <1>6
  <2>2. d.priority = u.priority /\ h(u) = h(d) /\ d.seeders = u.seeders /\ d.rank = u.rank
          => d \in T
    BY <1>1, <1>2, <1>3, <1>4, <1>5, <1>6
  <2>3. Key(d) = <<-d.priority, h(d), -d.seeders, d.rank>>
        /\ Key(u) = <<-u.priority, h(u), -u.seeders, u.rank>>
    BY DEF Key
  <2>4. /\ d.priority \in Int /\ u.priority \in Int /\ d.seeders \in Int /\ u.seeders \in Int
        /\ d.rank \in Int /\ u.rank \in Int /\ h(d) \in Int /\ h(u) \in Int
    BY <1>1, ConfigurationOK
  <2> HIDE DEF T, S, B, A, h
  <2>5. ~better(d, u)
    BY <2>1, <2>3, <2>4 DEF Less
  <2>6. Key(d) = Key(u) => d \in T
    BY <2>2, <2>3, <2>4
  <2> QED BY <1>6, <2>5, <2>6
<1> QED BY <1>7 DEF Best

(* At most LIMIT results are worth a look.                                  *)
LEMMA PlausibleType ==
  ASSUME NEW ranked \in Seq(Result)
  PROVE  /\ Plausible(ranked) \in [DOMAIN Plausible(ranked) -> Result]
         /\ DOMAIN Plausible(ranked) \subseteq Nat \ {0}
         /\ Cardinality(DOMAIN Plausible(ranked)) <= LIMIT
<1>1. PICK chosen \in SUBSET DOMAIN ranked :
        Plausible(ranked) =
          [i \in {k \in chosen : Cardinality({j \in chosen : j < k}) < LIMIT} |-> ranked[i]]
  BY DEF Plausible, First
<1> DEFINE before(k) == {j \in chosen : j < k}
           kept      == {k \in chosen : Cardinality(before(k)) < LIMIT}
<1>2. chosen \subseteq 1..Len(ranked) /\ Len(ranked) \in Nat /\ LIMIT \in Nat \ {0}
  BY ConfigurationOK
<1>3. IsFiniteSet(chosen)
  BY <1>2, FS_Interval, FS_Subset
<1>4. \A k \in chosen : IsFiniteSet(before(k)) /\ Cardinality(before(k)) \in Nat
  BY <1>3, FS_Subset, FS_CardinalityType
<1>5. ASSUME NEW j \in chosen, NEW k \in chosen, j < k
      PROVE  Cardinality(before(j)) # Cardinality(before(k))
  <2>1. before(j) \in SUBSET before(k)
    BY <1>2, <1>5
  <2>2. j \in before(k) /\ j \notin before(j)
    BY <1>2, <1>5
  <2> QED BY <1>4, <2>1, <2>2, FS_Subset
<1>6. Cardinality(kept) <= LIMIT
  <2> DEFINE f == [k \in kept |-> Cardinality(before(k))]
  <2>1. \A k \in kept : k \in chosen /\ Cardinality(before(k)) \in 0..(LIMIT - 1)
    <3> HIDE DEF before
    <3> QED BY <1>2, <1>4
  <2>2. f \in [kept -> 0..(LIMIT - 1)]
    BY <2>1
  <2>3. ASSUME NEW j \in kept, NEW k \in kept, f[j] = f[k] PROVE j = k
    <3> HIDE DEF before
    <3>1. j \in chosen /\ k \in chosen /\ Cardinality(before(j)) = Cardinality(before(k))
      BY <2>3
    <3>2. j \in Int /\ k \in Int
      BY <1>2, <3>1
    <3> QED BY <1>5, <3>1, <3>2
  <2>4. f \in Injection(kept, 0..(LIMIT - 1))
    <3> HIDE DEF f, kept
    <3> QED BY <2>2, <2>3 DEF Injection, IsInjective
  <2>5. IsFiniteSet(0..(LIMIT - 1)) /\ Cardinality(0..(LIMIT - 1)) = LIMIT
    BY <1>2, FS_Interval
  <2> QED BY <2>4, <2>5, FS_Injection
<1>7. DOMAIN Plausible(ranked) = kept
  BY <1>1
<1>8. \A i \in kept : ranked[i] \in Result
  BY <1>2
<1> QED BY <1>1, <1>2, <1>6, <1>7, <1>8

(* The next result, if there is one, is the first after the one in hand.    *)
LEMMA LaterPlace ==
  ASSUME NEW D \in SUBSET (Nat \ {0}), at \in Nat
  PROVE  LET later == {i \in D : i > at}
         IN later # {} => /\ Earliest(later) \in D
                          /\ Earliest(later) > at
                          /\ \A i \in D : i < Earliest(later) => i <= at
<1> SUFFICES ASSUME {i \in D : i > at} # {}
             PROVE  LET n == Earliest({i \in D : i > at})
                    IN n \in D /\ n > at /\ \A i \in D : i < n => i <= at
  OBVIOUS
<1> DEFINE later == {i \in D : i > at}
<1>1. later \in SUBSET Nat /\ later # {}
  OBVIOUS
<1>2. Earliest(later) \in later /\ \A x \in later : Earliest(later) <= x
  BY <1>1, Least
<1>3. \A i \in D : i \in Nat /\ (i > at => i \in later)
  OBVIOUS
<1>4. Earliest(later) \in D /\ Earliest(later) > at
  BY <1>2
<1>5. ASSUME NEW i \in D, i < Earliest(later) PROVE i <= at
  <2> HIDE DEF later
  <2>1. i \in Nat /\ Earliest(later) \in Nat
    BY <1>3, <1>4
  <2> QED BY <1>2, <1>3, <1>5, <2>1
<1> QED BY <1>4, <1>5

(* The answer is of its type, whatever has been found.                      *)
LEMMA ConcludeType ==
  ASSUME NEW cands \in SUBSET Candidate, NEW remarks,
         cands # {} => Best(cands) \in cands
  PROVE  LET a == Conclude(cands, remarks)
         IN /\ a.status \in {"exact", "not_found", "up_to_date", "episode_not_found"}
            /\ a.pick \in Candidate \cup {Nobody}
            /\ (a.status = "exact") = (a.pick # Nobody)
            /\ a.status = "exact" => a.pick \in cands
            /\ a.status = "up_to_date" =>
                 "up_to_date" \in remarks /\ \A c \in cands : c.priority < 2
            /\ a.status \in {"not_found", "episode_not_found"} =>
                 cands = {} /\ "up_to_date" \notin remarks
<1>1. Nobody \notin Candidate
  BY DEF Nobody, Candidate
<1> QED BY <1>1 DEF Conclude

(* The loop goes on: what was known of the results dealt with stays known.  *)
LEMMA GoOnStep ==
  ASSUME IInv, stage # "answered", UNCHANGED <<store, library, held, changes>>,
         NEW list, list \in [DOMAIN list -> Result], DOMAIN list \subseteq Nat \ {0},
         Cardinality(DOMAIN list) <= LIMIT,
         NEW cands \in SUBSET Candidate,
         NEW remarks \in SUBSET {"up_to_date", "episode_not_found"},
         failed' \in SUBSET Series,
         GoOn(list, cands, remarks),
         \A c \in cands : CandidateOK(c, list),
         \A i \in DOMAIN list : i <= at => PassedOK(list[i], cands, remarks, failed'),
         "up_to_date" \in remarks => Automatic
  PROVE  IInv'
<1> DEFINE later == {i \in DOMAIN list : i > at}
<1>1. /\ plausible' = list /\ found' = cands /\ notes' = remarks
      /\ probes' = {} /\ priority' = 0 /\ asked' = asked
      /\ held' = held /\ library' = library /\ UNCHANGED <<changes, pending, query, results>>
  BY DEF GoOn, store
<1>2. \/ later # {} /\ at' = Earliest(later) /\ stage' = "look" /\ answer' = answer
      \/ later = {} /\ stage' = "answered" /\ answer' = Conclude(cands, remarks) /\ at' = at
  BY DEF GoOn
<1>3. TypeOK /\ at \in Nat /\ answer.status = "none"
  BY DEF IInv, TypeOK, AnswerInv
<1>4. later # {} => /\ at' \in DOMAIN list /\ at' > at /\ at' \in Nat
                    /\ \A i \in DOMAIN list : i < at' => i <= at
  BY <1>2, <1>3, LaterPlace
<1>5. cands # {} => Best(cands) \in cands
  <2>1. \A c, d \in cands : c.rank = d.rank => c.of = d.of
    BY DEF CandidateOK
  <2>2. \A c \in cands : c.of \in Series => c.item \in 1..99
    BY DEF CandidateOK
  <2> QED BY <2>1, <2>2, BestIsOne
<1>6. Automatic' = Automatic /\ \A s \in Series : Requested(s)' = Requested(s)
  BY <1>1 DEF Automatic, Explicit, Requested
<1> HIDE DEF later
<1>7. TypeOK'
  <2>1. /\ plausible' \in [DOMAIN plausible' -> Result] /\ DOMAIN plausible' \subseteq Nat \ {0}
        /\ Cardinality(DOMAIN plausible') <= LIMIT
        /\ found' \in SUBSET Candidate /\ notes' \in SUBSET {"up_to_date", "episode_not_found"}
        /\ probes' \in SUBSET Probes /\ priority' \in 0..2
    BY <1>1
  <2>2. /\ at' \in Nat /\ stage' \in {"look", "answered"}
        /\ stage' = "look" => at' \in DOMAIN plausible'
    BY <1>1, <1>2, <1>3, <1>4
  <2>3. /\ answer.status' \in {"none", "exact", "not_found", "up_to_date", "episode_not_found",
                               "error", "unsupported"}
        /\ answer.pick' \in Candidate \cup {Nobody}
        /\ (answer.status' = "exact") = (answer.pick' # Nobody)
    <3>1. CASE later # {}
      BY <1>2, <1>3, <3>1 DEF TypeOK
    <3>2. CASE later = {}
      BY <1>2, <1>5, <3>2, ConcludeType
    <3> QED BY <3>1, <3>2
  <2>4. /\ asked' \in [season : {None} \cup 0..9, episode : {None} \cup 1..9, account : BOOLEAN]
        /\ library' \in [Series -> Positions] /\ held' \in [Series -> SUBSET Positions]
        /\ changes' \in 0..MaxChanges /\ pending' \in SUBSET Queries
        /\ query' \in Queries \cup {NoQuery} /\ results' \in Queries \cup {NoQuery}
    BY <1>1, <1>3 DEF TypeOK
  <2> QED BY <2>1, <2>2, <2>3, <2>4 DEF TypeOK
<1>8. \A i \in DOMAIN plausible' :
        i < at' \/ stage' = "answered" => PassedOK(plausible'[i], found', notes', failed')
  BY <1>1, <1>2, <1>3, <1>4 DEF later
<1>9. HeldInv' /\ SearchInv' /\ ProbeInv' /\ NotesInv'
  BY <1>1, <1>2, <1>6 DEF IInv, HeldInv, SearchInv, ProbeInv, NotesInv
<1>10. FoundInv'
  BY <1>1, <1>6 DEF FoundInv, CandidateOK, IsNext, Regular
<1>11. PassedInv'
  BY <1>1, <1>6, <1>8 DEF PassedInv, PassedOK, NothingFollows, Regular
<1>12. AnswerInv'
  BY <1>1, <1>2, <1>3 DEF AnswerInv, Conclude, Best, Less, Key
<1> QED BY <1>7, <1>9, <1>10, <1>11, <1>12 DEF IInv

-----------------------------------------------------------------------------
(* The actions.                                                             *)

LEMMA InitIInv == Init => IInv
<1> SUFFICES ASSUME Init PROVE IInv
  OBVIOUS
<1>1. plausible \in [DOMAIN plausible -> Result] /\ DOMAIN plausible = {}
  BY DEF Init
<1>2. Cardinality(DOMAIN plausible) <= LIMIT
  BY <1>1, FS_EmptySet, ConfigurationOK
<1>3. asked \in [season : {None} \cup 0..9, episode : {None} \cup 1..9, account : BOOLEAN]
  BY DEF Init, None
<1>4. Nobody \notin Candidate
  BY DEF Nobody, Candidate
<1>5. /\ held \in [Series -> SUBSET Positions] /\ stage = "search"
      /\ probes = {} /\ priority = 0 /\ found = {} /\ notes = {} /\ failed = {}
      /\ answer.status = "none" /\ answer.pick = Nobody
      /\ changes \in 0..MaxChanges /\ pending = {} /\ at = 0
  BY ConfigurationOK DEF Init
<1>6. TypeOK
  BY <1>1, <1>2, <1>3, <1>5 DEF Init, TypeOK
<1>7. HeldInv /\ SearchInv /\ ProbeInv /\ FoundInv /\ PassedInv /\ NotesInv /\ AnswerInv
  BY <1>1, <1>5 DEF Init, HeldInv, SearchInv, ProbeInv, FoundInv, PassedInv, NotesInv, AnswerInv
<1> QED BY <1>6, <1>7 DEF IInv

(* The catalogs answer.                                                     *)
LEMMA SearchStep == ASSUME IInv, NEW ranked \in Answers, Search(ranked) PROVE IInv'
<1>1. ranked \in Seq(Result)
  BY ConfigurationOK
<1>2. /\ stage = "search" /\ at = 0 /\ UNCHANGED <<store, library, held, changes>>
      /\ failed' \in SUBSET Series /\ GoOn(Plausible(ranked), {}, {})
  BY DEF IInv, SearchInv, TypeOK, Search
<1>3. /\ Plausible(ranked) \in [DOMAIN Plausible(ranked) -> Result]
      /\ DOMAIN Plausible(ranked) \subseteq Nat \ {0}
      /\ Cardinality(DOMAIN Plausible(ranked)) <= LIMIT
  BY <1>1, PlausibleType
<1>4. \A i \in DOMAIN Plausible(ranked) : ~(i <= at)
  BY <1>2, <1>3
<1> HIDE DEF Plausible
<1> QED BY <1>2, <1>3, <1>4, GoOnStep

(* The search raises, or is refused.                                        *)
LEMMA SearchFailsStep ==
  ASSUME IInv, NEW status \in Refusals, SearchFails(status) PROVE IInv'
<1>1. /\ stage = "search" /\ stage' = "answered"
      /\ answer' = Refused(status)
      /\ UNCHANGED <<asked, plausible, at, probes, priority, found, notes, failed,
                     pending, query, results, library, held, changes>>
  BY DEF SearchFails, store, Refused
<1>2. DOMAIN plausible = {} /\ at = 0 /\ found = {} /\ notes = {}
  BY <1>1 DEF IInv, SearchInv
<1>3. answer'.status \in Refusals /\ answer'.pick = Nobody
  BY <1>1 DEF Refused
<1>4. TypeOK'
  BY <1>1, <1>3 DEF IInv, TypeOK, Refusals
<1>5. HeldInv' /\ SearchInv' /\ ProbeInv' /\ FoundInv' /\ PassedInv' /\ NotesInv' /\ AnswerInv'
  BY <1>1, <1>2, <1>3 DEF IInv, HeldInv, SearchInv, ProbeInv, FoundInv, PassedInv, NotesInv,
     AnswerInv
<1> QED BY <1>4, <1>5 DEF IInv

(* A result is looked at, and something of it is probed.                    *)
LEMMA ProbeStep ==
  ASSUME IInv, stage = "look", stage' = "probe",
         UNCHANGED <<asked, plausible, at, found, notes, failed, answer, store, library, held,
                     changes>>,
         probes' \in SUBSET Probes, priority' \in 0..2, ProbesOK(plausible[at].id)'
  PROVE  IInv'
<1>1. UNCHANGED <<asked, plausible, at, found, notes, failed, answer, pending, query, results,
                  library, held, changes>>
  BY DEF store
<1>2. TypeOK'
  BY <1>1 DEF IInv, TypeOK
<1>3. Automatic' = Automatic /\ \A s \in Series : Requested(s)' = Requested(s)
  BY <1>1 DEF Automatic, Explicit, Requested
<1>4. HeldInv' /\ SearchInv' /\ ProbeInv' /\ NotesInv' /\ AnswerInv'
  BY <1>1, <1>3 DEF IInv, HeldInv, SearchInv, ProbeInv, NotesInv, AnswerInv, Conclude, Best, Less, Key
<1>5. FoundInv'
  BY <1>1, <1>3 DEF IInv, FoundInv, CandidateOK, IsNext, Regular
<1>6. PassedInv'
  BY <1>1, <1>3 DEF IInv, PassedInv, PassedOK, NothingFollows, Regular
<1> QED BY <1>2, <1>4, <1>5, <1>6 DEF IInv

LEMMA LookAtMovieStep == ASSUME IInv, LookAtMovie PROVE IInv'
<1>1. /\ stage = "look" /\ stage' = "probe" /\ plausible[at].id \in Movies
      /\ probes' = {plausible[at].id}
      /\ UNCHANGED <<asked, plausible, at, priority, found, notes, failed, answer, store, library,
                     held, changes>>
  BY DEF LookAtMovie
<1>2. plausible[at].id \notin Series /\ plausible[at].id \in Probes
  BY <1>1, ConfigurationOK DEF Probes
<1>3. ProbesOK(plausible[at].id)' /\ priority' \in 0..2 /\ probes' \in SUBSET Probes
  BY <1>1, <1>2 DEF ProbesOK, IInv, TypeOK
<1> QED BY <1>1, <1>3, ProbeStep

(* What is read of the library: the next episode, or that there is none.    *)
LEMMA NextEpisodeRight ==
  ASSUME IInv, NEW s \in Series
  PROVE  /\ \A e \in NextEpisode(s, library[s]) : e \in 1..99 /\ IsNext(s, e)
         /\ NextEpisode(s, library[s]) = {} => NothingFollows(s)
         /\ NextEpisode(s, library[s]) = {} /\ library[s] = Absent => Episodes[s] = {}
<1> DEFINE p     == library[s]
           after == {e \in Regular(s) : e > p}
<1>1. Regular(s) \subseteq 1..99 /\ (Regular(s) = {} => Episodes[s] = {})
  BY ConfigurationOK DEF Regular
<1>2. p \in held[s] /\ p \in Int
  <2>1. \A t \in Series : Episodes[t] \subseteq 1..99
    BY ConfigurationOK
  <2> QED BY <2>1 DEF IInv, HeldInv, TypeOK, Positions, Absent, Unplaced
<1>3. after \in SUBSET Nat
  BY <1>1
<1>4. NextEpisode(s, p) = First(after)
  BY DEF NextEpisode
<1>5. ASSUME NEW e \in First(after) PROVE e \in 1..99 /\ IsNext(s, e)
  BY <1>1, <1>2, <1>5 DEF First, IsNext
<1>6. ASSUME First(after) = {} PROVE \A e \in Regular(s) : ~(e > p)
  BY <1>3, <1>6, FirstIsEmpty
<1>7. ASSUME First(after) = {} PROVE NothingFollows(s)
  <2>1. \A e \in Regular(s) : e \in Int /\ ~(e > p)
    BY <1>1, <1>6, <1>7
  <2> QED BY <1>2, <2>1 DEF NothingFollows
<1>8. ASSUME First(after) = {}, p = Absent PROVE Episodes[s] = {}
  BY <1>1, <1>6, <1>8 DEF Absent
<1> QED BY <1>4, <1>5, <1>7, <1>8

(* Results before the one in hand are dealt with; it is the next.           *)
LEMMA OneMore ==
  ASSUME IInv, stage \in {"look", "probe"},
         NEW cands, found \subseteq cands, NEW remarks, notes \subseteq remarks,
         NEW fails, failed \subseteq fails,
         PassedOK(plausible[at], cands, remarks, fails)
  PROVE  \A i \in DOMAIN plausible : i <= at => PassedOK(plausible[i], cands, remarks, fails)
<1>1. at \in Nat /\ at \in DOMAIN plausible /\ DOMAIN plausible \subseteq Nat
  BY DEF IInv, TypeOK
<1>2. ASSUME NEW i \in DOMAIN plausible, i < at
      PROVE  PassedOK(plausible[i], cands, remarks, fails)
  <2>1. PassedOK(plausible[i], found, notes, failed)
    BY <1>2 DEF IInv, PassedInv
  <2> QED BY <2>1 DEF PassedOK
<1>3. \A i \in DOMAIN plausible : i <= at => i < at \/ i = at
  BY <1>1
<1> QED BY <1>2, <1>3

LEMMA LookAtSeriesStep == ASSUME IInv, LookAtSeries PROVE IInv'
<1> DEFINE s     == plausible[at].id
           items == IF Automatic THEN NextEpisode(s, library[s]) ELSE Requested(s)
           note  == IF Automatic /\ library[s] # Absent THEN "up_to_date" ELSE "episode_not_found"
<1>1. /\ stage = "look" /\ s \in Series /\ failed' = failed
      /\ UNCHANGED <<store, library, held, changes>>
  BY DEF LookAtSeries
<1>2. /\ \A e \in items : e \in 1..99
      /\ Automatic => /\ \A e \in items : IsNext(s, e)
                      /\ items = {} => NothingFollows(s)
                      /\ items = {} /\ library[s] = Absent => Episodes[s] = {}
  <2>1. CASE Automatic
    BY <1>1, <2>1, NextEpisodeRight
  <2>2. CASE ~Automatic
    BY <1>1, <2>2, ConfigurationOK DEF Requested
  <2> QED BY <2>1, <2>2
<1>3. CASE /\ items # {} /\ stage' = "probe" /\ probes' = items
           /\ priority' = IF ~Automatic THEN 0 ELSE IF library[s] = Absent THEN 1 ELSE 2
           /\ UNCHANGED <<asked, plausible, at, found, notes, answer>>
  <2> HIDE DEF items
  <2>1. probes' \in SUBSET Probes /\ priority' \in 0..2
    BY <1>2, <1>3 DEF Probes
  <2>2. library[s] = Absent => NothingFollows(s)
    BY <1>1 DEF IInv, HeldInv, NothingFollows
  <2>3. Automatic' = Automatic
    BY <1>3 DEF Automatic, Explicit
  <2>4. ProbesOK(s)'
    BY <1>1, <1>2, <1>3, <2>2, <2>3 DEF ProbesOK, IsNext, NothingFollows, Regular
  <2> QED BY <1>1, <1>3, <2>1, <2>4, ProbeStep
<1>4. CASE items = {} /\ GoOn(plausible, found, notes \cup {note})
  <2>1. PassedOK(plausible[at], found, notes \cup {note}, failed)
    <3>1. s \notin Movies
      BY <1>1, ConfigurationOK
    <3>2. Automatic => NothingFollows(s)
      BY <1>2, <1>4
    <3>3. Automatic /\ "up_to_date" \notin notes \cup {note} => Episodes[s] = {}
      BY <1>2, <1>4
    <3>4. ~Automatic => Requested(s) = {}
      BY <1>4
    <3> QED BY <3>1, <3>2, <3>3, <3>4 DEF PassedOK
  <2>2. \A i \in DOMAIN plausible :
          i <= at => PassedOK(plausible[i], found, notes \cup {note}, failed)
    BY <1>1, <2>1, OneMore
  <2>3. /\ plausible \in [DOMAIN plausible -> Result] /\ DOMAIN plausible \subseteq Nat \ {0}
        /\ Cardinality(DOMAIN plausible) <= LIMIT /\ found \in SUBSET Candidate
        /\ notes \cup {note} \in SUBSET {"up_to_date", "episode_not_found"}
        /\ failed \in SUBSET Series
    BY DEF IInv, TypeOK
  <2>4. \A c \in found : CandidateOK(c, plausible)
    BY DEF IInv, FoundInv
  <2>5. "up_to_date" \in notes \cup {note} => Automatic
    BY DEF IInv, NotesInv
  <2> HIDE DEF note
  <2> QED BY <1>1, <1>4, <2>2, <2>3, <2>4, <2>5, GoOnStep
<1> QED BY <1>3, <1>4 DEF LookAtSeries

LEMMA SeriesMetadataFailsStep == ASSUME IInv, SeriesMetadataFails PROVE IInv'
<1> DEFINE s     == plausible[at].id
           fails == failed \cup {s}
<1>1. /\ stage = "look" /\ s \in Series /\ failed' = fails
      /\ UNCHANGED <<store, library, held, changes>> /\ GoOn(plausible, found, notes)
  BY DEF SeriesMetadataFails
<1>2. PassedOK(plausible[at], found, notes, fails)
  BY <1>1, ConfigurationOK DEF PassedOK
<1>3. \A i \in DOMAIN plausible : i <= at => PassedOK(plausible[i], found, notes, fails)
  BY <1>1, <1>2, OneMore
<1>4. /\ plausible \in [DOMAIN plausible -> Result] /\ DOMAIN plausible \subseteq Nat \ {0}
      /\ Cardinality(DOMAIN plausible) <= LIMIT /\ found \in SUBSET Candidate
      /\ notes \in SUBSET {"up_to_date", "episode_not_found"}
      /\ fails \in SUBSET Series
  BY <1>1 DEF IInv, TypeOK
<1>5. (\A c \in found : CandidateOK(c, plausible)) /\ ("up_to_date" \in notes => Automatic)
  BY DEF IInv, FoundInv, NotesInv
<1> HIDE DEF fails
<1> QED BY <1>1, <1>3, <1>4, <1>5, GoOnStep

(* The probes of a result have ended: each is a candidate now.              *)
LEMMA ProbesEndStep ==
  ASSUME IInv, NEW seeders \in [probes -> {None} \cup 0..MaxSeeders], ProbesEnd(seeders)
  PROVE  IInv'
<1> DEFINE r      == plausible[at]
           cand(i) == [of |-> r.id, item |-> i, priority |-> priority,
                       has |-> seeders[i] # None, rank |-> at,
                       seeders |-> IF seeders[i] = None THEN 0 ELSE seeders[i]]
           cands  == found \cup {cand(i) : i \in probes}
<1>1. /\ stage = "probe" /\ failed' = failed /\ UNCHANGED <<store, library, held, changes>>
      /\ GoOn(plausible, cands, notes)
  BY DEF ProbesEnd
<1>2. /\ at \in DOMAIN plausible /\ at \in Nat /\ r.id \in Series \cup Movies
      /\ probes \subseteq Probes /\ priority \in 0..2
  BY <1>1 DEF IInv, TypeOK, Result
<1>3. ProbesOK(r.id)
  BY <1>1 DEF IInv, ProbeInv
<1>4. \A i \in probes : cand(i) \in Candidate
  <2> SUFFICES ASSUME NEW i \in probes PROVE cand(i) \in Candidate
    OBVIOUS
  <2>1. (IF seeders[i] = None THEN 0 ELSE seeders[i]) \in 0..MaxSeeders
    BY ConfigurationOK
  <2> QED BY <1>2, <2>1 DEF Candidate
<1>5. \A i \in probes : CandidateOK(cand(i), plausible)
  BY <1>2, <1>3 DEF CandidateOK, ProbesOK
<1>6. PassedOK(r, cands, notes, failed)
  <2>1. PICK i \in probes : TRUE
    BY <1>3 DEF ProbesOK
  <2>2. cand(i) \in cands /\ cand(i).priority = priority
    BY <2>1
  <2>3. r.id \in Series /\ Automatic => priority = 2 \/ NothingFollows(r.id)
    BY <1>3 DEF ProbesOK
  <2> HIDE DEF cands
  <2> QED BY <2>2, <2>3 DEF PassedOK
<1>7. \A i \in DOMAIN plausible : i <= at => PassedOK(plausible[i], cands, notes, failed)
  BY <1>1, <1>6, OneMore
<1>8. /\ plausible \in [DOMAIN plausible -> Result] /\ DOMAIN plausible \subseteq Nat \ {0}
      /\ Cardinality(DOMAIN plausible) <= LIMIT /\ cands \in SUBSET Candidate
      /\ notes \in SUBSET {"up_to_date", "episode_not_found"} /\ failed \in SUBSET Series
  BY <1>4 DEF IInv, TypeOK
<1>9. (\A c \in cands : CandidateOK(c, plausible)) /\ ("up_to_date" \in notes => Automatic)
  BY <1>5 DEF IInv, FoundInv, NotesInv
<1> HIDE DEF cands
<1> QED BY <1>1, <1>7, <1>8, <1>9, GoOnStep

(* The library changes, and no position is forgotten.                       *)
LEMMA RefreshStep ==
  ASSUME IInv, NEW s \in Series, NEW p \in Positions, Refresh(s, p) PROVE IInv'
<1>1. /\ UNCHANGED <<asked, stage, plausible, at, probes, priority, found, notes, failed, answer,
                     pending, query, results>>
      /\ library' = [library EXCEPT ![s] = p]
      /\ held' = [held EXCEPT ![s] = @ \cup {p}] /\ changes' = changes + 1
      /\ changes < MaxChanges
  BY DEF Refresh, call, store
<1>2. TypeOK
  BY DEF IInv
<1>3. library' \in [Series -> Positions] /\ held' \in [Series -> SUBSET Positions]
      /\ changes' \in 0..MaxChanges
  BY <1>1, <1>2, ConfigurationOK DEF TypeOK
<1>4. TypeOK'
  BY <1>1, <1>2, <1>3 DEF TypeOK
<1>5. \A t \in Series : held[t] \subseteq held'[t]
  BY <1>1, <1>2 DEF TypeOK
<1>6. HeldInv'
  BY <1>1, <1>2 DEF IInv, HeldInv, TypeOK
<1>7. Automatic' = Automatic /\ \A t \in Series : Requested(t)' = Requested(t)
  BY <1>1 DEF Automatic, Explicit, Requested
<1>8. \A t \in Series : /\ \A e : IsNext(t, e) => IsNext(t, e)'
                        /\ NothingFollows(t) => NothingFollows(t)'
  BY <1>5 DEF IsNext, NothingFollows, Regular
<1>9. SearchInv' /\ NotesInv' /\ AnswerInv'
  BY <1>1, <1>7 DEF IInv, SearchInv, NotesInv, AnswerInv, Conclude, Best, Less, Key
<1>10. ProbeInv'
  BY <1>1, <1>7, <1>8 DEF IInv, ProbeInv, ProbesOK
<1>11. FoundInv'
  BY <1>1, <1>7, <1>8 DEF IInv, FoundInv, CandidateOK
<1>12. PassedInv'
  BY <1>1, <1>7, <1>8 DEF IInv, PassedInv, PassedOK
<1> QED BY <1>4, <1>6, <1>9, <1>10, <1>11, <1>12 DEF IInv

(* The searches of the other service touch nothing of the call.             *)
LEMMA StoreStep ==
  ASSUME IInv, UNCHANGED <<call, library, held, changes>>,
         pending' \in SUBSET Queries, query' \in Queries \cup {NoQuery},
         results' \in Queries \cup {NoQuery}
  PROVE  IInv'
<1>1. UNCHANGED <<asked, stage, plausible, at, probes, priority, found, notes, failed, answer,
                  library, held, changes>>
  BY DEF call
<1>2. TypeOK'
  BY <1>1 DEF IInv, TypeOK
<1>3. Automatic' = Automatic /\ \A t \in Series : Requested(t)' = Requested(t)
  BY <1>1 DEF Automatic, Explicit, Requested
<1>4. \A t \in Series : /\ \A e : IsNext(t, e)' <=> IsNext(t, e)
                        /\ NothingFollows(t)' <=> NothingFollows(t)
  BY <1>1 DEF IsNext, NothingFollows, Regular
<1>5. HeldInv' /\ SearchInv' /\ NotesInv'
  BY <1>1, <1>3 DEF IInv, HeldInv, SearchInv, NotesInv
<1>6. AnswerInv'
  BY <1>1 DEF IInv, AnswerInv, Conclude, Best, Less, Key
<1>7. ProbeInv'
  BY <1>1, <1>3, <1>4 DEF IInv, ProbeInv, ProbesOK
<1>8. FoundInv'
  BY <1>1, <1>3, <1>4 DEF IInv, FoundInv, CandidateOK
<1>9. PassedInv'
  BY <1>1, <1>3, <1>4 DEF IInv, PassedInv, PassedOK
<1> QED BY <1>2, <1>5, <1>6, <1>7, <1>8, <1>9 DEF IInv

LEMMA NextIInv == IInv /\ [Next]_vars => IInv'
<1> SUFFICES ASSUME IInv, [Next]_vars PROVE IInv'
  OBVIOUS
<1>1. CASE Resolve
  BY <1>1, SearchStep, SearchFailsStep, LookAtMovieStep, LookAtSeriesStep,
     SeriesMetadataFailsStep, ProbesEndStep DEF Resolve, Refusals
<1>2. CASE \E s \in Series, p \in Positions : Refresh(s, p)
  BY <1>2, RefreshStep
<1>3. ASSUME NEW q \in Queries, StartSearch(q) \/ EndSearch(q) PROVE IInv'
  <2>1. /\ UNCHANGED <<call, library, held, changes>>
        /\ pending' \in SUBSET Queries /\ query' \in Queries \cup {NoQuery}
        /\ results' \in Queries \cup {NoQuery}
    BY <1>3 DEF StartSearch, EndSearch, IInv, TypeOK
  <2> QED BY <2>1, StoreStep
<1>4. CASE UNCHANGED vars
  <2>1. UNCHANGED <<call, library, held, changes, pending, query, results>>
    BY <1>4 DEF vars, store
  <2>2. /\ pending' \in SUBSET Queries /\ query' \in Queries \cup {NoQuery}
        /\ results' \in Queries \cup {NoQuery}
    BY <2>1 DEF IInv, TypeOK
  <2> QED BY <2>1, <2>2, StoreStep
<1> QED BY <1>1, <1>2, <1>3, <1>4 DEF Next

-----------------------------------------------------------------------------
(* The invariant holds in every state of every behaviour.                   *)
LEMMA Invariance == Spec => []IInv
BY InitIInv, NextIInv, PTL DEF Spec

(* What the answer may be, by its status.                                   *)
LEMMA AnswerByStatus ==
  ASSUME IInv
  PROVE  /\ answer.status = "exact" => stage = "answered" /\ answer.pick \in found
         /\ answer.status = "up_to_date" =>
              /\ stage = "answered" /\ "up_to_date" \in notes
              /\ \A c \in found : c.priority < 2
         /\ answer.status \in {"not_found", "episode_not_found"} =>
              stage = "answered" /\ found = {} /\ "up_to_date" \notin notes
<1>1. CASE stage # "answered"
  BY <1>1 DEF IInv, AnswerInv
<1>2. CASE answer \in {Refused(status) : status \in Refusals}
  BY <1>2 DEF Refused, Refusals
<1>3. CASE stage = "answered" /\ answer = Conclude(found, notes)
  <2>1. found # {} => Best(found) \in found
    <3>1. found \in SUBSET Candidate
      BY DEF IInv, TypeOK
    <3>2. \A c, d \in found : c.rank = d.rank => c.of = d.of
      BY DEF IInv, FoundInv, CandidateOK
    <3>3. \A c \in found : c.of \in Series => c.item \in 1..99
      BY DEF IInv, FoundInv, CandidateOK
    <3> QED BY <3>1, <3>2, <3>3, BestIsOne
  <2> HIDE DEF Best
  <2> QED BY <1>3, <2>1 DEF Conclude
<1> QED BY <1>1, <1>2, <1>3 DEF IInv, AnswerInv

(* A series of which the call read the metadata has been dealt with.        *)
LEMMA ReadIsPassed ==
  ASSUME IInv, stage = "answered", NEW s \in Read
  PROVE  /\ found = {} /\ "up_to_date" \notin notes
              => IF Automatic THEN Episodes[s] = {} ELSE Requested(s) = {}
         /\ Automatic => (\E c \in found : c.priority = 2) \/ NothingFollows(s)
<1>1. PICK i \in DOMAIN plausible : s = plausible[i].id /\ s \in Series \ failed
  BY DEF Read, Members
<1>2. PassedOK(plausible[i], found, notes, failed)
  BY <1>1 DEF IInv, PassedInv
<1> QED BY <1>1, <1>2 DEF PassedOK

-----------------------------------------------------------------------------
(* Every variable of the resolve call keeps to its values: in particular a  *)
(* result is looked at only where there is one, no more than LIMIT are      *)
(* worth a look, and an answer has a candidate when, and only when, it is   *)
(* exact. (async_resolve_content, _plausible_ranked_results)                *)
THEOREM TypeCorrect == Spec => []TypeOK
<1>1. IInv => TypeOK
  BY DEF IInv
<1> QED BY <1>1, Invariance, PTL

(* Without a season or an episode in the request, the episode of a series   *)
(* that is answered is the first regular one after a position that the      *)
(* library had during the call, however often it changed.                   *)
(* (_next_account_episode, _series_candidates)                              *)
THEOREM NextRight == Spec => []NextIsNext
<1>1. ASSUME IInv PROVE NextIsNext
  <2>1. SUFFICES ASSUME Automatic, answer.status = "exact", answer.pick.of \in Series
                 PROVE  IsNext(answer.pick.of, answer.pick.item)
    BY DEF NextIsNext, IsNext
  <2>2. answer.pick \in found
    BY <1>1, <2>1, AnswerByStatus
  <2> QED BY <1>1, <2>1, <2>2 DEF IInv, FoundInv, CandidateOK
<1> QED BY <1>1, Invariance, PTL

(* "Up to date" is answered only when every series that the title may mean, *)
(* and whose metadata could be read, is unwatched or has no regular episode *)
(* after a position the library had. (async_resolve_content)                *)
THEOREM UpToDateTrue == Spec => []UpToDateIsTrue
<1>1. ASSUME IInv PROVE UpToDateIsTrue
  <2>1. SUFFICES ASSUME answer.status = "up_to_date", NEW s \in Read
                 PROVE  NothingFollows(s)
    BY DEF UpToDateIsTrue, NothingFollows
  <2>2. /\ stage = "answered" /\ "up_to_date" \in notes
        /\ \A c \in found : c.priority < 2
    BY <1>1, <2>1, AnswerByStatus
  <2>3. Automatic
    BY <1>1, <2>2 DEF IInv, NotesInv
  <2>4. \A c \in found : c.priority # 2
    BY <2>2
  <2> QED BY <1>1, <2>2, <2>3, <2>4, ReadIsPassed
<1> QED BY <1>1, Invariance, PTL

(* Nothing is found only when no film was worth a look and every series     *)
(* whose metadata could be read lacks the episode: what one series lacks    *)
(* does not hide another result.                                            *)
(* (async_resolve_content, _series_candidates)                              *)
THEOREM NothingThere == Spec => []NothingIsThere
<1>1. ASSUME IInv PROVE NothingIsThere
  <2>1. SUFFICES ASSUME answer.status \in {"not_found", "episode_not_found"}
                 PROVE  /\ \A r \in Members(plausible) : r.id \in Series
                        /\ \A s \in Read : IF Automatic THEN Episodes[s] = {}
                                                        ELSE Requested(s) = {}
    BY DEF NothingIsThere
  <2>2. stage = "answered" /\ found = {} /\ "up_to_date" \notin notes
    BY <1>1, <2>1, AnswerByStatus
  <2>3. \A r \in Members(plausible) : r.id \in Series
    <3>1. \A i \in DOMAIN plausible : plausible[i].id \in Series \cup Movies
      BY <1>1 DEF IInv, TypeOK, Result
    <3>2. \A i \in DOMAIN plausible : PassedOK(plausible[i], found, notes, failed)
      BY <1>1, <2>2 DEF IInv, PassedInv
    <3>3. \A i \in DOMAIN plausible : plausible[i].id \notin Movies
      BY <2>2, <3>2 DEF PassedOK
    <3> QED BY <3>1, <3>3 DEF Members
  <2> QED BY <1>1, <2>2, <2>3, ReadIsPassed
<1> QED BY <1>1, Invariance, PTL

=============================================================================
