------------------------- MODULE TemporalProbeProofs -------------------------
(***************************************************************************)
(* ProbeInv is inductive; on it rest PromotionEarned and RotationInvisible. *)
(* The same for the store of the states, ProbeStateStore, where calls for a *)
(* name follow one another: StoreInv is inductive, and on it rest           *)
(* AcknowledgedStays and OneContentAcknowledged.                            *)
(***************************************************************************)
EXTENDS TemporalProbe, ProbeStateStore, TLAPS, FiniteSetTheorems

USE PlanAssumption, PolicyAssumption, NoneAssumption

\* The parts of ProbeInv that are not about types.
ObservedStored == \A p \in Populations : \A c \in observed[p] : Genuine(p, c)

\* A genuine comparison stays genuine while nothing is removed from the disk.
LEMMA GenuineStays ==
  ASSUME disk \subseteq disk', NEW p, NEW c, Genuine(p, c)
  PROVE  Genuine(p, c)'
  BY DEF Genuine

\* The population a run is at is one of the plan's.
LEMMA CurrentPlanned ==
  ASSUME TypeOK, Len(summaries) < Len(Plan)
  PROVE  /\ Len(summaries) + 1 \in DOMAIN Plan
         /\ Current \in Populations
         /\ State \in States
  <1>1. Len(summaries) \in Nat
    BY DEF TypeOK
  <1>2. Len(summaries) + 1 \in DOMAIN Plan
    BY <1>1
  <1> QED  BY <1>2 DEF Current, Populations, State, States, TypeOK

\* Appending a summary of the current population.
LEMMA Appended ==
  ASSUME TypeOK, Len(summaries) < Len(Plan), NEW r \in Summaries,
         summaries' = Append(summaries, r)
  PROVE  /\ summaries' \in Seq(Summaries)
         /\ Len(summaries') = Len(summaries) + 1
         /\ DOMAIN summaries' = DOMAIN summaries \cup {Len(summaries) + 1}
         /\ Len(summaries) + 1 \notin DOMAIN summaries
         /\ \A i \in DOMAIN summaries : summaries'[i] = summaries[i]
         /\ summaries'[Len(summaries) + 1] = r
  <1>1. summaries \in Seq(Summaries) /\ Len(summaries) \in Nat
    BY DEF TypeOK
  <1>2. Append(summaries, r) \in Seq(Summaries)
    BY <1>1
  <1>3. /\ Len(Append(summaries, r)) = Len(summaries) + 1
        /\ DOMAIN Append(summaries, r) = 1 .. Len(summaries) + 1
        /\ DOMAIN summaries = 1 .. Len(summaries)
    BY <1>1
  <1>4. /\ \A i \in DOMAIN summaries : Append(summaries, r)[i] = summaries[i]
        /\ Append(summaries, r)[Len(summaries) + 1] = r
    BY <1>1
  <1>5. /\ 1 .. Len(summaries) + 1 = (1 .. Len(summaries)) \cup {Len(summaries) + 1}
        /\ Len(summaries) + 1 \notin 1 .. Len(summaries)
    BY <1>1
  <1> QED  BY <1>2, <1>3, <1>4, <1>5

\* The end of a run leaves nothing of it.
LEMMA Ended ==
  ASSUME TypeOK, End
  PROVE  /\ {at'} \subseteq Times
         /\ items' \subseteq Items
         /\ previous' \in States \cup {None}
         /\ summaries' \in Seq(Summaries)
         /\ SummariesTrue'
  <1>1. summaries' = <<>> /\ pc' = "idle" /\ at' = 0 /\ items' = {} /\ previous' = None
    BY DEF End
  <1>2. Len(summaries') = 0 /\ DOMAIN summaries' = {}
    BY <1>1
  <1>3. Len(Plan) \in Nat
    OBVIOUS
  <1>4. SummariesTrue'
    BY <1>1, <1>2, <1>3 DEF SummariesTrue, Succeeded, Compared, Refused
  <1>5. at' \in Times
    BY <1>1 DEF Times
  <1> QED  BY <1>1, <1>4, <1>5

\* A population that failed ends the run.
LEMMA Stopped ==
  ASSUME ProbeInv, NEW saved \in BOOLEAN, Stop(saved),
         pc \in {"observe", "save", "locate"},
         disk \subseteq disk', at' = at, faults' \in Nat, faults <= faults',
         saved => faults' > 0
  PROVE  /\ summaries' \in Seq(Summaries)
         /\ SummariesTrue'
  <1> DEFINE r == [success |-> FALSE, saved |-> saved, comparison |-> None]
  <1>1. r \in Summaries
    BY DEF Summaries
  <1>2. Len(summaries) < Len(Plan) /\ summaries' = Append(summaries, r) /\ pc' = "assess"
    BY DEF ProbeInv, SummariesTrue, Stop
  <1>3. r.success = FALSE /\ r.saved = saved
    OBVIOUS
  <1> HIDE DEF r
  <1>4. /\ summaries' \in Seq(Summaries)
        /\ Len(summaries') = Len(summaries) + 1
        /\ DOMAIN summaries' = DOMAIN summaries \cup {Len(summaries) + 1}
        /\ \A i \in DOMAIN summaries : summaries'[i] = summaries[i]
        /\ summaries'[Len(summaries) + 1] = r
    BY <1>1, <1>2, Appended DEF ProbeInv
  <1>5. Succeeded' = Succeeded /\ Compared' = Compared
    BY <1>3, <1>4 DEF Succeeded, Compared
  <1>6. \A i \in Compared' : Genuine(Plan[i], summaries[i].comparison)'
    <2> SUFFICES ASSUME NEW i \in Compared
                 PROVE  Genuine(Plan[i], summaries[i].comparison)'
      BY <1>5
    <2>1. summaries'[i] = summaries[i]
      BY <1>4 DEF Compared, Succeeded
    <2>2. PICK c : c = summaries[i].comparison
      OBVIOUS
    <2>3. Genuine(Plan[i], c)
      BY <2>2 DEF ProbeInv, SummariesTrue
    <2> QED  BY <2>1, <2>2, <2>3 DEF Genuine
  <1>7. \A i \in Succeeded' : \E s \in disk' : s.population = Plan[i] /\ s.at = at'
    BY <1>5 DEF ProbeInv, SummariesTrue
  <1>8. Len(summaries') <= Len(Plan)
    BY <1>2, <1>4 DEF ProbeInv, TypeOK
  <1>9. Refused' => faults' > 0
    <2>1. Refused => faults' > 0
      BY DEF ProbeInv, SummariesTrue, TypeOK
    <2> QED  BY <2>1, <1>3, <1>4 DEF Refused
  <1> QED  BY <1>2, <1>4, <1>6, <1>7, <1>8, <1>9 DEF SummariesTrue

\* What summaries say stays true while they and captured_at stay and the disk
\* only grows.
LEMMA SummariesStay ==
  ASSUME ProbeInv, disk \subseteq disk', UNCHANGED <<at, summaries>>,
         faults' \in Nat, faults <= faults'
  PROVE  /\ Succeeded' = Succeeded
         /\ Len(summaries') <= Len(Plan)
         /\ \A i \in Succeeded' : \E s \in disk' : s.population = Plan[i] /\ s.at = at'
         /\ \A i \in Compared' : Genuine(Plan[i], summaries[i].comparison)'
         /\ Refused' => faults' > 0
  <1>1. Succeeded' = Succeeded /\ Compared' = Compared /\ Refused' = Refused
    BY DEF Succeeded, Compared, Refused
  <1>2. Len(summaries') <= Len(Plan)
    BY DEF ProbeInv, SummariesTrue
  <1>3. \A i \in Succeeded' : \E s \in disk' : s.population = Plan[i] /\ s.at = at'
    BY <1>1 DEF ProbeInv, SummariesTrue
  <1>4. \A i \in Compared' : Genuine(Plan[i], summaries[i].comparison)'
    BY <1>1 DEF ProbeInv, SummariesTrue, Genuine
  <1>5. Refused' => faults' > 0
    BY <1>1 DEF ProbeInv, SummariesTrue, TypeOK
  <1> QED  BY <1>1, <1>2, <1>3, <1>4, <1>5

\* Observations outlive every step that reports none.
LEMMA ObservedStays ==
  ASSUME ProbeInv, disk \subseteq disk', observed' = observed,
         refused' = refused, faults' \in Nat, faults <= faults'
  PROVE  /\ ObservedStored'
         /\ refused' => faults' > 0
  BY GenuineStays DEF ProbeInv, ObservedStored, Genuine, TypeOK

\* Storing the current population keeps names unique and captures prefixes.
LEMMA StoreKeeps ==
  ASSUME ProbeInv, pc = "save", ~Conflict, disk' = disk \cup {State}
  PROVE  disk' \subseteq States /\ OneStatePerName' /\ PrefixStored'
  <1>1. Len(summaries) < Len(Plan) /\ Succeeded = DOMAIN summaries
    BY DEF ProbeInv, SummariesTrue
  <1>2. /\ Len(summaries) + 1 \in DOMAIN Plan
        /\ State \in States
        /\ Len(summaries) \in Nat
    BY <1>1, CurrentPlanned DEF ProbeInv, TypeOK
  <1>3. State.population = Current /\ State.at = at /\ State.items = items
    BY DEF State
  <1>4. OneStatePerName'
    <2>1. \A s \in disk : s.population = State.population /\ s.at = State.at => s = State
      BY <1>2, <1>3 DEF Conflict, ProbeInv, TypeOK, States, State
    <2> QED  BY <2>1 DEF OneStatePerName, ProbeInv
  <1>5. PrefixStored'
    <2> SUFFICES ASSUME NEW i \in DOMAIN Plan, NEW j \in DOMAIN Plan, i < j,
                        NEW s \in disk', s.population = Plan[j]
                 PROVE  \E t \in disk' : t.population = Plan[i] /\ t.at = s.at
      BY DEF PrefixStored
    <2>1. CASE s \in disk
      BY <2>1 DEF ProbeInv, PrefixStored
    <2>2. CASE s = State
      <3>1. j = Len(summaries) + 1
        BY <1>2, <1>3, <2>2 DEF Current
      <3>2. i \in DOMAIN summaries
        <4>1. DOMAIN summaries = 1 .. Len(summaries)
          BY DEF ProbeInv, TypeOK
        <4>2. i \in Nat /\ 1 <= i
          OBVIOUS
        <4> QED  BY <4>1, <4>2, <3>1, <1>2
      <3>3. \E t \in disk : t.population = Plan[i] /\ t.at = at
        BY <3>2, <1>1 DEF ProbeInv, SummariesTrue
      <3> QED  BY <3>3, <2>2, <1>3
    <2> QED  BY <2>1, <2>2
  <1>6. disk' \subseteq States
    BY <1>2 DEF ProbeInv, TypeOK
  <1> QED  BY <1>4, <1>5, <1>6

THEOREM ProbeInitially == Init => ProbeInv
  <1> SUFFICES ASSUME Init  PROVE ProbeInv
    OBVIOUS
  <1>1. TypeOK
    <2>1. 0 \in Times
      BY DEF Times
    <2>2. <<>> \in Seq(Summaries)
      OBVIOUS
    <2>3. [p \in Populations |-> {}] \in [Populations -> SUBSET Comparisons]
      OBVIOUS
    <2>4. /\ observed \in [Populations -> SUBSET Comparisons]
          /\ proposal \in [Populations -> SUBSET Comparisons]
      BY <2>3 DEF Init
    <2>5. {clock, at} \subseteq Times /\ summaries \in Seq(Summaries)
      BY <2>1, <2>2 DEF Init
    <2>6. {history, runs, faults} \subseteq Nat
      BY DEF Init
    <2>9. refused \in BOOLEAN
      BY DEF Init
    <2>7. disk \subseteq States /\ items \subseteq Items /\ previous \in States \cup {None}
      BY DEF Init
    <2>8. pc \in {"idle", "observe", "save", "locate", "assess"}
      BY DEF Init
    <2> QED  BY ONLY <2>4, <2>5, <2>6, <2>7, <2>8, <2>9 DEF TypeOK
  <1>2. OneStatePerName /\ PrefixStored
    BY DEF Init, OneStatePerName, PrefixStored
  <1>3. SummariesTrue
    <2>1. Len(summaries) = 0 /\ DOMAIN summaries = {} /\ Len(Plan) \in Nat
      BY DEF Init
    <2>2. Succeeded = {} /\ Compared = {} /\ ~Refused
      BY <2>1 DEF Succeeded, Compared, Refused
    <2> QED  BY <2>1, <2>2 DEF Init, SummariesTrue
  <1> QED  BY <1>1, <1>2, <1>3 DEF ProbeInv, Init, Populations

\* A step that ends a population without success.
LEMMA FailureKeeps ==
  ASSUME ProbeInv, NEW saved \in BOOLEAN, Stop(saved),
         pc \in {"observe", "save", "locate"},
         \/ disk' = disk
         \/ pc = "save" /\ ~Conflict /\ disk' = disk \cup {State},
         \/ faults' = faults /\ ~saved
         \/ faults' = faults + 1,
         UNCHANGED <<clock, at, items, previous, history, observed, proposal,
                     refused, runs>>
  PROVE  ProbeInv'
  <1>1. faults \in Nat
    BY DEF ProbeInv, TypeOK
  <1>2. faults' \in Nat /\ faults <= faults' /\ (saved => faults' > 0)
    BY <1>1
  <1>3. disk \subseteq disk'
    OBVIOUS
  <1>4. disk' \subseteq States /\ OneStatePerName' /\ PrefixStored'
    <2>1. CASE disk' = disk
      BY <2>1 DEF ProbeInv, TypeOK, OneStatePerName, PrefixStored
    <2>2. CASE pc = "save" /\ ~Conflict /\ disk' = disk \cup {State}
      BY <2>2, StoreKeeps
    <2> QED  BY <2>1, <2>2
  <1>5. summaries' \in Seq(Summaries) /\ SummariesTrue'
    BY <1>2, <1>3, Stopped
  <1>6. ObservedStored' /\ (refused' => faults' > 0)
    BY <1>2, <1>3, ObservedStays
  <1>7. pc' = "assess"
    BY DEF Stop
  <1>8. TypeOK'
    BY <1>2, <1>4, <1>5, <1>7 DEF ProbeInv, TypeOK
  <1> QED  BY <1>4, <1>5, <1>6, <1>8 DEF ProbeInv, ObservedStored

\* A step inside a population that adds no summary.
LEMMA SilentKeeps ==
  ASSUME ProbeInv, TypeOK', disk \subseteq disk', OneStatePerName', PrefixStored',
         UNCHANGED <<at, summaries, observed, refused>>, faults <= faults',
         pc' = "idle" => summaries = <<>>,
         pc' \in {"observe", "save", "locate"} =>
           Len(summaries) < Len(Plan) /\ Succeeded = DOMAIN summaries,
         pc' = "locate" => State' \in disk',
         (pc' \in {"save", "locate"} /\ previous' # None) =>
           previous' \in Earlier(disk', Current, at)
  PROVE  ProbeInv'
  <1>1. faults' \in Nat
    BY DEF TypeOK
  <1>2. /\ Succeeded' = Succeeded
        /\ Len(summaries') <= Len(Plan)
        /\ \A i \in Succeeded' : \E s \in disk' : s.population = Plan[i] /\ s.at = at'
        /\ \A i \in Compared' : Genuine(Plan[i], summaries[i].comparison)'
        /\ Refused' => faults' > 0
    BY <1>1, SummariesStay
  <1>3. Current' = Current /\ Earlier(disk, Current, at)' = Earlier(disk', Current, at)
    BY DEF Current, Earlier
  <1>4. SummariesTrue'
    BY <1>2, <1>3 DEF SummariesTrue
  <1>5. ObservedStored' /\ (refused' => faults' > 0)
    BY <1>1, ObservedStays
  <1> QED  BY <1>4, <1>5 DEF ProbeInv, ObservedStored

LEMMA StartKeeps == ASSUME ProbeInv, NEW t \in Times, Start(t)  PROVE ProbeInv'
  <1>1. TypeOK'
    BY DEF ProbeInv, TypeOK, Start
  <1>2. summaries = <<>>
    BY DEF ProbeInv, SummariesTrue, Start
  <1>3. Len(summaries) = 0 /\ DOMAIN summaries = {} /\ Len(Plan) \in Nat /\ Len(Plan) > 0
    BY <1>2
  <1>4. Succeeded = {} /\ Compared = {} /\ ~Refused
    BY <1>3 DEF Succeeded, Compared, Refused
  <1>5. Succeeded' = {} /\ Compared' = {} /\ ~Refused'
    BY <1>4 DEF Succeeded, Compared, Refused, Start
  <1>6. SummariesTrue'
    BY <1>2, <1>3, <1>4, <1>5 DEF SummariesTrue, Start
  <1>7. OneStatePerName' /\ PrefixStored'
    BY DEF ProbeInv, OneStatePerName, PrefixStored, Start
  <1>8. ObservedStored' /\ (refused' => faults' > 0)
    BY ObservedStays DEF Start, ProbeInv, TypeOK
  <1> QED  BY <1>1, <1>6, <1>7, <1>8 DEF ProbeInv, ObservedStored

LEMMA ObserveKeeps == ASSUME ProbeInv, NEW answer \in Responses, Observe(answer)  PROVE ProbeInv'
  <1>1. Len(summaries) < Len(Plan) /\ Succeeded = DOMAIN summaries
    BY DEF ProbeInv, SummariesTrue, Observe
  <1>2. previous' # None => previous' \in Earlier(disk, Current, at)
    BY DEF Observe
  <1>3. previous' \in States \cup {None}
    BY <1>2 DEF Earlier, ProbeInv, TypeOK
  <1>4. faults' \in Nat /\ faults <= faults'
    BY DEF Observe, Fault, ProbeInv, TypeOK
  <1>5. TypeOK'
    BY <1>3, <1>4 DEF ProbeInv, TypeOK, Observe
  <1>6. OneStatePerName' /\ PrefixStored'
    BY DEF ProbeInv, OneStatePerName, PrefixStored, Observe
  <1> QED  BY <1>1, <1>2, <1>4, <1>5, <1>6, SilentKeeps DEF Observe

LEMMA SaveKeeps == ASSUME ProbeInv, Save  PROVE ProbeInv'
  <1>1. CASE Conflict
    <2>1. Stop(FALSE) /\ disk' = disk
      BY <1>1 DEF Save
    <2> QED  BY <2>1, FailureKeeps DEF Save
  <1>2. CASE ~Conflict
    <2>1. disk' = disk \cup {State} /\ pc' = "locate" /\ UNCHANGED summaries
      BY <1>2 DEF Save
    <2>2. disk' \subseteq States /\ OneStatePerName' /\ PrefixStored'
      BY <1>2, <2>1, StoreKeeps DEF Save
    <2>3. TypeOK'
      BY <2>1, <2>2 DEF ProbeInv, TypeOK, Save
    <2>4. Len(summaries) < Len(Plan) /\ Succeeded = DOMAIN summaries
      BY DEF ProbeInv, SummariesTrue, Save
    <2>5. State' = State
      BY <2>1 DEF State, Current, Save
    <2>6. previous # None => previous \in Earlier(disk', Current, at)
      BY <2>1 DEF ProbeInv, SummariesTrue, Save, Earlier
    <2>7. faults <= faults'
      BY DEF Save, ProbeInv, TypeOK
    <2> QED  BY <2>1, <2>2, <2>3, <2>4, <2>5, <2>6, <2>7, SilentKeeps DEF Save
  <1> QED  BY <1>1, <1>2

LEMMA LocateKeeps == ASSUME ProbeInv, Locate  PROVE ProbeInv'
  <1> DEFINE c == IF previous = None THEN None ELSE Comparison(previous, items, at)
             r == [success |-> TRUE, saved |-> TRUE, comparison |-> c]
             k == Len(summaries) + 1
  <1>1. Len(summaries) < Len(Plan) /\ Succeeded = DOMAIN summaries
    BY DEF ProbeInv, SummariesTrue, Locate
  <1>2. k \in DOMAIN Plan /\ Plan[k] = Current /\ State \in States /\ State \in disk
    BY <1>1, CurrentPlanned DEF Current, ProbeInv, SummariesTrue, Locate
  <1>3. c # None => c \in Comparisons /\ Genuine(Current, c)
    <2> SUFFICES ASSUME c # None  PROVE c \in Comparisons /\ Genuine(Current, c)
      OBVIOUS
    <2>1. previous # None /\ c = Comparison(previous, items, at)
      OBVIOUS
    <2>2. previous \in States /\ items \in SUBSET Items /\ at \in Times
      BY <2>1 DEF ProbeInv, TypeOK
    <2>3. previous \in disk /\ previous.population = Current /\ previous.at < at
      BY <2>1 DEF ProbeInv, SummariesTrue, Locate, Earlier
    <2>4. State.population = Current /\ State.at = at /\ State.items = items
      BY DEF State
    <2>5. c.at = at
      BY <2>1 DEF Comparison
    <2>6. c \in Comparisons
      BY <2>1, <2>2 DEF Comparisons
    <2>7. Genuine(Current, c)
      BY <2>1, <2>3, <2>4, <2>5, <1>2 DEF Genuine
    <2> QED  BY <2>6, <2>7
  <1>4. r \in Summaries
    BY <1>3 DEF Summaries
  <1>5. summaries' = Append(summaries, r) /\ r.success = TRUE /\ r.comparison = c
    BY DEF Locate
  <1> HIDE DEF r, c
  <1>6. /\ summaries' \in Seq(Summaries)
        /\ Len(summaries') = k
        /\ DOMAIN summaries' = DOMAIN summaries \cup {k}
        /\ k \notin DOMAIN summaries
        /\ \A i \in DOMAIN summaries : summaries'[i] = summaries[i]
        /\ summaries'[k] = r
    BY <1>1, <1>4, <1>5, Appended DEF ProbeInv
  <1>7. Len(summaries) \in Nat /\ Len(Plan) \in Nat /\ k <= Len(Plan)
    BY <1>1 DEF ProbeInv, TypeOK
  <1>8. Succeeded' = DOMAIN summaries'
    BY <1>1, <1>5, <1>6 DEF Succeeded
  <1>9. \A i \in Succeeded' : \E s \in disk' : s.population = Plan[i] /\ s.at = at'
    <2>1. \E s \in disk : s.population = Plan[k] /\ s.at = at
      BY <1>2 DEF State
    <2> QED  BY <2>1, <1>1, <1>6, <1>8 DEF ProbeInv, SummariesTrue, Locate
  <1>10. \A i \in Compared' : Genuine(Plan[i], summaries[i].comparison)'
    <2> SUFFICES ASSUME NEW i \in DOMAIN summaries', summaries'[i].comparison # None
                 PROVE  Genuine(Plan[i], summaries[i].comparison)'
      BY DEF Compared, Succeeded
    <2>1. CASE i = k
      <3>1. Genuine(Plan[k], c)
        BY <2>1, <1>2, <1>3, <1>5, <1>6
      <3> QED  BY <3>1, <2>1, <1>5, <1>6 DEF Genuine, Locate
    <2>2. CASE i \in DOMAIN summaries
      <3>1. i \in Compared
        BY <2>2, <1>1, <1>6 DEF Compared
      <3>2. Genuine(Plan[i], summaries[i].comparison)
        BY <3>1 DEF ProbeInv, SummariesTrue
      <3> QED  BY <3>2, <2>2, <1>6 DEF Genuine, Locate
    <2> QED  BY <2>1, <2>2, <1>6
  <1>11. ~Refused'
    BY <1>8 DEF Refused, Succeeded
  <1>12. pc' = IF k = Len(Plan) THEN "assess" ELSE "observe"
    BY DEF Locate
  <1>13. SummariesTrue'
    BY <1>6, <1>7, <1>8, <1>9, <1>10, <1>11, <1>12 DEF SummariesTrue
  <1>14. TypeOK'
    BY <1>6, <1>12 DEF ProbeInv, TypeOK, Locate
  <1>15. OneStatePerName' /\ PrefixStored'
    BY DEF ProbeInv, OneStatePerName, PrefixStored, Locate
  <1>16. ObservedStored' /\ (refused' => faults' > 0)
    BY ObservedStays DEF Locate, ProbeInv, TypeOK
  <1> QED  BY <1>13, <1>14, <1>15, <1>16 DEF ProbeInv, ObservedStored

\* What is reported of p is a comparison the run made of p.
LEMMA ReportedGenuine ==
  ASSUME ProbeInv, NEW p \in Populations, NEW c \in Reported(p)
  PROVE  c \in Comparisons /\ Genuine(p, c)
  <1>1. PICK i \in Compared : Plan[i] = p /\ c = summaries[i].comparison
    BY DEF Reported
  <1>2. Genuine(p, c)
    BY <1>1 DEF ProbeInv, SummariesTrue
  <1>3. summaries[i] \in Summaries /\ summaries[i].comparison # None
    BY DEF Compared, Succeeded, ProbeInv, TypeOK
  <1> QED  BY <1>1, <1>2, <1>3 DEF Summaries

LEMMA AssessKeeps == ASSUME ProbeInv, Assess  PROVE ProbeInv'
  <1>1. /\ at' \in Times /\ items' \subseteq Items /\ previous' \in States \cup {None}
        /\ summaries' \in Seq(Summaries) /\ SummariesTrue' /\ pc' = "idle"
    BY Ended DEF ProbeInv, Assess, End
  <1>2. history' \in Nat
    BY DEF Assess, History, ProbeInv, TypeOK
  <1>3. \A p \in Populations : Reported(p) \subseteq Comparisons
    BY ReportedGenuine
  <1>4. observed' \in [Populations -> SUBSET Comparisons]
    BY <1>3 DEF Assess, ProbeInv, TypeOK
  <1>5. refused' \in BOOLEAN /\ (refused' => faults' > 0)
    BY DEF Assess, ProbeInv, TypeOK, SummariesTrue
  <1>6. TypeOK'
    BY <1>1, <1>2, <1>4, <1>5 DEF ProbeInv, TypeOK, Assess
  <1>7. OneStatePerName' /\ PrefixStored'
    BY DEF ProbeInv, OneStatePerName, PrefixStored, Assess
  <1>8. ObservedStored'
    <2> SUFFICES ASSUME NEW p \in Populations, NEW c \in observed'[p]  PROVE Genuine(p, c)'
      BY DEF ObservedStored
    <2>1. c \in observed[p] \/ c \in Reported(p)
      BY DEF Assess
    <2>2. Genuine(p, c)
      BY <2>1, ReportedGenuine DEF ProbeInv
    <2> QED  BY <2>2, GenuineStays DEF Assess
  <1> QED  BY <1>1, <1>5, <1>6, <1>7, <1>8 DEF ProbeInv, ObservedStored

LEMMA DieKeeps == ASSUME ProbeInv, Die  PROVE ProbeInv'
  <1>1. /\ at' \in Times /\ items' \subseteq Items /\ previous' \in States \cup {None}
        /\ summaries' \in Seq(Summaries) /\ SummariesTrue' /\ pc' = "idle"
    BY Ended DEF ProbeInv, Die, End
  <1>2. faults' \in Nat /\ faults <= faults'
    BY DEF Die, Fault, ProbeInv, TypeOK
  <1>3. TypeOK'
    BY <1>1, <1>2 DEF ProbeInv, TypeOK, Die
  <1>4. OneStatePerName' /\ PrefixStored'
    BY DEF ProbeInv, OneStatePerName, PrefixStored, Die
  <1>5. ObservedStored' /\ (refused' => faults' > 0)
    BY <1>2, ObservedStays DEF Die
  <1> QED  BY <1>1, <1>3, <1>4, <1>5 DEF ProbeInv, ObservedStored

LEMMA ReviewKeeps ==
  ASSUME ProbeInv, NEW p \in Populations,
         NEW comparisons \in [1 .. ReviewHistory -> observed[p]], Review(p, comparisons)
  PROVE  ProbeInv'
  <1>1. {comparisons[i] : i \in DOMAIN comparisons} \in SUBSET Comparisons
    BY DEF ProbeInv, TypeOK
  <1>2. proposal' \in [Populations -> SUBSET Comparisons]
    BY <1>1 DEF Review, ProbeInv, TypeOK
  <1>3. TypeOK'
    BY <1>2 DEF Review, ProbeInv, TypeOK
  <1>4. OneStatePerName' /\ PrefixStored'
    BY DEF ProbeInv, OneStatePerName, PrefixStored, Review
  <1>5. Succeeded = DOMAIN summaries \/ pc = "idle"
    BY DEF Review
  <1> QED  BY <1>3, <1>4, SilentKeeps DEF Review, ProbeInv, SummariesTrue, TypeOK

LEMMA TickKeeps == ASSUME ProbeInv, Tick  PROVE ProbeInv'
  <1>1. clock' \in Times
    BY DEF Tick, ProbeInv, TypeOK, Times
  <1>2. TypeOK'
    BY <1>1 DEF Tick, ProbeInv, TypeOK
  <1>3. OneStatePerName' /\ PrefixStored'
    BY DEF ProbeInv, OneStatePerName, PrefixStored, Tick
  <1> QED  BY <1>2, <1>3, SilentKeeps DEF Tick, ProbeInv, SummariesTrue, TypeOK

LEMMA FailuresKeep ==
  ASSUME ProbeInv, FetchFails \/ LocateFails \/ \E left \in BOOLEAN : SaveFails(left)
  PROVE  ProbeInv'
  <1>1. CASE FetchFails
    BY <1>1, FailureKeeps DEF FetchFails
  <1>2. CASE LocateFails
    BY <1>2, FailureKeeps DEF LocateFails, Fault
  <1>3. CASE \E left \in BOOLEAN : SaveFails(left)
    <2>1. PICK left \in BOOLEAN : SaveFails(left)
      BY <1>3
    <2>2. disk' = disk \/ (pc = "save" /\ ~Conflict /\ disk' = disk \cup {State})
      BY <2>1 DEF SaveFails
    <2> QED  BY <2>1, <2>2, FailureKeeps DEF SaveFails, Fault
  <1> QED  BY <1>1, <1>2, <1>3

THEOREM ProbeStep == ProbeInv /\ [Next]_vars => ProbeInv'
  <1> SUFFICES ASSUME ProbeInv, [Next]_vars  PROVE ProbeInv'
    OBVIOUS
  <1>1. CASE UNCHANGED vars
    <2>1. TypeOK' /\ OneStatePerName' /\ PrefixStored'
      BY <1>1 DEF vars, ProbeInv, TypeOK, OneStatePerName, PrefixStored
    <2>2. State' = State
      BY <1>1 DEF vars, State, Current
    <2> QED  BY <1>1, <2>1, <2>2, SilentKeeps DEF vars, ProbeInv, SummariesTrue, TypeOK
  <1>2. CASE Next
    BY <1>2, StartKeeps, ObserveKeeps, SaveKeeps, LocateKeeps, AssessKeeps,
       ReviewKeeps, TickKeeps, DieKeeps, FailuresKeep DEF Next
  <1> QED  BY <1>1, <1>2

\* Whatever the plan, the policy and the catalogue: captures are prefixes of the
\* plan, no name has two states, and what is reported agrees with the disk.
THEOREM ProbeInvariant == Spec => []ProbeInv
  BY ProbeInitially, ProbeStep, PTL DEF Spec

-----------------------------------------------------------------------------
(* Promotion. *)

TimesOf(f, n) == {c.at : c \in {f[i] : i \in 1 .. n}}

\* The times of comparisons that differ pairwise in their time are as many as
\* the comparisons.
LEMMA DistinctTimes ==
  ASSUME NEW n \in Nat, NEW S, NEW f \in [1 .. n -> S],
         \A i, j \in 1 .. n : f[i].at = f[j].at => i = j
  PROVE  Cardinality(TimesOf(f, n)) = n
  <1> DEFINE T == {c.at : c \in {f[i] : i \in 1 .. n}}
             g == [i \in 1 .. n |-> f[i].at]
  <1>1. g \in Bijection(1 .. n, T)
    <2>1. g \in [1 .. n -> T]
      <3>1. \A i \in 1 .. n : f[i] \in {f[k] : k \in 1 .. n}
        OBVIOUS
      <3>2. \A i \in 1 .. n : f[i].at \in T
        BY <3>1, Zenon
      <3> QED  BY <3>2, Zenon
    <2>2. g \in Injection(1 .. n, T)
      BY <2>1 DEF Injection, IsInjective
    <2>3. g \in Surjection(1 .. n, T)
      <3>1. \A u \in T : \E i \in 1 .. n : g[i] = u
        OBVIOUS
      <3> HIDE DEF T, g
      <3> QED  BY <2>1, <3>1 DEF Surjection
    <2> QED  BY <2>2, <2>3 DEF Bijection
  <1> HIDE DEF T, g
  <1>2. IsFiniteSet(1 .. n) /\ Cardinality(1 .. n) = n
    <2>1. 1 \in Int /\ n \in Int /\ n = IF 1 > n THEN 0 ELSE n - 1 + 1
      OBVIOUS
    <2> QED  BY <2>1, FS_Interval
  <1>3. ExistsBijection(1 .. n, T)
    BY <1>1 DEF ExistsBijection
  <1>4. Cardinality(T) = n
    BY <1>2, <1>3, FS_CountingElements
  <1> QED  BY <1>4 DEF T, TimesOf

LEMMA PromotionStep == ProbeInv /\ PromotionEarned /\ [Next]_vars => PromotionEarned'
  <1> SUFFICES ASSUME ProbeInv, PromotionEarned, [Next]_vars  PROVE PromotionEarned'
    OBVIOUS
  <1>1. ASSUME disk \subseteq disk', proposal' = proposal, history' \in Nat, history <= history'
        PROVE  PromotionEarned'
    <2> SUFFICES ASSUME NEW p \in Populations, proposal[p] # {}
                 PROVE  /\ Cardinality({c.at : c \in proposal[p]}) >= ReviewHistory
                        /\ history' >= ReviewHistory
                        /\ \A c \in proposal[p] : Genuine(p, c)' /\ InRange(c.interval)
                        /\ \A c, d \in proposal[p] : c.retention <= d.retention + MaxSpread
      BY <1>1 DEF PromotionEarned
    <2>1. history' >= ReviewHistory
      <3>1. history >= ReviewHistory /\ history \in Nat /\ ReviewHistory \in Nat
        BY DEF PromotionEarned, ProbeInv, TypeOK
      <3> QED  BY <3>1, <1>1
    <2> QED  BY <1>1, <2>1, GenuineStays DEF PromotionEarned
  <1>2. ASSUME NEW p \in Populations,
               NEW comparisons \in [1 .. ReviewHistory -> observed[p]], Review(p, comparisons)
        PROVE  PromotionEarned'
    <2> DEFINE C == {comparisons[i] : i \in 1 .. ReviewHistory}
    <2>1. /\ history >= ReviewHistory /\ history' = history /\ disk' = disk
          /\ \A i \in 1 .. ReviewHistory : InRange(comparisons[i].interval)
          /\ \A i, j \in 1 .. ReviewHistory :
               /\ comparisons[i].at = comparisons[j].at => i = j
               /\ comparisons[i].retention <= comparisons[j].retention + MaxSpread
      BY <1>2 DEF Review, Convincing, ObservationOnly
    <2>2. proposal' = [proposal EXCEPT ![p] = C]
      BY <1>2 DEF Review
    <2>3. Cardinality({c.at : c \in C}) = ReviewHistory
      <3>1. ReviewHistory \in Nat
        OBVIOUS
      <3>2. \A i, j \in 1 .. ReviewHistory : comparisons[i].at = comparisons[j].at => i = j
        BY <2>1
      <3>3. comparisons \in [1 .. ReviewHistory -> observed[p]]
        OBVIOUS
      <3>4. Cardinality(TimesOf(comparisons, ReviewHistory)) = ReviewHistory
        BY ONLY <3>1, <3>2, <3>3, DistinctTimes
      <3> QED  BY <3>4 DEF TimesOf
    <2>4. \A c \in C : Genuine(p, c) /\ InRange(c.interval)
      BY <2>1 DEF ProbeInv
    <2>5. \A c, d \in C : c.retention <= d.retention + MaxSpread
      BY <2>1
    <2> HIDE DEF C
    <2>6. ASSUME NEW q \in Populations, proposal'[q] # {}
          PROVE  /\ Cardinality({c.at : c \in proposal'[q]}) >= ReviewHistory
                 /\ history' >= ReviewHistory
                 /\ \A c \in proposal'[q] : Genuine(q, c)' /\ InRange(c.interval)
                 /\ \A c, d \in proposal'[q] : c.retention <= d.retention + MaxSpread
      <3>1. CASE q = p
        <4>1. proposal'[q] = C
          BY <3>1, <2>2 DEF ProbeInv, TypeOK
        <4>2. \A c \in C : Genuine(q, c)'
          BY <3>1, <2>1, <2>4, GenuineStays
        <4> QED  BY <4>1, <4>2, <2>1, <2>3, <2>4, <2>5
      <3>2. CASE q # p
        <4>1. proposal'[q] = proposal[q]
          BY <3>2, <2>2 DEF ProbeInv, TypeOK
        <4> QED  BY <4>1, <2>1, <2>6, GenuineStays DEF PromotionEarned
      <3> QED  BY <3>1, <3>2
    <2> QED  BY <2>6 DEF PromotionEarned
  <1>3. history \in Nat
    BY DEF ProbeInv, TypeOK
  <1>4. ASSUME NEW t \in Times, Start(t)  PROVE PromotionEarned'
    BY <1>1, <1>3, <1>4 DEF Start
  <1>5. ASSUME NEW a \in Responses, Observe(a)  PROVE PromotionEarned'
    BY <1>1, <1>3, <1>5 DEF Observe
  <1>6. ASSUME FetchFails \/ LocateFails \/ Locate \/ Die \/ Tick  PROVE PromotionEarned'
    <2>1. disk' = disk /\ proposal' = proposal /\ history' = history
      BY <1>6 DEF FetchFails, LocateFails, Locate, Die, Tick
    <2> QED  BY <2>1, <1>1, <1>3
  <1>7. ASSUME Save \/ \E left \in BOOLEAN : SaveFails(left)  PROVE PromotionEarned'
    <2>1. disk \subseteq disk' /\ proposal' = proposal /\ history' = history
      BY <1>7 DEF Save, SaveFails
    <2> QED  BY <2>1, <1>1, <1>3
  <1>8. ASSUME Assess  PROVE PromotionEarned'
    BY <1>1, <1>3, <1>8 DEF Assess, History
  <1>9. ASSUME UNCHANGED vars  PROVE PromotionEarned'
    BY <1>1, <1>3, <1>9 DEF vars
  <1> QED  BY <1>2, <1>4, <1>5, <1>6, <1>7, <1>8, <1>9 DEF Next

\* A population is proposed for promotion only on as many different captures as
\* the policy asks for, each of two stored states, however often runs were
\* repeated, cut short or misread the disk.
THEOREM PromotionAlwaysEarned == Spec => []PromotionEarned
  <1>1. Init => PromotionEarned
    BY DEF Init, PromotionEarned
  <1> QED  BY <1>1, ProbeInvariant, PromotionStep, PTL DEF Spec

-----------------------------------------------------------------------------
(* Retention. *)

\* A state a later capture is compared with is the newest of those the plan
\* may classify, or too new for it.
LEMMA NewestIsKept == TypeOK => RotationInvisible
  <1> SUFFICES ASSUME TypeOK, NEW g \in Times, NEW t \in g + 1 .. MaxTime,
                      NEW p \in Populations, NEW s \in Earlier(disk, p, t),
                      IsNewest(s, Earlier(disk, p, t)), s \in Rotatable(g)
               PROVE  FALSE
    BY DEF RotationInvisible
  <1>1. s.at <= g /\ s.population = p /\ s \in disk
    BY DEF Rotatable, Earlier
  <1>2. \A u \in Siblings(s, g) : u \in Earlier(disk, p, t)
    <2> SUFFICES ASSUME NEW u \in Siblings(s, g)
                 PROVE  u \in Earlier(disk, p, t)
      OBVIOUS
    <2>1. u \in disk /\ u.population = p /\ u.at <= g
      BY <1>1 DEF Siblings
    <2>2. u.at \in Int /\ g \in Int /\ t \in Int /\ g < t
      <3>1. u.at \in Times
        BY <2>1 DEF TypeOK, States
      <3> QED  BY <3>1 DEF Times
    <2>3. u.at < t
      BY <2>1, <2>2
    <2> QED  BY <2>1, <2>3 DEF Earlier
  <1>3. s \in Siblings(s, g)
    BY <1>1 DEF Siblings
  <1>4. IsNewest(s, Siblings(s, g))
    BY <1>2, <1>3 DEF IsNewest
  <1> QED  BY <1>4 DEF Rotatable

\* Rotating away what the plan allows never changes what a later capture is
\* compared with, for every plan, policy and time.
THEOREM RotationStaysInvisible == Spec => []RotationInvisible
  <1>1. ProbeInv => RotationInvisible
    BY NewestIsKept DEF ProbeInv
  <1> QED  BY <1>1, ProbeInvariant, PTL

-----------------------------------------------------------------------------
(* The store of the states, of which TemporalProbe sees only the result: one *)
(* name and the calls that write it, where they follow one another.          *)

\* No other call is in progress.
Alone(w) == \A v \in Workers \ {w} : place[v] = "idle"

\* At first nothing has been acknowledged and nothing is being written.
LEMMA StoreInitially == StoreInit => StoreInv
  <1> SUFFICES ASSUME StoreInit PROVE StoreInv
    OBVIOUS
  <1>1. StoreTypeOK
    BY DEF StoreInit, StoreTypeOK, Locations
  <1>2. AcknowledgedStays /\ \A w \in Workers : Writing(w)
    BY DEF StoreInit, AcknowledgedStays, Writing
  <1> QED  BY <1>1, <1>2 DEF StoreInv

\* A call that returns reports only what is in the file.
LEMMA ReturnSound ==
  ASSUME StoreInv, NEW w \in Workers, Alone(w), NEW told \in BOOLEAN,
         Return(w, told), told => final = content[w],
         UNCHANGED <<final, content>>, calls' \in Nat, errors' \in Nat, lock' \in BOOLEAN
  PROVE  StoreInv'
  <1>1. /\ place' = [place EXCEPT ![w] = "idle"]
        /\ success' = [success EXCEPT ![w] = FALSE]
        /\ acknowledged' = IF told THEN acknowledged \cup {content[w]} ELSE acknowledged
    BY DEF Return, Goto
  <1>2. StoreTypeOK'
    BY <1>1 DEF StoreInv, StoreTypeOK, Locations
  <1>3. AcknowledgedStays'
    BY <1>1 DEF StoreInv, AcknowledgedStays
  <1>4. \A v \in Workers : place'[v] = "idle" /\ ~ success'[v]
    BY <1>1 DEF Alone, StoreInv, StoreTypeOK, Writing
  <1> QED  BY <1>2, <1>3, <1>4 DEF StoreInv, Writing

\* A call that goes on keeps what StoreInv says of its new place.
LEMMA GoSound ==
  ASSUME StoreInv, NEW w \in Workers, Alone(w), NEW location \in Locations,
         Goto(w, location), UNCHANGED acknowledged,
         final' \in Contents \cup {Absent}, lock' \in BOOLEAN,
         content' \in [Workers -> Contents], success' \in [Workers -> BOOLEAN],
         \A v \in Workers \ {w} : success'[v] = success[v],
         calls' \in Nat, errors' \in Nat,
         acknowledged = {} \/ final' = final,
         location \in {"write", "replace"} => final' = Absent,
         location = "verify" => final' = content'[w],
         location \in {"verify", "withdraw"} => acknowledged = {},
         success'[w] => location = "unlock" /\ final' = content'[w]
  PROVE  StoreInv'
  <1>1. place' = [place EXCEPT ![w] = location]
    BY DEF Goto
  <1>2. StoreTypeOK'
    BY <1>1 DEF StoreInv, StoreTypeOK
  <1>3. AcknowledgedStays'
    BY DEF StoreInv, AcknowledgedStays
  <1>4. /\ place'[w] = location
        /\ \A v \in Workers \ {w} : place'[v] = "idle" /\ ~ success'[v]
    BY <1>1 DEF Alone, StoreInv, StoreTypeOK, Writing
  <1>5. \A v \in Workers : Writing(v)'
    BY <1>4 DEF Writing
  <1> QED  BY <1>2, <1>3, <1>5 DEF StoreInv

LEMMA StoreStep ==
  ASSUME StoreInv, Serial, Serial', [StoreNext]_storeVars
  PROVE  StoreInv'
  <1>1. /\ StoreTypeOK /\ AcknowledgedStays
        /\ \A w \in Workers : Writing(w)
    BY DEF StoreInv
  <1>2. CASE UNCHANGED storeVars
    BY <1>1, <1>2 DEF StoreInv, storeVars, StoreTypeOK, AcknowledgedStays,
       Writing
  <1>3. final = Absent => acknowledged = {}
    BY <1>1, ContentAssumption DEF AcknowledgedStays, StoreTypeOK
  <1>10. \A w \in Workers : place[w] # "idle" => Alone(w)
    BY DEF Serial, Alone
  <1>4. ASSUME NEW w \in Workers,
               \/ Compare(w) \/ Unlock(w) \/ LookFails(w)
               \/ UnlockFails(w) \/ Crash(w)
        PROVE  StoreInv'
    <2>1. Writing(w) /\ success[w] \in BOOLEAN
      BY <1>1 DEF StoreTypeOK
    <2>2. PICK told \in BOOLEAN :
            Return(w, told) /\ (told => final = content[w])
      BY <1>4, <2>1 DEF Compare, Unlock, LookFails, UnlockFails,
         Crash, Writing
    <2>3. UNCHANGED <<final, content, calls>>
      BY <1>4 DEF Compare, Unlock, LookFails, UnlockFails,
         Crash
    <2>4. errors' = errors \/ errors' = errors + 1
      BY <1>4 DEF Compare, Unlock, LookFails, UnlockFails,
         Crash, Error
    <2>5. lock' = lock \/ lock' = FALSE
      BY <1>4 DEF Compare, Unlock, LookFails, UnlockFails,
         Crash
    <2>6. calls' \in Nat /\ errors' \in Nat
      BY <1>1, <2>3, <2>4 DEF StoreTypeOK
    <2>7. lock' \in BOOLEAN
      BY <1>1, <2>5 DEF StoreTypeOK
    <2>8. Alone(w)
      BY <1>4, <1>10 DEF Compare, Unlock, LookFails, UnlockFails, Crash
    <2> QED  BY <2>2, <2>3, <2>6, <2>7, <2>8, ReturnSound
  <1>5. ASSUME NEW w \in Workers, NEW c \in Contents, Call(w, c)
        PROVE  StoreInv'
    <2>1. "look" \in Locations /\ ~ success[w]
      BY <1>1, <1>5 DEF Locations, Call, Writing, StoreTypeOK
    <2>2. content' \in [Workers -> Contents] /\ calls' \in Nat
      BY <1>1, <1>5 DEF Call, StoreTypeOK
    <2>3. Alone(w)
      <3>1. place' = [place EXCEPT ![w] = "look"] /\ place \in [Workers -> Locations]
        BY <1>1, <1>5 DEF Call, Goto, StoreTypeOK
      <3> QED  BY <3>1 DEF Serial, Alone
    <2> QED  BY <1>1, <1>5, <2>1, <2>2, <2>3, GoSound DEF Call, StoreTypeOK
  <1>6. ASSUME NEW w \in Workers,
               \/ Look(w) \/ Lock(w) \/ Recheck(w) \/ Write(w)
               \/ WriteFails(w) \/ VerifyFails(w) \/ WithdrawFails(w)
        PROVE  StoreInv'
    <2>1. /\ UNCHANGED <<final, content, success, acknowledged, calls>>
          /\ place[w] # "unlock"
      BY <1>6 DEF Look, Lock, Recheck, Write,
         WriteFails, VerifyFails, WithdrawFails
    <2>2. errors' = errors \/ errors' = errors + 1
      BY <1>6 DEF Look, Lock, Recheck, Write,
         WriteFails, VerifyFails, WithdrawFails, Error
    <2>3. lock' = lock \/ lock' = TRUE
      BY <1>6 DEF Look, Lock, Recheck, Write,
         WriteFails, VerifyFails, WithdrawFails
    <2>4. errors' \in Nat
      BY <1>1, <2>2 DEF StoreTypeOK
    <2>5. lock' \in BOOLEAN
      BY <1>1, <2>3 DEF StoreTypeOK
    <2>6. ~ success[w]
      BY <1>1, <2>1 DEF Writing
    <2>7. PICK location \in Locations \ {"verify"} :
            /\ Goto(w, location)
            /\ location \in {"write", "replace"} => final = Absent
            /\ location = "withdraw" => acknowledged = {}
      <3>1. Writing(w)
        BY <1>1
      <3> QED  BY <1>6, <3>1 DEF Look, Lock, Recheck, Write,
         WriteFails, VerifyFails, WithdrawFails, Writing,
         Locations
    <2>8. Alone(w)
      BY <1>6, <1>10 DEF Look, Lock, Recheck, Write, WriteFails, VerifyFails,
         WithdrawFails
    <2> QED  BY <1>1, <2>1, <2>4, <2>5, <2>6, <2>7, <2>8, GoSound DEF StoreTypeOK
  <1>7. ASSUME NEW w \in Workers, Replace(w)
        PROVE  StoreInv'
    <2>1. /\ Goto(w, "verify") /\ final' = content[w] /\ acknowledged = {}
          /\ UNCHANGED <<lock, content, success, acknowledged, calls, errors>>
          /\ ~ success[w] /\ "verify" \in Locations
      BY <1>1, <1>3, <1>7 DEF Replace, Writing, Locations
    <2>2. Alone(w)
      BY <1>7, <1>10 DEF Replace
    <2> QED  BY <1>1, <2>1, <2>2, GoSound DEF StoreTypeOK
  <1>8. ASSUME NEW w \in Workers, Verify(w)
        PROVE  StoreInv'
    <2>1. /\ Goto(w, "unlock") /\ "unlock" \in Locations
          /\ UNCHANGED <<final, lock, content, acknowledged, calls, errors>>
          /\ final = content[w]
          /\ success' \in [Workers -> BOOLEAN]
      BY <1>1, <1>8 DEF Verify, Writing, Locations, StoreTypeOK
    <2>2. Alone(w)
      BY <1>8, <1>10 DEF Verify
    <2>3. \A v \in Workers \ {w} : success'[v] = success[v]
      BY <1>1, <1>8 DEF Verify, StoreTypeOK
    <2> QED  BY <1>1, <2>1, <2>2, <2>3, GoSound DEF StoreTypeOK
  <1>9. ASSUME NEW w \in Workers, Withdraw(w)
        PROVE  StoreInv'
    <2>1. /\ Goto(w, "unlock") /\ "unlock" \in Locations
          /\ final' = Absent /\ acknowledged = {} /\ ~ success[w]
          /\ UNCHANGED <<lock, content, success, acknowledged, calls, errors>>
      BY <1>1, <1>9 DEF Withdraw, Writing, Locations
    <2>2. Alone(w)
      BY <1>9, <1>10 DEF Withdraw
    <2> QED  BY <1>1, <2>1, <2>2, GoSound DEF StoreTypeOK
  <1> QED  BY <1>2, <1>4, <1>5, <1>6, <1>7, <1>8, <1>9 DEF StoreNext

\* For any contents, callers, errors and deaths: where calls for a name follow
\* one another, a call that is going to write has found nothing acknowledged.
THEOREM StoreInvariant == StoreSpec /\ []Serial => []StoreInv
  BY StoreInitially, StoreStep, PTL DEF StoreSpec

\* What a caller was told is stored stays stored.
THEOREM StoredForGood == StoreSpec /\ []Serial => []AcknowledgedStays
  <1>1. StoreInv => AcknowledgedStays
    BY DEF StoreInv
  <1> QED  BY <1>1, StoreInvariant, PTL

\* A filename is given to one content.
THEOREM OneContentPerName == StoreSpec /\ []Serial => []OneContentAcknowledged
  <1>1. StoreInv => OneContentAcknowledged
    BY DEF StoreInv, AcknowledgedStays, OneContentAcknowledged
  <1> QED  BY <1>1, StoreInvariant, PTL

=============================================================================
