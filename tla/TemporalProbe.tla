---------------------------- MODULE TemporalProbe ----------------------------
(***************************************************************************)
(* The chain of the temporal probe: run_orchestrator asks the catalogue    *)
(* for one population of a fixed plan after the other; for each the        *)
(* adapter and the runner compare the answer with the newest earlier state *)
(* on disk and then store it; the assessment pipeline judges the result    *)
(* with the stability policy; the runbook counts successful days; a manual *)
(* review may propose a population for promotion once its history is long  *)
(* enough; and a plan-only policy says which files may be rotated away.    *)
(*                                                                         *)
(* The store is the set of states it holds; ProbeStateStore has the file   *)
(* accesses of one write.  A run takes no time on the clock, whose unit is *)
(* a part of the policy's interval.  Item identifiers are members of       *)
(* Items, and a rate is a percentage.                                      *)
(***************************************************************************)
EXTENDS Naturals, Sequences, FiniteSets

CONSTANTS
  Plan,         \* ALLOWED_POPULATIONS, in order
  Items,        \* anonymous item identifiers
  Responses,    \* identifier sets the catalogue may answer with
  None,         \* there is no earlier state
  MinInterval, MaxInterval, \* MIN_ and MAX_MEANINGFUL_INTERVAL_HOURS
  ReviewHistory,            \* MIN_COMPARISONS_FOR_STABILITY_REVIEW
  MaxSpread,                \* CONSISTENCY_THRESHOLD, a percentage
  HotAge, AnchorAges,       \* HOT_RETENTION_DAYS, ANCHOR_CANDIDATE_DAYS
  MaxTime, MaxRuns, MaxFaults \* bounds: the clock, runs, errors of a read or write

ASSUME PlanAssumption ==
  /\ Plan \in Seq(STRING)
  /\ Plan # <<>>
  /\ \A i, j \in DOMAIN Plan : Plan[i] = Plan[j] => i = j
  /\ Responses \subseteq SUBSET Items

ASSUME PolicyAssumption ==
  /\ {MinInterval, MaxInterval, ReviewHistory, MaxSpread, HotAge, MaxTime,
      MaxRuns, MaxFaults} \subseteq Nat
  /\ AnchorAges \subseteq Nat

Times == 0 .. MaxTime

Populations == {Plan[i] : i \in DOMAIN Plan}

\* A TemporalProbeState; population and captured_at make up its filename.
States == [population : Populations, at : Times, items : SUBSET Items]

ASSUME NoneAssumption == None \notin States

VARIABLES
  disk,     \* the states that discovery would find
  clock,
  pc,       \* where the run is: observe, save, locate, assess, or idle
  at,       \* the run's captured_at
  items,    \* the answer for the population at hand
  previous, \* the earlier state it was compared with, or None
  summaries, \* the run's PopulationSummary values so far
  history,  \* successful days, kept by the operator
  observed, \* history: comparisons reported as OBSERVATION_ONLY, by population
  proposal, \* the comparisons of the last INTERNAL_CANDIDATE, by population
  refused,  \* the pipeline has rejected a whole result
  runs, faults

vars == <<disk, clock, pc, at, items, previous, summaries, history, observed,
          proposal, refused, runs, faults>>

-----------------------------------------------------------------------------
(* Discovery and comparison. *)

Earlier(states, p, t) == {s \in states : s.population = p /\ s.at < t}

IsNewest(s, states) == s \in states /\ \A t \in states : t.at <= s.at

\* retention_rate, with the value the code gives an empty population.
Retention(old, new) ==
  IF old = {} THEN 100
  ELSE (100 * Cardinality(old \cap new)) \div Cardinality(old)

\* What a summary tells of one comparison.
Comparison(old, new, t) ==
  [at        |-> t,
   interval  |-> t - old.at,
   retention |-> Retention(old.items, new),
   counted   |-> old.items # {} /\ new # {}]

InRange(interval) == MinInterval <= interval /\ interval <= MaxInterval

\* assess_temporal_stability: OBSERVATION_ONLY.  Anything else is an anomaly,
\* an invalid input or a missing comparison.
ObservationOnly(c, count) == count >= 1 /\ c.counted /\ InRange(c.interval)

-----------------------------------------------------------------------------
(* plan_retention at time g, which moves nothing: the states it may call   *)
(* ELIGIBLE_FOR_FUTURE_ROTATION.                                           *)

\* Those of s's population that are not FUTURE_TIMESTAMP_REJECT.
Siblings(s, g) == {t \in disk : t.population = s.population /\ t.at <= g}

Anchored(s, g) ==
  \E latest \in Siblings(s, g) :
    IsNewest(latest, Siblings(s, g)) /\ \E age \in AnchorAges : latest.at = s.at + age

\* Defect: nothing keeps a population's last state once it has cooled.
RotatableLatest(g) ==
  {s \in disk : s.at <= g /\ ~Anchored(s, g) /\ g > s.at + HotAge}

Rotatable(g) ==
  {s \in disk : /\ s.at <= g
                /\ ~Anchored(s, g)
                /\ g > s.at + HotAge
                /\ ~IsNewest(s, Siblings(s, g))}

-----------------------------------------------------------------------------
(* One run of the orchestrator. *)

Current == Plan[Len(summaries) + 1]

State == [population |-> Current, at |-> at, items |-> items]

\* captured_at is an argument; a run may repeat an earlier one.
Start(t) ==
  /\ pc = "idle"
  /\ runs < MaxRuns
  /\ runs' = runs + 1
  /\ pc' = "observe"
  /\ at' = t
  /\ UNCHANGED <<disk, clock, items, previous, summaries, history, observed,
                 proposal, refused, faults>>

\* What the run held is gone with it.
End ==
  /\ pc' = "idle"
  /\ at' = 0
  /\ items' = {}
  /\ previous' = None
  /\ summaries' = <<>>

\* Defect: the rest of the plan is worked off all the same.
StopNever(saved) ==
  /\ summaries' = Append(summaries, [success |-> FALSE, saved |-> saved,
                                     comparison |-> None])
  /\ pc' = IF Len(summaries) + 1 = Len(Plan) THEN "assess" ELSE "observe"

\* Every failure stops the run: no retry, no rollback, the rest is skipped.
Stop(saved) ==
  /\ summaries' = Append(summaries, [success |-> FALSE, saved |-> saved,
                                     comparison |-> None])
  /\ pc' = "assess"

\* The request fails, its answer is malformed or not the one asked for, or
\* captured_at lies in the future of as_of.
FetchFails ==
  /\ pc = "observe"
  /\ Stop(FALSE)
  /\ UNCHANGED <<disk, clock, at, items, previous, history, observed,
                 proposal, refused, runs, faults>>

Fault ==
  /\ faults < MaxFaults
  /\ faults' = faults + 1

\* The answer is compared with the newest earlier state before it is stored.
\* Discovery passes over what it cannot read, all of it if need be.
Observe(answer) ==
  /\ pc = "observe"
  /\ at <= clock
  /\ items' = answer
  /\ \E seen \in SUBSET Earlier(disk, Current, at) :
       /\ \/ \E s \in seen : IsNewest(s, seen) /\ previous' = s
          \/ seen = {} /\ previous' = None
       /\ IF seen = Earlier(disk, Current, at) THEN UNCHANGED faults ELSE Fault
  /\ pc' = "save"
  /\ UNCHANGED <<disk, clock, at, summaries, history, observed, proposal,
                 refused, runs>>

Conflict == \E s \in disk : s.population = Current /\ s.at = at /\ s.items # items

\* write_temporal_probe_state: the same content again is success.
Save ==
  /\ pc = "save"
  /\ IF Conflict THEN Stop(FALSE) /\ UNCHANGED disk
                 ELSE /\ disk' = disk \cup {State}
                      /\ pc' = "locate"
                      /\ UNCHANGED summaries
  /\ UNCHANGED <<clock, at, items, previous, history, observed, proposal,
                 refused, runs, faults>>

\* An error there is reported as not saved; the file is there all the same
\* when its withdrawal failed as well.
SaveFails(left) ==
  /\ pc = "save"
  /\ ~Conflict
  /\ Fault
  /\ disk' = IF left THEN disk \cup {State} ELSE disk
  /\ Stop(FALSE)
  /\ UNCHANGED <<clock, at, items, previous, history, observed, proposal,
                 refused, runs>>

\* _saved_filename discovers again, and finds the state.
Locate ==
  /\ pc = "locate"
  /\ Cardinality({s \in disk : s.population = Current /\ s.at = at}) = 1
  /\ summaries' = Append(summaries,
       [success    |-> TRUE,
        saved      |-> TRUE,
        comparison |-> IF previous = None THEN None
                       ELSE Comparison(previous, items, at)])
  /\ pc' = IF Len(summaries) + 1 = Len(Plan) THEN "assess" ELSE "observe"
  /\ UNCHANGED <<disk, clock, at, items, previous, history, observed,
                 proposal, refused, runs, faults>>

\* STATE_FILENAME_UNAVAILABLE: the state is saved and the population failed.
LocateFails ==
  /\ pc = "locate"
  /\ Fault
  /\ Stop(TRUE)
  /\ UNCHANGED <<disk, clock, at, items, previous, history, observed,
                 proposal, refused, runs>>

-----------------------------------------------------------------------------
(* Assessment, the day's count, and the review. *)

Succeeded == {i \in DOMAIN summaries : summaries[i].success}

Compared == {i \in Succeeded : summaries[i].comparison # None}

\* assess_history_transition: a day counts when every population was compared
\* over an interval within policy.
History ==
  IF Compared = DOMAIN Plan /\ \A i \in Compared : InRange(summaries[i].comparison.interval)
  THEN history + 1 ELSE history

\* _aggregate_contract: a population that failed must not be saved.
Refused == \E i \in DOMAIN summaries : ~summaries[i].success /\ summaries[i].saved

\* What the pipeline reports as an observation of p.
Reported(p) ==
  IF Refused THEN {}
  ELSE {c \in {summaries[i].comparison : i \in {j \in Compared : Plan[j] = p}} :
          ObservationOnly(c, History)}

Assess ==
  /\ pc = "assess"
  /\ End
  /\ history' = History
  /\ observed' = [p \in Populations |-> observed[p] \cup Reported(p)]
  /\ refused' = (refused \/ Refused)
  /\ UNCHANGED <<disk, clock, proposal, runs, faults>>

\* Defect: the comparisons may be one and the same.
ConvincingRepeated(comparisons) ==
  /\ history >= ReviewHistory
  /\ \A i, j \in DOMAIN comparisons :
       comparisons[i].retention <= comparisons[j].retention + MaxSpread

\* _review: INTERNAL_CANDIDATE.  The comparisons are reported ones, judged with
\* the history of the day.
Convincing(comparisons) ==
  /\ history >= ReviewHistory
  /\ \A i \in DOMAIN comparisons : ObservationOnly(comparisons[i], history)
  /\ \A i, j \in DOMAIN comparisons :
       /\ comparisons[i].at = comparisons[j].at => i = j
       /\ comparisons[i].retention <= comparisons[j].retention + MaxSpread

Review(p, comparisons) ==
  /\ pc = "idle"
  /\ Convincing(comparisons)
  /\ proposal' = [proposal EXCEPT ![p] = {comparisons[i] : i \in DOMAIN comparisons}]
  /\ UNCHANGED <<disk, clock, pc, at, items, previous, summaries, history,
                 observed, refused, runs, faults>>

Tick ==
  /\ pc = "idle"
  /\ clock < MaxTime
  /\ clock' = clock + 1
  /\ UNCHANGED <<disk, pc, at, items, previous, summaries, history, observed,
                 proposal, refused, runs, faults>>

\* The process dies; its result is lost, its files are not.
Die ==
  /\ pc # "idle"
  /\ Fault
  /\ End
  /\ UNCHANGED <<disk, clock, history, observed, proposal, refused, runs>>

Init ==
  /\ disk = {}
  /\ clock = 0
  /\ pc = "idle"
  /\ at = 0
  /\ items = {}
  /\ previous = None
  /\ summaries = <<>>
  /\ history = 0
  /\ observed = [p \in Populations |-> {}]
  /\ proposal = [p \in Populations |-> {}]
  /\ refused = FALSE
  /\ runs = 0
  /\ faults = 0

Next ==
  \/ \E t \in Times : Start(t)
  \/ FetchFails
  \/ \E answer \in Responses : Observe(answer)
  \/ Save
  \/ \E left \in BOOLEAN : SaveFails(left)
  \/ Locate
  \/ LocateFails
  \/ Assess
  \/ \E p \in Populations :
       \E comparisons \in [1 .. ReviewHistory -> observed[p]] :
         Review(p, comparisons)
  \/ Tick
  \/ Die

Spec == Init /\ [][Next]_vars

-----------------------------------------------------------------------------
(* Properties. *)

Comparisons ==
  {Comparison(old, new, t) : old \in States, new \in SUBSET Items, t \in Times}

Summaries == [success : BOOLEAN, saved : BOOLEAN,
              comparison : {None} \cup Comparisons]

TypeOK ==
  /\ disk \subseteq States
  /\ {clock, at} \subseteq Times
  /\ pc \in {"idle", "observe", "save", "locate", "assess"}
  /\ items \subseteq Items
  /\ previous \in States \cup {None}
  /\ summaries \in Seq(Summaries)
  /\ {history, runs, faults} \subseteq Nat
  /\ refused \in BOOLEAN
  /\ observed \in [Populations -> SUBSET Comparisons]
  /\ proposal \in [Populations -> SUBSET Comparisons]

\* A comparison of p tells what two states on disk really have in common.
Genuine(p, c) ==
  \E old, new \in disk :
    /\ old.population = p /\ new.population = p
    /\ new.at = c.at /\ old.at < c.at
    /\ c = Comparison(old, new.items, c.at)

OneStatePerName ==
  \A s, t \in disk : s.population = t.population /\ s.at = t.at => s = t

\* A capture stores a prefix of the plan, however often it was begun.
PrefixStored ==
  \A i, j \in DOMAIN Plan : \A s \in disk :
    (i < j /\ s.population = Plan[j]) =>
      \E t \in disk : t.population = Plan[i] /\ t.at = s.at

\* What a run has summarised, and is about to save, agrees with the disk; and
\* a failed population is saved only if the disk could not be read.
SummariesTrue ==
  /\ pc = "idle" => summaries = <<>>
  /\ pc \in {"observe", "save", "locate"} =>
       Len(summaries) < Len(Plan) /\ Succeeded = DOMAIN summaries
  /\ Len(summaries) <= Len(Plan)
  /\ \A i \in Succeeded : \E s \in disk : s.population = Plan[i] /\ s.at = at
  /\ \A i \in Compared : Genuine(Plan[i], summaries[i].comparison)
  /\ pc = "locate" => State \in disk
  /\ (pc \in {"save", "locate"} /\ previous # None) =>
       previous \in Earlier(disk, Current, at)
  /\ Refused => faults > 0

\* An observation is of two states that are stored, for good, and no result
\* of the orchestrator is refused by the pipeline as malformed unless a state
\* it had saved could not be read again.
ProbeInv ==
  /\ TypeOK
  /\ OneStatePerName
  /\ PrefixStored
  /\ SummariesTrue
  /\ \A p \in Populations : \A c \in observed[p] : Genuine(p, c)
  /\ refused => faults > 0

\* A population is proposed for promotion on comparisons of as many different
\* captures as the policy asks for, each of two states that are on disk, over
\* an interval within policy, and with rates that lie close together, however
\* runs were repeated, cut short or misread the disk.
PromotionEarned ==
  \A p \in Populations : proposal[p] # {} =>
    /\ Cardinality({c.at : c \in proposal[p]}) >= ReviewHistory
    /\ history >= ReviewHistory
    /\ \A c \in proposal[p] : Genuine(p, c) /\ InRange(c.interval)
    /\ \A c, d \in proposal[p] : c.retention <= d.retention + MaxSpread

\* Whenever the retention plan is made, and whichever of the files it calls
\* eligible are gone afterwards, a later capture is compared with the same
\* state as if all of them were still there.
RotationInvisible ==
  \A g \in Times : \A t \in g + 1 .. MaxTime : \A p \in Populations :
    \A s \in Earlier(disk, p, t) :
      IsNewest(s, Earlier(disk, p, t)) => s \notin Rotatable(g)

=============================================================================
