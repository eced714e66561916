----------------------- MODULE AffiliateRevalidation -----------------------
(***************************************************************************)
(* The rechecks that keep the affiliate routes of the remote database D1   *)
(* valid: the daily local cycle and the same program run by hand on chosen *)
(* rows (scripts/affiliate_local_lifecycle_revalidation.py), and the       *)
(* worker's scheduled cycle (affiliate-lifecycle-revalidation.mjs).  Each  *)
(* selects at most BatchSize rows, asks the DMM catalogue about them and   *)
(* writes what it was told.  The local cycle sends one file of statements  *)
(* outside any transaction, so D1 may stop part-way; the worker writes one *)
(* row at a time, in a batch that D1 applies as a whole.                   *)
(*                                                                         *)
(* A row is one of affiliate_item_lookup that is approved and resolved; it *)
(* is enabled exactly when its verification is PASS.  A target is there or *)
(* not, of the audit events the latest one is kept, and of timestamps      *)
(* only the order: they are kept as ranks, and no two cycles share one.    *)
(* The catalogue and D1 are external.  The worker is modelled as written:  *)
(* its deployment candidate declares no cron trigger, so its cycle may     *)
(* start but nothing says that it will.                                    *)
(***************************************************************************)
EXTENDS Naturals, FiniteSets, Sequences

CONSTANTS
  Rows,          \* the rows there may be, numbers in the order of public_id
  Cycles,        \* names of cycles
  Installations, \* what may be installed: the approved rows, the cycles of the
                 \* daily task, of an operator with a selection file and of the
                 \* worker's trigger (one cycle of each name at a time), the
                 \* size of a batch, and what the catalogue may say at first
  MaxFaults      \* bound: provider failures, partial writes and deaths

ASSUME RowAssumption == Rows \subseteq Nat /\ IsFiniteSet(Rows)

ASSUME InstallationAssumption ==
  /\ IsFiniteSet(Cycles)
  /\ \A site \in Installations :
       /\ site.rows \subseteq Rows /\ site.rows # {}
       /\ site.daily \cup site.manual \cup site.cron \subseteq Cycles
       /\ site.daily \cap site.manual = {}
       /\ (site.daily \cup site.manual) \cap site.cron = {}
       /\ site.batchSize \in Nat \ {0}
       /\ site.opening \subseteq {"listed", "relisted", "missing"}

ASSUME BoundAssumption == MaxFaults \in Nat

VARIABLES
  site,    \* what is installed, the same at all times
  status,  \* verification_status of a row; PASS when it is enabled
  updated, \* updated_at of a row
  target,  \* the rows that have an affiliate_redirect_target
  valid,   \* the rows whose latest audit event is VALID
  audited, \* row and time of each VALID audit event, for times still in use
  catalog, \* what the catalogue says of a row's item
  misread, \* cycle and row of each malformed answer read as a denial, while
           \* the cycle lasts
  pc,      \* what a cycle does next
  batch,   \* the rows it has selected
  answers, \* the provider's answers so far, in the order of the batch
  stamp,   \* its checked_at, 0 while it has none
  todo,    \* the statements of its file D1 has not executed
  faults

d1 == <<status, updated, target, valid, audited>>
vars == <<site, d1, catalog, misread, pc, batch, answers, stamp, todo, faults>>

Outcomes == {"VALID", "NOT_AVAILABLE", "UNCONFIRMED"}

Daily == site.daily

Manual == site.manual

Cron == site.cron

Local == Daily \cup Manual

Enabled == {r \in site.rows : status[r] = "PASS"}

Goto(c, location) == pc' = [pc EXCEPT ![c] = location]

-----------------------------------------------------------------------------
(* Selection and timestamps *)

Batches == UNION {[1 .. n -> site.rows] : n \in 1 .. site.batchSize}

RowsOf(s) == {s[i] : i \in DOMAIN s}

InOrder(s, Before(_, _)) == \A i, j \in DOMAIN s : i < j => Before(s[i], s[j])

\* The rows before all others, as many as there are places.
FirstRows(Before(_, _)) ==
  {s \in Batches :
     /\ InOrder(s, Before)
     /\ \A r \in site.rows \ RowsOf(s) :
          Len(s) = site.batchSize /\ \A i \in DOMAIN s : Before(s[i], r)}

OlderFirst(r, s) ==
  \/ updated[r] < updated[s]
  \/ updated[r] = updated[s] /\ r < s

\* Defect: enabled rows come first.
EnabledFirst(r, s) ==
  IF r \in Enabled <=> s \in Enabled THEN OlderFirst(r, s) ELSE r \in Enabled

\* ORDER BY affiliate_enabled ASC, updated_at ASC, public_id ASC
DisabledFirst(r, s) ==
  IF r \in Enabled <=> s \in Enabled THEN OlderFirst(r, s) ELSE s \in Enabled

Times == {updated[r] : r \in Rows} \cup {stamp[c] : c \in Cycles}

Rank(time) == Cardinality({t \in Times : t < time})

Now == Cardinality(Times \cup {0})

\* The cycle c takes the time: the times known get new ranks, c's the highest.
TakeTime(c) ==
  /\ updated' = [r \in Rows |-> Rank(updated[r])]
  /\ stamp' = [d \in Cycles |-> IF d = c THEN Now ELSE Rank(stamp[d])]
  /\ audited' = {<<a[1], Rank(a[2])>> : a \in {b \in audited : b[2] \in Times}}

\* The cycle ends; what it knew is gone.
Return(c) ==
  /\ Goto(c, "idle")
  /\ batch' = [batch EXCEPT ![c] = <<>>]
  /\ answers' = [answers EXCEPT ![c] = <<>>]
  /\ stamp' = [stamp EXCEPT ![c] = 0]
  /\ todo' = [todo EXCEPT ![c] = <<>>]
  /\ misread' = {a \in misread : a[1] # c}

-----------------------------------------------------------------------------
(* The catalogue (external): an item is listed or not, and may change.  A    *)
(* row is "relisted" when its item has been missing before.                  *)

Listed == {"listed", "relisted"}

CatalogChanges(r) ==
  /\ r \in site.rows
  /\ catalog' = [catalog EXCEPT ![r] = IF catalog[r] \in Listed THEN "missing"
                                                                ELSE "relisted"]
  /\ UNCHANGED <<site, d1, misread, pc, batch, answers, stamp, todo, faults>>

Answer(r) == IF catalog[r] \in Listed THEN "VALID" ELSE "NOT_AVAILABLE"

Fault ==
  /\ faults < MaxFaults
  /\ faults' = faults + 1

-----------------------------------------------------------------------------
(* The local cycle *)

\* NO_ELIGIBLE_ROWS cannot be: there is a row.
Select(c) ==
  /\ c \in Daily
  /\ pc[c] = "idle"
  /\ \E s \in FirstRows(DisabledFirst) : batch' = [batch EXCEPT ![c] = s]
  /\ Goto(c, "fetch")
  /\ UNCHANGED <<site, d1, catalog, misread, answers, stamp, todo, faults>>

\* The rows of a selection file, every one of which must be eligible.
SelectScoped(c) ==
  /\ c \in Manual
  /\ pc[c] = "idle"
  /\ \E s \in Batches : InOrder(s, <) /\ batch' = [batch EXCEPT ![c] = s]
  /\ Goto(c, "fetch")
  /\ UNCHANGED <<site, d1, catalog, misread, answers, stamp, todo, faults>>

Asked(c) == batch[c][Len(answers[c]) + 1]

Ask(c, answer) ==
  /\ pc[c] = "fetch"
  /\ Len(answers[c]) < Len(batch[c])
  /\ answers' = [answers EXCEPT ![c] = Append(@, answer)]

Fetch(c) ==
  /\ Ask(c, Answer(Asked(c)))
  /\ UNCHANGED <<site, d1, catalog, misread, pc, batch, stamp, todo, faults>>

\* A request that fails is UNCONFIRMED (AffiliateRuntimeConnectorError).  An
\* answer that is a JSON object but holds no item list, or an item with another
\* identity or no safe URL, is no failure to the code: whatever the catalogue
\* says, it is read as NOT_AVAILABLE.
Failure == {"UNCONFIRMED", "NOT_AVAILABLE"}

Misread(c, answer) ==
  misread' = IF answer = "NOT_AVAILABLE" THEN misread \cup {<<c, Asked(c)>>}
                                         ELSE misread

FetchFails(c) ==
  /\ Fault
  /\ \E answer \in Failure : Ask(c, answer) /\ Misread(c, answer)
  /\ UNCHANGED <<site, d1, catalog, pc, batch, stamp, todo>>

\* Defect: what could not be confirmed is taken for not available.
UnconfirmedIgnored(c) == FALSE

Unconfirmed(c) == \E i \in DOMAIN answers[c] : answers[c][i] = "UNCONFIRMED"

\* UPSTREAM_UNCONFIRMED_NO_STATE_CHANGE
Abandon(c) ==
  /\ pc[c] = "fetch"
  /\ Len(answers[c]) = Len(batch[c])
  /\ Unconfirmed(c)
  /\ Return(c)
  /\ UNCHANGED <<site, d1, catalog, faults>>

Statements == {"target", "audit valid", "enable", "disable", "audit unavailable"}

\* The statements for a row: target, audit and enable, or disable and audit.
First(outcome) == IF outcome = "VALID" THEN "target" ELSE "disable"

\* Defect: a row is enabled before its audit is there.
FollowingEnableFirst(statement) ==
  CASE statement = "target" -> "enable"
    [] statement = "enable" -> "audit valid"
    [] statement = "disable" -> "audit unavailable"
    [] OTHER -> "none"

Following(statement) ==
  CASE statement = "target" -> "audit valid"
    [] statement = "audit valid" -> "enable"
    [] statement = "disable" -> "audit unavailable"
    [] OTHER -> "none"

\* For each row of the batch, the statement to execute next.
File(c) ==
  [i \in DOMAIN batch[c] |->
     [row |-> batch[c][i], statement |-> First(answers[c][i])]]

Prepare(c) ==
  /\ pc[c] = "fetch"
  /\ Len(answers[c]) = Len(batch[c])
  /\ ~Unconfirmed(c)
  /\ TakeTime(c)
  /\ todo' = [todo EXCEPT ![c] = File(c)]
  /\ Goto(c, "execute")
  /\ UNCHANGED <<site, status, target, valid, catalog, misread>>
  /\ UNCHANGED <<batch, answers, faults>>

\* of a row that is not valid
Verification(outcome) ==
  IF outcome = "NOT_AVAILABLE" THEN "FAILED" ELSE "PENDING"

\* The effect on D1 of one statement, made at the cycle's time.
Effect(c, statement, row) ==
  /\ status' =
       CASE statement = "enable" -> [status EXCEPT ![row] = "PASS"]
         [] statement = "disable" ->
              [status EXCEPT ![row] = Verification("NOT_AVAILABLE")]
         [] OTHER -> status
  /\ updated' = IF statement \in {"enable", "disable"}
                THEN [updated EXCEPT ![row] = stamp[c]] ELSE updated
  /\ target' = IF statement = "target" THEN target \cup {row} ELSE target
  /\ valid' =
       CASE statement = "audit valid" -> valid \cup {row}
         [] statement = "audit unavailable" -> valid \ {row}
         [] OTHER -> valid
  /\ audited' = IF statement = "audit valid"
                THEN audited \cup {<<row, stamp[c]>>} ELSE audited

\* D1 executes the next statement of the file (external).
Execute(c) ==
  /\ pc[c] = "execute"
  /\ todo[c] # <<>>
  /\ Effect(c, todo[c][1].statement, todo[c][1].row)
  /\ LET following == Following(todo[c][1].statement)
     IN todo' = [todo EXCEPT ![c] = IF following = "none" THEN Tail(@)
                                    ELSE [@ EXCEPT ![1].statement = following]]
  /\ UNCHANGED <<site, catalog, misread, pc, batch, answers, stamp, faults>>

\* BOUNDED_REVALIDATION_COMPLETED
Complete(c) ==
  /\ pc[c] = "execute"
  /\ todo[c] = <<>>
  /\ Return(c)
  /\ UNCHANGED <<site, d1, catalog, faults>>

\* The process dies, a call of wrangler fails or times out, or D1 stops
\* part-way, and the rest of the file is not executed.  The timeout of 60 s
\* kills the client only: a file that D1 carries out all the same is here that
\* of a cycle which still executes, whatever its process has answered, so it
\* overlaps whatever cycle of another name has begun since.
CycleFails(c) ==
  /\ Fault
  /\ pc[c] # "idle"
  /\ Return(c)
  /\ UNCHANGED <<site, d1, catalog>>

-----------------------------------------------------------------------------
(* The worker's cycle *)

\* Its time is the one the trigger was scheduled for, taken here to be later
\* than any other cycle's so far.
SelectOldest(c) ==
  /\ c \in Cron
  /\ pc[c] = "idle"
  /\ TakeTime(c)
  /\ \E s \in FirstRows(OlderFirst) : batch' = [batch EXCEPT ![c] = s]
  /\ Goto(c, "fetch")
  /\ UNCHANGED <<site, status, target, valid, catalog, misread>>
  /\ UNCHANGED <<answers, todo, faults>>

CronFetch(c) ==
  /\ Ask(c, Answer(Asked(c)))
  /\ Goto(c, "persist")
  /\ UNCHANGED <<site, d1, catalog, misread, batch, stamp, todo, faults>>

CronFetchFails(c) ==
  /\ Fault
  /\ \E answer \in Failure : Ask(c, answer) /\ Misread(c, answer)
  /\ Goto(c, "persist")
  /\ UNCHANGED <<site, d1, catalog, batch, stamp, todo>>

\* Defect: the target is expected to be there.
PersistValidNoTarget(c, row) ==
  /\ status' = [status EXCEPT ![row] = "PASS"]
  /\ valid' = valid \cup {row}
  /\ audited' = audited \cup {<<row, stamp[c]>>}
  /\ UNCHANGED target

\* One batch of D1, for the row just asked for.
PersistValid(c, row) ==
  /\ status' = [status EXCEPT ![row] = "PASS"]
  /\ target' = target \cup {row}
  /\ valid' = valid \cup {row}
  /\ audited' = audited \cup {<<row, stamp[c]>>}

PersistBlocked(c, row, outcome) ==
  /\ status' = [status EXCEPT ![row] = Verification(outcome)]
  /\ valid' = valid \ {row}
  /\ UNCHANGED <<target, audited>>

Persist(c) ==
  /\ pc[c] = "persist"
  /\ LET row == batch[c][Len(answers[c])]
         answer == answers[c][Len(answers[c])]
     IN /\ IF answer = "VALID" THEN PersistValid(c, row)
                               ELSE PersistBlocked(c, row, answer)
        /\ updated' = [updated EXCEPT ![row] = stamp[c]]
  /\ IF Len(answers[c]) < Len(batch[c])
     THEN Goto(c, "fetch") /\ UNCHANGED <<batch, answers, stamp, todo, misread>>
     ELSE Return(c)
  /\ UNCHANGED <<site, catalog, faults>>

-----------------------------------------------------------------------------

Init ==
  /\ site \in Installations
  /\ status = [r \in Rows |-> "PENDING"]
  /\ updated = [r \in Rows |-> 0]
  /\ target = {}
  /\ valid = {}
  /\ audited = {}
  /\ catalog \in {f \in [Rows -> site.opening \cup {"missing"}] :
                    \A r \in Rows \ site.rows : f[r] = "missing"}
  /\ misread = {}
  /\ pc = [c \in Cycles |-> "idle"]
  /\ batch = [c \in Cycles |-> <<>>]
  /\ answers = [c \in Cycles |-> <<>>]
  /\ stamp = [c \in Cycles |-> 0]
  /\ todo = [c \in Cycles |-> <<>>]
  /\ faults = 0

LocalStep(c) ==
  /\ c \in Local
  /\ \/ Select(c) \/ Fetch(c) \/ Abandon(c) \/ Prepare(c) \/ Execute(c)
     \/ Complete(c)

CronStep(c) ==
  /\ c \in Cron
  /\ SelectOldest(c) \/ CronFetch(c) \/ Persist(c)

Next ==
  \/ \E c \in Local : LocalStep(c) \/ SelectScoped(c) \/ FetchFails(c)
  \/ \E c \in Cron : CronStep(c) \/ CronFetchFails(c)
  \/ \E c \in Local \cup Cron : CycleFails(c)
  \/ \E r \in Rows : CatalogChanges(r)

Spec == Init /\ [][Next]_vars

\* The daily task starts again and again, and every request and every call of
\* wrangler of a local cycle times out.  Nothing starts the worker.
FairSpec == Spec /\ \A c \in Cycles : WF_vars(LocalStep(c))

-----------------------------------------------------------------------------
(* Properties *)

TypeOK ==
  /\ site \in Installations
  /\ status \in [Rows -> {"PASS", "PENDING", "FAILED"}]
  /\ updated \in [Rows -> 0 .. Cardinality(Rows) + Cardinality(Cycles)]
  /\ target \subseteq Rows
  /\ valid \subseteq Rows
  /\ audited \subseteq Rows \X (0 .. Cardinality(Rows) + Cardinality(Cycles))
  /\ catalog \in [Rows -> Listed \cup {"missing"}]
  /\ misread \subseteq Cycles \X Rows
  /\ pc \in [Cycles -> {"idle", "fetch", "execute", "persist"}]
  /\ batch \in [Cycles -> Seq(Rows)]
  /\ answers \in [Cycles -> Seq(Outcomes)]
  /\ stamp \in [Cycles -> 0 .. Cardinality(Rows) + Cardinality(Cycles)]
  /\ todo \in [Cycles -> Seq([row : Rows, statement : Statements])]
  /\ faults \in 0 .. MaxFaults

\* Whatever cycles overlap and wherever D1 stops, an enabled row has a target
\* to redirect to, and an audit event of the very check that enabled it.
RouteReady ==
  /\ TypeOK
  /\ \A r \in Enabled : r \in target /\ <<r, updated[r]>> \in audited

\* Where one cycle runs at a time, wherever D1 stops, a row is enabled on the
\* strength of its latest audited check.
EnabledAsAudited ==
  (\A c, d \in Local \cup Cron : c = d) => Enabled \subseteq valid

\* Without the worker, a failing request for this row or another of its batch,
\* a stopped write or a dead process never disables a row whose item has been
\* listed all along, unless a cycle under way has read a malformed answer to
\* deny it.  docs/policies/affiliate-revalidation-transient-failure-v0.1.md:10-13
\* makes no such exception, it counts a malformed answer as UNCONFIRMED; the
\* code does not.
StaysWhileListed ==
  [][Cron = {} =>
       \A r \in Enabled :
         catalog[r] = "listed" /\ (\A c \in Cycles : <<c, r>> \notin misread) =>
           r \in Enabled']_vars

\* A local cycle writes a confirmed check of the row.
LocalChecks(r) == \E c \in Local : pc[c] = "execute" /\ r \in RowsOf(batch[c])

\* The worker writes the outcome of a check of the row.
WorkerChecks(r) ==
  \E c \in Cron : pc[c] = "persist" /\ batch[c][Len(answers[c])] = r

OneDaily == Cardinality(Daily) = 1 /\ Manual = {} /\ Cron = {}

\* With the daily task alone: as long as fewer rows are disabled than a batch
\* has places, it comes back to every row; disabled ones it comes back to in
\* any case, unless they get enabled.
DailyRotation ==
  /\ <>[](OneDaily /\ Cardinality(site.rows \ Enabled) < site.batchSize) =>
       \A r \in Rows : []<>(r \in site.rows => LocalChecks(r))
  /\ \A r \in Rows :
       []<>(OneDaily /\ r \in site.rows => r \in Enabled \/ LocalChecks(r))

\* What makes cycles come round, fairness apart: where one runs at a time a row
\* is passed in the order of selection only when it is being rechecked.
OneAtATime == \A c, d \in Local \cup Cron : c = d

NeverPassed ==
  [][OneAtATime =>
       \A r, s \in site.rows :
         OlderFirst(r, s) /\ ~ OlderFirst(r, s)' =>
           LocalChecks(r) \/ WorkerChecks(r)]_vars

-----------------------------------------------------------------------------
(* Why the properties hold *)

\* What a cycle has goes with where it is.
InPlace(c) ==
  /\ pc[c] # "execute" => todo[c] = <<>>
  /\ pc[c] = "idle" => batch[c] = <<>> /\ answers[c] = <<>> /\ stamp[c] = 0
  /\ pc[c] # "idle" => batch[c] \in Batches /\ Len(answers[c]) <= Len(batch[c])
  /\ pc[c] = "fetch" =>
       \/ c \in Local /\ stamp[c] = 0
       \/ c \in Cron /\ Len(answers[c]) < Len(batch[c])
  /\ pc[c] = "execute" => c \in Local /\ Len(answers[c]) = Len(batch[c])
  /\ pc[c] = "persist" => c \in Cron /\ answers[c] # <<>>

\* What an answer has denied was missing then, or the answer was misread.
Denied(c, r) == catalog[r] # "listed" \/ <<c, r>> \in misread

DeniedBefore(c) ==
  /\ \A i \in DOMAIN answers[c] :
       answers[c][i] = "NOT_AVAILABLE" => Denied(c, batch[c][i])
  /\ \A i \in DOMAIN todo[c] :
       todo[c][i].statement = "disable" => Denied(c, todo[c][i].row)

\* What comes before a statement in a file has been executed, for the row it is
\* about; D1 is in the middle of one row at most.
FileInOrder(c) ==
  \A i \in DOMAIN todo[c] :
    LET row == todo[c][i].row
        statement == todo[c][i].statement
    IN /\ row \in site.rows
       /\ statement \in {"audit valid", "enable"} => row \in target
       /\ statement = "enable" => <<row, stamp[c]>> \in audited
       /\ i > 1 => statement \in {"target", "disable"}

\* Where one cycle runs at a time, nothing comes between an audit and the
\* change of the row it belongs to.
AuditedAlone(c) ==
  todo[c] # <<>> =>
    /\ todo[c][1].statement = "enable" => todo[c][1].row \in valid
    /\ todo[c][1].statement = "audit unavailable" => todo[c][1].row \notin Enabled

RecheckInv ==
  /\ RouteReady
  /\ EnabledAsAudited
  /\ \A c \in Cycles : InPlace(c) /\ DeniedBefore(c) /\ FileInOrder(c)
  /\ (\A c, d \in Local \cup Cron : c = d) => \A c \in Cycles : AuditedAlone(c)

\* A file is about rows of its batch, and where one cycle runs at a time nothing
\* is newer than the time it has taken.
FileOfBatch(c) == \A i \in DOMAIN todo[c] : todo[c][i].row \in RowsOf(batch[c])

Timed(c) == pc[c] \in {"execute", "persist"} \/ (c \in Cron /\ pc[c] = "fetch")

StampNewest(c) == Timed(c) => \A r \in Rows : updated[r] <= stamp[c]

RotationInv ==
  /\ \A c \in Cycles : FileOfBatch(c)
  /\ OneAtATime => \A c \in Cycles : StampNewest(c)

=============================================================================
