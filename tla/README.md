# Verification of data-lab-jp

This directory holds TLA+ models of data-lab-jp, TLC configurations that check
them on small instances, and TLAPS proofs.  The source under `src/` is the
reference; every definition that models code is listed in `PROJECT.json` with
the lines it translates.

## The system

data-lab-jp collects prices of a DMM catalogue into SQLite, computes price and
confidence data, and publishes a static site.  Around that pipeline stand an
*unattended development* layer (a durable job queue that executors drive,
checkpoints, notifications with a persistent de-duplication ledger, gates that
follow one another on evidence and remote approvals), *probes* of the catalogue
whose states are kept on disk, and the *affiliate* rows of a remote database D1,
which are rolled out by hand and rechecked every day.  Every process is
short-lived and single threaded; concurrency is between processes that meet in
files, lock files, SQLite and D1.

### Inventory

| Component | Source (`src/scripts/`) | State | Operations |
|---|---|---|---|
| Job core | `unattended_job_queue.py`, `job_level_event_dispatch.py`, `queue_blocked_event_dispatch.py` | none (pure functions on a job tuple) | validate, select, adopt, complete, fail safe, approve, checkpoint, resume, retry, transition validation, queue-blocked assessment, events of both |
| Durable queue | `unattended_queue_persistence.py` | `unattended-queue-v0.1.json`, its `.lock`, its fixed-name temporary file | load, save (compare-and-set on the revision), inspect, attach a checkpoint reference |
| Coordinators | `durable_execution_adoption_`, `durable_job_completion_`, `durable_job_failed_safe_coordinator.py` | none | load, decide, save, classify the result |
| Executor evidence | `executor_result_authentication.py`, `executor_result_coordinator_input_adapter.py` | none | match evidence with an adoption result, route it |
| Checkpoint objects | `unattended_checkpoint_storage.py` | content-addressed files, one temporary file per object | save, load, inspect |
| Notification runtime | `unattended_runtime.py`, `notification_ledger.py`, `ledger_recovery.py`, `notification_incident_suppression_coordinator.py`, `notification_noise_control.py`, `notification_ledger_record_v02.py` | ledger file, ledger lock, temporary files | one notification cycle, diagnose the ledger |
| Scheduled runner | `scheduled_runtime_runner.py` | runner lock | one cycle at a time |
| Probe states | `temporal_probe_state_store.py` | one immutable file per observation, a lock file each | write once, discover, latest previous |
| Probe pipeline | `temporal_probe_orchestrator.py`, `_adapter.py`, `_runner.py`, `_state.py`, `_retention.py`, `temporal_assessment_pipeline.py`, `temporal_stability_policy.py`, `temporal_runbook_policy.py`, `temporal_manual_review.py` | the probe states; a count of days kept by the operator | run over the plan, compare, assess, review, plan rotation |
| Development gates | `development_gate_*.py`, `development_*_observation.py`, `development_usage_*.py`, `development_next_gate_usage_permit.py` | an evidence record carried by the caller | one stage after the other: checkpoint, tests, commit and push, CI, approval, next gate, start |
| Remote approval replay | `development_remote_approval_replay_persistence.py`, `_replay_record.py`, `_durable_coordinator.py`, `development_durable_remote_approval_action_bridge.py` | replay document, lock file, temporary file | consume an approval once |
| Collector | `collect-dmm-items.py`, `collector_preflight.py`, `check-stale-collection-runs.py`, `collection_policy.py` | `collection_runs` and the catalogue tables of SQLite | preflight, claim, fetch pages, commit, mark failed |
| Backup | `backup-data-lab-db.py` | snapshot files | check for running collections, copy under the write lock, verify, rotate |
| Expansion storage | `revenue_mvp_expansion_isolated_collection.py`, `_storage_gate.py`, `_storage_commit.py` | a kept database and its backups, beside production | collect on a disposable copy, back up, replace, rotate |
| Expansion in D1 | `revenue_mvp_expansion_d1_delta.py`, `_d1_prewrite_gate.py`, `_d1_postwrite_verify.py`, `_initial_selection.py`, `_initial_revalidation.py`, `affiliate_d1_sensitive_query.py` | the affiliate tables of D1; exports in files | build and check a delta, verify it, select its rows, take each to the catalogue once |
| Affiliate revalidation | `affiliate_local_lifecycle_revalidation.py`, `runtime-candidates/affiliate-lifecycle-revalidation.mjs`, `affiliate-workers-dmm-provider.mjs` | the same tables | select a batch, ask the catalogue, write the outcome |
| Category collection | `collect-category-items.py`, `category_collection_health.py`, `backup_category_collection_db.py` | a database of its own | one transaction per source, health check, backup |
| Migrations | `migrate-*.py`, `apply-*-migration.py`, `init-db.py`, `import-dmm-item.py`, `generate-saved-lifecycle-receipts.py` | schema and rows of the database | one-off programs |
| Analysis and publishing | `calculate-price-analysis.py`, `calculate-data-confidence.py`, `build-public-data.py`, `build-static-site.py`, `publication_*.py` | derived tables and files | batch computations |
| Evidence reports | `revenue_mvp_*`, `affiliate_*`, `doujin_*`, `ebook_*`, `photo_book_*`, `books_*`, `x_*`, `queue_storage_inspection_*` | none | pure functions from evidence records to a decision |
| Web | `items/`, `preview/`, `deployment-candidates/`, `runtime-candidates/` | browser or worker | rendering, candidate workers |

### How they interact

- A coordinator loads the queue document, lets the core decide on it and saves
  the successor.  Loading and saving are separate accesses; the revision
  compared under the lock is all that connects them.
- An executor works outside.  What it reports is matched with the result of a
  durable adoption and then handed to the completion or failed-safe
  coordinator.
- A queue document refers to checkpoint objects by digest; the store checks
  the reference under its own lock, the objects are written without it.
- A transition of a job becomes an event; the runtime looks the event up in the
  ledger, sends, and records, all under the ledger's lock.  The scheduled
  runner wraps one such cycle in a lock of its own.
- A probe run reads the newest earlier state of a population, compares, and
  writes its own; the pipeline judges the run's summaries; the operator counts
  successful days and asks for a review.
- A gate's evidence is carried from one pure step to the next by the caller.
  Approvals are consumed in a document the callers share, and only what the
  durable coordinator answers counts as approval.
- Collector and backup meet in one SQLite database: in the rows of
  `collection_runs`, and in its write lock.  The isolated collection reads the
  same database without a lock and keeps its result beside it.
- The local revalidation cycle, the same program run by hand, the worker's
  scheduled cycle (for which no trigger is deployed) and the expansion's initial
  revalidation write the same rows of D1 and know nothing of one another.

### What makes each part correct

- *Queue*: no update is lost, an attempt is started once and ended once and
  only by whoever holds its adoption, what a caller is told is true of the
  disk, the document always loads again, residue of a dead process blocks
  instead of being taken over, no call hangs.
- *Job core*: no sequence of decisions makes a queue that is refused later;
  what is reported as blocked is blocked, and nothing in it starts until the
  blocker of a root is taken away or a finished job is reopened.
- *Checkpoint objects*: an object is whole or absent and never changes, an
  answer is given only for what is stored, and an inspection calls the recovery
  off only where something is broken or could not be read.
- *Notifications*: what was recorded as delivered is never sent again, no
  record is lost, nothing is reported that did not arrive, reminders are a
  window apart, nothing is sent past a stale lock.
- *Probe states*: one name, one content.  *Probe pipeline*: what is reported
  compares two states that are stored; a promotion rests on as many different
  captures as the policy asks for; rotation changes no later comparison.
- *Gates*: evidence is of one piece of work; an approval is consumed once,
  counts once and only for its target, and one whose consumption was not
  answered for never counts.
- *Collector and backup*: one active run, snapshots appear with the run's
  success, backups are taken between runs, no collector stays at a run for ever.
- *Expansion storage*: what is kept is finished, a receipt is true, nothing
  kept is lost before the rotation may remove it.
- *Affiliate rows*: an enabled row has a target and the audit of the check that
  enabled it, a request that fails disables nothing that is listed, the daily task
  comes back to every row; a rollout moves only rows that are new, and never undoes what
  a recheck has decided.

### What is hard

Interleavings between load and save; a crash or an `OSError` between two file
accesses, above all between the atomic replace and its confirmation; lock files
whose owner is gone; late, repeated or contradicting executor results; a
delivery that succeeded but could not be recorded; two writers of the same
immutable file; a check made before a lock or a transaction and used in it; an
approval that was consumed by a process that died; a file of statements that is
executed part-way, or after it was given up; rows that are never reached by a
bounded selection; captures repeated, cut short or misread.  `PROJECT.json`
lists each of them under "hazards" at the line where it bites, with the
properties that would notice it going wrong.

## The modules

    JobCore                 pure scheduling core
      JobBoard              every operation of the core in any sequence
      QueueDocument         the document: revision, jobs, checkpoint references
        JobLedger           what the queue promises (abstract)
        QueueStore          files, lock, coordinators, executors, crashes;
                            implements JobLedger
    CheckpointObjects       what the checkpoint storage promises (abstract)
      CheckpointStorage     files without a lock; implements CheckpointObjects
    NotificationRuntime     one notification cycle over the persistent ledger
    ProbeStateStore         the calls that write one probe-state file
    TemporalProbe           the probe's runs, assessment, review and rotation
    ApprovalLedger          what the replay store promises (abstract)
      DevelopmentGates      gates, observers, replay store; implements it
    CollectorRuns           collectors and backups on one database
    ExpansionCommit         isolated collections and the database they keep
    ExpansionRollout        new rows from an export to their first recheck
    AffiliateRevalidation   the cycles that keep the affiliate routes valid

    MC*                     values and symmetry for TLC
    *Proofs                 theorems and their proofs

Two conventions hold throughout. A *worker* (process, cycle, run) is one call at a
time; its `pc` or `place` names the next access to something another process can
see, and what the code computes between two accesses belongs to the step before or
after. A definition commented *Defect* is not part of any specification: it is a
plausible mistake in the definition after it, used to confirm that the properties
would notice it.

### JobCore, QueueDocument

`JobContract` is split into what no operation changes (the constant `Contract`)
and a `JobRecord` of state, attempts and approval.  `(created_at, job_id)` is a
rank, `blocker_codes` and `deadline_class` are booleans, and syntax checks are
left out.  `ValidJob`, `Eligible`, `IsNext`, `Adopted`, `Completed`,
`FailedSafe` and `ApprovalApplied` are the functions of
`unattended_job_queue.py` with their guards `CanAdopt`, `CanFinish` and
`CanApprove`.  A `Snapshot` is `PersistedQueueSnapshot`.

### JobBoard

One caller and a queue nothing else touches: `Adopt`, `Complete`, `FailSafe`,
`Approve`, `Checkpoint`, `Resume` and `Retry` apply what the functions of the same
subject decide. `create_checkpoint`, `resume_from_checkpoint` and `assess_retry`
only name a state, for a job in any state that they accept; writing it is left to
the caller by the code, and done by the action here. `Assess` is
`assess_queue_blocked` with its loop (`Round`, `Proven`), `Stopped` the least set
that loop is to compute; `TransitionClass`, `Dispatched`, `QueueDispatched` and
`Reportable` are the validators and dispatchers.

### QueueStore

| State | Code |
|---|---|
| `queue` | content of `unattended-queue-v0.1.json` |
| `lock`, `temp` | its lock file and its fixed-name temporary file |
| `stored` | checkpoint objects that can be referred to |
| `pc`, `call`, `base`, `result` | a call in progress: next access, arguments, loaded snapshot, answer |
| `commits`, `claims` | history: changes made, changes reported durable |

`LoadLook` and `LoadRead` are `load_queue` and the coordinator's decision;
`Acquire`, `Check`, `Write`, `Replace`, `ReadBack` and `Release` are
`save_queue` with its lock.  `LoadFails`, `AcquireFails`, `SaveFails` and
`ReleaseFails` are an `OSError` at an access, with the code's reaction to it,
and `Crash` is the death of the process there.  Executors are outside `src/` and
may report any outcome of any attempt at any time; `Authenticated` and `Route`
decide what becomes of a report.  `StoreObject` stands for
`CheckpointStorage.save_checkpoint`; `CheckpointStorage` shows that this
abstraction, a set of whole objects that only grows, is what that code keeps.

Approvals and references are applied by a caller that loads, calls
`apply_approval_with_transition` or `replace_active_checkpoint_ref`, and saves.
No program under `src/scripts` composes these; the repository's tests do, and
the store is built for it, so the model has an operator doing it.

`JobLedger` is the same queue changed by one whole operation at a time, without
files, calls or crashes.  A change may stay unclaimed for ever there: its caller
died or was told the outcome is uncertain.

### CheckpointStorage

Objects are named by the digest of their content, so a file is absent, torn or
whole.  Saving follows `save_checkpoint` (look, existing object, probe, exclusive
creation, fill, replace, read-back); `Inspect` to `Judge` follow `inspect`, one
listing or reading at a time, beside the savers.  Each of these can fail: a listing
passes over a directory it may not read (`ListingMisses`), an object that cannot be
read counts as corrupt (`ReadsFail`), and any other exception is answered with
RECOVERY_BLOCKED (`InspectionFails`).  `Attach` stands for a save of
the queue; `Review` is the manual review the code asks for.

### NotificationRuntime

`live` says whether the ledger is the production one (LIVE_NOTIFICATION) or a
test one (MOCK_RUNTIME).  The diagnosis (`Inspect`, `Confirm`), the transaction
(`Acquire`, `Read`, `Send`, `Write`, `Replace`, `Release`) and the errors of
each.  `Deliverable` is the duplicate lookup together with the incident
coordinator and the noise policy of MOCK_RUNTIME.  A send is external: it
arrives or not, and may arrive and be reported as failed.  DRY_RUN writes
nothing and is left out.

### ProbeStateStore, TemporalProbe

`ProbeStateStore` is one filename and the calls that write it.  What the
`finally` block removes depends on variables set on the way; `Lock`, `Withdraw`
and `Unlock` follow those assignments literally, and so a call that finds the
lock taken goes on to remove it.

`TemporalProbe` is everything above that file: `disk` is the set of states
discovery finds, `summaries` what `run_orchestrator` has collected, `history` the
runbook's number of successful days.  `Start` may repeat any capture time up to
the clock; `Observe` is the answer and the comparison with the newest earlier
state, `Save` the immutable write, `Locate` the look for what was written,
`Assess` the pipeline with the stability policy, `Review` the manual review on
comparisons the operator hands in, and `Rotatable` the retention plan.  The
failures are an exception of the client (`FetchFails`), a write that fails with
or without having stored the state (`SaveFails`), a discovery that cannot read
(`LocateFails`), and death between two accesses (`Die`).  A repeated capture may
get a different answer and be refused as a conflict.  A run takes no time on the
clock; the plan of the repository has more populations, which go through the
same steps.

### DevelopmentGates

`evidence[a]` is the record an agent carries; `Stage` is `evaluate`, the one
stage that is missing next.  `Observe` has an action for each observer that
accepts (tests, commit and push, CI, next gate), for observations that are true
of *something* in the world: `MadeFrom`, `HeadOf`, `Passes` and `Green` say what
the commits and runs really are.  Refused observations change nothing and are
not actions.  `Approve` is the call of the durable coordinator, access by
access: load, acquire the lock, check revision and duplicates, create and fill
the temporary file, replace, read back, unlink, and answer to the bridge;
`Fails` is an `OSError` or a death at any of them, `Review` the manual recovery
that removes residue.  The usage permit at the start of the next gate decides on
a snapshot's age, reserve and budgets.

`ApprovalLedger` promises that an approval is consumed once and released at
most once, after it was consumed.

### CollectorRuns

`status` is the table `collection_runs`, `stored` the runs whose snapshots are
committed, `writer` the one who holds SQLite's write lock.  `BeginPreflight`,
`Preflight`, `ClaimRun`, `Fetch`, `StoreRows`, `CommitRun`, `Report` and
`MarkFailed` are a collection; `BeginBackup`, `Prepare`, `Lock`, `CopyDatabase` and
`PublishBackup` a backup.  SQLite is external: transactions are atomic, and a wait
for a lock ends in an error (`ClaimBusy`, `LockBusy`, `CommitBusy`,
`MarkFailedBusy`).  The database has a rollback journal, in which a reader keeps a
writer from committing: `Scanning` are the processes that may be reading at the
moment, in a preflight or in the backup's validation, and next to one of them a
commit may fail.  `with connection` then rolls back (the code relies on Python 3.10
or later for that) and the collector tries to mark its run failed, which may fail in the
same way and is passed over.  The age of a running row decides only which refusal is
reported, so there is no clock.

### ExpansionCommit

`version` and `unfinished` are what the daily collection (`Claim`, `Store`) does
to the production database. A run hashes it, looks for unfinished runs, copies it,
collects on the copy, compares, commits (take the time, `Commit`; pass the gate
and hash what is kept, `HashOld`; back up under that hash's name, publish the
backup, replace, confirm, prune, unlink) and finally hashes production again.
Hashes are the identity of what they are computed from. The clock, whose unit is
the second in a backup's name, moves with each collection, since that makes six
requests a second apart. The `finally` blocks that unlink staged files are part of
the failing step; what a dead process leaves behind of them nothing reads again,
so it is not counted.

### ExpansionRollout

A row is named by its number in the order of `public_id` and has the state its
four status columns spell.  `before` and `after` are the exports around the
delta; `ready` is the gate's verdict, `verified` the verification's.  The age of
an export is not modelled, and one export is taken after the delta.  A run of the
initial revalidation selects (optionally against a current export), asks once
per row, and sends one query; `Execute` is D1 executing the statements of one row
of it, guarded as the text guards them, in the order of the file.  The query may
be given up and arrive later (`lost`), and may stop anywhere: the code does not
rely on D1 applying it as a whole, and the properties hold without that.
`Acknowledged` is what `affiliate_d1_sensitive_query` accepts as the counts of a
complete execution.  `Import` is another insertion, `Recheck` any cycle of
`AffiliateRevalidation` in one step.

### AffiliateRevalidation

A row has a verification status (enabled exactly when PASS), a timestamp kept as a
rank, a target, and its latest audit. The local cycle selects, asks, gives up if
anything stayed unconfirmed, and otherwise sends one file of statements that D1
executes one by one (`Execute`) and may stop anywhere (`CycleFails`); the worker
writes each row in a batch D1 applies as a whole (`Persist`). The catalogue may
change at any time. The rule of
`docs/policies/affiliate-local-lifecycle-revalidation-v0.1.md` that an unconfirmed
row is disabled too has been superseded by the transient-failure policy, which the
code follows but for malformed answers: `FetchFails` is a request that fails
(UNCONFIRMED) or an answer the code misreads as a denial, and `misread` remembers
the latter. An import that times out kills the client only; the file D1 carries
out all the same is the one of a cycle that still executes, under a name no other
cycle takes meanwhile. The worker is modelled as written, with a trigger time
later than that of any cycle so far; its deployment candidate declares no cron
trigger, so nothing says that its cycle ever starts. An *installation* says which
cycles exist over which rows; the specification starts in any of the installations
it is given.

## Runs

| Run | Configuration | States | Shows |
|---|---|---|---|
| `queue_store` | one job of two attempts, two processes, one object, 3 revisions, 1 fault, fair | 736 k | the store's inductive invariant, history and document, honest answers, residue blocks, refinement of the ledger; every call returns |
| `checkpoints` | three savers, two objects, an inspection, 2 faults | 3.3 M | its inductive invariant, recovery stopped only by an inspection that met an error, residue, refinement of CheckpointObjects |
| `notification` | two cycles, a failure and its reminder, a completion and its repetition, a critical stop, room for two records, both modes, 1 fault, fair | 814 k | sound ledger, spaced reminders, no record lost, silence past a stale lock; every cycle returns |
| `probe_serial` | four calls of two processes, one after the other, 3 faults | 639 | one content per name, and it stays |
| `probe_contended` | three calls, no fault | violation | the finding below |
| `collector_runs` | two collectors and a backup, 3 runs, 1 fault, fair | 813 k | exclusion, atomicity, quiescent backups, what an orphan does; a claimed run's outcome is recorded or the run is left behind, and that only by an error or beside a reader |
| `affiliate_revalidation` | the daily task over three rows in batches of two; a manual cycle and the worker over two rows in batches of one; 1 fault, daily task fair | 943 k | safe routes, enabled as audited, no listed row disabled by a failed request, the daily task comes round |
| `development_gates` | two agents, a gate with approval and one without, two commits, three CI runs (one red), two requests, room for two records, 2 faults | 170 k | evidence of one piece of work, approvals durable and for one target, lost ones stay lost, refinement of ApprovalLedger |
| `job_board` | any valid queue of three jobs in a chain: one needs approval, one reads outside in a window and may be retried, one supports checkpoints | 177 k | the queue stays valid, resuming is no laxer than selecting, the blocked loop computes its least set, blocked queues stand still |
| `temporal_probe` | two populations, two identifiers, capture times 0 to 2, four runs, 1 fault | 1.5 M | true and stored comparisons, earned promotions, invisible rotation |
| `expansion_rollout` | one enabled and two new rows, batches of two, two runs, one recheck, another import, 1 fault | 3.2 M | what enabled rows have, true answers, kept scope, rechecks prevail |
| `expansion_commit` | two operators, five collections, two backups kept, one change of production, 1 fault | 14.3 M | only finished databases, true receipts and names, nothing lost |

Deadlock checking is off everywhere: calls, retries and revisions are bounded,
so behaviours end, and an idle system is a legal end.

### Why the bounds are enough

- *Two processes* are what a race between a check and its use takes; a third
  adds a second bystander.  The checkpoint storage, which has no lock, is checked
  with three, and the probe store's finding needs three calls but two processes.
- *One fault* leaves every kind of residue (lock with and without a temporary
  file, whole or partial) for all later calls to meet; *two faults*, where the
  states allow them, let the next call fail on that residue as well.
- *Three revisions and two attempts* allow an adoption, an approval that makes
  the job READY again while it runs, and a second adoption, with late reports of
  the first attempt.  Changes of two jobs at the same time differ in nothing the
  store looks at: the compare is on the revision of the whole document, and the
  theorems hold for any number of jobs.
- *Room for two records* among five events makes deliveries meet a full ledger as
  well as one with room.  *Reminder windows of two ticks and one* put an event
  on, before and after the end of a window.  There is no bound on how often an
  event is handled again.
- *Three rows and batches of two* leave a row out of every selection, which
  rotation is about; with *two rows and batches of one* overlapping cycles still
  meet on a row and pass each other on different ones.
- *Three CI runs of two commits* give each observer a run of the right commit
  that repeats another, and one of the wrong commit that is red.  *Room for two
  records* lets both approvals fit; the refusal of a full file is one more
  refusal before anything is written, and the theorems are for every capacity.
- *Three capture times* give intervals below, within and above the policy's, and
  *four runs* both populations the history of two a review asks for, with one
  capture repeated.
- *A chain of three jobs* needs two rounds of the blocked loop.
- *Two new rows and a batch of two* put two rows into one query, which may stop
  between them; overlapping runs meet on both.  The third row is enabled and
  rechecked, and an import before the first export makes rows that wait.
- *Five collections with two backups kept* let the rotation remove a backup after
  one commit has failed.
- What is proved does not depend on any of these.

`StaysWhileListed` is about requests that fail as
`AffiliateRuntimeConnectorError`, files executed in part, and deaths.  The model has
malformed answers too, and the property leaves out the rows a cycle under way has
such an answer about: the code disables those though they are listed, which is the
third difference below.
`AcknowledgedStays` is claimed for calls that follow one another only, and
`EnabledAsAudited` for one cycle at a time, since nothing in the code compares
what it overwrites with what it selected.  `DailyRotation` holds only while fewer
rows are disabled than a batch has places: SELECT_SQL takes disabled rows first,
although `docs/policies/affiliate-local-lifecycle-revalidation-v0.1.md` speaks of
the five oldest.  `NothingLost` is claimed for commits that do not overlap: see
the fifth difference.

### Fairness

Weak fairness of the steps of a call already begun (`Proceed`, `Collect`,
`BackUp`) says that a process that is not killed goes on.  The code never waits
in a loop: every lock attempt answers at once or, in SQLite, after the busy
timeout, and every request has a timeout.  No fairness is assumed of new calls,
errors or crashes, of the catalogue, or of the operator.  In
`AffiliateRevalidation` fairness covers the start of the daily cycle too, because a
scheduled task starts one every day; a cycle by hand and the worker's may never
start.  Failures are bounded there, so rotation is shown for a provider that
recovers.  `RunsEnd` says that no collector stays at a run for ever; it may leave
the row running, when (`RunsConcluded`) and with what consequence
(`OrphanStopsAll`) are properties of their own.  The gates, the
probe's runs and the expansion are driven by people, so nothing is claimed to
happen there eventually.

## Proofs

The eight proof modules are for every number of workers, jobs, rows, runs and
objects, every contract, installation and window, and every bound.  They use only
the assumptions named in the modules: a queue is finite, ranks differ and
dependencies are acyclic (`JobCore`), the first document validates, at revision 0,
without references (`QueueDocument`), the bounds are numbers, values for "nothing"
are no data (`QueueStore`, `TemporalProbe`, `ExpansionRollout`, `ExpansionCommit`,
`CollectorRuns`, `ProbeStateStore`), there is an event, and windows are positive
(`NotificationRuntime`), the plan names each population once (`TemporalProbe`),
no two rows present at first share a content identifier (`ExpansionRollout`), an
installation's cycles are of one kind each and its batches not empty
(`AffiliateRevalidation`), at least one backup is kept (`ExpansionCommit`,
`CollectorRuns`), and what is made from what is a function (`DevelopmentGates`).

A proof module extends the components it is about.  Two components that share one
(`QueueStore` and `JobBoard`, `TemporalProbe` and `ProbeStateStore`,
`ExpansionCommit` and `CollectorRuns`) have names of their own for what both have:
`BoardSpec`, `StoreSpec`, `DailySpec` and the like.

- **QueueProofs, the store.** First the lock: `LockHeld` (whoever is between
  creation and unlinking of the lock finds it there) and with it
  `MutualExclusion`.  `StoreInv` adds that a loaded snapshot is older or still
  current (`BaseOld`), that between compare and replace nobody else touches
  document and temporary file (`Exclusive`), and that an answer about to be given
  is for a change that was made and was not answered for (`Written`).  From it
  follows that a `Replace` extends the document by one revision and that every
  step is a step of the ledger or a stutter: `StoreImplementsLedger`; that no
  operation gives attempts back, `StoreNeverBackwards`; and that a lock or
  temporary file nobody owns stops every later save, `StoreStaysWedged`.  The
  ledger's own invariant `LedgerInv` is proved in the same module.
  `UniqueAdoption` and `UniqueEnding` alone are not inductive: a new entry must
  differ from the old ones, which takes `PastOnly` (entries carry no attempt and
  no revision the queue has not reached) and `EndedNotRunning` (once the current
  attempt has ended the job does not run until a new attempt is adopted).  Through
  the refinement the ledger's theorems hold of the store, and give
  `StoreHistorySound` and `StoreDocumentSound`.  `StoreAnswersHonestly` needs one
  thing more, `NotWrittenYet`: a call that has not replaced the document answers
  for nothing it or another call has made.
- **QueueProofs, the board.** `SelectionUnique`: two jobs cannot both come first,
  since creation time and name order the jobs of one priority; `SelectionExists`:
  one does whenever any is eligible, since priorities and ranks are numbers and
  numbers have a least.  No operation makes an invalid job of a valid one.
  `BlockedIsIdle`: no member of `Stopped` is eligible, since it is a root, which
  is not READY, or depends on a member, which is not DONE.  `BoardInvariant` has
  one step per operation; `ResumeAgrees`, a part of it, needs no induction but
  follows from the types.  `BlockedStandsStill`: in a blocked queue every job not
  DONE is in `Stopped`, so nothing is eligible or running (`BlockedHalts`);
  only an adoption makes a job run and only a running job becomes done
  (`StepStates`), so while no root's blocker is lifted and no finished job reopened
  it stays that way, in any window (`HaltedIdle`, `HaltLasts`).
- **QueueProofs, the loop.** `LoopProvesStopped`: the loop of
  `assess_queue_blocked` proves exactly `Stopped` and takes its classes from the
  roots, for any number of jobs and any dependencies.  By induction over its
  turns: after each, what is proven is in `Stopped` and the roots' classes are
  untouched (`TurnsSound`), and either as many jobs are proven as turns were taken
  or nothing more will be (`TurnsProgress`), so that as many turns as there are
  jobs are enough.  The library's induction takes a predicate as a parameter,
  which the provers cannot instantiate; `Induction` says the same of *sets* of
  numbers and follows from the well-foundedness of `<`.  With the finiteness of a
  queue it gives `BlockedProofAlwaysSound`.
- **NotificationRuntimeProofs.** `RuntimeInv` is the exclusion of the ledger's
  lock (`LockHeld`, `OneTransaction`), that a transaction's reading and its
  decision to send are still current when it writes (`ReadingCurrent`), and that
  what is about to be recorded has arrived and what is about to be reported is
  recorded (`OutcomeTrue`).  `ReadingCurrent` is what makes `RemindersStaySpaced`
  true: the new record is a window away from all records, not only from those read.
  `NoRecordLost` and `StaysSilent` follow step by step.
- **CheckpointStorageProofs.** `StorageInv` is `OneWriter`, answers only for
  what is stored, and that an inspection in progress which met no error has found
  all it was told is active, and none of it damaged; from it residue and refinement.
- **DevelopmentGatesProofs.** `GatesInv` adds to what is claimed of evidence and
  approvals that one agent holds the lock (`OneHolder`), that what the holder has
  checked stays true until it is done (`HolderCurrent`), and that records share
  neither request nor target (`RecordsUnique`).  Without the second a replacement
  could record a request twice; without the third, `ReleasedOnce` would not
  follow.  Every step then consumes, releases, or leaves both alone
  (`StepKinds`), from which `SpentForGood` and the refinement follow.
- **TemporalProbeProofs.** `ProbeInv` is inductive with `PrefixStored` and
  `SummariesTrue`; the disk only grows, so genuine comparisons stay genuine.
  `PromotionAlwaysEarned` adds that a review's comparisons have different times
  (`DistinctTimes`, by an injection into the finite set of them).
  `RotationStaysInvisible` is a consequence of types: the newest state before any
  later time is among those the plan keeps.  Of `ProbeStateStore`, for any number
  of processes whose calls for a name follow one another (`[]Serial`): a call that
  is going to write or verify has found nothing acknowledged (`Writing`), whatever
  errors and deaths came before, so `StoredForGood` and `OneContentPerName`.  The
  hypothesis is needed: the finding below is what overlapping calls do.
- **CollectionProofs.** Of `ExpansionCommit`, whose `NothingLost` is the deepest
  property here.  `KeptInv` has to carry what a run has at hand (`Staged`), that
  the kept databases have numbers of their own (`Recorded`), that the clock is
  behind the copies made (`Counted`), and, as long as commits have not overlapped,
  that one is in progress at a time and saves what it replaces (`Alone`), that
  later backups are not of earlier databases (`Ordered`), and that what is still
  to be removed is older than `RETENTION_COUNT` others (`Pruning`).  The order of
  backup names is the order of time only because two collections are never in the
  same second; without `Counted` that would not be known.  Of
  `CollectorRuns`: `CollectorInv` says whose a run is (`RunOwned`), that the
  lock is held from the first write of a transaction to its commit and while
  copying (`LockHeld`), and that a copy is `Quiescent` before it is published;
  `TableOfRunsSound`, `BackupsShowNoRun` and `OrphanBlocks` rest on it.
- **AffiliateRevalidationProofs.** `RecheckInv` says of each cycle what goes with
  its place (`InPlace`), that what precedes the next statement of its file has
  been executed for that row (`FileInOrder`), that answers and files deny only
  what has been missing or was misread (`DeniedBefore`), and, where one cycle runs
  at a time, that nothing comes between an audit and the change of its row
  (`AuditedAlone`). Timestamps are ranks, so a cycle that takes the time renames
  all of them; `Reranked` shows that no audit is separated from its row or its
  cycle by that. `RoutesStayReady`, `EnabledOnAudit` and `ListedRowsStay` follow.
- **ExpansionRolloutProofs.** `RolloutInv` is about what a run believes of rows
  that other imports, rechecks and queries move. Any step lets rows only drift one
  way (`RowsDrift`: absent to inert to approved or refused) and only adds targets,
  events and movers (`RestDrifts`); `UntouchedKeeps` shows that a run's beliefs
  survive any drift, so only its own steps are left. `RechecksAlwaysPrevail`
  follows step by step from the guards of the statements.

Only model-checked: liveness (`CallsReturn`, `CyclesReturn`, `RunsEnd`,
`DailyRotation`), since the proof system reaches neither fairness nor
ENABLED.  What these rest on is safety, and proved (the statements stand beside
the liveness properties in the modules):

- Each access of its own brings a call nearer to its return, by whatever branch,
  and nothing others do takes it back: `CallsComeToAnEnd`, `CyclesComeToAnEnd` and
  `RunsComeToAnEnd`, from types alone.  Each gives what is left as a number for
  each place (`AccessesLeft`, `StagesLeft`).
- A collector with a running run meets no other writer (`NoOtherWriter`) and leaves
  the run running only by an error or beside a reader (`RunsAlwaysConcluded`): the
  lock is held for a commit or a copy and nothing else (`LockOwned`), either of which
  a running run of another's excludes, and what is reported has been recorded
  (`Settled`).
- Where one cycle runs at a time, a row waiting for its recheck is passed by no
  other (`NoRowPassed`): a cycle's rows get the time it took, and nothing is newer
  until it returns (`RotationInv`).

Left to TLC is that the next access is possible and gets taken.

## Finding

`probe_contended` ends in a violation.  **A contender removes the lock it failed
to take**: `lock_path` is set before the attempt, so the cleanup of the call that
found the lock taken unlinks it, and a third call enters beside the owner: two
contents are acknowledged for one name.

## Where code and documents differ

The models follow the code; these are the places where that is not what is
written, found on the way and not pursued by a run of their own.

1. An attempt is consumed at `os.replace` (`unattended_queue_persistence.py:486`);
`docs/policies/durable-execution-adoption-coordinator-v0.1.md:19` says only after
read-back. `QueueStore` has the attempt in the document from `Replace` on, and a
crash there leaves it consumed without an answer. 2. The size of the ledger is
checked after the message was sent (`notification_ledger.py:121`);
`docs/policies/persistent-notification-ledger-v0.1.md:32` says that exhaustion
fails closed. A message that does not fit is delivered and not recorded, and may
be delivered again. 3. An answer in JSON without an item list is read as an empty
one and disables the row (`affiliate_local_lifecycle_revalidation.py:254`);
`docs/policies/affiliate-revalidation-transient-failure-v0.1.md:10` calls a
malformed answer unconfirmed. 4. When production has changed by the end of an
isolated collection, the answer is BLOCKED with
`collection_only_storage_committed` False although the commit has happened
(`revenue_mvp_expansion_isolated_collection.py:224`). 5.
`docs/policies/revenue-mvp-public-expansion-readiness-v0.1.md:169` has a commit
back up an existing database before it replaces it. Commits that overlap can
replace a database neither of them has backed up, since nothing is locked
(`revenue_mvp_expansion_storage_commit.py`).

And two consequences no document speaks of.  A row the catalogue has denied at its
first check is in none of the states `revenue_mvp_expansion_initial_selection.py:94`
allows, so with a current export every later selection of the same delta is
blocked.  And a long read beside a collection (`collector_preflight.py:359`,
`backup-data-lab-db.py:450`, an analysis) can make its commit
(`collect-dmm-items.py:504`) and then its failure mark (`:224`, passed over at `:254`)
fail, which leaves a run behind that stops every later one.

## Not modelled

- What an adoption leaves behind when its caller died or was told
  EXECUTION_ADOPTION_UNCERTAIN: the job stays RUNNING, and no adoption result
  exists to end it with.  No code resolves it, so there is nothing to check.
- The file system's own volatility: `os.replace` without a directory
  synchronisation may be undone by a power loss.
- A collector's paging (one step, `Fetch`), and the print after the commit that
  can turn a recorded success into a failure (modelled as `CollectionFails` at
  "report", a run that is stored and failed; no property forbids it).
- The scheduled runner's lock around a notification cycle, and the category
  collection with its database of its own.
- The series of the later probe policy (`temporal_probe_series_*.py`), which are
  candidates nothing runs yet.
- Formats, wording, digests and validation of syntax.
- The larger part of the repository by lines: several hundred report and decision
  scripts that map evidence files to a verdict and keep no state; analysis and
  publishing, which compute derived tables and pages in one pass; migrations, run
  once by hand; the web front end.  Nothing in them is ordered against anything
  else, and a model of one would restate it, so the lines mapped are a small part
  of all lines although they are most of the code in which processes meet.

## Plan

1. `RunnerLock`: `scheduled_runtime_runner.py` run_once around a notification
   cycle, its lock and the check before it; composed with `NotificationRuntime`.
2. `CategoryRuns`: one transaction per source, the summary printed inside the
   `try` block, health and backup; and `CollectorPaging`: offsets, counts and
   limits against a catalogue that moves between pages.
3. Detail of `ExpansionRollout` shared with `AffiliateRevalidation`: late imports
   beside the recurring cycles, in place of the one-step recheck.
