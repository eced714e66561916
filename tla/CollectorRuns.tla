--------------------------- MODULE CollectorRuns ---------------------------
(***************************************************************************)
(* The runs of the collector (scripts/collect-dmm-items.py) and the daily  *)
(* backup (backup-data-lab-db.py) on one SQLite database.  A collector     *)
(* looks for active runs (collector_preflight.run_preflight), claims a run *)
(* in a row of its own (claim_native_run), fetches every page with no      *)
(* transaction open, stores all of it and the row's success in one         *)
(* transaction, and otherwise marks the row failed (mark_run_failed).      *)
(* The row outlives its process: a collector that dies, or cannot mark its *)
(* row, leaves it running for good.                                        *)
(*                                                                         *)
(* SQLite is external, with the rollback journal no code here changes: one *)
(* connection at a time holds the write lock, a transaction commits as a   *)
(* whole or not at all, and readers see the last commit.  A reader shares  *)
(* a lock while a statement of its runs, and no commit happens meanwhile.  *)
(* Who waits for a lock too long is refused.  The age of a running row     *)
(* decides only which refusal is reported, so there is no clock; what a    *)
(* run stores is all of what it fetched.                                   *)
(***************************************************************************)
EXTENDS Naturals, Sequences

CONSTANTS
  Collectors,     \* processes that make one collection at a time
  BackupProcess,  \* the process that makes one backup at a time
  Nobody,         \* the write lock is free
  Runs,           \* collection run identifiers, each used at most once
  RetentionCount, \* how many backups rotation keeps
  MaxBackups,     \* bound: no backup starts when so many are kept
  MaxErrors       \* bound: errors and deaths

ASSUME ProcessAssumption ==
  /\ BackupProcess \notin Collectors
  /\ Nobody \notin Collectors \cup {BackupProcess}

ASSUME BoundAssumption ==
  RetentionCount \in Nat \ {0} /\ {MaxBackups, MaxErrors} \subseteq Nat

VARIABLES
  status,  \* the status of each row of collection_runs, "none" without row
  stored,  \* the runs whose snapshots are in the database
  writer,  \* who holds the write lock
  place,   \* what a process does next
  run,     \* the run a collector is at, if it has claimed one
  copy,    \* the temporary backup file
  published, \* the backups, the newest last
  errors

database == <<status, stored, writer>>
dailyVars == <<status, stored, writer, place, run, copy, published, errors>>

Processes == Collectors \cup {BackupProcess}

Status == {"none", "running", "success", "failed"}

Content == [status : [Runs -> Status], stored : SUBSET Runs]

Stages ==
  {"idle",
   "look",    \* run_preflight reads the whole database
   "claim",   \* claim_native_run
   "fetch",   \* the pages are requested
   "store",   \* the first statement of the transaction takes the lock
   "commit",  \* the transaction has written all and commits
   "report",  \* the results are printed
   "fail",    \* mark_run_failed
   "validate", \* the backup reads the whole database, before any lock
   "lock",    \* the backup takes the write lock and looks for running runs
   "copy",    \* the database is copied under the lock
   "publish"} \* the copy is validated, renamed and old ones are removed

Running == {r \in Runs : status[r] = "running"}

GoesTo(p, location) == place' = [place EXCEPT ![p] = location]

\* Statement by statement these share a lock: a commit beside them may happen
\* between two statements, or be refused because one takes too long.
Scanning == {p \in Processes : place[p] \in {"look", "validate"}}

-----------------------------------------------------------------------------
(* Collection *)

\* A collector starts, and reads.
BeginPreflight(c) ==
  /\ place[c] = "idle"
  /\ GoesTo(c, "look")
  /\ UNCHANGED <<database, run, copy, published, errors>>

\* The running rows are read last.  Any, young or stale, stops the collector
\* (ACTIVE_NATIVE_RUN_EXISTS or STALE_OR_ANOMALOUS_RUNNING_RUN), and so do the
\* other findings: the schema, the integrity, the disk.
Preflight(c) ==
  /\ place[c] = "look"
  /\ \/ Running = {} /\ GoesTo(c, "claim")
     \/ GoesTo(c, "idle")
  /\ UNCHANGED <<database, run, copy, published, errors>>

\* Defect: the claim relies on what the preflight saw.
ClaimUnchecked(c) ==
  /\ place[c] = "claim"
  /\ writer = Nobody
  /\ \E r \in Runs :
       /\ status[r] = "none"
       /\ status' = [status EXCEPT ![r] = "running"]
       /\ run' = [run EXCEPT ![c] = r]
  /\ GoesTo(c, "fetch")
  /\ UNCHANGED <<stored, writer, copy, published, errors>>

\* Defect: a claim ends the run it finds and starts its own.
ClaimTakingOver(c) ==
  /\ place[c] = "claim"
  /\ writer = Nobody
  /\ \E r \in Runs :
       /\ status[r] = "none"
       /\ status' = [q \in Runs |-> IF q = r THEN "running"
                                   ELSE IF q \in Running THEN "failed"
                                   ELSE status[q]]
       /\ run' = [run EXCEPT ![c] = r]
  /\ GoesTo(c, "fetch")
  /\ UNCHANGED <<stored, writer, copy, published, errors>>

\* BEGIN IMMEDIATE, the count, the row and the commit are one transaction.
ClaimRun(c) ==
  /\ place[c] = "claim"
  /\ writer = Nobody
  /\ \/ /\ Running = {}
        /\ \E r \in Runs :
             /\ status[r] = "none"
             /\ status' = [status EXCEPT ![r] = "running"]
             /\ run' = [run EXCEPT ![c] = r]
        /\ GoesTo(c, "fetch")
     \/ /\ Running # {}
        /\ GoesTo(c, "idle")
        /\ UNCHANGED <<status, run>>
  /\ UNCHANGED <<stored, writer, copy, published, errors>>

\* DB_CLAIM_FAILED: the lock was held, or the commit kept off, for too long.
ClaimBusy(c) ==
  /\ place[c] = "claim"
  /\ writer # Nobody \/ Scanning # {}
  /\ GoesTo(c, "idle")
  /\ UNCHANGED <<database, run, copy, published, errors>>

\* All pages are fetched and valid, or CollectionFailure is raised.
Fetch(c) ==
  /\ place[c] = "fetch"
  /\ GoesTo(c, "store") \/ GoesTo(c, "fail")
  /\ UNCHANGED <<database, run, copy, published, errors>>

\* The items and snapshots are written but not committed.  By WriterFree no
\* other writer is ever in the way; readers are not here, but see CommitBusy.
StoreRows(c) ==
  /\ place[c] = "store"
  /\ writer = Nobody
  /\ writer' = c
  /\ GoesTo(c, "commit")
  /\ UNCHANGED <<status, stored, run, copy, published, errors>>

\* The snapshots and the row's success appear together.
CommitRun(c) ==
  /\ place[c] = "commit"
  /\ stored' = stored \cup {run[c]}
  /\ status' = [status EXCEPT ![run[c]] = "success"]
  /\ writer' = Nobody
  /\ GoesTo(c, "report")
  /\ UNCHANGED <<run, copy, published, errors>>

\* Defect: a commit that is kept off is tried again until it is not.
CommitRetrying(c) ==
  /\ place[c] = "commit"
  /\ Scanning # {}
  /\ writer' = Nobody
  /\ GoesTo(c, "store")
  /\ UNCHANGED <<status, stored, run, copy, published, errors>>

\* A reader keeps the commit off for too long: "with connection" rolls back and
\* raises, and main goes on to mark_run_failed.
CommitBusy(c) ==
  /\ place[c] = "commit"
  /\ Scanning # {}
  /\ writer' = Nobody
  /\ GoesTo(c, "fail")
  /\ UNCHANGED <<status, stored, run, copy, published, errors>>

Report(c) ==
  /\ place[c] = "report"
  /\ GoesTo(c, "idle")
  /\ UNCHANGED <<database, run, copy, published, errors>>

\* The row is updated whatever it says by now.
MarkFailed(c) ==
  /\ place[c] = "fail"
  /\ writer = Nobody
  /\ status' = [status EXCEPT ![run[c]] = "failed"]
  /\ GoesTo(c, "idle")
  /\ UNCHANGED <<stored, writer, run, copy, published, errors>>

\* An error of the database is passed over: the row stays running.
MarkFailedBusy(c) ==
  /\ place[c] = "fail"
  /\ writer # Nobody \/ Scanning # {}
  /\ GoesTo(c, "idle")
  /\ UNCHANGED <<database, run, copy, published, errors>>

-----------------------------------------------------------------------------
(* Backup *)

BeginBackup ==
  /\ place[BackupProcess] = "idle"
  /\ Len(published) < MaxBackups
  /\ GoesTo(BackupProcess, "validate")
  /\ UNCHANGED <<database, run, copy, published, errors>>

\* main validates the database before perform_backup: ACTIVE_NATIVE_RUN, or
\* another finding, or a dry run ends it here.
Prepare ==
  /\ place[BackupProcess] = "validate"
  /\ \/ Running = {} /\ GoesTo(BackupProcess, "lock")
     \/ GoesTo(BackupProcess, "idle")
  /\ UNCHANGED <<database, run, copy, published, errors>>

\* Defect: the runs are not looked at again under the lock.
LockUnchecked ==
  /\ place[BackupProcess] = "lock"
  /\ writer = Nobody
  /\ writer' = BackupProcess
  /\ GoesTo(BackupProcess, "copy")
  /\ UNCHANGED <<status, stored, run, copy, published, errors>>

Lock ==
  /\ place[BackupProcess] = "lock"
  /\ writer = Nobody
  /\ IF Running = {}
     THEN writer' = BackupProcess /\ GoesTo(BackupProcess, "copy")
     ELSE GoesTo(BackupProcess, "idle") /\ UNCHANGED writer
  /\ UNCHANGED <<status, stored, run, copy, published, errors>>

\* SOURCE_DATABASE_BUSY
LockBusy ==
  /\ place[BackupProcess] = "lock"
  /\ writer # Nobody
  /\ GoesTo(BackupProcess, "idle")
  /\ UNCHANGED <<database, run, copy, published, errors>>

CopyDatabase ==
  /\ place[BackupProcess] = "copy"
  /\ copy' = [status |-> status, stored |-> stored]
  /\ writer' = Nobody
  /\ GoesTo(BackupProcess, "publish")
  /\ UNCHANGED <<status, stored, run, published, errors>>

Newest(s) ==
  IF Len(s) > RetentionCount THEN SubSeq(s, Len(s) - RetentionCount + 1, Len(s)) ELSE s

\* Old files that cannot be removed are only a warning.
PublishBackup ==
  /\ place[BackupProcess] = "publish"
  /\ published' \in {Append(published, copy), Newest(Append(published, copy))}
  /\ GoesTo(BackupProcess, "idle")
  /\ UNCHANGED <<database, run, copy, errors>>

-----------------------------------------------------------------------------
(* Faults *)

Fault ==
  /\ errors < MaxErrors
  /\ errors' = errors + 1

\* An error: of the database in the transaction, which is rolled back, or of
\* the output when the transaction has been committed.
CollectionFails(c) ==
  /\ Fault
  /\ place[c] \in {"store", "commit", "report"}
  /\ writer' = IF writer = c THEN Nobody ELSE writer
  /\ GoesTo(c, "fail")
  /\ UNCHANGED <<status, stored, run, copy, published>>

\* Claiming, marking, reporting on stderr, or the process itself fails; for
\* the backup, any step.  SQLite undoes what was not committed.
Fails(p) ==
  /\ Fault
  /\ place[p] # "idle"
  /\ writer' = IF writer = p THEN Nobody ELSE writer
  /\ GoesTo(p, "idle")
  /\ UNCHANGED <<status, stored, run, copy, published>>

-----------------------------------------------------------------------------

NothingCopied == [status |-> [r \in Runs |-> "none"], stored |-> {}]

DailyInit ==
  /\ status = [r \in Runs |-> "none"]
  /\ stored = {}
  /\ writer = Nobody
  /\ place = [p \in Processes |-> "idle"]
  /\ run \in [Collectors -> Runs]
  /\ copy = NothingCopied
  /\ published = <<>>
  /\ errors = 0

CollectorStep(c) ==
  \/ Preflight(c) \/ ClaimRun(c) \/ ClaimBusy(c) \/ Fetch(c) \/ StoreRows(c)
  \/ CommitRun(c) \/ CommitBusy(c) \/ Report(c) \/ MarkFailed(c)
  \/ MarkFailedBusy(c)

BackUp == Prepare \/ Lock \/ LockBusy \/ CopyDatabase \/ PublishBackup

DailyNext ==
  \/ \E c \in Collectors :
       BeginPreflight(c) \/ CollectorStep(c) \/ CollectionFails(c)
  \/ BeginBackup \/ BackUp
  \/ \E p \in Processes : Fails(p)

DailySpec == DailyInit /\ [][DailyNext]_dailyVars

\* Requests time out and a wait for a lock ends, so a process that has begun
\* and is not killed goes on; nobody has to begin.
FairSpec ==
  /\ DailySpec
  /\ \A c \in Collectors : WF_dailyVars(CollectorStep(c))
  /\ WF_dailyVars(BackUp)

-----------------------------------------------------------------------------
(* Properties *)

DailyTypeOK ==
  /\ status \in [Runs -> Status]
  /\ stored \subseteq Runs
  /\ writer \in Processes \cup {Nobody}
  /\ place \in [Processes -> Stages]
  /\ run \in [Collectors -> Runs]
  /\ copy \in Content
  /\ published \in Seq(Content)
  /\ errors \in 0 .. MaxErrors

\* However preflights and claims interleave, one run is active at a time.
OneActiveRun == \A r, s \in Running : r = s

\* A run appears whole or not at all: nothing of a running one is stored, all
\* of a successful one is.
StoredWithSuccess ==
  /\ Running \cap stored = {}
  /\ {r \in Runs : status[r] = "success"} \subseteq stored

\* The table of runs tells what happened: one at a time, each with its snapshots.
RunsSound ==
  /\ DailyTypeOK
  /\ OneActiveRun
  /\ StoredWithSuccess

\* A backup is taken between runs: none that is published shows a run under
\* way or a run whose outcome and snapshots disagree.
BackupsQuiescent ==
  \A i \in DOMAIN published : \A r \in Runs :
    /\ published[i].status[r] # "running"
    /\ published[i].status[r] = "success" => r \in published[i].stored

\* Between its claim and its last statement a run is a collector's.
HasRun(c) == place[c] \in {"fetch", "store", "commit", "report", "fail"}

\* A run whose collector is gone stops every later collection: no run is
\* claimed and no snapshot stored any more (nor, by BackupsQuiescent, is a
\* backup published that was not copied before).
Orphaned(r) ==
  /\ status[r] = "running"
  /\ \A c \in Collectors : HasRun(c) => run[c] # r

OrphanStopsAll ==
  [][(\E r \in Runs : Orphaned(r)) =>
       Running' \subseteq Running /\ UNCHANGED stored]_dailyVars

\* No collector stays at its run for ever, whatever backups, scans and other
\* collectors do: the run's outcome is recorded, or nobody is at it any more.
RunsEnd ==
  \A r \in Runs : status[r] = "running" ~> status[r] # "running" \/ Orphaned(r)

\* And that second outcome, a run left running for good, takes an error or a
\* reader beside the run: neither a backup nor another collector that writes
\* ever keeps a collector from recording how its run went.
RunsConcluded ==
  [][\A c \in Collectors :
       HasRun(c) /\ ~ HasRun(c)' /\ status'[run[c]] = "running" =>
         errors' > errors \/ Scanning # {}]_dailyVars

\* For no other writer is ever in the way of a collector whose run is running,
\* when it wants to store or to record a failure (readers may be: Scanning).
WriterFree ==
  \A c \in Collectors :
    place[c] \in {"store", "fail"} /\ status[run[c]] = "running" =>
      writer = Nobody

\* Each step of a collector brings it nearer to its return.
StagesLeft ==
  [idle |-> 0, fail |-> 1, report |-> 2, commit |-> 3, store |-> 4,
   fetch |-> 5, claim |-> 6, look |-> 7,
   publish |-> 1, copy |-> 2, lock |-> 3, validate |-> 4]

StagesAdvance ==
  [][\A c \in Collectors :
       /\ CollectorStep(c) => StagesLeft[place'[c]] < StagesLeft[place[c]]
       /\ place[c] # "idle" => StagesLeft[place'[c]] <= StagesLeft[place[c]]]_dailyVars

-----------------------------------------------------------------------------
(* Why the properties hold *)

\* A run is of one collector, and as far as that one knows.
RunOwned ==
  /\ \A c, d \in Collectors : HasRun(c) /\ HasRun(d) /\ run[c] = run[d] => c = d
  /\ \A c \in Collectors : HasRun(c) => status[run[c]] # "none"
  /\ \A c \in Collectors :
       place[c] \in {"fetch", "store", "commit"} => status[run[c]] = "running"

\* What is stored has been committed, though its row may say failed by now.
StoredEnded == \A r \in stored : status[r] \in {"success", "failed"}

\* The lock is held from the first write to the commit, and while copying; no
\* run begins under it.
LockHeld ==
  /\ \A c \in Collectors : place[c] = "commit" => writer = c
  /\ place[BackupProcess] = "copy" => writer = BackupProcess /\ Running = {}

\* And it is held for nothing else.
LockOwned ==
  writer # Nobody =>
    \/ writer \in Collectors /\ place[writer] = "commit"
    \/ writer = BackupProcess /\ place[writer] = "copy"

\* What is reported has been recorded.
Settled == \A c \in Collectors : place[c] = "report" => status[run[c]] # "running"

Quiescent(content) ==
  \A r \in Runs :
    /\ content.status[r] # "running"
    /\ content.status[r] = "success" => r \in content.stored

CollectorInv ==
  /\ DailyTypeOK
  /\ OneActiveRun
  /\ StoredWithSuccess
  /\ RunOwned
  /\ StoredEnded
  /\ LockHeld
  /\ Quiescent(copy)
  /\ BackupsQuiescent

=============================================================================
