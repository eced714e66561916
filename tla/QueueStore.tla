----------------------------- MODULE QueueStore -----------------------------
(***************************************************************************)
(* The durable queue as the code implements it: one JSON document, one     *)
(* O_EXCL lock file and one fixed-name temporary file                      *)
(* (scripts/unattended_queue_persistence.py), driven by any number of      *)
(* callers of the three durable coordinators                               *)
(* (durable_execution_adoption_, durable_job_completion_ and               *)
(* durable_job_failed_safe_coordinator.py) and of an operator who applies  *)
(* approvals or attaches checkpoint references through the same store.     *)
(*                                                                         *)
(* A worker is one call at a time.  Every file-system access another       *)
(* process could get between is a step of its own.  The calls a step makes *)
(* without touching shared files belong to that step.  A fault is an       *)
(* OSError of one access, or the death of the process at any step.         *)
(***************************************************************************)
EXTENDS QueueDocument

CONSTANTS
  NoTemp,      \* there is no temporary file
  PartialTemp, \* a temporary file left by a write that did not finish
  MaxFaults,   \* bound: OSErrors and process deaths in one behaviour
  MaxRevision  \* bound: no call starts once the queue reached this revision

VARIABLES
  queue,  \* content of unattended-queue-v0.1.json
  lock,   \* the lock file exists
  temp,   \* the temporary file: NoTemp, PartialTemp or a snapshot
  stored, \* checkpoint objects on disk
  pc,     \* the access a worker's call makes next
  call,   \* the arguments of that call
  base,   \* the snapshot the call loaded ("before")
  result, \* what the call is about to return once the lock is released
  commits, claims, \* history, as in JobLedger
  faults           \* faults so far

fileVars == <<queue, lock, temp>>
vars == <<queue, lock, temp, stored, pc, call, base, result,
          commits, claims, faults>>

Ledger == INSTANCE JobLedger

ASSUME BoundAssumption == MaxFaults \in Nat /\ MaxRevision \in Nat
ASSUME TempAssumption ==
  /\ NoTemp # PartialTemp
  /\ NoTemp \notin Snapshot
  /\ PartialTemp \notin Snapshot

Locations ==
  {"idle",     \* no call: next Start...
   "load",     \* load_queue looks for the lock and the temporary file
   "read",     \* load_queue reads the document, the coordinator decides
   "acquire",  \* save_queue creates the lock file
   "check",    \* under the lock: temporary file, current revision, references
   "write",    \* the temporary file is created, written and fsynced
   "replace",  \* os.replace onto the document
   "readBack", \* the document is read again and compared
   "release"}  \* the lock file is unlinked and the call returns

\* The lines of save_queue that run between creating and unlinking the lock.
Critical == {"check", "write", "replace", "readBack", "release"}

Results == {"none", "durable", "conflict", "uncertain", "blocked"}

Call == [op: Operations, job: Jobs, attempt: Nat,
         received: BOOLEAN, object: Objects \cup {NoObject}]

NoCall == [op |-> "adopt", job |-> CHOOSE j \in Jobs : TRUE, attempt |-> 0,
           received |-> FALSE, object |-> NoObject]

NoBase == [revision |-> 0,
           jobs |-> [j \in Jobs |-> [state |-> "READY", attempts |-> 0,
                                     approved |-> FALSE]],
           refs |-> [j \in Jobs |-> NoObject]]

-----------------------------------------------------------------------------
(* The coordinators' own decisions, on the snapshot they loaded *)

\* The job record a call would write.
Candidate(c, snapshot) ==
  LET rec == snapshot.jobs[c.job]
  IN CASE c.op = "adopt"    -> Adopted(rec)
       [] c.op = "complete" -> Completed(rec)
       [] c.op = "failSafe" -> FailedSafe(rec)
       [] c.op = "approve"  -> ApprovalApplied(c.job, rec, c.received)
       [] OTHER             -> rec

\* The snapshot handed to save_queue, already carrying the next revision.
Proposed(c, snapshot) ==
  Revised(snapshot,
          [snapshot.jobs EXCEPT ![c.job] = Candidate(c, snapshot)],
          IF c.op = "attach"
          THEN [snapshot.refs EXCEPT ![c.job] = c.object]
          ELSE snapshot.refs)

\* adopt_selected_job_durably up to its save, for one window and policy fact.
MayAdopt(c, snapshot, open, externalRead) ==
  /\ snapshot.refs[c.job] = NoObject
  /\ CanAdopt(snapshot.jobs, c.job, open, externalRead)

\* The completion and failed-safe coordinators up to their save.
MayFinish(c, snapshot) ==
  /\ snapshot.jobs[c.job].attempts = c.attempt
  /\ CanFinish(snapshot.jobs, c.job)

\* replace_active_checkpoint_ref: the same reference again is NO_CHANGE.
MayAttach(c, snapshot) ==
  c.object # NoObject /\ snapshot.refs[c.job] # c.object

\* What is accepted, with whatever the caller says of windows and policy.
Acceptable(c, snapshot) ==
  \/ /\ c.op = "adopt"
     /\ \E open \in SUBSET Jobs, externalRead \in BOOLEAN :
          MayAdopt(c, snapshot, open, externalRead)
  \/ c.op \in {"complete", "failSafe"} /\ MayFinish(c, snapshot)
  \/ c.op = "approve" /\ CanApprove(snapshot.jobs, c.job, c.received)
  \/ c.op = "attach" /\ MayAttach(c, snapshot)

\* What is refused; an adoption may be for want of a window or a policy only.
Refusable(c, snapshot) ==
  IF c.op = "adopt"
  THEN \E open \in SUBSET Jobs, externalRead \in BOOLEAN :
         ~ MayAdopt(c, snapshot, open, externalRead)
  ELSE ~ Acceptable(c, snapshot)

(***************************************************************************)
(* authenticate_executor_result followed by the input adapter: evidence of *)
(* an executor is routed to a coordinator only when an adoption result and *)
(* the evidence name the same generation; the outcome picks the route.     *)
(***************************************************************************)
Evidence ==
  [job: Jobs, attempt: UNION {1 .. Contract[j].maxAttempts : j \in Jobs},
   outcome: {"COMPLETED", "FAILED_SAFE"}]

\* Defect: any durable result passes for an adoption result.
AuthenticatedByAnyResult(adoption, evidence) ==
  /\ adoption.attempt >= 1 /\ adoption.revision >= 1
  /\ evidence.job = adoption.job
  /\ evidence.attempt = adoption.attempt

Authenticated(adoption, evidence) ==
  /\ adoption.op = "adopt"
  /\ adoption.attempt >= 1 /\ adoption.revision >= 1
  /\ evidence.job = adoption.job
  /\ evidence.attempt = adoption.attempt

Route(evidence) ==
  IF evidence.outcome = "COMPLETED" THEN "complete" ELSE "failSafe"

-----------------------------------------------------------------------------
(* Calls *)

Begin(w, c) ==
  /\ pc[w] = "idle"
  /\ queue.revision < MaxRevision
  /\ pc' = [pc EXCEPT ![w] = "load"]
  /\ call' = [call EXCEPT ![w] = c]
  /\ UNCHANGED <<fileVars, stored, base, result, commits, claims, faults>>

StartAdoption(w) ==
  \E j \in Jobs : Begin(w, [NoCall EXCEPT !.op = "adopt", !.job = j])

\* Executors are external: they may report any outcome of any generation,
\* late, twice or contradicting themselves.  What they report of a generation
\* without an adoption result is never routed.
StartEnding(w) ==
  \E adoption \in claims, evidence \in Evidence :
    /\ Authenticated(adoption, evidence)
    /\ Begin(w, [NoCall EXCEPT !.op = Route(evidence), !.job = evidence.job,
                               !.attempt = evidence.attempt])

StartApproval(w) ==
  \E j \in Jobs, received \in BOOLEAN :
    Begin(w, [NoCall EXCEPT !.op = "approve", !.job = j, !.received = received])

StartAttachment(w) ==
  \E j \in Jobs, object \in Objects :
    Begin(w, [NoCall EXCEPT !.op = "attach", !.job = j, !.object = object])

\* CheckpointStorage.save_checkpoint, seen from the queue: an object appears.
StoreObject(object) ==
  /\ object \notin stored
  /\ stored' = stored \cup {object}
  /\ UNCHANGED <<fileVars, pc, call, base, result, commits, claims, faults>>

\* The call returns or dies: its locals are gone.
Return(w) ==
  /\ pc' = [pc EXCEPT ![w] = "idle"]
  /\ call' = [call EXCEPT ![w] = NoCall]
  /\ base' = [base EXCEPT ![w] = NoBase]
  /\ result' = [result EXCEPT ![w] = "none"]

Continue(w, location) ==
  /\ pc' = [pc EXCEPT ![w] = location]
  /\ UNCHANGED <<call, base, result>>

LoadLook(w) ==
  /\ pc[w] = "load"
  /\ IF lock \/ temp # NoTemp
     THEN Return(w)
     ELSE Continue(w, "read")
  /\ UNCHANGED <<fileVars, stored, commits, claims, faults>>

\* An unsound reference makes load_queue refuse the whole document.
LoadRead(w) ==
  /\ pc[w] = "read"
  /\ IF ~ RefsSound(queue, stored)
     THEN Return(w)
     ELSE \/ /\ Acceptable(call[w], queue)
             /\ base' = [base EXCEPT ![w] = queue]
             /\ pc' = [pc EXCEPT ![w] = "acquire"]
             /\ UNCHANGED <<call, result>>
          \/ Refusable(call[w], queue) /\ Return(w)
  /\ UNCHANGED <<fileVars, stored, commits, claims, faults>>

-----------------------------------------------------------------------------
(* save_queue *)

\* Defect: the lock file is opened, not created exclusively.
AcquireShared(w) ==
  /\ pc[w] = "acquire"
  /\ lock' = TRUE
  /\ Continue(w, "check")
  /\ UNCHANGED <<queue, temp, stored, commits, claims, faults>>

\* Defect: a lock nobody seems to hold is taken over.
AcquireStale(w) ==
  /\ pc[w] = "acquire"
  /\ IF \E v \in Workers : pc[v] \in Critical
     THEN Return(w) /\ UNCHANGED lock
     ELSE lock' = TRUE /\ Continue(w, "check")
  /\ UNCHANGED <<queue, temp, stored, commits, claims, faults>>

\* Defect: a call waits for the lock instead of returning QUEUE_LOCKED.
AcquireWaiting(w) ==
  /\ pc[w] = "acquire"
  /\ ~ lock
  /\ lock' = TRUE
  /\ Continue(w, "check")
  /\ UNCHANGED <<queue, temp, stored, commits, claims, faults>>

Acquire(w) ==
  /\ pc[w] = "acquire"
  /\ IF lock
     THEN Return(w) /\ UNCHANGED lock
     ELSE lock' = TRUE /\ Continue(w, "check")
  /\ UNCHANGED <<queue, temp, stored, commits, claims, faults>>

\* Leave the critical section with this result once the lock is unlinked.
Conclude(w, status) ==
  /\ pc' = [pc EXCEPT ![w] = "release"]
  /\ result' = [result EXCEPT ![w] = status]
  /\ UNCHANGED <<call, base>>

\* Defect: an older revision passes the comparison.
CurrentOrOlder(w) == queue.revision >= base[w].revision

\* The compare of compare-and-set: the file still has the revision that was
\* loaded.  The proposed references and jobs are validated again.
Current(w) == queue.revision = base[w].revision

\* Defect: the proposed references are not checked under the lock.
CheckRevisionOnly(w) ==
  /\ pc[w] = "check"
  /\ IF temp # NoTemp
     THEN Conclude(w, "blocked")
     ELSE IF ~ Current(w)
     THEN Conclude(w, "conflict")
     ELSE Continue(w, "write")
  /\ UNCHANGED <<fileVars, stored, commits, claims, faults>>

Check(w) ==
  /\ pc[w] = "check"
  /\ IF temp # NoTemp
     THEN Conclude(w, "blocked")
     ELSE IF ~ Current(w)
     THEN Conclude(w, "conflict")
     ELSE IF \/ ~ RefsSound(Proposed(call[w], base[w]), stored)
             \/ ~ ValidQueue(Proposed(call[w], base[w]).jobs)
     THEN Conclude(w, "blocked")
     ELSE Continue(w, "write")
  /\ UNCHANGED <<fileVars, stored, commits, claims, faults>>

Write(w) ==
  /\ pc[w] = "write"
  /\ temp = NoTemp
  /\ temp' = Proposed(call[w], base[w])
  /\ Continue(w, "replace")
  /\ UNCHANGED <<queue, lock, stored, commits, claims, faults>>

Entry(w) ==
  [op |-> call[w].op, by |-> w, job |-> call[w].job,
   attempt |-> Candidate(call[w], base[w]).attempts,
   revision |-> base[w].revision + 1]

Replace(w) ==
  /\ pc[w] = "replace"
  /\ temp \notin {NoTemp, PartialTemp}
  /\ queue' = temp
  /\ temp' = NoTemp
  /\ commits' = commits \cup {Entry(w)}
  /\ Continue(w, "readBack")
  /\ UNCHANGED <<lock, stored, claims, faults>>

ReadBack(w) ==
  /\ pc[w] = "readBack"
  /\ Conclude(w, IF queue = Proposed(call[w], base[w])
                 THEN "durable" ELSE "uncertain")
  /\ UNCHANGED <<fileVars, stored, commits, claims, faults>>

Acknowledge(w) ==
  claims' = IF result[w] = "durable" THEN claims \cup {Entry(w)} ELSE claims

Release(w) ==
  /\ pc[w] = "release"
  /\ lock' = FALSE
  /\ Return(w)
  /\ Acknowledge(w)
  /\ UNCHANGED <<queue, temp, stored, commits, faults>>

-----------------------------------------------------------------------------
(* Faults *)

Fault ==
  /\ faults < MaxFaults
  /\ faults' = faults + 1

\* Reading the document raises: QUEUE_LOAD_FAILED before the lock is taken.
LoadFails(w) ==
  /\ Fault
  /\ pc[w] = "read"
  /\ Return(w)
  /\ UNCHANGED <<fileVars, stored, commits, claims>>

\* Creating the lock raises anything but FileExistsError: QUEUE_SAVE_FAILED.
AcquireFails(w) ==
  /\ Fault
  /\ pc[w] = "acquire"
  /\ Return(w)
  /\ UNCHANGED <<fileVars, stored, commits, claims>>

\* Defect: QUEUE_SAVE_FAILED is reported as a plain refusal.
SaveFailsPlainly(w) ==
  /\ Fault
  /\ pc[w] \in {"check", "write", "replace", "readBack"}
  /\ Conclude(w, "blocked")
  /\ \/ UNCHANGED temp
     \/ pc[w] = "write" /\ temp' \in {PartialTemp, Proposed(call[w], base[w])}
  /\ UNCHANGED <<queue, lock, stored, commits, claims>>

\* Any access inside the lock raises: QUEUE_SAVE_FAILED, and the temporary
\* file stays as far as it got.  After the replace the change is on disk.
SaveFails(w) ==
  /\ Fault
  /\ pc[w] \in {"check", "write", "replace", "readBack"}
  /\ Conclude(w, "uncertain")
  /\ \/ UNCHANGED temp
     \/ pc[w] = "write" /\ temp' \in {PartialTemp, Proposed(call[w], base[w])}
  /\ UNCHANGED <<queue, lock, stored, commits, claims>>

\* Unlinking the lock raises: the error is swallowed, the lock stays.
ReleaseFails(w) ==
  /\ Fault
  /\ pc[w] = "release"
  /\ Return(w)
  /\ Acknowledge(w)
  /\ UNCHANGED <<fileVars, stored, commits>>

\* The process dies: nothing is cleaned up, its caller hears nothing, and a
\* new process takes its place.
Crash(w) ==
  /\ Fault
  /\ pc[w] # "idle"
  /\ Return(w)
  /\ \/ UNCHANGED temp
     \/ pc[w] = "write" /\ temp' \in {PartialTemp, Proposed(call[w], base[w])}
  /\ UNCHANGED <<queue, lock, stored, commits, claims>>

-----------------------------------------------------------------------------

Init ==
  /\ queue \in Bootstraps
  /\ lock = FALSE
  /\ temp = NoTemp
  /\ stored = {}
  /\ pc = [w \in Workers |-> "idle"]
  /\ call = [w \in Workers |-> NoCall]
  /\ base = [w \in Workers |-> NoBase]
  /\ result = [w \in Workers |-> "none"]
  /\ commits = {}
  /\ claims = {}
  /\ faults = 0

Start(w) ==
  StartAdoption(w) \/ StartEnding(w) \/ StartApproval(w) \/ StartAttachment(w)

Proceed(w) ==
  \/ LoadLook(w) \/ LoadRead(w) \/ Acquire(w) \/ Check(w)
  \/ Write(w) \/ Replace(w) \/ ReadBack(w) \/ Release(w)

Disturb(w) ==
  \/ LoadFails(w) \/ AcquireFails(w) \/ SaveFails(w) \/ ReleaseFails(w)
  \/ Crash(w)

Next ==
  \/ \E w \in Workers : Start(w) \/ Proceed(w) \/ Disturb(w)
  \/ \E object \in Objects : StoreObject(object)

Spec == Init /\ [][Next]_vars

\* Nothing in a call waits: a process that is not killed runs to the return.
FairSpec == Spec /\ \A w \in Workers : WF_vars(Proceed(w))

-----------------------------------------------------------------------------
(* Properties *)

TypeOK ==
  /\ queue \in Snapshot
  /\ stored \subseteq Objects
  /\ commits \subseteq Commit
  /\ claims \subseteq Commit
  /\ lock \in BOOLEAN
  /\ temp \in Snapshot \cup {NoTemp, PartialTemp}
  /\ pc \in [Workers -> Locations]
  /\ call \in [Workers -> Call]
  /\ base \in [Workers -> Snapshot]
  /\ result \in [Workers -> Results]
  /\ faults \in Nat

\* The lock file excludes: at most one process is between creating and
\* unlinking it, whatever crashed before.
MutualExclusion ==
  \A v, w \in Workers : pc[v] \in Critical /\ pc[w] \in Critical => v = w

\* The store with its files and crashes does only what the ledger allows: no
\* lost update, no torn or half-applied change, nothing acknowledged twice or
\* without having happened.
ImplementsLedger == Ledger!Spec

\* Every revision was written by exactly one call (compare-and-set): two
\* calls that loaded the same revision never both get through.
OneCommitPerRevision ==
  /\ \A c, d \in commits : c.revision = d.revision => c = d
  /\ \A r \in 1 .. queue.revision : \E c \in commits : c.revision = r

\* No (job, attempt) generation is ever started twice, so no two workers can
\* both be told they own it.
UniqueAdoption == Ledger!UniqueAdoption

\* A generation is ended at most once, however often and contradictorily
\* executors report and however late the reports are.
UniqueEnding == Ledger!UniqueEnding

\* No generation is ended that was not adopted durably and acknowledged before.
EndingFollowsAdoption == Ledger!EndingFollowsAdoption

\* The document always passes the core's validation, so that a later load
\* does not refuse it.
QueueValid == Ledger!QueueValid

\* An active checkpoint reference names a stored object of its job, so that no
\* load refuses the document for want of it.
ActiveRefsSound == Ledger!ActiveRefsSound

\* The history anyone may rely on: one call per revision, and a generation of a
\* job started once, ended once, and ended only after it was known to run.
HistorySound ==
  /\ OneCommitPerRevision
  /\ UniqueAdoption
  /\ UniqueEnding
  /\ EndingFollowsAdoption

\* Attempts are never given back, and revisions go up one at a time, whatever
\* approvals arrive when.
NeverBackwards == Ledger!NeverBackwards

\* No operation of the core turns a valid queue into one the validation under
\* the lock would refuse: what a coordinator accepted is never rejected late.
ProposalsValid ==
  \A w \in Workers :
    pc[w] \in {"acquire", "check", "write", "replace"} =>
      ValidQueue(Proposed(call[w], base[w]).jobs)

\* The document can always be loaded, and so can the one a coordinator is about
\* to save: it passes the core's validation and its references are stored.
DocumentSound ==
  /\ QueueValid
  /\ ActiveRefsSound
  /\ ProposalsValid

\* What a call is about to say is true of the disk: a conflict or a refusal
\* changed nothing, "durable" changed it.  Only "uncertain" leaves both open.
HonestReturn ==
  \A w \in Workers :
    /\ result[w] = "durable" => Entry(w) \in commits
    /\ result[w] \in {"conflict", "blocked"} => Entry(w) \notin commits

\* A lock whose owner is gone, or a temporary file nobody is going to rename.
Wedged ==
  \/ lock /\ \A w \in Workers : pc[w] \notin Critical
  \/ temp # NoTemp /\ \A w \in Workers : pc[w] # "replace"

\* Fail closed: once wedged the store stays wedged and unchanged; no call
\* takes over a stale lock or removes residue by itself.
WedgedForever == [][Wedged => Wedged' /\ queue' = queue]_vars

\* Every call returns, also when others crash holding the lock: nobody waits.
CallsReturn == \A w \in Workers : pc[w] # "idle" ~> pc[w] = "idle"

\* What makes calls return, fairness apart: each access of its own shortens a
\* call, by whatever branch it goes, and nothing anybody does lengthens it.
AccessesLeft ==
  [idle |-> 0, release |-> 1, readBack |-> 2, replace |-> 3, write |-> 4,
   check |-> 5, acquire |-> 6, read |-> 7, load |-> 8]

CallsAdvance ==
  [][\A w \in Workers :
       /\ Proceed(w) => AccessesLeft[pc'[w]] < AccessesLeft[pc[w]]
       /\ pc[w] # "idle" => AccessesLeft[pc'[w]] <= AccessesLeft[pc[w]]]_vars

-----------------------------------------------------------------------------
(* The inductive invariant behind these properties *)

LockHeld == \A w \in Workers : pc[w] \in Critical => lock

\* A loaded snapshot is an older one or still the current one.
BaseOld ==
  \A w \in Workers :
    pc[w] \in {"acquire", "check", "write", "replace"} =>
      /\ Acceptable(call[w], base[w])
      /\ base[w].revision <= queue.revision
      /\ base[w].revision = queue.revision => base[w] = queue

\* Between the compare and the replace nobody else changes the document, and
\* the temporary file is the caller's own.
Exclusive ==
  \A w \in Workers :
    /\ pc[w] \in {"write", "replace"} =>
         Current(w) /\ RefsSound(Proposed(call[w], base[w]), stored)
    /\ pc[w] = "write" => temp = NoTemp
    /\ pc[w] = "replace" => temp = Proposed(call[w], base[w])

\* A change about to be reported durable happened and was never reported yet.
Unreported(w) ==
  \/ pc[w] = "readBack"
  \/ pc[w] = "release" /\ result[w] = "durable"

Written ==
  /\ claims \subseteq commits
  /\ \A w \in Workers : Unreported(w) => Entry(w) \in commits \ claims

\* A call that ends an attempt still holds that attempt's adoption result.
EndingAuthorized ==
  \A w \in Workers :
    pc[w] # "idle" /\ call[w].op \in {"complete", "failSafe"} =>
      Ledger!AdoptionClaimed(call[w].job, call[w].attempt)

\* A result is decided just before the lock is unlinked; and until a call has
\* replaced the document, all its process ever wrote is in what it loaded.
NotWrittenYet ==
  \A w \in Workers :
    /\ result[w] # "none" => pc[w] = "release"
    /\ \/ pc[w] \in {"acquire", "check", "write", "replace"}
       \/ result[w] \in {"conflict", "blocked"}
       => \A c \in commits : c.by = w => c.revision <= base[w].revision

\* No entry carries a revision the document has not reached.
Reached == \A c \in commits : c.revision <= queue.revision

StoreInv ==
  /\ TypeOK
  /\ LockHeld
  /\ MutualExclusion
  /\ BaseOld
  /\ Exclusive
  /\ Written
  /\ EndingAuthorized
  /\ Reached

=============================================================================
