-------------------------- MODULE DevelopmentGates --------------------------
(***************************************************************************)
(* The evidence chain that lets a development gate follow another          *)
(* (scripts/development_*.py): a checkpoint, its tests, the commit and     *)
(* push, the CI run and, where the gate asks for it, a remote approval     *)
(* that is consumed durably before it counts.  Agents collect the evidence *)
(* from observations that are true but may be late or about other work;    *)
(* they share the replay store of consumed approvals, with its lock file,  *)
(* its temporary file and its revision, and may die between any two        *)
(* accesses.                                                               *)
(*                                                                         *)
(* An observation that is refused, pending or failed changes nothing, so   *)
(* only the accepted ones are actions.                                     *)
(***************************************************************************)
EXTENDS Integers, FiniteSets

CONSTANTS
  Agents,      \* processes, each moving one gate forward
  Gates,       \* pairs of a current and a next gate
  Approving,   \* gates whose callers require an approval
  Checkpoints, Tiers, Commits, Runs, Requests,
  None,        \* a field without evidence, no record in hand
  MadeFrom,    \* the checkpoint and the test tier a commit was made from
  HeadOf,      \* the commit a CI run is of
  Passes,      \* the checkpoints and tiers whose tests pass
  Green,       \* the CI runs whose jobs all succeed
  Snapshots,   \* usage snapshots a start may be given
  Capacity,    \* records the store's file has room for
  MaxFaults    \* bound: errors of the file system and deaths

ASSUME WorldAssumption ==
  /\ Approving \subseteq Gates
  /\ MadeFrom \in [Commits -> Checkpoints \X Tiers]
  /\ HeadOf \in [Runs -> Commits]
  /\ Passes \subseteq Checkpoints \X Tiers
  /\ Green \subseteq Runs
  /\ None \notin Checkpoints \cup Tiers \cup Commits \cup Runs
  /\ Capacity \in Nat /\ MaxFaults \in Nat

VARIABLES
  evidence, \* what each agent has evidence of
  store,    \* the replay file: its revision and its records
  lock,     \* the lock file exists
  temp,     \* the state of the temporary file
  pc,       \* the access an agent's approval call makes next
  expected, \* the revision its caller expects
  record,   \* the record it saves
  releases, \* history: how often each request's approval was released
  faults

files == <<store, lock, temp>>
call == <<expected, record>>
vars == <<evidence, store, lock, temp, pc, expected, record, releases, faults>>

Targets == [gate : Gates, commit : Commits, run : Runs]
Records == [request : Requests, target : Targets]

Evidence ==
  [gate : Gates, checkpoint : Checkpoints \cup {None}, tier : Tiers \cup {None},
   commit : Commits \cup {None}, run : Runs \cup {None},
   approval : {"NONE", "NOT_REQUIRED", "REQUIRED", "APPROVED"}]

NoEvidence(g) ==
  [gate |-> g, checkpoint |-> None, tier |-> None, commit |-> None,
   run |-> None, approval |-> "NONE"]

\* evaluate: the one stage that is missing next.
Stage(e) ==
  IF e.checkpoint = None THEN "CHECKPOINT_REQUIRED"
  ELSE IF e.tier = None THEN "TEST_REQUIRED"
  ELSE IF e.commit = None THEN "COMMIT_PUSH_REQUIRED"
  ELSE IF e.run = None THEN "CI_REQUIRED"
  ELSE IF e.approval = "REQUIRED" THEN "APPROVAL_REQUIRED"
  ELSE "NEXT_GATE_READY"

TargetOf(e) == [gate |-> e.gate, commit |-> e.commit, run |-> e.run]

Locations ==
  {"idle",
   "look",     \* lock_path.exists()
   "lookTemp", \* temp_path.exists()
   "read",     \* the file is read, the observation judged
   "acquire",  \* os.open(lock, O_CREAT | O_EXCL)
   "check",    \* the checks under the lock
   "create",   \* temp.open("xb")
   "fill",     \* the content is written and synchronised
   "replace",  \* os.replace
   "readback", \* the file is read again
   "return",   \* the lock is unlinked, SAVED is returned
   "abandon"}  \* the lock is unlinked, another result is returned

\* Between these locations the lock file is this agent's.
Holding ==
  {"check", "create", "fill", "replace", "readback", "return", "abandon"}

Goto(a, location) == pc' = [pc EXCEPT ![a] = location]

\* The call returns, and its locals are gone.
Return(a) ==
  /\ Goto(a, "idle")
  /\ expected' = [expected EXCEPT ![a] = 0]
  /\ record' = [record EXCEPT ![a] = None]

\* The coordinator calls one adapter, the one for the stage.
Coordinates(a, stage) == pc[a] = "idle" /\ Stage(evidence[a]) = stage

Observed(a, e) ==
  /\ evidence' = [evidence EXCEPT ![a] = e]
  /\ UNCHANGED <<files, pc, call, releases, faults>>

-----------------------------------------------------------------------------
(* The observers *)

ObserveCheckpoint(a, c) ==
  /\ Coordinates(a, "CHECKPOINT_REQUIRED")
  /\ Observed(a, [evidence[a] EXCEPT !.checkpoint = c])

\* Defect: the tests of another checkpoint are accepted.
ObserveAnyTests(a, c, t) ==
  /\ Coordinates(a, "TEST_REQUIRED")
  /\ <<c, t>> \in Passes
  /\ Observed(a, [evidence[a] EXCEPT !.tier = t])

ObserveTests(a, c, t) ==
  /\ Coordinates(a, "TEST_REQUIRED")
  /\ c = evidence[a].checkpoint
  /\ <<c, t>> \in Passes
  /\ Observed(a, [evidence[a] EXCEPT !.tier = t])

ObservePush(a, m) ==
  /\ Coordinates(a, "COMMIT_PUSH_REQUIRED")
  /\ MadeFrom[m] = <<evidence[a].checkpoint, evidence[a].tier>>
  /\ Observed(a, [evidence[a] EXCEPT !.commit = m])

\* approval_required is the caller's policy for the gate.
Policy(g) == IF g \in Approving THEN "REQUIRED" ELSE "NOT_REQUIRED"

ObserveCI(a, r) ==
  /\ Coordinates(a, "CI_REQUIRED")
  /\ MadeFrom[HeadOf[r]] = <<evidence[a].checkpoint, evidence[a].tier>>
  /\ HeadOf[r] = evidence[a].commit
  /\ r \in Green
  /\ Observed(a, [evidence[a] EXCEPT !.run = r,
                              !.approval = Policy(evidence[a].gate)])

\* The snapshot of the usage that is left is not of the future nor stale.
SnapshotFresh(u) == u.age \in 0 .. 300

\* What is left, in percent, protects the reserve.
UsagePermits(u) ==
  /\ u.reserveProtected
  /\ u.fiveHour > 10 /\ u.weekly > 15
  /\ u.size = "LARGE" => u.fiveHour > 15 /\ u.weekly > 20

\* The next gate starts, and with it another chain of evidence.  The start
\* may be refused or uncertain, and nothing then changes.
StartNextGate(a, g) ==
  /\ Coordinates(a, "NEXT_GATE_READY")
  /\ \E u \in Snapshots : SnapshotFresh(u) /\ UsagePermits(u)
  /\ Observed(a, NoEvidence(g))

-----------------------------------------------------------------------------
(* The durable approval: load, observe, save *)

\* The caller binds the revision it knows of to one observation.
RequestApproval(a) ==
  /\ Coordinates(a, "APPROVAL_REQUIRED")
  /\ expected' = [expected EXCEPT ![a] = store.revision]
  /\ Goto(a, "look")
  /\ UNCHANGED <<evidence, files, record, releases, faults>>

\* LOCKED, or on to the temporary file.
Look(a) ==
  /\ pc[a] = "look"
  /\ IF lock THEN Return(a) ELSE Goto(a, "lookTemp") /\ UNCHANGED call
  /\ UNCHANGED <<evidence, files, releases, faults>>

\* MANUAL_REVIEW_REQUIRED, or on to the file.
LookTemp(a) ==
  /\ pc[a] = "lookTemp"
  /\ IF temp # "absent" THEN Return(a) ELSE Goto(a, "read") /\ UNCHANGED call
  /\ UNCHANGED <<evidence, files, releases, faults>>

Consumed(request) == \E seen \in store.records : seen.request = request

\* A revision that moved, a consumed request, or an observation that is
\* pending, denied, stale or of another target ends the call.
Refused(a) ==
  /\ pc[a] = "read"
  /\ Return(a)
  /\ UNCHANGED <<evidence, files, releases, faults>>

RecordOf(e, request) == [request |-> request, target |-> TargetOf(e)]

\* An approval of exactly this evidence, decided in the last 300 seconds.
Accepted(a, request) ==
  /\ pc[a] = "read"
  /\ store.revision = expected[a]
  /\ ~ Consumed(request)
  /\ record' = [record EXCEPT ![a] = RecordOf(evidence[a], request)]
  /\ Goto(a, "acquire")
  /\ UNCHANGED <<evidence, files, expected, releases, faults>>

Acquire(a) ==
  /\ pc[a] = "acquire"
  /\ IF lock THEN Return(a) /\ UNCHANGED lock
     ELSE Goto(a, "check") /\ lock' = TRUE /\ UNCHANGED call
  /\ UNCHANGED <<evidence, store, temp, releases, faults>>

TargetFree(target) == \A seen \in store.records : seen.target # target

\* Defect: only the request is looked up.
SavableTwice(a) ==
  /\ temp = "absent"
  /\ store.revision = expected[a]
  /\ ~ Consumed(record[a].request)
  /\ Cardinality(store.records) < Capacity

\* No residue, the expected revision, and neither the request nor the target
\* is consumed; the file is never pruned, so it may be full.
Savable(a) ==
  /\ temp = "absent"
  /\ store.revision = expected[a]
  /\ ~ Consumed(record[a].request)
  /\ TargetFree(record[a].target)
  /\ Cardinality(store.records) < Capacity

Check(a) ==
  /\ pc[a] = "check"
  /\ Goto(a, IF Savable(a) THEN "create" ELSE "abandon")
  /\ UNCHANGED <<evidence, files, call, releases, faults>>

Create(a) ==
  /\ pc[a] = "create"
  /\ temp' = "torn"
  /\ Goto(a, "fill")
  /\ UNCHANGED <<evidence, store, lock, call, releases, faults>>

Fill(a) ==
  /\ pc[a] = "fill"
  /\ temp' = "whole"
  /\ Goto(a, "replace")
  /\ UNCHANGED <<evidence, store, lock, call, releases, faults>>

Replace(a) ==
  /\ pc[a] = "replace"
  /\ store' = [revision |-> expected[a] + 1,
               records |-> store.records \cup {record[a]}]
  /\ temp' = "absent"
  /\ Goto(a, "readback")
  /\ UNCHANGED <<evidence, lock, call, releases, faults>>

ReadBack(a) ==
  /\ pc[a] = "readback"
  /\ Goto(a, IF store.revision = expected[a] + 1 /\ record[a] \in store.records
             THEN "return" ELSE "abandon")
  /\ UNCHANGED <<evidence, files, call, releases, faults>>

Approved(a) ==
  /\ evidence' = [evidence EXCEPT ![a].approval = "APPROVED"]
  /\ releases' = [releases EXCEPT ![record[a].request] = @ + 1]

\* Defect: an uncertain save is taken for a saved one.
LeaveTrusting(a) ==
  /\ pc[a] \in {"return", "abandon"}
  /\ Approved(a)
  /\ lock' = FALSE
  /\ Return(a)
  /\ UNCHANGED <<store, temp, faults>>

\* The lock file goes, then the evidence is released, on SAVED only.
Leave(a) ==
  /\ pc[a] \in {"return", "abandon"}
  /\ IF pc[a] = "return" THEN Approved(a) ELSE UNCHANGED <<evidence, releases>>
  /\ lock' = FALSE
  /\ Return(a)
  /\ UNCHANGED <<store, temp, faults>>

-----------------------------------------------------------------------------
(* Faults and the operator *)

Fault ==
  /\ faults < MaxFaults
  /\ faults' = faults + 1

\* An error while loading, or before the lock file is there.
CallFails(a) ==
  /\ Fault
  /\ pc[a] \in {"look", "lookTemp", "read", "acquire"}
  /\ Return(a)
  /\ UNCHANGED <<evidence, files, releases>>

\* An error under the lock: RECOVERY_BLOCKED, whatever is in place stays.
SaveFails(a) ==
  /\ Fault
  /\ pc[a] \in {"check", "create", "fill", "replace", "readback"}
  /\ Goto(a, "abandon")
  /\ UNCHANGED <<evidence, files, call, releases>>

\* An error of unlink is ignored: the result stands and the lock file stays.
UnlinkFails(a) ==
  /\ Fault
  /\ pc[a] \in {"return", "abandon"}
  /\ IF pc[a] = "return" THEN Approved(a) ELSE UNCHANGED <<evidence, releases>>
  /\ Return(a)
  /\ UNCHANGED files

\* Death: evidence lives in memory only, the files stay as they are.
Crash(a) ==
  /\ Fault
  /\ evidence' = [evidence EXCEPT ![a] = NoEvidence(@.gate)]
  /\ Return(a)
  /\ UNCHANGED <<files, releases>>

\* The operator removes what a dead save left.
Review ==
  /\ lock \/ temp # "absent"
  /\ \A a \in Agents : pc[a] \notin Holding
  /\ lock' = FALSE /\ temp' = "absent"
  /\ UNCHANGED <<evidence, store, pc, call, releases, faults>>

-----------------------------------------------------------------------------

Init ==
  /\ \E g \in [Agents -> Gates] : evidence = [a \in Agents |-> NoEvidence(g[a])]
  /\ store = [revision |-> 0, records |-> {}]
  /\ lock = FALSE
  /\ temp = "absent"
  /\ pc = [a \in Agents |-> "idle"]
  /\ expected = [a \in Agents |-> 0]
  /\ record = [a \in Agents |-> None]
  /\ releases = [r \in Requests |-> 0]
  /\ faults = 0

Observe(a) ==
  \/ \E c \in Checkpoints : ObserveCheckpoint(a, c)
  \/ \E c \in Checkpoints, t \in Tiers : ObserveTests(a, c, t)
  \/ \E m \in Commits : ObservePush(a, m)
  \/ \E r \in Runs : ObserveCI(a, r)
  \/ \E g \in Gates : StartNextGate(a, g)

Approve(a) ==
  \/ RequestApproval(a) \/ Look(a) \/ LookTemp(a) \/ Refused(a)
  \/ \E r \in Requests : Accepted(a, r)
  \/ Acquire(a) \/ Check(a) \/ Create(a) \/ Fill(a) \/ Replace(a)
  \/ ReadBack(a) \/ Leave(a)

Fails(a) == CallFails(a) \/ SaveFails(a) \/ UnlinkFails(a) \/ Crash(a)

Next == (\E a \in Agents : Observe(a) \/ Approve(a) \/ Fails(a)) \/ Review

Spec == Init /\ [][Next]_vars

-----------------------------------------------------------------------------
(* Properties *)

TypeOK ==
  /\ evidence \in [Agents -> Evidence]
  /\ store \in [revision : Nat, records : SUBSET Records]
  /\ lock \in BOOLEAN
  /\ temp \in {"absent", "torn", "whole"}
  /\ pc \in [Agents -> Locations]
  /\ expected \in [Agents -> Nat]
  /\ record \in [Agents -> Records \cup {None}]
  /\ releases \in [Requests -> Nat]
  /\ faults \in 0 .. MaxFaults

\* Evidence describes one piece of work: the tests are the checkpoint's, the
\* commit is made from what was tested, the green run is the commit's, however
\* late or misdirected the observations were.
OneWork(e) ==
  /\ e.tier # None => <<e.checkpoint, e.tier>> \in Passes
  /\ e.commit # None => MadeFrom[e.commit] = <<e.checkpoint, e.tier>>
  /\ e.run # None => HeadOf[e.run] = e.commit /\ e.run \in Green
  /\ e.run = None => e.approval = "NONE"

EvidenceSound ==
  \A a \in Agents :
    /\ OneWork(evidence[a])
    /\ Stage(evidence[a]) = "NEXT_GATE_READY" =>
         evidence[a].run # None /\ evidence[a].approval # "REQUIRED"

\* A gate that asks for an approval is passed only on one that is on disk for
\* exactly this gate, commit and run, and no approval carries two agents.
Passed(a) == evidence[a].approval = "APPROVED"

ApprovalDurable ==
  \A a \in Agents :
    /\ Passed(a) => \E seen \in store.records :
         /\ seen.target = TargetOf(evidence[a])
         /\ releases[seen.request] = 1
    /\ evidence[a].run # None /\ evidence[a].gate \in Approving =>
         evidence[a].approval \in {"REQUIRED", "APPROVED"}
    /\ \A b \in Agents : Passed(a) /\ Passed(b) /\ a # b =>
         TargetOf(evidence[a]) # TargetOf(evidence[b])

\* One agent at a time is between acquiring and unlinking the lock file.
OneHolder ==
  /\ \A a \in Agents : pc[a] \in Holding => lock
  /\ \A a, b \in Agents : pc[a] \in Holding /\ pc[b] \in Holding => a = b

RecordsUnique ==
  \A one, other \in store.records :
    one.request = other.request \/ one.target = other.target => one = other

\* What the holder has checked stays true until it is done.
HolderCurrent ==
  \A a \in Agents :
    /\ pc[a] \in {"create", "fill", "replace"} =>
         /\ store.revision = expected[a]
         /\ ~ Consumed(record[a].request)
         /\ TargetFree(record[a].target)
    /\ pc[a] \in Locations \ {"idle"} =>
         Stage(evidence[a]) = "APPROVAL_REQUIRED"
    /\ pc[a] \in {"acquire"} \cup Holding =>
         /\ record[a] \in Records
         /\ record[a].target = TargetOf(evidence[a])
    /\ pc[a] \in {"readback", "return"} =>
         record[a] \in store.records /\ releases[record[a].request] = 0
    /\ pc[a] = "return" => store.revision = expected[a] + 1

ReleasedOnce ==
  \A r \in Requests : releases[r] # 0 => releases[r] = 1 /\ Consumed(r)

\* The inductive invariant.
GatesInv ==
  /\ TypeOK
  /\ EvidenceSound
  /\ OneHolder
  /\ RecordsUnique
  /\ HolderCurrent
  /\ ReleasedOnce
  /\ ApprovalDurable

\* An approval whose consumption was written and not answered for is spent:
\* nobody ever passes its gate with it, and its target stays closed.
Lost(seen) ==
  /\ seen \in store.records
  /\ releases[seen.request] = 0
  /\ \A a \in Agents :
       pc[a] \in {"readback", "return"} => record[a] # seen

LostForGood ==
  [][\A seen \in store.records : Lost(seen) => Lost(seen)']_vars

\* The store and the coordinator release approvals as promised.
Ledger == INSTANCE ApprovalLedger WITH consumed <- store.records
ImplementsLedger == Ledger!Spec

=============================================================================
