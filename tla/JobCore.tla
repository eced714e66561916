------------------------------ MODULE JobCore ------------------------------
(***************************************************************************)
(* The pure scheduling core of the unattended job queue                    *)
(* (scripts/unattended_job_queue.py): what a job is, when it is valid,     *)
(* which job may be selected, and what each operation makes of a job.      *)
(*                                                                         *)
(* A JobContract is split in two.  The fields no operation ever changes    *)
(* are the constant Contract; the three fields the operations do change    *)
(* (state, attempt_count, approval_received) are a JobRecord.  Identifier, *)
(* version and timestamp syntax checks are left out: every queue here is   *)
(* made of syntactically valid jobs.                                       *)
(***************************************************************************)
EXTENDS Integers, FiniteSets

CONSTANTS
  Jobs,      \* the job identifiers of one queue
  Contract   \* the immutable fields of every job

JobStates == {"READY", "RUNNING", "WAITING_APPROVAL", "BLOCKED", "RETRY_WAIT",
              "FAILED_SAFE", "CHECKPOINTED", "DONE", "CANCELLED"}

RiskClasses == {"READ_ONLY", "LOW_RISK_LOCAL", "EXTERNAL_READ",
                "APPROVAL_REQUIRED", "PROHIBITED_UNATTENDED"}

RetryPolicies == {"NONE", "TRANSIENT_ONLY", "EXPLICIT_LOCAL"}

(***************************************************************************)
(* Abstractions of the contract's data: "rank" is the position of the job  *)
(* in the text order of (created_at, job_id), "hasBlockers" says           *)
(* blocker_codes is not empty, "windowed" says deadline_class is           *)
(* TIME_WINDOW or HARD.                                                    *)
(***************************************************************************)
ContractType ==
  [priority: 0..3, rank: Nat, risk: RiskClasses, deps: SUBSET Jobs,
   hasBlockers: BOOLEAN, requiresApproval: BOOLEAN, retry: RetryPolicies,
   maxAttempts: Nat \ {0}, checkpointSupported: BOOLEAN, windowed: BOOLEAN]

\* _cycle: every non-empty set of jobs has a member that depends on none of it.
Acyclic ==
  \A S \in SUBSET Jobs :
    S # {} => \E j \in S : Contract[j].deps \cap S = {}

ASSUME ContractAssumption ==
  /\ Contract \in [Jobs -> ContractType]
  /\ \A j, k \in Jobs : Contract[j].rank = Contract[k].rank => j = k

ASSUME AcyclicAssumption == Acyclic

\* A queue is a tuple of jobs.
ASSUME FiniteAssumption == IsFiniteSet(Jobs)

JobRecord == [state: JobStates, attempts: Nat, approved: BOOLEAN]

\* validate_job, the rules that relate the changing fields to the contract.
ValidJob(j, rec) ==
  /\ rec.attempts <= Contract[j].maxAttempts
  /\ rec.state = "RUNNING" /\ Contract[j].requiresApproval => rec.approved
  /\ ~ (rec.state = "READY" /\ Contract[j].risk = "PROHIBITED_UNATTENDED")
  /\ rec.approved => Contract[j].requiresApproval
  /\ ~ (rec.state = "RETRY_WAIT" /\ Contract[j].retry = "NONE")
  /\ rec.state = "CHECKPOINTED" => Contract[j].checkpointSupported

ValidQueue(jobs) == \A j \in Jobs : ValidJob(j, jobs[j])

-----------------------------------------------------------------------------
(* Selection *)

RiskAllows(j, rec, externalRead) ==
  \/ Contract[j].risk \in {"READ_ONLY", "LOW_RISK_LOCAL"}
  \/ Contract[j].risk = "EXTERNAL_READ" /\ externalRead
  \/ /\ Contract[j].risk = "APPROVAL_REQUIRED"
     /\ Contract[j].requiresApproval
     /\ rec.approved

\* open is the set of jobs whose execution window is OPEN.
WindowAllows(j, open) == Contract[j].windowed => j \in open

Eligible(jobs, open, externalRead) ==
  {j \in Jobs :
     /\ jobs[j].state = "READY"
     /\ \A d \in Contract[j].deps : jobs[d].state = "DONE"
     /\ ~ Contract[j].hasBlockers
     /\ RiskAllows(j, jobs[j], externalRead)
     /\ Contract[j].requiresApproval => jobs[j].approved
     /\ jobs[j].attempts < Contract[j].maxAttempts
     /\ WindowAllows(j, open)}

Precedes(j, k) ==
  \/ Contract[j].priority < Contract[k].priority
  \/ /\ Contract[j].priority = Contract[k].priority
     /\ Contract[j].rank < Contract[k].rank

\* select_next_job on a valid queue: the first eligible job.  Priorities and
\* ranks order the jobs totally, so there is at most one, and one if any job
\* is eligible.
IsNext(jobs, j, open, externalRead) ==
  LET eligible == Eligible(jobs, open, externalRead)
  IN j \in eligible /\ \A k \in eligible \ {j} : Precedes(j, k)

-----------------------------------------------------------------------------
(* Transitions: the record an operation returns, and when it returns one *)

\* Defect: the approval is used up by the attempt it allowed.
AdoptedWithApproval(rec) ==
  [state |-> "RUNNING", attempts |-> rec.attempts + 1, approved |-> FALSE]

Adopted(rec) == [rec EXCEPT !.state = "RUNNING", !.attempts = @ + 1]

Completed(rec) == [rec EXCEPT !.state = "DONE"]
FailedSafe(rec) == [rec EXCEPT !.state = "FAILED_SAFE"]

\* Defect: a fresh approval gives the attempts back.
ApprovalResets(j, rec, received) ==
  IF received /\ Contract[j].requiresApproval
  THEN [state |-> "READY", attempts |-> 0, approved |-> TRUE]
  ELSE [rec EXCEPT !.state = "WAITING_APPROVAL", !.approved = FALSE]

\* apply_approval looks at the contract and the signal, never at the state.
ApprovalApplied(j, rec, received) ==
  IF received /\ Contract[j].requiresApproval
  THEN [rec EXCEPT !.state = "READY", !.approved = TRUE]
  ELSE [rec EXCEPT !.state = "WAITING_APPROVAL", !.approved = FALSE]

CanAdopt(jobs, j, open, externalRead) ==
  /\ jobs[j].state = "READY"
  /\ jobs[j].attempts # Contract[j].maxAttempts
  /\ IsNext(jobs, j, open, externalRead)

\* complete_job and fail_job_safe.
CanFinish(jobs, j) == jobs[j].state = "RUNNING"

\* apply_approval_with_transition reports APPLIED or UNCHANGED.
CanApprove(jobs, j, received) ==
  ValidJob(j, ApprovalApplied(j, jobs[j], received))

=============================================================================
