------------------------------ MODULE JobBoard ------------------------------
(***************************************************************************)
(* A board of unattended jobs driven through every operation of            *)
(* scripts/unattended_job_queue.py: selection and adoption, completion and *)
(* failing safe, approvals and revocations, checkpoints and resumption,    *)
(* retries.  Each operation that applies a transition hands its result to  *)
(* scripts/job_level_event_dispatch.py, and at any time the board may be   *)
(* assessed as blocked (scripts/queue_blocked_event_dispatch.py).          *)
(*                                                                         *)
(* QueueStore is about two callers and a document on disk; this module is  *)
(* about one caller and what a sequence of decisions can make of a queue.  *)
(* create_checkpoint, resume_from_checkpoint and assess_retry only name a  *)
(* state; writing it is the caller's part, which is external to scripts/:  *)
(* the actions Checkpoint, Resume and Retry write what was named, in       *)
(* whatever state the job is, for the first and the last look at none.     *)
(*                                                                         *)
(* Times are abstracted to whether a checkpoint is stale, errors to        *)
(* whether their code is one of RETRYABLE_ERRORS.                          *)
(***************************************************************************)
EXTENDS JobCore

VARIABLES
  board,    \* the queue
  applied   \* the JobTransitionResult of the last applied transition

boardVars == <<board, applied>>

Reasons == {"JOB_EXECUTION_ADOPTION", "JOB_COMPLETION_TRANSITION",
            "FAILED_SAFE_CONFIRMED", "APPROVAL_STATE_TRANSITION"}

NoResult == [reason |-> "NONE", from |-> "NONE", to |-> "NONE"]

Transition(reason, from, to) == [reason |-> reason, from |-> from, to |-> to]

-----------------------------------------------------------------------------
(* Decisions that name a state *)

\* Defect: a job whose dependency was reopened resumes all the same.
ResumeStatusUnordered(queue, j, stale, preflight) ==
  IF queue[j].state # "CHECKPOINTED" \/ stale THEN "FAILED_SAFE"
  ELSE IF ~ preflight \/ Contract[j].hasBlockers THEN "BLOCKED"
  ELSE IF Contract[j].requiresApproval /\ ~ queue[j].approved
    THEN "WAITING_APPROVAL"
  ELSE IF ~ RiskAllows(j, queue[j], FALSE) THEN "BLOCKED" ELSE "READY"

\* resume_from_checkpoint.  The checkpoint's blockers are those of the job,
\* which no operation changes.
ResumeStatus(queue, j, stale, preflight) ==
  IF queue[j].state # "CHECKPOINTED" \/ stale THEN "FAILED_SAFE"
  ELSE IF \/ ~ preflight
          \/ \E d \in Contract[j].deps : queue[d].state # "DONE"
          \/ Contract[j].hasBlockers THEN "BLOCKED"
  ELSE IF Contract[j].requiresApproval /\ ~ queue[j].approved
    THEN "WAITING_APPROVAL"
  ELSE IF ~ RiskAllows(j, queue[j], FALSE) THEN "BLOCKED" ELSE "READY"

\* assess_retry
RetryState(j, rec, retryable) ==
  IF /\ rec.attempts < Contract[j].maxAttempts
     /\ Contract[j].retry # "NONE"
     /\ retryable
  THEN "RETRY_WAIT" ELSE "FAILED_SAFE"

-----------------------------------------------------------------------------
(* What is made of an applied transition *)

\* validate_job_transition_result: the class, by reason and pair of states.
TransitionClass(r) ==
  IF r.from = r.to \/ r.from \notin JobStates \/ r.to \notin JobStates
    THEN "UNSUPPORTED"
  ELSE IF r.reason = "APPROVAL_STATE_TRANSITION" /\ r.to = "WAITING_APPROVAL"
    THEN "APPROVAL_WAITING_TRANSITION"
  ELSE IF r.reason = "APPROVAL_STATE_TRANSITION" /\ r.to = "READY"
    THEN "APPROVAL_READY_TRANSITION"
  ELSE IF r = Transition("FAILED_SAFE_CONFIRMED", "RUNNING", "FAILED_SAFE")
    THEN "FAILED_SAFE_TRANSITION"
  ELSE IF r = Transition("JOB_COMPLETION_TRANSITION", "RUNNING", "DONE")
    THEN "COMPLETION_TRANSITION"
  ELSE IF r = Transition("JOB_EXECUTION_ADOPTION", "READY", "RUNNING")
    THEN "EXECUTION_ADOPTION_TRANSITION"
  ELSE "UNSUPPORTED"

\* dispatch_transition: the event handed to the notification runtime, or why
\* there is none.  A start is a valid transition the dispatcher has no event
\* for, and refuses as if the core had rejected it.
Dispatched(r) ==
  LET class == TransitionClass(r)
  IN IF class = "APPROVAL_WAITING_TRANSITION" THEN "JOB_WAITING_APPROVAL"
     ELSE IF class = "FAILED_SAFE_TRANSITION" THEN "JOB_FAILED_SAFE"
     ELSE IF class = "COMPLETION_TRANSITION" THEN "JOB_COMPLETED"
     ELSE IF class = "APPROVAL_READY_TRANSITION" THEN "SUPPRESSED"
     ELSE "BLOCKED"

-----------------------------------------------------------------------------
(* assess_queue_blocked *)

Remaining(queue) == {j \in Jobs : queue[j].state # "DONE"}

AwaitsApproval(j, rec) ==
  /\ rec.state = "WAITING_APPROVAL"
  /\ Contract[j].requiresApproval
  /\ ~ rec.approved

BlockerClasses(j, rec) ==
  (IF AwaitsApproval(j, rec) THEN {"APPROVAL_BLOCKED"} ELSE {})
    \cup (IF rec.state = "FAILED_SAFE" THEN {"FAILED_SAFE_BLOCKED"} ELSE {})

Roots(queue) == {j \in Jobs : BlockerClasses(j, queue[j]) # {}}

\* A READY job that depends on a member is a member.
Propagated(queue, S) ==
  \A j \in Jobs :
    queue[j].state = "READY" /\ Contract[j].deps \cap S # {} => j \in S

\* What is proven to be stopped: the least set with the roots that READY
\* dependants belong to.
Stopped(queue) ==
  {j \in Jobs : \A S \in SUBSET Jobs :
                  Roots(queue) \subseteq S /\ Propagated(queue, S) => j \in S}

\* Defect: one round is taken for all of them.
RoundOnce(queue, proven) ==
  [j \in Jobs |->
     IF proven[j] = {} /\ queue[j].state = "READY"
     THEN UNION {proven[d] : d \in Contract[j].deps \cap Roots(queue)}
     ELSE proven[j]]

\* One turn of the loop: what is newly proven takes the classes of those of
\* its dependencies that were proven before this turn.
Round(queue, proven) ==
  [j \in Jobs |->
     IF proven[j] = {} /\ queue[j].state = "READY"
     THEN UNION {proven[d] : d \in Contract[j].deps}
     ELSE proven[j]]

\* The loop, which ends when a turn adds nothing: after at most as many turns
\* as there are jobs.
Proven(queue) ==
  LET turn[n \in 0..Cardinality(Jobs)] ==
        IF n = 0 THEN [j \in Jobs |-> BlockerClasses(j, queue[j])]
        ELSE Round(queue, turn[n - 1])
  IN turn[Cardinality(Jobs)]

\* Defect: the jobs in execution do not matter.
AssessWithoutRunning(queue, open, externalRead) ==
  LET remaining == {j \in Remaining(queue) : queue[j].state # "RUNNING"}
  IN IF remaining = {} THEN "QUEUE_IDLE"
     ELSE IF Eligible(queue, open, externalRead) # {} THEN "NOT_BLOCKED"
     ELSE IF ~ remaining \subseteq Stopped(queue) THEN "UNKNOWN"
     ELSE "QUEUE_BLOCKED"

Assess(queue, open, externalRead) ==
  IF Remaining(queue) = {} THEN "QUEUE_IDLE"
  ELSE IF \/ \E j \in Jobs : queue[j].state = "RUNNING"
          \/ Eligible(queue, open, externalRead) # {} THEN "NOT_BLOCKED"
  ELSE IF Stopped(queue) # Remaining(queue) THEN "UNKNOWN"
  ELSE "QUEUE_BLOCKED"

\* The class of a blocked queue.
Classification(queue) ==
  LET proven == Proven(queue)
      classes == UNION {proven[j] : j \in Jobs}
  IN IF classes = {"APPROVAL_BLOCKED"} THEN "APPROVAL_BLOCKED"
     ELSE IF classes = {"FAILED_SAFE_BLOCKED"} THEN "FAILED_SAFE_BLOCKED"
     ELSE "MIXED_BLOCKED"

\* validate_queue_blocked_decision
Reportable(queue, decision) ==
  /\ decision = "QUEUE_BLOCKED"
  /\ Remaining(queue) # {}
  /\ Classification(queue) = "MIXED_BLOCKED" => Cardinality(Remaining(queue)) >= 2

\* dispatch_queue_blocked: the factory makes an event of a valid decision and
\* the configured identity only, and the runtime gets what the factory made.
QueueDispatched(queue, decision) ==
  IF Reportable(queue, decision) THEN "QUEUE_BLOCKED" ELSE "BLOCKED"

-----------------------------------------------------------------------------
BoardInit ==
  /\ board \in [Jobs -> JobRecord]
  /\ ValidQueue(board)
  /\ applied = NoResult

\* An operation of the core that applies a transition to one job.
Applies(j, rec, reason) ==
  /\ board' = [board EXCEPT ![j] = rec]
  /\ applied' = IF rec.state = board[j].state THEN applied
                ELSE Transition(reason, board[j].state, rec.state)

Adopt(j, open, externalRead) ==
  /\ CanAdopt(board, j, open, externalRead)
  /\ Applies(j, Adopted(board[j]), "JOB_EXECUTION_ADOPTION")

Complete(j) ==
  /\ CanFinish(board, j)
  /\ Applies(j, Completed(board[j]), "JOB_COMPLETION_TRANSITION")

FailSafe(j) ==
  /\ CanFinish(board, j)
  /\ Applies(j, FailedSafe(board[j]), "FAILED_SAFE_CONFIRMED")

Approve(j, received) ==
  /\ CanApprove(board, j, received)
  /\ Applies(j, ApprovalApplied(j, board[j], received),
             "APPROVAL_STATE_TRANSITION")

\* The caller writes the state a decision named; there is no result to report.
Named(j, state) ==
  /\ board' = [board EXCEPT ![j].state = state]
  /\ UNCHANGED applied

Checkpoint(j) ==
  /\ Contract[j].checkpointSupported
  /\ Named(j, "CHECKPOINTED")

Resume(j, stale, preflight) ==
  Named(j, ResumeStatus(board, j, stale, preflight))

Retry(j, retryable) == Named(j, RetryState(j, board[j], retryable))

BoardNext ==
  \E j \in Jobs :
    \/ \E open \in SUBSET Jobs, externalRead \in BOOLEAN :
         Adopt(j, open, externalRead)
    \/ Complete(j)
    \/ FailSafe(j)
    \/ \E received \in BOOLEAN : Approve(j, received)
    \/ Checkpoint(j)
    \/ \E stale, preflight \in BOOLEAN : Resume(j, stale, preflight)
    \/ \E retryable \in BOOLEAN : Retry(j, retryable)

BoardSpec == BoardInit /\ [][BoardNext]_boardVars

-----------------------------------------------------------------------------
(* Properties *)

\* Type invariant.
BoardTypeOK ==
  /\ board \in [Jobs -> JobRecord]
  /\ applied \in [reason : Reasons \cup {"NONE"},
                 from : JobStates \cup {"NONE"}, to : JobStates \cup {"NONE"}]

\* A job that may resume is one selection would start: nothing it looks at is
\* looked at less strictly by resume_from_checkpoint, except the attempts.
ResumeAgrees ==
  \A j \in Jobs : \A preflight \in BOOLEAN :
    LET resumed == [board EXCEPT ![j].state = "READY"]
    IN /\ board[j].state = "CHECKPOINTED"
       /\ ResumeStatus(board, j, FALSE, preflight) = "READY"
       /\ board[j].attempts < Contract[j].maxAttempts
       => j \in Eligible(resumed, Jobs, FALSE)

\* Every applied transition is one the validator recognises, and the dispatcher
\* has an answer for all of them but a start.
Recognised(r) ==
  /\ TransitionClass(r) # "UNSUPPORTED"
  /\ Dispatched(r) = "BLOCKED" <=> r.to = "RUNNING"

\* Every sequence of operations leaves a queue every later load accepts, every
\* applied transition is recognised, and resuming is no laxer than selecting.
BoardInv ==
  /\ BoardTypeOK
  /\ ValidQueue(board)
  /\ applied # NoResult => Recognised(applied)
  /\ ResumeAgrees

BlockedSomewhere ==
  \E open \in SUBSET Jobs, externalRead \in BOOLEAN :
    Assess(board, open, externalRead) = "QUEUE_BLOCKED"

\* The loop of assess_queue_blocked ends with the least set it stands for,
\* and the class it reports is that of the roots, in whatever turn a job with
\* dependencies on both kinds was proven; so a blocked queue can always be
\* reported.
BlockedProofSound ==
  LET proven == Proven(board)
  IN /\ {j \in Jobs : proven[j] # {}} = Stopped(board)
     /\ UNION {proven[j] : j \in Jobs}
          = UNION {BlockerClasses(j, board[j]) : j \in Jobs}
     /\ BlockedSomewhere => QueueDispatched(board, "QUEUE_BLOCKED") = "QUEUE_BLOCKED"

\* No job runs, and each that is not done is a root or waits for another that
\* is not done: dependencies have no cycle, so in the end for a root.
Halted ==
  /\ Remaining(board) # {}
  /\ \A j \in Jobs : board[j].state # "RUNNING"
  /\ \A j \in Remaining(board) \ Roots(board) :
       Contract[j].deps \cap Remaining(board) # {}

\* A root's own blocker is taken away, or a job that is done is opened again.
Lifted ==
  \/ \E j \in Roots(board) : j \notin Roots(board')
  \/ \E j \in Jobs : board[j].state = "DONE" /\ board'[j].state # "DONE"

\* What assess_queue_blocked reports as blocked stands still, whatever windows
\* open and reads are allowed later, however long: no sequence of approvals,
\* checkpoints, resumptions and retries of the jobs that wait lets one of them
\* be adopted, until an operation on a root itself takes its blocker away or a
\* finished job is opened again.
BlockedUntilLifted ==
  /\ [](BlockedSomewhere => Halted)
  /\ [](Halted => \A open \in SUBSET Jobs, externalRead \in BOOLEAN :
                    Eligible(board, open, externalRead) = {})
  /\ [][Halted /\ ~ Lifted => Halted']_boardVars

=============================================================================
