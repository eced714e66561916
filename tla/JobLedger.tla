----------------------------- MODULE JobLedger -----------------------------
(***************************************************************************)
(* What the durable queue promises: one queue, changed by one whole        *)
(* operation at a time, each change a new revision, and an acknowledgement *)
(* ("durable") given at most once and only for a change that happened.     *)
(* It knows no file, no lock, no call in progress and no crash.            *)
(*                                                                         *)
(* commits is the history of every change; claims are the changes whose    *)
(* caller was told so.  A change may stay unclaimed for ever: its caller   *)
(* crashed or was told the outcome is uncertain.                           *)
(***************************************************************************)
EXTENDS QueueDocument

VARIABLES
  queue,   \* the current snapshot
  stored,  \* the checkpoint objects on disk
  commits, \* history: the changes made
  claims   \* history: the changes reported durable to their caller

ledgerVars == <<queue, stored, commits, claims>>

Init ==
  /\ queue \in Bootstraps
  /\ stored = {}
  /\ commits = {}
  /\ claims = {}

\* The one way a job changes: it gets record rec in a new revision.
Advance(op, w, j, rec) ==
  /\ queue' = Revised(queue, [queue.jobs EXCEPT ![j] = rec], queue.refs)
  /\ commits' = commits \cup {[op |-> op, by |-> w, job |-> j,
                               attempt |-> rec.attempts,
                               revision |-> queue.revision + 1]}
  /\ UNCHANGED <<stored, claims>>

Adopt(w, j) ==
  /\ \E open \in SUBSET Jobs, externalRead \in BOOLEAN :
       CanAdopt(queue.jobs, j, open, externalRead)
  /\ queue.refs[j] = NoObject
  /\ Advance("adopt", w, j, Adopted(queue.jobs[j]))

\* An attempt ends only for a caller holding its durable adoption.
AdoptionClaimed(j, attempt) ==
  \E c \in claims : c.op = "adopt" /\ c.job = j /\ c.attempt = attempt

Complete(w, j) ==
  /\ CanFinish(queue.jobs, j)
  /\ AdoptionClaimed(j, queue.jobs[j].attempts)
  /\ Advance("complete", w, j, Completed(queue.jobs[j]))

FailSafe(w, j) ==
  /\ CanFinish(queue.jobs, j)
  /\ AdoptionClaimed(j, queue.jobs[j].attempts)
  /\ Advance("failSafe", w, j, FailedSafe(queue.jobs[j]))

Approve(w, j, received) ==
  /\ CanApprove(queue.jobs, j, received)
  /\ Advance("approve", w, j, ApprovalApplied(j, queue.jobs[j], received))

Attach(w, j, object) ==
  /\ object \in stored
  /\ ObjectJob[object] = j
  /\ queue.refs[j] # object
  /\ queue' = Revised(queue, queue.jobs, [queue.refs EXCEPT ![j] = object])
  /\ commits' = commits \cup {[op |-> "attach", by |-> w, job |-> j,
                               attempt |-> queue.jobs[j].attempts,
                               revision |-> queue.revision + 1]}
  /\ UNCHANGED <<stored, claims>>

StoreObject(object) ==
  /\ stored' = stored \cup {object}
  /\ UNCHANGED <<queue, commits, claims>>

Acknowledge(c) ==
  /\ c \in commits \ claims
  /\ claims' = claims \cup {c}
  /\ UNCHANGED <<queue, stored, commits>>

Next ==
  \/ \E w \in Workers, j \in Jobs :
       \/ Adopt(w, j)
       \/ Complete(w, j)
       \/ FailSafe(w, j)
       \/ \E received \in BOOLEAN : Approve(w, j, received)
       \/ \E object \in Objects : Attach(w, j, object)
  \/ \E object \in Objects : StoreObject(object)
  \/ \E c \in commits : Acknowledge(c)

Spec == Init /\ [][Next]_ledgerVars

-----------------------------------------------------------------------------
(* Properties *)

TypeOK ==
  /\ queue \in Snapshot
  /\ stored \subseteq Objects
  /\ commits \subseteq Commit
  /\ claims \subseteq commits

\* The persisted queue always satisfies the core's own validation rules.
QueueValid == ValidQueue(queue.jobs)

\* An active checkpoint reference always names a stored object of its job.
ActiveRefsSound == RefsSound(queue, stored)

\* At most one change was ever made per execution generation (job, attempt)
\* that started it: two workers never both own the same attempt.
UniqueAdoption ==
  \A c, d \in commits :
    /\ c.op = "adopt" /\ d.op = "adopt"
    /\ c.job = d.job /\ c.attempt = d.attempt
    => c = d

\* A generation ends at most once: never twice, never both DONE and FAILED_SAFE.
Terminal(c) == c.op \in {"complete", "failSafe"}

UniqueEnding ==
  \A c, d \in commits :
    Terminal(c) /\ Terminal(d) /\ c.job = d.job /\ c.attempt = d.attempt
    => c = d

\* Only an attempt whose adoption was acknowledged, earlier, is ever ended.
EndingFollowsAdoption ==
  \A c \in commits :
    Terminal(c) =>
      \E a \in claims :
        /\ a.op = "adopt" /\ a.job = c.job /\ a.attempt = c.attempt
        /\ a.revision < c.revision

\* Attempts are never given back, and revisions go up one at a time.
NeverBackwards ==
  [][/\ queue' # queue => queue'.revision = queue.revision + 1
     /\ \A j \in Jobs : queue'.jobs[j].attempts >= queue.jobs[j].attempts]_queue

-----------------------------------------------------------------------------
(* The inductive invariant behind these properties *)

\* No recorded change lies in the future of the queue.
PastOnly ==
  \A c \in commits :
    /\ c.revision <= queue.revision
    /\ c.attempt <= queue.jobs[c.job].attempts

\* Once the current generation of a job has ended the job is not RUNNING, so
\* that only a new adoption, with a new attempt, could end again.
EndedNotRunning ==
  \A c \in commits :
    Terminal(c) /\ c.attempt = queue.jobs[c.job].attempts
    => queue.jobs[c.job].state # "RUNNING"

LedgerInv ==
  /\ TypeOK
  /\ QueueValid
  /\ ActiveRefsSound
  /\ PastOnly
  /\ EndedNotRunning
  /\ UniqueAdoption
  /\ UniqueEnding
  /\ EndingFollowsAdoption

=============================================================================
