--------------------------- MODULE QueueDocument ---------------------------
(***************************************************************************)
(* The queue document (PersistedQueueSnapshot of                           *)
(* scripts/unattended_queue_persistence.py): a revision, the jobs, and at  *)
(* most one active checkpoint reference per job; and the history entries   *)
(* with which the specifications speak about changes of the document.      *)
(***************************************************************************)
EXTENDS JobCore

CONSTANTS
  Workers,    \* the processes that operate on the queue
  Objects,    \* identifiers of checkpoint objects
  ObjectJob,  \* the job a checkpoint object belongs to
  NoObject,   \* no active checkpoint reference
  Bootstraps  \* the documents an operator may have put there first

Snapshot ==
  [revision: Nat, jobs: [Jobs -> JobRecord],
   refs: [Jobs -> Objects \cup {NoObject}]]

\* The next revision of a document (save_queue's replace(snapshot, revision=...)).
Revised(snapshot, jobs, refs) ==
  [revision |-> snapshot.revision + 1, jobs |-> jobs, refs |-> refs]

\* Every active reference names a stored object of the referencing job.
RefsSound(snapshot, objects) ==
  \A j \in Jobs :
    snapshot.refs[j] # NoObject =>
      /\ snapshot.refs[j] \in objects
      /\ ObjectJob[snapshot.refs[j]] = j

\* An entry says which operation of which process changed which job in which
\* revision, and in which attempt the job was after it.
Operations == {"adopt", "complete", "failSafe", "approve", "attach"}

Commit ==
  [op: Operations, by: Workers, job: Jobs, attempt: Nat, revision: Nat]

ASSUME ObjectAssumption ==
  /\ ObjectJob \in [Objects -> Jobs]
  /\ NoObject \notin Objects

\* initialize_for_test: revision 0 and a document that validates.
ASSUME BootstrapAssumption ==
  /\ Jobs # {}
  /\ Bootstraps \subseteq Snapshot
  /\ \A s \in Bootstraps :
       /\ s.revision = 0
       /\ ValidQueue(s.jobs)
       /\ \A j \in Jobs : s.refs[j] = NoObject

=============================================================================
