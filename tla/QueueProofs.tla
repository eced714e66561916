---------------------------- MODULE QueueProofs ----------------------------
(***************************************************************************)
(* Proofs about the job queue, for any jobs, contracts, workers, objects,  *)
(* faults and revisions, and for every interleaving of file accesses.      *)
(*                                                                         *)
(* The store (QueueStore): its invariant StoreInv is inductive, so the     *)
(* lock excludes and compare-and-set writes every revision once; each of   *)
(* its steps is a step of the abstract ledger or a stutter; and the        *)
(* ledger's own invariant LedgerInv, proved here as well, holds of it.     *)
(*                                                                         *)
(* The decisions (JobBoard): no sequence of operations makes a queue the   *)
(* loader refuses; the loop of assess_queue_blocked proves the least set   *)
(* it stands for; and what is reported as blocked stands still until one   *)
(* of its roots is lifted.                                                 *)
(***************************************************************************)
EXTENDS QueueStore, JobBoard, TLAPS, FiniteSetTheorems, WellFoundedInduction

-----------------------------------------------------------------------------
(* Every operation makes a valid record of a valid one *)

\* What select_next_job picks satisfies its own filter: the job to adopt is
\* READY, below its maximum of attempts, and approved if it must be.
LEMMA AdoptableIsEligible ==
  ASSUME NEW jobs \in [Jobs -> JobRecord], NEW j \in Jobs,
         NEW open \in SUBSET Jobs, NEW externalRead \in BOOLEAN,
         CanAdopt(jobs, j, open, externalRead)
  PROVE  /\ jobs[j].state = "READY"
         /\ jobs[j].attempts < Contract[j].maxAttempts
         /\ Contract[j].requiresApproval => jobs[j].approved
BY DEF CanAdopt, IsNext, Eligible

\* The records the operations write are job records again.
LEMMA RecordsTyped ==
  ASSUME NEW rec \in JobRecord, NEW j \in Jobs, NEW received \in BOOLEAN
  PROVE  /\ Adopted(rec) \in JobRecord
         /\ Adopted(rec).attempts = rec.attempts + 1
         /\ Adopted(rec).state = "RUNNING"
         /\ Adopted(rec).approved = rec.approved
         /\ Completed(rec) \in JobRecord
         /\ Completed(rec).attempts = rec.attempts
         /\ Completed(rec).state = "DONE"
         /\ Completed(rec).approved = rec.approved
         /\ FailedSafe(rec) \in JobRecord
         /\ FailedSafe(rec).attempts = rec.attempts
         /\ FailedSafe(rec).state = "FAILED_SAFE"
         /\ FailedSafe(rec).approved = rec.approved
         /\ ApprovalApplied(j, rec, received) \in JobRecord
         /\ ApprovalApplied(j, rec, received).attempts = rec.attempts
         /\ ApprovalApplied(j, rec, received).state # "RUNNING"
<1>1. /\ Adopted(rec) \in JobRecord
      /\ Adopted(rec).attempts = rec.attempts + 1
      /\ Adopted(rec).state = "RUNNING"
  <2>1. \A n \in Nat :
          [rec EXCEPT !.state = "RUNNING", !.attempts = n] \in JobRecord
    BY DEF JobRecord, JobStates
  <2>2. rec.attempts + 1 \in Nat
    BY DEF JobRecord
  <2>3. Adopted(rec) \in JobRecord
    BY <2>1, <2>2, Zenon DEF Adopted
  <2> QED BY <2>3 DEF Adopted, JobRecord
<1>2. Adopted(rec).approved = rec.approved
  BY DEF JobRecord, Adopted
<1>3. /\ Completed(rec) \in JobRecord
      /\ Completed(rec).attempts = rec.attempts
      /\ Completed(rec).state = "DONE"
  BY DEF JobRecord, JobStates, Completed
<1>4. Completed(rec).approved = rec.approved
  BY DEF JobRecord, Completed
<1>5. /\ FailedSafe(rec) \in JobRecord
      /\ FailedSafe(rec).attempts = rec.attempts
      /\ FailedSafe(rec).state = "FAILED_SAFE"
  BY DEF JobRecord, JobStates, FailedSafe
<1>6. FailedSafe(rec).approved = rec.approved
  BY DEF JobRecord, FailedSafe
<1>7. /\ ApprovalApplied(j, rec, received) \in JobRecord
      /\ ApprovalApplied(j, rec, received).attempts = rec.attempts
      /\ ApprovalApplied(j, rec, received).state # "RUNNING"
  BY DEF JobRecord, JobStates, ApprovalApplied
<1> QED BY <1>1, <1>2, <1>3, <1>4, <1>5, <1>6, <1>7

\* Adopting a valid job makes a valid job (validate_job): the approval and the
\* attempt that selection asked for are what the rules ask of a RUNNING job.
LEMMA AdoptedValid ==
  ASSUME NEW jobs \in [Jobs -> JobRecord], NEW j \in Jobs,
         ValidJob(j, jobs[j]),
         NEW open \in SUBSET Jobs, NEW externalRead \in BOOLEAN,
         CanAdopt(jobs, j, open, externalRead)
  PROVE  ValidJob(j, Adopted(jobs[j]))
<1>1. jobs[j] \in JobRecord /\ Contract[j] \in ContractType
  BY ContractAssumption
<1> QED BY <1>1, AdoptableIsEligible, RecordsTyped
  DEF ValidJob, JobRecord, ContractType

\* Ending a valid job makes a valid job.
LEMMA FinishedValid ==
  ASSUME NEW jobs \in [Jobs -> JobRecord], NEW j \in Jobs,
         ValidJob(j, jobs[j]), CanFinish(jobs, j)
  PROVE  /\ ValidJob(j, Completed(jobs[j]))
         /\ ValidJob(j, FailedSafe(jobs[j]))
BY RecordsTyped DEF ValidJob, CanFinish

\* The record an approval writes is only applied when it is valid.
LEMMA ApprovedValid ==
  ASSUME NEW jobs \in [Jobs -> JobRecord], NEW j \in Jobs,
         NEW received \in BOOLEAN, CanApprove(jobs, j, received)
  PROVE  ValidJob(j, ApprovalApplied(j, jobs[j], received))
BY DEF CanApprove

-----------------------------------------------------------------------------
(* The snapshot a call proposes *)

LEMMA CandidateTyped ==
  ASSUME NEW c \in Call, NEW s \in Snapshot
  PROVE  Candidate(c, s) \in JobRecord
<1>1. s.jobs[c.job] \in JobRecord /\ c.job \in Jobs
  BY DEF Call, Snapshot
<1>2. c.received \in BOOLEAN
  BY DEF Call
<1> QED BY <1>1, <1>2, RecordsTyped DEF Candidate

LEMMA ProposedTyped ==
  ASSUME NEW c \in Call, NEW s \in Snapshot
  PROVE  /\ Proposed(c, s) \in Snapshot
         /\ Proposed(c, s).revision = s.revision + 1
<1>1. /\ s.revision + 1 \in Nat
      /\ s.jobs \in [Jobs -> JobRecord]
      /\ s.refs \in [Jobs -> Objects \cup {NoObject}]
      /\ c.object \in Objects \cup {NoObject}
  BY DEF Snapshot, Call
<1>2. [s.jobs EXCEPT ![c.job] = Candidate(c, s)] \in [Jobs -> JobRecord]
  BY <1>1, CandidateTyped
<1>3. (IF c.op = "attach" THEN [s.refs EXCEPT ![c.job] = c.object] ELSE s.refs)
        \in [Jobs -> Objects \cup {NoObject}]
  BY <1>1
<1> QED BY <1>1, <1>2, <1>3 DEF Proposed, Revised, Snapshot

\* The values the locals of no call have.
LEMMA NoLocalsTyped == NoCall \in Call /\ NoBase \in Snapshot
<1>1. (CHOOSE j \in Jobs : TRUE) \in Jobs
  BY BootstrapAssumption
<1>2. NoCall \in Call
  BY <1>1 DEF NoCall, Call, Operations
<1>3. [state |-> "READY", attempts |-> 0, approved |-> FALSE] \in JobRecord
  BY DEF JobRecord, JobStates
<1>4. NoBase \in Snapshot
  BY <1>3 DEF NoBase, Snapshot
<1> QED BY <1>2, <1>4

\* The entry of a call is an entry of the ledger's history.
LEMMA EntryTyped ==
  ASSUME TypeOK, NEW w \in Workers
  PROVE  Entry(w) \in Commit
<1>1. call[w] \in Call /\ base[w] \in Snapshot
  BY DEF TypeOK
<1>2. Candidate(call[w], base[w]) \in JobRecord
  BY <1>1, CandidateTyped
<1> QED BY <1>1, <1>2 DEF Entry, Commit, Call, Snapshot, JobRecord

-----------------------------------------------------------------------------
(* Type correctness *)

LEMMA InitTypeOK == Init => TypeOK
<1> SUFFICES ASSUME Init PROVE TypeOK
  OBVIOUS
<1> QED BY NoLocalsTyped, BootstrapAssumption
        DEF Init, TypeOK, Locations, Results

\* A call that starts has typed arguments.
LEMMA BeginTypeOK ==
  ASSUME TypeOK, NEW w \in Workers, NEW c \in Call, Begin(w, c)
  PROVE  TypeOK'
BY DEF TypeOK, Begin, fileVars, Locations, Results

LEMMA NextTypeOK == TypeOK /\ [Next]_vars => TypeOK'
<1> SUFFICES ASSUME TypeOK, [Next]_vars PROVE TypeOK'
  OBVIOUS
<1> USE NoLocalsTyped DEF TypeOK
<1>1. CASE UNCHANGED vars
  BY <1>1 DEF vars
<1>2. ASSUME NEW w \in Workers, Start(w) PROVE TypeOK'
  <2>1. CASE StartAdoption(w)
    <3>1. PICK j \in Jobs : Begin(w, [NoCall EXCEPT !.op = "adopt", !.job = j])
      BY <2>1 DEF StartAdoption
    <3>2. [NoCall EXCEPT !.op = "adopt", !.job = j] \in Call
      BY DEF Call, Operations
    <3> QED BY <3>1, <3>2, BeginTypeOK
  <2>2. CASE StartEnding(w)
    <3>1. PICK evidence \in Evidence :
            Begin(w, [NoCall EXCEPT !.op = Route(evidence),
                                    !.job = evidence.job,
                                    !.attempt = evidence.attempt])
      BY <2>2 DEF StartEnding
    <3>2. /\ evidence.job \in Jobs
          /\ evidence.attempt \in Nat
          /\ Route(evidence) \in Operations
      BY DEF Evidence, Route, Operations
    <3>3. [NoCall EXCEPT !.op = Route(evidence), !.job = evidence.job,
                         !.attempt = evidence.attempt] \in Call
      BY <3>2 DEF Call
    <3> QED BY <3>1, <3>3, BeginTypeOK
  <2>3. CASE StartApproval(w)
    <3>1. PICK j \in Jobs, received \in BOOLEAN :
            Begin(w, [NoCall EXCEPT !.op = "approve", !.job = j,
                                    !.received = received])
      BY <2>3 DEF StartApproval
    <3>2. [NoCall EXCEPT !.op = "approve", !.job = j, !.received = received]
            \in Call
      BY DEF Call, Operations
    <3> QED BY <3>1, <3>2, BeginTypeOK
  <2>4. CASE StartAttachment(w)
    <3>1. PICK j \in Jobs, object \in Objects :
            Begin(w, [NoCall EXCEPT !.op = "attach", !.job = j,
                                    !.object = object])
      BY <2>4 DEF StartAttachment
    <3>2. [NoCall EXCEPT !.op = "attach", !.job = j, !.object = object] \in Call
      BY DEF Call, Operations
    <3> QED BY <3>1, <3>2, BeginTypeOK
  <2> QED BY <1>2, <2>1, <2>2, <2>3, <2>4 DEF Start
<1>3. ASSUME NEW w \in Workers, Proceed(w) PROVE TypeOK'
  <2>0. Proposed(call[w], base[w]) \in Snapshot /\ Entry(w) \in Commit
    BY ProposedTyped, EntryTyped
  <2>1. CASE LoadLook(w)
    BY <2>1 DEF LoadLook, Continue, Return, fileVars, Locations, Results
  <2>2. CASE LoadRead(w)
    BY <2>2 DEF LoadRead, Return, fileVars, Locations, Results
  <2>3. CASE Acquire(w)
    BY <2>3 DEF Acquire, Continue, Return, Locations, Results
  <2>4. CASE Check(w)
    BY <2>4 DEF Check, Continue, Conclude, fileVars, Locations, Results
  <2>5. CASE Write(w)
    BY <2>0, <2>5 DEF Write, Continue, Locations
  <2>6. CASE Replace(w)
    <3>1. queue' \in Snapshot /\ commits' \subseteq Commit
          /\ claims' \subseteq Commit
      BY <2>0, <2>6 DEF Replace
    <3>2. temp' \in Snapshot \cup {NoTemp, PartialTemp}
          /\ pc' \in [Workers -> Locations]
      BY <2>6 DEF Replace, Continue, Locations
    <3> QED BY <2>6, <3>1, <3>2 DEF Replace, Continue
  <2>7. CASE ReadBack(w)
    BY <2>7 DEF ReadBack, Conclude, fileVars, Locations, Results
  <2>8. CASE Release(w)
    BY <2>0, <2>8 DEF Release, Return, Acknowledge, Locations, Results
  <2> QED BY <1>3, <2>1, <2>2, <2>3, <2>4, <2>5, <2>6, <2>7, <2>8 DEF Proceed
<1>4. ASSUME NEW w \in Workers, Disturb(w) PROVE TypeOK'
  <2>0. Proposed(call[w], base[w]) \in Snapshot /\ Entry(w) \in Commit
    BY ProposedTyped, EntryTyped
  <2>1. CASE LoadFails(w)
    BY <2>1 DEF LoadFails, Fault, Return, fileVars, Locations, Results
  <2>2. CASE AcquireFails(w)
    BY <2>2 DEF AcquireFails, Fault, Return, fileVars, Locations, Results
  <2>3. CASE SaveFails(w)
    <3>1. temp' \in Snapshot \cup {NoTemp, PartialTemp}
      BY <2>0, <2>3 DEF SaveFails
    <3> QED BY <2>3, <3>1 DEF SaveFails, Fault, Conclude, Locations, Results
  <2>4. CASE ReleaseFails(w)
    BY <2>0, <2>4 DEF ReleaseFails, Fault, Return, Acknowledge, fileVars, Locations,
               Results
  <2>5. CASE Crash(w)
    BY <2>0, <2>5 DEF Crash, Fault, Return, Locations, Results
  <2> QED BY <1>4, <2>1, <2>2, <2>3, <2>4, <2>5 DEF Disturb
<1>5. ASSUME NEW object \in Objects, StoreObject(object) PROVE TypeOK'
  BY <1>5 DEF StoreObject, fileVars
<1> QED BY <1>1, <1>2, <1>3, <1>4, <1>5 DEF Next

\* Every variable keeps its type.
THEOREM TypeCorrect == Spec => []TypeOK
BY InitTypeOK, NextTypeOK, PTL DEF Spec

-----------------------------------------------------------------------------
(* The lock excludes *)

LEMMA InitExclusion == Init => LockHeld /\ MutualExclusion
BY DEF Init, LockHeld, MutualExclusion, Critical

\* A call that starts does not enter the critical section.
LEMMA StartOutside ==
  ASSUME NEW w \in Workers, Start(w)
  PROVE  \E c : Begin(w, c)
BY DEF Start, StartAdoption, StartEnding, StartApproval, StartAttachment

LEMMA NextExclusion ==
  TypeOK /\ LockHeld /\ MutualExclusion /\ [Next]_vars
  => LockHeld' /\ MutualExclusion'
<1> SUFFICES ASSUME TypeOK, LockHeld, MutualExclusion, [Next]_vars
             PROVE  LockHeld' /\ MutualExclusion'
  OBVIOUS
<1> USE DEF LockHeld, MutualExclusion, Critical
<1>1. pc \in [Workers -> Locations]
  BY DEF TypeOK
<1>2. CASE UNCHANGED vars
  BY <1>2 DEF vars
<1>3. ASSUME NEW w \in Workers, Start(w)
      PROVE  LockHeld' /\ MutualExclusion'
  <2>1. pc' = [pc EXCEPT ![w] = "load"] /\ lock' = lock
    BY <1>3, StartOutside DEF Begin, fileVars
  <2> QED BY <1>1, <2>1
<1>4. ASSUME NEW w \in Workers, Proceed(w)
      PROVE  LockHeld' /\ MutualExclusion'
  <2>1. CASE LoadLook(w) \/ LoadRead(w)
    <3>1. /\ lock' = lock
          /\ \E l \in {"idle", "read", "acquire"} : pc' = [pc EXCEPT ![w] = l]
      BY <2>1 DEF LoadLook, LoadRead, Continue, Return, fileVars
    <3> QED BY <1>1, <3>1
  <2>2. CASE Acquire(w)
    <3>1. CASE lock
      BY <1>1, <2>2, <3>1 DEF Acquire, Return
    <3>2. CASE ~ lock
      BY <1>1, <2>2, <3>2 DEF Acquire, Continue
    <3> QED BY <3>1, <3>2
  <2>3. CASE Check(w) \/ Write(w) \/ Replace(w) \/ ReadBack(w)
    <3>1. /\ lock' = lock
          /\ pc[w] \in {"check", "write", "replace", "readBack"}
          /\ \E l \in {"release", "write", "replace", "readBack"} :
               pc' = [pc EXCEPT ![w] = l]
      BY <2>3 DEF Check, Write, Replace, ReadBack, Continue, Conclude, fileVars
    <3> QED BY <1>1, <3>1
  <2>4. CASE Release(w)
    BY <1>1, <2>4 DEF Release, Return
  <2> QED BY <1>4, <2>1, <2>2, <2>3, <2>4 DEF Proceed
<1>5. ASSUME NEW w \in Workers, Disturb(w)
      PROVE  LockHeld' /\ MutualExclusion'
  <2>1. CASE SaveFails(w)
    <3>1. /\ lock' = lock
          /\ pc[w] \in {"check", "write", "replace", "readBack"}
          /\ pc' = [pc EXCEPT ![w] = "release"]
      BY <2>1 DEF SaveFails, Conclude
    <3> QED BY <1>1, <3>1
  <2>2. CASE LoadFails(w) \/ AcquireFails(w) \/ ReleaseFails(w) \/ Crash(w)
    <3>1. lock' = lock /\ pc' = [pc EXCEPT ![w] = "idle"]
      BY <2>2
      DEF LoadFails, AcquireFails, ReleaseFails, Crash, Return, fileVars
    <3> QED BY <1>1, <3>1
  <2> QED BY <1>5, <2>1, <2>2 DEF Disturb
<1>6. ASSUME NEW object \in Objects, StoreObject(object)
      PROVE  LockHeld' /\ MutualExclusion'
  BY <1>6 DEF StoreObject, fileVars
<1> QED BY <1>2, <1>3, <1>4, <1>5, <1>6 DEF Next

\* At most one process at a time is between creating and unlinking the lock.
THEOREM LockExcludes == Spec => []MutualExclusion
<1>1. Init => TypeOK /\ LockHeld /\ MutualExclusion
  BY InitTypeOK, InitExclusion
<1>2. TypeOK /\ LockHeld /\ MutualExclusion /\ [Next]_vars
      => TypeOK' /\ LockHeld' /\ MutualExclusion'
  BY NextTypeOK, NextExclusion
<1> QED BY <1>1, <1>2, PTL DEF Spec

-----------------------------------------------------------------------------
(* The inductive invariant *)

LEMMA InitInvariant == Init => StoreInv
<1> SUFFICES ASSUME Init PROVE StoreInv
  OBVIOUS
<1>1. /\ \A w \in Workers : pc[w] = "idle"
      /\ commits = {} /\ claims = {}
  BY DEF Init
<1>2. BaseOld /\ Exclusive /\ Written /\ EndingAuthorized /\ Reached
  BY <1>1 DEF BaseOld, Exclusive, Written, Unreported, EndingAuthorized, Reached
<1> QED BY <1>2, InitTypeOK, InitExclusion DEF StoreInv

\* Proposed references that name stored objects do so for ever: no operation
\* removes an object.
LEMMA SoundnessIsStable ==
  ASSUME NEW s, NEW T, NEW U, T \subseteq U, RefsSound(s, T)
  PROVE  RefsSound(s, U)
BY DEF RefsSound

\* A step of worker w that leaves the document, the history and the other
\* workers alone, and brings w to a place where nothing is asked of it.
Quiet(w) ==
  /\ queue' = queue /\ stored' = stored
  /\ commits' = commits /\ claims' = claims
  /\ \A v \in Workers \ {w} :
       /\ pc'[v] = pc[v] /\ call'[v] = call[v]
       /\ base'[v] = base[v] /\ result'[v] = result[v]

LEMMA QuietKeeps ==
  ASSUME StoreInv, NEW w \in Workers, Quiet(w), pc[w] # "idle",
         \A v \in Workers \ {w} : pc[v] \in {"write", "replace"} => temp' = temp,
         pc'[w] = "idle" \/ call'[w] = call[w],
         pc'[w] \in {"idle", "release"} \/ (pc[w] = "load" /\ pc'[w] = "read"),
         pc'[w] = "release" /\ result'[w] = "durable" =>
           pc[w] = "readBack" /\ base'[w] = base[w] /\ call'[w] = call[w]
  PROVE  BaseOld' /\ Exclusive' /\ Written' /\ EndingAuthorized' /\ Reached'
<1> USE DEF StoreInv, Quiet
<1>1. BaseOld'
  BY DEF BaseOld
<1>2. Exclusive'
  BY DEF Exclusive, Current
<1>3. Written'
  BY DEF Written, Unreported, Entry
<1>4. EndingAuthorized'
  BY DEF EndingAuthorized, Ledger!AdoptionClaimed
<1>5. Reached'
  BY DEF Reached
<1> QED BY <1>1, <1>2, <1>3, <1>4, <1>5

LEMMA NextInvariant == StoreInv /\ [Next]_vars => StoreInv'
<1> SUFFICES ASSUME StoreInv, [Next]_vars PROVE StoreInv'
  OBVIOUS
<1> DEFINE Rest == BaseOld /\ Exclusive /\ Written /\ EndingAuthorized /\ Reached
<1>1. TypeOK /\ LockHeld /\ MutualExclusion /\ Rest
  BY DEF StoreInv
<1>2. TypeOK' /\ LockHeld' /\ MutualExclusion'
  BY <1>1, NextTypeOK, NextExclusion
<1>3. CASE UNCHANGED vars
  BY <1>1, <1>2, <1>3
  DEF vars, StoreInv, BaseOld, Exclusive, Current, Written, Unreported, Entry,
      EndingAuthorized, Ledger!AdoptionClaimed, Reached
<1>4. ASSUME NEW w \in Workers, Start(w) PROVE Rest'
  <2>1. PICK c : /\ Begin(w, c)
                 /\ c.op \in {"complete", "failSafe"} =>
                      Ledger!AdoptionClaimed(c.job, c.attempt)
    <3>1. CASE StartAdoption(w)
      <4>1. PICK j \in Jobs :
              Begin(w, [NoCall EXCEPT !.op = "adopt", !.job = j])
        BY <3>1 DEF StartAdoption
      <4>2. [NoCall EXCEPT !.op = "adopt", !.job = j].op = "adopt"
        BY DEF NoCall
      <4> QED BY <4>1, <4>2
    <3>2. CASE StartEnding(w)
      <4>1. PICK adoption \in claims, evidence \in Evidence :
              /\ Authenticated(adoption, evidence)
              /\ Begin(w, [NoCall EXCEPT !.op = Route(evidence),
                                         !.job = evidence.job,
                                         !.attempt = evidence.attempt])
        BY <3>2 DEF StartEnding
      <4> DEFINE c == [NoCall EXCEPT !.op = Route(evidence),
                                     !.job = evidence.job,
                                     !.attempt = evidence.attempt]
      <4>2. c.job = evidence.job /\ c.attempt = evidence.attempt
        BY DEF NoCall
      <4>3. Ledger!AdoptionClaimed(evidence.job, evidence.attempt)
        BY <4>1 DEF Authenticated, Ledger!AdoptionClaimed
      <4>4. Begin(w, c) /\ Ledger!AdoptionClaimed(c.job, c.attempt)
        BY <4>1, <4>2, <4>3
      <4> HIDE DEF c
      <4> QED BY <4>4
    <3>3. CASE StartApproval(w)
      <4>1. PICK j \in Jobs, received \in BOOLEAN :
              Begin(w, [NoCall EXCEPT !.op = "approve", !.job = j,
                                      !.received = received])
        BY <3>3 DEF StartApproval
      <4>2. [NoCall EXCEPT !.op = "approve", !.job = j,
                           !.received = received].op = "approve"
        BY DEF NoCall
      <4> QED BY <4>1, <4>2
    <3>4. CASE StartAttachment(w)
      <4>1. PICK j \in Jobs, object \in Objects :
              Begin(w, [NoCall EXCEPT !.op = "attach", !.job = j,
                                      !.object = object])
        BY <3>4 DEF StartAttachment
      <4>2. [NoCall EXCEPT !.op = "attach", !.job = j,
                           !.object = object].op = "attach"
        BY DEF NoCall
      <4> QED BY <4>1, <4>2
    <3> QED BY <1>4, <3>1, <3>2, <3>3, <3>4 DEF Start
  <2> QED
    BY <1>1, <2>1
    DEF TypeOK, Begin, fileVars, BaseOld, Exclusive, Current, Written,
        Unreported, Entry, EndingAuthorized, Ledger!AdoptionClaimed, Reached
<1>5. ASSUME NEW w \in Workers, LoadRead(w), pc'[w] = "acquire"
      PROVE  Rest'
  <2>1. /\ Acceptable(call[w], queue)
        /\ base' = [base EXCEPT ![w] = queue]
        /\ pc' = [pc EXCEPT ![w] = "acquire"]
        /\ call' = call /\ result' = result
        /\ UNCHANGED <<fileVars, stored, commits, claims>>
        /\ pc[w] = "read"
    BY <1>1, <1>5 DEF LoadRead, Return, TypeOK
  <2> QED
    BY <1>1, <2>1
    DEF TypeOK, Snapshot, fileVars, BaseOld, Exclusive, Current, Written,
        Unreported, Entry, EndingAuthorized, Ledger!AdoptionClaimed, Reached
<1>6. ASSUME NEW w \in Workers, Acquire(w), pc'[w] = "check"
      PROVE  Rest'
  <2>1. /\ pc[w] = "acquire"
        /\ pc' = [pc EXCEPT ![w] = "check"]
        /\ UNCHANGED <<queue, temp, stored, call, base, result, commits, claims>>
    BY <1>1, <1>6 DEF Acquire, Continue, Return, TypeOK
  <2> QED
    BY <1>1, <2>1
    DEF TypeOK, BaseOld, Exclusive, Current, Written, Unreported, Entry,
        EndingAuthorized, Ledger!AdoptionClaimed, Reached
<1>7. ASSUME NEW w \in Workers, Check(w), pc'[w] = "write"
      PROVE  Rest'
  <2>1. /\ pc[w] = "check"
        /\ temp = NoTemp /\ Current(w)
        /\ RefsSound(Proposed(call[w], base[w]), stored)
        /\ pc' = [pc EXCEPT ![w] = "write"]
        /\ UNCHANGED <<queue, temp, stored, call, base, result, commits, claims>>
    BY <1>1, <1>7 DEF Check, Continue, Conclude, TypeOK, fileVars
  <2> QED
    BY <1>1, <2>1
    DEF TypeOK, BaseOld, Exclusive, Current, Written, Unreported, Entry,
        EndingAuthorized, Ledger!AdoptionClaimed, Reached
<1>8. ASSUME NEW w \in Workers, Write(w) PROVE Rest'
  <2>1. /\ pc[w] = "write"
        /\ temp' = Proposed(call[w], base[w])
        /\ pc' = [pc EXCEPT ![w] = "replace"]
        /\ UNCHANGED <<queue, stored, call, base, result, commits, claims>>
    BY <1>8 DEF Write, Continue
  <2>2. \A v \in Workers \ {w} : pc[v] \notin Critical
    BY <1>1, <2>1 DEF MutualExclusion, Critical
  <2> QED
    BY <1>1, <2>1, <2>2
    DEF TypeOK, BaseOld, Exclusive, Current, Written, Unreported, Entry,
        EndingAuthorized, Ledger!AdoptionClaimed, Reached, Critical
<1>9. ASSUME NEW w \in Workers, Replace(w) PROVE Rest'
  <2>1. /\ pc[w] = "replace"
        /\ queue' = Proposed(call[w], base[w])
        /\ commits' = commits \cup {Entry(w)}
        /\ pc' = [pc EXCEPT ![w] = "readBack"]
        /\ UNCHANGED <<stored, call, base, result, claims>>
    BY <1>1, <1>9 DEF Replace, Continue, Exclusive
  <2>2. \A v \in Workers \ {w} : pc[v] \notin Critical
    BY <1>1, <2>1 DEF MutualExclusion, Critical
  <2>3. /\ base[w].revision = queue.revision
        /\ queue.revision \in Nat
        /\ queue'.revision = queue.revision + 1
        /\ Entry(w).revision = queue.revision + 1
        /\ \A v \in Workers : base[v].revision \in Nat
        /\ \A c \in commits : c.revision \in Nat
    <3>1. /\ call[w] \in Call /\ queue \in Snapshot
          /\ \A v \in Workers : base[v] \in Snapshot
      BY <1>1 DEF TypeOK
    <3>2. base[w].revision = queue.revision
      BY <1>1, <2>1 DEF Exclusive, Current
    <3>3. \A s \in Snapshot : s.revision \in Nat
      BY DEF Snapshot
    <3>4. queue'.revision = queue.revision + 1
      BY <2>1, <3>1, <3>2, ProposedTyped
    <3>5. \A c \in commits : c.revision \in Nat
      BY <1>1 DEF TypeOK, Commit
    <3> QED BY <3>1, <3>2, <3>3, <3>4, <3>5 DEF Entry
  <2>4. BaseOld' /\ Exclusive'
    BY <1>1, <2>1, <2>2, <2>3 DEF TypeOK, BaseOld, Exclusive, Critical
  <2>5. Entry(w) \notin claims
    BY <1>1, <2>3 DEF Reached, Written
  <2>6. Written'
    BY <1>1, <2>1, <2>2, <2>5
    DEF TypeOK, Written, Unreported, Entry, Critical
  <2>7. EndingAuthorized'
    BY <1>1, <2>1 DEF TypeOK, EndingAuthorized, Ledger!AdoptionClaimed
  <2>8. Reached'
    BY <1>1, <2>1, <2>3 DEF Reached
  <2> QED BY <2>4, <2>6, <2>7, <2>8
<1>10. ASSUME NEW w \in Workers, Release(w) \/ ReleaseFails(w) PROVE Rest'
  <2>1. /\ pc[w] = "release"
        /\ Acknowledge(w)
        /\ pc' = [pc EXCEPT ![w] = "idle"]
        /\ call' = [call EXCEPT ![w] = NoCall]
        /\ base' = [base EXCEPT ![w] = NoBase]
        /\ UNCHANGED <<queue, temp, stored, commits>>
    BY <1>10 DEF Release, ReleaseFails, Return, fileVars
  <2>2. \A v \in Workers \ {w} : pc[v] \notin Critical
    BY <1>1, <2>1 DEF MutualExclusion, Critical
  <2>3. BaseOld' /\ Exclusive' /\ Reached'
    BY <1>1, <2>1 DEF TypeOK, BaseOld, Exclusive, Current, Reached
  <2>4. Written'
    <3>1. claims' \subseteq commits'
      BY <1>1, <2>1 DEF Acknowledge, Written, Unreported
    <3>2. \A v \in Workers : ~ Unreported(v)'
      BY <1>1, <2>1, <2>2 DEF TypeOK, Unreported, Critical
    <3> QED BY <3>1, <3>2 DEF Written
  <2>5. EndingAuthorized'
    BY <1>1, <2>1
    DEF TypeOK, EndingAuthorized, Ledger!AdoptionClaimed, Acknowledge
  <2> QED BY <2>3, <2>4, <2>5
<1>11. ASSUME NEW w \in Workers, Proceed(w) PROVE Rest'
  <2>1. CASE LoadLook(w)
    BY <1>1, <2>1, QuietKeeps
    DEF TypeOK, LoadLook, Continue, Return, fileVars, Quiet
  <2>2. CASE LoadRead(w)
    <3>1. CASE pc'[w] # "acquire"
      BY <1>1, <2>2, <3>1, QuietKeeps
      DEF TypeOK, LoadRead, Return, fileVars, Quiet
    <3> QED BY <1>5, <2>2, <3>1
  <2>3. CASE Acquire(w)
    <3>1. CASE pc'[w] # "check"
      BY <1>1, <2>3, <3>1, QuietKeeps
      DEF TypeOK, Acquire, Continue, Return, Quiet
    <3> QED BY <1>6, <2>3, <3>1
  <2>4. CASE Check(w)
    <3>1. CASE pc'[w] # "write"
      BY <1>1, <2>4, <3>1, QuietKeeps
      DEF TypeOK, Check, Continue, Conclude, fileVars, Quiet
    <3> QED BY <1>7, <2>4, <3>1
  <2>5. CASE ReadBack(w)
    BY <1>1, <2>5, QuietKeeps DEF TypeOK, ReadBack, Conclude, fileVars, Quiet
  <2> QED BY <1>8, <1>9, <1>10, <1>11, <2>1, <2>2, <2>3, <2>4, <2>5 DEF Proceed
<1>12. ASSUME NEW w \in Workers, Disturb(w) PROVE Rest'
  <2>1. CASE LoadFails(w) \/ AcquireFails(w)
    BY <1>1, <2>1, QuietKeeps
    DEF TypeOK, LoadFails, AcquireFails, Return, fileVars, Quiet
  <2>2. CASE SaveFails(w)
    <3>1. \A v \in Workers \ {w} : pc[v] \notin Critical
      BY <1>1, <2>2 DEF SaveFails, MutualExclusion, Critical
    <3> QED
      BY <1>1, <2>2, <3>1, QuietKeeps
      DEF TypeOK, SaveFails, Conclude, Quiet, Critical
  <2>3. CASE Crash(w)
    <3>1. ASSUME NEW v \in Workers \ {w}, pc[v] \in {"write", "replace"}
          PROVE  temp' = temp
      BY <1>1, <2>3, <3>1 DEF Crash, MutualExclusion, Critical
    <3> QED
      BY <1>1, <2>3, <3>1, QuietKeeps DEF TypeOK, Crash, Return, Quiet
  <2> QED BY <1>10, <1>12, <2>1, <2>2, <2>3 DEF Disturb
<1>13. ASSUME NEW object \in Objects, StoreObject(object) PROVE Rest'
  BY <1>1, <1>13, SoundnessIsStable
  DEF StoreObject, fileVars, BaseOld, Exclusive, Current, Written, Unreported,
      Entry, EndingAuthorized, Ledger!AdoptionClaimed, Reached
<1> QED
  BY <1>2, <1>3, <1>4, <1>11, <1>12, <1>13 DEF Next, StoreInv

\* The store keeps its invariant.
THEOREM StoreInvariant == Spec => []StoreInv
BY InitInvariant, NextInvariant, PTL DEF Spec

-----------------------------------------------------------------------------
(* Compare-and-set writes every revision exactly once *)

\* What a replace does: the next revision, written by this call.
LEMMA ReplaceAdvances ==
  ASSUME StoreInv, NEW w \in Workers, Replace(w)
  PROVE  /\ base[w] = queue
         /\ Acceptable(call[w], queue)
         /\ RefsSound(Proposed(call[w], queue), stored)
         /\ queue' = Proposed(call[w], queue)
         /\ commits' = commits \cup {Entry(w)}
         /\ Entry(w).revision = queue.revision + 1
         /\ queue'.revision = queue.revision + 1
<1>1. /\ base[w] = queue
      /\ Acceptable(call[w], queue)
      /\ RefsSound(Proposed(call[w], queue), stored)
      /\ queue' = Proposed(call[w], queue)
      /\ commits' = commits \cup {Entry(w)}
  BY DEF Replace, StoreInv, BaseOld, Exclusive, Current
<1>2. call[w] \in Call /\ queue \in Snapshot
  BY DEF StoreInv, TypeOK
<1> QED BY <1>1, <1>2, ProposedTyped DEF Entry

\* Only a replace changes the document or records a change.
LEMMA OnlyReplaceWrites ==
  ASSUME [Next]_vars, \A w \in Workers : ~ Replace(w)
  PROVE  queue' = queue /\ commits' = commits
<1>1. CASE UNCHANGED vars
  BY <1>1 DEF vars
<1>2. ASSUME NEW w \in Workers, Start(w)
      PROVE  queue' = queue /\ commits' = commits
  BY <1>2, StartOutside DEF Begin, fileVars
<1>3. ASSUME NEW w \in Workers, Proceed(w)
      PROVE  queue' = queue /\ commits' = commits
  BY <1>3
  DEF Proceed, LoadLook, LoadRead, Acquire, Check, Write, ReadBack, Release,
      fileVars
<1>4. ASSUME NEW w \in Workers, Disturb(w)
      PROVE  queue' = queue /\ commits' = commits
  BY <1>4
  DEF Disturb, LoadFails, AcquireFails, SaveFails, ReleaseFails, Crash, fileVars
<1>5. ASSUME NEW object \in Objects, StoreObject(object)
      PROVE  queue' = queue /\ commits' = commits
  BY <1>5 DEF StoreObject, fileVars
<1> QED BY <1>1, <1>2, <1>3, <1>4, <1>5 DEF Next

\* No revision is written twice and none is skipped: of two calls that loaded
\* the same revision at most one gets through.
THEOREM EveryRevisionOnce == Spec => []OneCommitPerRevision
<1>1. Init => OneCommitPerRevision
  BY BootstrapAssumption DEF Init, OneCommitPerRevision
<1>2. StoreInv /\ OneCommitPerRevision /\ [Next]_vars => OneCommitPerRevision'
  <2> SUFFICES ASSUME StoreInv, OneCommitPerRevision, [Next]_vars
               PROVE  OneCommitPerRevision'
    OBVIOUS
  <2>1. ASSUME NEW w \in Workers, Replace(w) PROVE OneCommitPerRevision'
    <3>1. /\ queue.revision \in Nat
          /\ \A c \in commits : c.revision \in Nat /\ c.revision <= queue.revision
      BY DEF StoreInv, TypeOK, Snapshot, Commit, Reached
    <3> QED
      BY <2>1, <3>1, ReplaceAdvances DEF OneCommitPerRevision
  <2>2. CASE \A w \in Workers : ~ Replace(w)
    BY <2>2, OnlyReplaceWrites DEF OneCommitPerRevision
  <2> QED BY <2>1, <2>2
<1> QED BY <1>1, <1>2, StoreInvariant, PTL DEF Spec

\* No call's record has fewer attempts than the one it replaces.
LEMMA CandidateAttempts ==
  ASSUME NEW c \in Call, NEW s \in Snapshot
  PROVE  Candidate(c, s).attempts >= s.jobs[c.job].attempts
<1>1. s.jobs[c.job] \in JobRecord
  BY DEF Call, Snapshot
<1>2. s.jobs[c.job].attempts \in Nat
  BY <1>1 DEF JobRecord
<1> QED
  BY <1>1, <1>2
  DEF Candidate, Adopted, Completed, FailedSafe, ApprovalApplied, JobRecord

\* Attempts are never given back, and revisions go up one at a time.
THEOREM StoreNeverBackwards == Spec => NeverBackwards
<1> DEFINE Onwards ==
      /\ queue' # queue => queue'.revision = queue.revision + 1
      /\ \A j \in Jobs : queue'.jobs[j].attempts >= queue.jobs[j].attempts
<1>1. StoreInv /\ [Next]_vars => [Onwards]_queue
  <2> SUFFICES ASSUME StoreInv, [Next]_vars, queue' # queue
               PROVE  Onwards
    OBVIOUS
  <2>1. PICK w \in Workers : Replace(w)
    BY OnlyReplaceWrites
  <2>2. queue \in Snapshot /\ call[w] \in Call
    BY DEF StoreInv, TypeOK
  <2>3. /\ queue' = Proposed(call[w], queue)
        /\ queue'.revision = queue.revision + 1
    BY <2>1, ReplaceAdvances
  <2>4. ASSUME NEW j \in Jobs
        PROVE  queue'.jobs[j].attempts >= queue.jobs[j].attempts
    <3>1. queue'.jobs
            = [queue.jobs EXCEPT ![call[w].job] = Candidate(call[w], queue)]
      BY <2>3 DEF Proposed, Revised
    <3>2. queue.jobs \in [Jobs -> JobRecord] /\ queue.jobs[j].attempts \in Nat
      BY <2>2 DEF Snapshot, JobRecord
    <3>3. CASE j = call[w].job
      BY <2>2, <3>1, <3>2, <3>3, CandidateAttempts
    <3>4. CASE j # call[w].job
      BY <3>1, <3>2, <3>4
    <3> QED BY <3>3, <3>4
  <2> QED BY <2>3, <2>4
<1> QED
  BY <1>1, StoreInvariant, PTL DEF Spec, NeverBackwards, Ledger!NeverBackwards

-----------------------------------------------------------------------------
(* The store implements the ledger *)

\* The ledger's copies of the core's operators are these ones.
LEMMA SameCore ==
  ASSUME NEW jobs, NEW j, NEW rec, NEW open, NEW externalRead, NEW received
  PROVE  /\ Ledger!CanAdopt(jobs, j, open, externalRead)
              <=> CanAdopt(jobs, j, open, externalRead)
         /\ Ledger!CanFinish(jobs, j) <=> CanFinish(jobs, j)
         /\ Ledger!CanApprove(jobs, j, received) <=> CanApprove(jobs, j, received)
         /\ Ledger!Adopted(rec) = Adopted(rec)
         /\ Ledger!Completed(rec) = Completed(rec)
         /\ Ledger!FailedSafe(rec) = FailedSafe(rec)
         /\ Ledger!ApprovalApplied(j, rec, received)
              = ApprovalApplied(j, rec, received)
BY DEF Ledger!CanAdopt, CanAdopt, Ledger!IsNext, IsNext, Ledger!Eligible,
       Eligible, Ledger!RiskAllows, RiskAllows, Ledger!WindowAllows,
       WindowAllows, Ledger!Precedes, Precedes, Ledger!CanFinish, CanFinish,
       Ledger!CanApprove, CanApprove, Ledger!ValidJob, ValidJob,
       Ledger!Adopted, Adopted, Ledger!Completed, Completed,
       Ledger!FailedSafe, FailedSafe, Ledger!ApprovalApplied, ApprovalApplied

\* What a caller writes is one of the ledger's changes, made to the document
\* as it is at that moment: nothing that happened since its load is lost.
LEMMA ReplaceRefines ==
  ASSUME StoreInv, NEW w \in Workers, Replace(w)
  PROVE  Ledger!Next
<1> DEFINE c == call[w]
           rec == Candidate(c, queue)
<1>1. /\ c \in Call /\ c.job \in Jobs /\ queue \in Snapshot
      /\ c.op \in Operations /\ c.received \in BOOLEAN
      /\ c.object \in Objects \cup {NoObject}
  BY DEF StoreInv, TypeOK, Call
<1>2. /\ base[w] = queue
      /\ Acceptable(c, queue)
      /\ RefsSound(Proposed(c, queue), stored)
      /\ queue' = Proposed(c, queue)
      /\ commits' = commits \cup {Entry(w)}
  BY ReplaceAdvances
<1>3. stored' = stored /\ claims' = claims
  BY DEF Replace
<1>4. Entry(w) = [op |-> c.op, by |-> w, job |-> c.job, attempt |-> rec.attempts,
                  revision |-> queue.revision + 1]
  BY <1>2 DEF Entry
<1>5. pc[w] # "idle"
  BY DEF Replace
<1> HIDE DEF c, rec
<1>6. ASSUME c.op # "attach" PROVE Ledger!Advance(c.op, w, c.job, rec)
  <2>1. queue' = Ledger!Revised(queue, [queue.jobs EXCEPT ![c.job] = rec],
                                queue.refs)
    BY <1>2, <1>6 DEF Proposed, Revised, Ledger!Revised, rec
  <2> QED BY <1>2, <1>3, <1>4, <2>1 DEF Ledger!Advance
<1>7. CASE c.op = "adopt"
  <2>1. rec = Ledger!Adopted(queue.jobs[c.job])
    BY <1>7, SameCore DEF Candidate, rec
  <2>2. PICK open \in SUBSET Jobs, externalRead \in BOOLEAN :
          MayAdopt(c, queue, open, externalRead)
    BY <1>2, <1>7 DEF Acceptable
  <2>3. Ledger!Adopt(w, c.job)
    BY <1>6, <1>7, <2>1, <2>2, SameCore DEF Ledger!Adopt, MayAdopt
  <2> QED BY <1>1, <2>3 DEF Ledger!Next
<1>8. CASE c.op \in {"complete", "failSafe"}
  <2>1. /\ MayFinish(c, queue)
        /\ Ledger!AdoptionClaimed(c.job, c.attempt)
    BY <1>2, <1>5, <1>8 DEF Acceptable, StoreInv, EndingAuthorized, c
  <2>2. /\ Ledger!CanFinish(queue.jobs, c.job)
        /\ Ledger!AdoptionClaimed(c.job, queue.jobs[c.job].attempts)
    BY <2>1, SameCore DEF MayFinish
  <2>3. CASE c.op = "complete"
    <3>1. rec = Ledger!Completed(queue.jobs[c.job])
      BY <2>3, SameCore DEF Candidate, rec
    <3>2. Ledger!Complete(w, c.job)
      BY <1>6, <2>2, <2>3, <3>1 DEF Ledger!Complete
    <3> QED BY <1>1, <3>2 DEF Ledger!Next
  <2>4. CASE c.op = "failSafe"
    <3>1. rec = Ledger!FailedSafe(queue.jobs[c.job])
      BY <2>4, SameCore DEF Candidate, rec
    <3>2. Ledger!FailSafe(w, c.job)
      BY <1>6, <2>2, <2>4, <3>1 DEF Ledger!FailSafe
    <3> QED BY <1>1, <3>2 DEF Ledger!Next
  <2> QED BY <1>8, <2>3, <2>4
<1>9. CASE c.op = "approve"
  <2>1. rec = Ledger!ApprovalApplied(c.job, queue.jobs[c.job], c.received)
    BY <1>9, SameCore DEF Candidate, rec
  <2>2. Ledger!CanApprove(queue.jobs, c.job, c.received)
    BY <1>2, <1>9, SameCore DEF Acceptable
  <2>3. Ledger!Approve(w, c.job, c.received)
    BY <1>6, <1>9, <2>1, <2>2 DEF Ledger!Approve
  <2> QED BY <1>1, <2>3 DEF Ledger!Next
<1>10. CASE c.op = "attach"
  <2>1. c.object # NoObject /\ queue.refs[c.job] # c.object
    BY <1>2, <1>10 DEF Acceptable, MayAttach
  <2>2. queue' = Ledger!Revised(queue, queue.jobs,
                                [queue.refs EXCEPT ![c.job] = c.object])
    <3>1. rec = queue.jobs[c.job]
      BY <1>10 DEF Candidate, rec
    <3>2. [queue.jobs EXCEPT ![c.job] = rec] = queue.jobs
      BY <1>1, <3>1 DEF Snapshot
    <3> QED BY <1>2, <1>10, <3>2 DEF Proposed, Revised, Ledger!Revised, rec
  <2>3. c.object \in stored /\ ObjectJob[c.object] = c.job
    <3>1. Proposed(c, queue).refs[c.job] = c.object
      BY <1>1, <1>10 DEF Proposed, Revised, Snapshot
    <3> QED BY <1>1, <1>2, <2>1, <3>1 DEF RefsSound
  <2>4. Entry(w) = [op |-> "attach", by |-> w, job |-> c.job,
                    attempt |-> queue.jobs[c.job].attempts,
                    revision |-> queue.revision + 1]
    BY <1>4, <1>10 DEF Candidate, rec
  <2>5. Ledger!Attach(w, c.job, c.object)
    BY <1>2, <1>3, <2>1, <2>2, <2>3, <2>4 DEF Ledger!Attach
  <2> QED BY <1>1, <2>1, <2>5 DEF Ledger!Next
<1> QED BY <1>1, <1>7, <1>8, <1>9, <1>10 DEF Operations

LEMMA InitRefines == Init => Ledger!Init
BY DEF Init, Ledger!Init

\* Every other step acknowledges a change, stores an object, or is invisible.
LEMMA NextRefines == StoreInv /\ [Next]_vars => [Ledger!Next]_(Ledger!ledgerVars)
<1> SUFFICES ASSUME StoreInv, [Next]_vars
             PROVE  Ledger!Next \/ UNCHANGED Ledger!ledgerVars
  BY DEF Ledger!ledgerVars
<1> USE DEF Ledger!ledgerVars
<1>1. ASSUME NEW w \in Workers, Replace(w) PROVE Ledger!Next
  BY <1>1, ReplaceRefines
<1>2. ASSUME NEW w \in Workers, Release(w) \/ ReleaseFails(w)
      PROVE  Ledger!Next \/ UNCHANGED Ledger!ledgerVars
  <2>1. /\ pc[w] = "release" /\ Acknowledge(w)
        /\ UNCHANGED <<queue, stored, commits>>
    BY <1>2 DEF Release, ReleaseFails, fileVars
  <2>2. CASE result[w] = "durable"
    <3>1. Entry(w) \in commits \ claims
      BY <2>1, <2>2 DEF StoreInv, Written, Unreported
    <3>2. Ledger!Acknowledge(Entry(w))
      BY <2>1, <2>2, <3>1 DEF Acknowledge, Ledger!Acknowledge
    <3> QED BY <3>1, <3>2 DEF Ledger!Next
  <2> QED BY <2>1, <2>2 DEF Acknowledge
<1>3. ASSUME NEW object \in Objects, StoreObject(object) PROVE Ledger!Next
  BY <1>3 DEF StoreObject, fileVars, Ledger!StoreObject, Ledger!Next
<1>4. CASE UNCHANGED vars
  BY <1>4 DEF vars
<1>5. ASSUME NEW w \in Workers, Start(w) PROVE UNCHANGED Ledger!ledgerVars
  BY <1>5, StartOutside DEF Begin, fileVars
<1>6. ASSUME NEW w \in Workers, Proceed(w)
      PROVE  Ledger!Next \/ UNCHANGED Ledger!ledgerVars
  <2>1. CASE LoadLook(w) \/ LoadRead(w) \/ Acquire(w) \/ Check(w) \/ Write(w)
             \/ ReadBack(w)
    BY <2>1
    DEF LoadLook, LoadRead, Acquire, Check, Write, ReadBack, fileVars
  <2> QED BY <1>1, <1>2, <1>6, <2>1 DEF Proceed
<1>7. ASSUME NEW w \in Workers, Disturb(w)
      PROVE  Ledger!Next \/ UNCHANGED Ledger!ledgerVars
  <2>1. CASE LoadFails(w) \/ AcquireFails(w) \/ SaveFails(w) \/ Crash(w)
    BY <2>1 DEF LoadFails, AcquireFails, SaveFails, Crash, fileVars
  <2> QED BY <1>2, <1>7, <2>1 DEF Disturb
<1> QED BY <1>3, <1>4, <1>5, <1>6, <1>7 DEF Next

\* The store, with its files, lock, crashes and retries, implements the ledger:
\* every behaviour of it is one in which whole operations happen one at a time.
THEOREM StoreImplementsLedger == Spec => ImplementsLedger
<1>1. Init => Ledger!Init
  BY InitRefines
<1>2. StoreInv /\ [Next]_vars => [Ledger!Next]_(Ledger!ledgerVars)
  BY NextRefines
<1>3. Ledger!Init /\ [][Ledger!Next]_(Ledger!ledgerVars) => Ledger!Spec
  BY DEF Ledger!Spec
<1> QED BY <1>1, <1>2, <1>3, StoreInvariant, PTL DEF Spec, ImplementsLedger

-----------------------------------------------------------------------------
(* The inductive invariant of the ledger *)

\* The ledger's copies of the document's operators are these ones.
LEMMA SameDocument ==
  /\ Ledger!Snapshot = Snapshot
  /\ Ledger!Commit = Commit
  /\ \A s, jobs, refs : Ledger!Revised(s, jobs, refs) = Revised(s, jobs, refs)
  /\ \A s, objects : Ledger!RefsSound(s, objects) <=> RefsSound(s, objects)
  /\ \A jobs : Ledger!ValidQueue(jobs) <=> ValidQueue(jobs)
<1>1. Ledger!JobRecord = JobRecord
  BY DEF Ledger!JobRecord, JobRecord, Ledger!JobStates, JobStates
<1>2. Ledger!Snapshot = Snapshot
  BY <1>1 DEF Ledger!Snapshot, Snapshot
<1>3. Ledger!Commit = Commit
  BY DEF Ledger!Commit, Commit, Ledger!Operations, Operations
<1>4. ASSUME NEW s, NEW jobs, NEW refs
      PROVE  Ledger!Revised(s, jobs, refs) = Revised(s, jobs, refs)
  BY DEF Ledger!Revised, Revised
<1>5. ASSUME NEW s, NEW objects
      PROVE  Ledger!RefsSound(s, objects) <=> RefsSound(s, objects)
  BY DEF Ledger!RefsSound, RefsSound
<1>6. ASSUME NEW jobs PROVE Ledger!ValidQueue(jobs) <=> ValidQueue(jobs)
  BY DEF Ledger!ValidQueue, ValidQueue, Ledger!ValidJob, ValidJob
<1> QED BY <1>2, <1>3, <1>4, <1>5, <1>6

LEMMA LedgerInit == Ledger!Init => Ledger!LedgerInv
<1> SUFFICES ASSUME Ledger!Init PROVE Ledger!LedgerInv
  OBVIOUS
<1>1. Ledger!TypeOK /\ Ledger!QueueValid /\ Ledger!ActiveRefsSound
  BY BootstrapAssumption, SameDocument
  DEF Ledger!Init, Ledger!TypeOK, Ledger!QueueValid, Ledger!ActiveRefsSound,
      RefsSound
<1>2. commits = {}
  BY DEF Ledger!Init
<1> QED BY <1>1, <1>2
  DEF Ledger!LedgerInv, Ledger!PastOnly, Ledger!EndedNotRunning,
      Ledger!UniqueAdoption, Ledger!UniqueEnding, Ledger!EndingFollowsAdoption

\* The change all operations but Attach share keeps the invariant if the new
\* record is valid, an adoption takes the next attempt, and an ending ends the
\* current, RUNNING and acknowledged one.
LEMMA AdvanceKeepsLedger ==
  ASSUME Ledger!LedgerInv,
         NEW op \in Operations, NEW w \in Workers, NEW j \in Jobs,
         NEW rec \in JobRecord,
         Ledger!Advance(op, w, j, rec),
         ValidJob(j, rec),
         IF op = "adopt"
         THEN rec.attempts = queue.jobs[j].attempts + 1
         ELSE rec.attempts = queue.jobs[j].attempts /\ rec.state # "RUNNING",
         op \in {"complete", "failSafe"} =>
           /\ queue.jobs[j].state = "RUNNING"
           /\ Ledger!AdoptionClaimed(j, rec.attempts)
  PROVE  Ledger!LedgerInv'
<1> DEFINE new == [op |-> op, by |-> w, job |-> j,
                   attempt |-> rec.attempts,
                   revision |-> queue.revision + 1]
<1> USE DEF Ledger!LedgerInv
<1>1. /\ queue \in Snapshot /\ commits \subseteq Commit
      /\ claims \subseteq commits /\ stored \subseteq Objects
  BY SameDocument
  DEF Ledger!TypeOK
<1>2. /\ queue' = Revised(queue, [queue.jobs EXCEPT ![j] = rec], queue.refs)
      /\ commits' = commits \cup {new}
      /\ claims' = claims /\ stored' = stored
  BY SameDocument
  DEF Ledger!Advance
<1>3. /\ queue' \in Snapshot
      /\ queue'.revision = queue.revision + 1
      /\ queue'.jobs = [queue.jobs EXCEPT ![j] = rec]
      /\ queue'.refs = queue.refs
  <2>1. /\ queue.revision + 1 \in Nat
        /\ [queue.jobs EXCEPT ![j] = rec] \in [Jobs -> JobRecord]
        /\ queue.refs \in [Jobs -> Objects \cup {NoObject}]
    BY <1>1 DEF Snapshot
  <2> QED BY <1>2, <2>1 DEF Snapshot, Revised
<1>4. new \in Commit
  BY <1>1 DEF Commit, Snapshot, JobRecord
<1>5. /\ \A k \in Jobs : queue.jobs[k] \in JobRecord
      /\ queue'.jobs[j] = rec
      /\ \A k \in Jobs \ {j} : queue'.jobs[k] = queue.jobs[k]
  BY <1>1, <1>3 DEF Snapshot
<1>6. /\ queue.revision \in Nat
      /\ \A k \in Jobs : queue.jobs[k].attempts \in Nat
      /\ rec.attempts \in Nat
      /\ rec.attempts >= queue.jobs[j].attempts
  BY <1>1, <1>5 DEF Snapshot, JobRecord
<1>7. \A c \in commits : /\ c \in Commit /\ c.job \in Jobs
                         /\ c.attempt \in Nat /\ c.revision \in Nat
                         /\ c.revision <= queue.revision
                         /\ c.attempt <= queue.jobs[c.job].attempts
  BY <1>1 DEF Ledger!PastOnly, Commit
<1>8. Ledger!TypeOK'
  BY <1>1, <1>2, <1>3, <1>4, SameDocument
  DEF Ledger!TypeOK
<1>9. Ledger!QueueValid'
  BY <1>5, SameDocument
  DEF Ledger!QueueValid, ValidQueue
<1>10. Ledger!ActiveRefsSound'
  BY <1>2, <1>3, SameDocument
  DEF Ledger!ActiveRefsSound, RefsSound
<1>11. Ledger!PastOnly'
  BY <1>2, <1>3, <1>5, <1>6, <1>7 DEF Ledger!PastOnly
<1>12. Ledger!EndedNotRunning'
  <2> SUFFICES ASSUME NEW c \in commits', Ledger!Terminal(c),
                      c.attempt = queue'.jobs[c.job].attempts
               PROVE  queue'.jobs[c.job].state # "RUNNING"
    BY DEF Ledger!EndedNotRunning
  <2>1. CASE c = new
    BY <2>1, <1>5 DEF Ledger!Terminal
  <2>2. CASE c \in commits /\ c.job # j
    BY <2>2, <1>5, <1>7 DEF Ledger!EndedNotRunning
  <2>3. CASE c \in commits /\ c.job = j
    BY <2>3, <1>5, <1>6, <1>7
  <2> QED BY <1>2, <2>1, <2>2, <2>3
<1>13. Ledger!UniqueAdoption'
  <2>1. \A c \in commits :
          c.op = "adopt" /\ new.op = "adopt" /\ c.job = new.job
          => c.attempt # new.attempt
    BY <1>6, <1>7
  <2> QED BY <1>2, <2>1 DEF Ledger!UniqueAdoption
<1>14. Ledger!UniqueEnding'
  <2>1. \A c \in commits :
          Ledger!Terminal(c) /\ Ledger!Terminal(new) /\ c.job = new.job
          => c.attempt # new.attempt
    BY <1>7 DEF Ledger!Terminal, Ledger!EndedNotRunning
  <2> QED BY <1>2, <2>1 DEF Ledger!UniqueEnding
<1>15. Ledger!EndingFollowsAdoption'
  <2>1. Ledger!Terminal(new) =>
          \E a \in claims :
            /\ a.op = "adopt" /\ a.job = new.job /\ a.attempt = new.attempt
            /\ a.revision < new.revision
    BY <1>1, <1>6, <1>7 DEF Ledger!Terminal, Ledger!AdoptionClaimed
  <2> QED BY <1>2, <2>1 DEF Ledger!EndingFollowsAdoption
<1> QED BY <1>8, <1>9, <1>10, <1>11, <1>12, <1>13, <1>14, <1>15

LEMMA AttachKeepsLedger ==
  ASSUME Ledger!LedgerInv, NEW w \in Workers, NEW j \in Jobs,
         NEW object \in Objects, Ledger!Attach(w, j, object)
  PROVE  Ledger!LedgerInv'
<1> DEFINE new == [op |-> "attach", by |-> w, job |-> j,
                   attempt |-> queue.jobs[j].attempts,
                   revision |-> queue.revision + 1]
<1> USE DEF Ledger!LedgerInv
<1>1. /\ queue \in Snapshot /\ commits \subseteq Commit
      /\ claims \subseteq commits /\ stored \subseteq Objects
      /\ queue.jobs[j].attempts \in Nat
  BY SameDocument
  DEF Ledger!TypeOK, Snapshot, JobRecord
<1>2. /\ queue' = Revised(queue, queue.jobs, [queue.refs EXCEPT ![j] = object])
      /\ commits' = commits \cup {new}
      /\ claims' = claims /\ stored' = stored
      /\ object \in stored /\ ObjectJob[object] = j
  BY SameDocument
  DEF Ledger!Attach
<1>3. /\ queue' \in Snapshot
      /\ queue'.revision = queue.revision + 1
      /\ queue'.jobs = queue.jobs
      /\ queue'.refs = [queue.refs EXCEPT ![j] = object]
  <2>1. /\ queue.revision + 1 \in Nat
        /\ queue.jobs \in [Jobs -> JobRecord]
        /\ [queue.refs EXCEPT ![j] = object]
             \in [Jobs -> Objects \cup {NoObject}]
    BY <1>1 DEF Snapshot
  <2> QED BY <1>2, <2>1 DEF Snapshot, Revised
<1>4. new \in Commit /\ ~ Ledger!Terminal(new) /\ new.op # "adopt"
  BY <1>1 DEF Commit, Snapshot, Operations, Ledger!Terminal
<1>5. Ledger!TypeOK'
  BY <1>1, <1>2, <1>3, <1>4, SameDocument
  DEF Ledger!TypeOK
<1>6. Ledger!QueueValid'
  BY <1>3, SameDocument
  DEF Ledger!QueueValid
<1>7. Ledger!ActiveRefsSound'
  BY <1>1, <1>2, <1>3, SameDocument
  DEF Ledger!ActiveRefsSound, RefsSound, Snapshot
<1>8. Ledger!PastOnly'
  BY <1>1, <1>2, <1>3 DEF Ledger!PastOnly, Commit, Snapshot
<1>9. Ledger!EndedNotRunning' /\ Ledger!UniqueAdoption' /\ Ledger!UniqueEnding'
  BY <1>2, <1>3, <1>4
  DEF Ledger!EndedNotRunning, Ledger!UniqueAdoption, Ledger!UniqueEnding
<1>10. Ledger!EndingFollowsAdoption'
  BY <1>2, <1>4 DEF Ledger!EndingFollowsAdoption
<1> QED BY <1>5, <1>6, <1>7, <1>8, <1>9, <1>10

LEMMA LedgerNext ==
  Ledger!LedgerInv /\ [Ledger!Next]_(Ledger!ledgerVars) => Ledger!LedgerInv'
<1> SUFFICES ASSUME Ledger!LedgerInv, [Ledger!Next]_(Ledger!ledgerVars)
             PROVE  Ledger!LedgerInv'
  OBVIOUS
<1> USE DEF Ledger!LedgerInv
<1>1. /\ queue.jobs \in [Jobs -> JobRecord]
      /\ \A j \in Jobs : /\ queue.jobs[j] \in JobRecord
                         /\ ValidJob(j, queue.jobs[j])
  BY SameDocument
  DEF Ledger!TypeOK, Snapshot, Ledger!QueueValid, ValidQueue
<1>2. ASSUME NEW w \in Workers, NEW j \in Jobs, Ledger!Adopt(w, j)
      PROVE  Ledger!LedgerInv'
  <2>1. PICK open \in SUBSET Jobs, externalRead \in BOOLEAN :
          CanAdopt(queue.jobs, j, open, externalRead)
    BY <1>2, SameCore
    DEF Ledger!Adopt
  <2>2. ValidJob(j, Adopted(queue.jobs[j]))
    BY <1>1, <2>1, AdoptedValid
  <2> QED
    BY <1>1, <1>2, <2>2, RecordsTyped, AdvanceKeepsLedger, SameCore
    DEF Ledger!Adopt, Operations
<1>3. ASSUME NEW w \in Workers, NEW j \in Jobs, Ledger!Complete(w, j)
      PROVE  Ledger!LedgerInv'
  <2>1. ValidJob(j, Completed(queue.jobs[j])) /\ queue.jobs[j].state = "RUNNING"
    BY <1>1, <1>3, FinishedValid, SameCore
    DEF Ledger!Complete, CanFinish
  <2> QED
    BY <1>1, <1>3, <2>1, RecordsTyped, AdvanceKeepsLedger, SameCore
    DEF Ledger!Complete, Operations
<1>4. ASSUME NEW w \in Workers, NEW j \in Jobs, Ledger!FailSafe(w, j)
      PROVE  Ledger!LedgerInv'
  <2>1. ValidJob(j, FailedSafe(queue.jobs[j])) /\ queue.jobs[j].state = "RUNNING"
    BY <1>1, <1>4, FinishedValid, SameCore
    DEF Ledger!FailSafe, CanFinish
  <2> QED
    BY <1>1, <1>4, <2>1, RecordsTyped, AdvanceKeepsLedger, SameCore
    DEF Ledger!FailSafe, Operations
<1>5. ASSUME NEW w \in Workers, NEW j \in Jobs, NEW received \in BOOLEAN,
             Ledger!Approve(w, j, received)
      PROVE  Ledger!LedgerInv'
  <2>1. ValidJob(j, ApprovalApplied(j, queue.jobs[j], received))
    BY <1>1, <1>5, SameCore, ApprovedValid DEF Ledger!Approve
  <2>2. Ledger!Advance("approve", w, j,
                       ApprovalApplied(j, queue.jobs[j], received))
    BY <1>5, SameCore DEF Ledger!Approve
  <2> QED
    BY <1>1, <2>1, <2>2, RecordsTyped, AdvanceKeepsLedger DEF Operations
<1>6. ASSUME NEW w \in Workers, NEW j \in Jobs, NEW object \in Objects,
             Ledger!Attach(w, j, object)
      PROVE  Ledger!LedgerInv'
  BY <1>6, AttachKeepsLedger
<1>7. ASSUME NEW object \in Objects, Ledger!StoreObject(object)
      PROVE  Ledger!LedgerInv'
  BY <1>7, SameDocument
  DEF Ledger!StoreObject, Ledger!TypeOK, Ledger!QueueValid,
      Ledger!ActiveRefsSound, RefsSound, Ledger!PastOnly,
      Ledger!EndedNotRunning, Ledger!UniqueAdoption, Ledger!UniqueEnding,
      Ledger!EndingFollowsAdoption
<1>8. ASSUME NEW c \in commits, Ledger!Acknowledge(c)
      PROVE  Ledger!LedgerInv'
  BY <1>8
  DEF Ledger!Acknowledge, Ledger!TypeOK, Ledger!QueueValid,
      Ledger!ActiveRefsSound, Ledger!PastOnly, Ledger!EndedNotRunning,
      Ledger!UniqueAdoption, Ledger!UniqueEnding, Ledger!EndingFollowsAdoption
<1>9. CASE UNCHANGED Ledger!ledgerVars
  BY <1>9
  DEF Ledger!ledgerVars, Ledger!TypeOK, Ledger!QueueValid,
      Ledger!ActiveRefsSound, Ledger!PastOnly, Ledger!EndedNotRunning,
      Ledger!UniqueAdoption, Ledger!UniqueEnding, Ledger!EndingFollowsAdoption
<1> QED BY <1>2, <1>3, <1>4, <1>5, <1>6, <1>7, <1>8, <1>9 DEF Ledger!Next

\* The ledger keeps its invariant: the queue stays valid, references stay
\* sound, no generation is adopted or ended twice, none is ended unadopted.
THEOREM LedgerInvariant == Ledger!Spec => []Ledger!LedgerInv
BY LedgerInit, LedgerNext, PTL DEF Ledger!Spec

-----------------------------------------------------------------------------
(* What the ledger guarantees, the store guarantees *)

\* The ledger's invariant holds of the store's document and history.
LEMMA StoreKeepsLedgerInv == Spec => []Ledger!LedgerInv
<1>1. Spec => Ledger!Spec
  BY StoreImplementsLedger DEF ImplementsLedger
<1> QED BY <1>1, LedgerInvariant, PTL

\* No (job, attempt) generation is ever adopted by two calls.
THEOREM StoreAdoptsOnce == Spec => []UniqueAdoption
<1>1. Ledger!LedgerInv => UniqueAdoption
  BY DEF Ledger!LedgerInv, UniqueAdoption
<1> QED BY <1>1, StoreKeepsLedgerInv, PTL

\* No generation is ended twice, however executors report.
THEOREM StoreEndsOnce == Spec => []UniqueEnding
<1>1. Ledger!LedgerInv => UniqueEnding
  BY DEF Ledger!LedgerInv, UniqueEnding
<1> QED BY <1>1, StoreKeepsLedgerInv, PTL

\* No generation is ended whose adoption was not acknowledged before.
THEOREM StoreEndsOnlyAdopted == Spec => []EndingFollowsAdoption
<1>1. Ledger!LedgerInv => EndingFollowsAdoption
  BY DEF Ledger!LedgerInv, EndingFollowsAdoption
<1> QED BY <1>1, StoreKeepsLedgerInv, PTL

\* An active checkpoint reference always names a stored object of its job.
THEOREM StoreKeepsReferences == Spec => []ActiveRefsSound
<1>1. Ledger!LedgerInv => ActiveRefsSound
  BY DEF Ledger!LedgerInv, ActiveRefsSound
<1> QED BY <1>1, StoreKeepsLedgerInv, PTL

\* The document always passes the core's validation.
THEOREM StoreStaysValid == Spec => []QueueValid
<1>1. Ledger!LedgerInv => QueueValid
  BY DEF Ledger!LedgerInv, QueueValid
<1> QED BY <1>1, StoreKeepsLedgerInv, PTL

\* What a coordinator accepts on a valid document is a valid document.
LEMMA AcceptedValid ==
  ASSUME NEW c \in Call, NEW s \in Snapshot,
         ValidQueue(s.jobs), Acceptable(c, s)
  PROVE  ValidQueue(Proposed(c, s).jobs)
<1>1. /\ s.jobs \in [Jobs -> JobRecord] /\ c.job \in Jobs
      /\ c.op \in Operations /\ c.received \in BOOLEAN
  BY DEF Snapshot, Call
<1>2. ValidJob(c.job, s.jobs[c.job])
  BY <1>1 DEF ValidQueue
<1>3. ValidJob(c.job, Candidate(c, s))
  <2>1. CASE c.op = "adopt"
    <3>1. PICK open \in SUBSET Jobs, externalRead \in BOOLEAN :
            MayAdopt(c, s, open, externalRead)
      BY <2>1 DEF Acceptable
    <3>2. ValidJob(c.job, Adopted(s.jobs[c.job]))
      BY <1>1, <1>2, <3>1, AdoptedValid DEF MayAdopt
    <3> QED BY <2>1, <3>2 DEF Candidate
  <2>2. CASE c.op \in {"complete", "failSafe"}
    <3>1. CanFinish(s.jobs, c.job)
      BY <2>2 DEF Acceptable, MayFinish
    <3>2. /\ ValidJob(c.job, Completed(s.jobs[c.job]))
          /\ ValidJob(c.job, FailedSafe(s.jobs[c.job]))
      BY <1>1, <1>2, <3>1, FinishedValid
    <3> QED BY <2>2, <3>2 DEF Candidate
  <2>3. CASE c.op = "approve"
    <3>1. CanApprove(s.jobs, c.job, c.received)
      BY <2>3 DEF Acceptable
    <3>2. ValidJob(c.job, ApprovalApplied(c.job, s.jobs[c.job], c.received))
      BY <1>1, <3>1, ApprovedValid
    <3> QED BY <2>3, <3>2 DEF Candidate
  <2>4. CASE c.op = "attach"
    BY <1>2, <2>4 DEF Candidate
  <2> QED BY <1>1, <2>1, <2>2, <2>3, <2>4 DEF Operations
<1>4. Proposed(c, s).jobs = [s.jobs EXCEPT ![c.job] = Candidate(c, s)]
  BY DEF Proposed, Revised
<1> QED BY <1>1, <1>3, <1>4 DEF ValidQueue

\* The validation under the lock never refuses what a coordinator accepted.
THEOREM StoreProposesValid == Spec => []ProposalsValid
<1>1. Init => ProposalsValid
  BY DEF Init, ProposalsValid
<1>2. TypeOK /\ QueueValid /\ ProposalsValid /\ [Next]_vars
      => ProposalsValid'
  <2> SUFFICES ASSUME TypeOK, QueueValid, ProposalsValid, [Next]_vars
               PROVE  ProposalsValid'
    OBVIOUS
  <2> DEFINE Saving == {"acquire", "check", "write", "replace"}
  <2>1. ASSUME NEW v \in Workers, pc'[v] \in Saving
        PROVE  \/ pc[v] \in Saving /\ call'[v] = call[v] /\ base'[v] = base[v]
               \/ /\ Acceptable(call[v], queue)
                  /\ call'[v] = call[v] /\ base'[v] = queue
    <3>1. CASE UNCHANGED vars
      BY <2>1, <3>1 DEF vars
    <3>2. ASSUME NEW w \in Workers, Start(w) \/ LoadLook(w)
          PROVE  pc[v] \in Saving /\ call'[v] = call[v] /\ base'[v] = base[v]
      BY <2>1, <3>2
      DEF TypeOK, Start, StartAdoption, StartEnding, StartApproval,
          StartAttachment, Begin, LoadLook, Continue, Return
    <3>3. ASSUME NEW w \in Workers, LoadRead(w)
          PROVE  \/ /\ pc[v] \in Saving
                    /\ call'[v] = call[v] /\ base'[v] = base[v]
                 \/ /\ Acceptable(call[v], queue)
                    /\ call'[v] = call[v] /\ base'[v] = queue
      BY <2>1, <3>3 DEF TypeOK, LoadRead, Return
    <3>4. ASSUME NEW w \in Workers,
                 \/ Acquire(w) \/ Check(w) \/ Write(w) \/ Replace(w)
                 \/ ReadBack(w) \/ Release(w) \/ Disturb(w)
          PROVE  pc[v] \in Saving /\ call'[v] = call[v] /\ base'[v] = base[v]
      BY <2>1, <3>4
      DEF TypeOK, Acquire, Check, Write, Replace, ReadBack, Release, Disturb,
          LoadFails, AcquireFails, SaveFails, ReleaseFails, Crash, Conclude,
          Continue, Return
    <3>5. CASE \E object \in Objects : StoreObject(object)
      BY <2>1, <3>5 DEF StoreObject
    <3> QED BY <3>1, <3>2, <3>3, <3>4, <3>5 DEF Next, Proceed
  <2>2. \A v \in Workers : call[v] \in Call /\ queue \in Snapshot
    BY DEF TypeOK
  <2>3. ValidQueue(queue.jobs)
    BY DEF QueueValid, Ledger!QueueValid, Ledger!ValidQueue, ValidQueue,
           Ledger!ValidJob, ValidJob
  <2> QED BY <2>1, <2>2, <2>3, AcceptedValid DEF ProposalsValid
<1> QED BY <1>1, <1>2, TypeCorrect, StoreStaysValid, PTL DEF Spec

\* One call per revision, and every generation started once, ended once and
\* ended only after its adoption was acknowledged.
THEOREM StoreHistorySound == Spec => []HistorySound
<1>1. /\ OneCommitPerRevision /\ UniqueAdoption
      /\ UniqueEnding /\ EndingFollowsAdoption
      => HistorySound
  BY DEF HistorySound
<1> QED BY <1>1, EveryRevisionOnce, StoreAdoptsOnce, StoreEndsOnce,
           StoreEndsOnlyAdopted, PTL

\* No load ever refuses the document, and no save one a coordinator proposed.
THEOREM StoreDocumentSound == Spec => []DocumentSound
<1>1. QueueValid /\ ActiveRefsSound /\ ProposalsValid => DocumentSound
  BY DEF DocumentSound
<1> QED BY <1>1, StoreStaysValid, StoreKeepsReferences, StoreProposesValid, PTL

-----------------------------------------------------------------------------
(* What a call answers is true of the disk *)

LEMMA InitNotWritten == Init => NotWrittenYet
BY DEF Init, NotWrittenYet

\* A step of w that records no change and leaves the other workers alone, and
\* after which w is still saving what it loaded or has nothing to show.
LEMMA QuietNotWritten ==
  ASSUME NotWrittenYet, NEW w \in Workers, commits' = commits,
         \A v \in Workers \ {w} :
           pc'[v] = pc[v] /\ base'[v] = base[v] /\ result'[v] = result[v],
         result'[w] # "none" => pc'[w] = "release",
         \/ /\ pc'[w] \notin {"acquire", "check", "write", "replace"}
            /\ result'[w] \notin {"conflict", "blocked"}
         \/ /\ base'[w] = base[w]
            /\ pc[w] \in {"acquire", "check", "write", "replace"}
  PROVE  NotWrittenYet'
BY DEF NotWrittenYet

LEMMA NextNotWritten ==
  StoreInv /\ NotWrittenYet /\ [Next]_vars => NotWrittenYet'
<1> SUFFICES ASSUME StoreInv, NotWrittenYet, [Next]_vars
             PROVE  NotWrittenYet'
  OBVIOUS
<1>1. TypeOK
  BY DEF StoreInv
<1>2. CASE UNCHANGED vars
  BY <1>2 DEF vars, NotWrittenYet
<1>3. ASSUME NEW w \in Workers, Start(w) PROVE NotWrittenYet'
  <2>1. /\ pc[w] = "idle" /\ pc' = [pc EXCEPT ![w] = "load"]
        /\ UNCHANGED <<base, result, commits>>
    BY <1>3, StartOutside DEF Begin
  <2>2. result[w] = "none"
    BY <2>1 DEF NotWrittenYet
  <2> QED BY <1>1, <2>1, <2>2, QuietNotWritten DEF TypeOK
<1>4. ASSUME NEW w \in Workers, Proceed(w) PROVE NotWrittenYet'
  <2>1. CASE LoadLook(w)
    <3>1. result[w] = "none"
      BY <2>1 DEF LoadLook, NotWrittenYet
    <3> QED
      BY <1>1, <2>1, <3>1, QuietNotWritten
      DEF TypeOK, LoadLook, Continue, Return
  <2>2. CASE LoadRead(w)
    <3>1. result[w] = "none"
      BY <2>2 DEF LoadRead, NotWrittenYet
    <3>2. CASE Return(w)
      BY <1>1, <2>2, <3>2, QuietNotWritten DEF TypeOK, LoadRead, Return
    <3>3. CASE /\ base' = [base EXCEPT ![w] = queue]
               /\ pc' = [pc EXCEPT ![w] = "acquire"]
               /\ UNCHANGED <<call, result>>
      <4>1. \A c \in commits : c.revision <= queue.revision
        BY DEF StoreInv, Reached
      <4> QED
        BY <1>1, <2>2, <3>1, <3>3, <4>1 DEF TypeOK, LoadRead, NotWrittenYet
    <3> QED BY <2>2, <3>2, <3>3 DEF LoadRead
  <2>3. CASE Acquire(w)
    <3>1. result[w] = "none"
      BY <2>3 DEF Acquire, NotWrittenYet
    <3> QED
      BY <1>1, <2>3, <3>1, QuietNotWritten
      DEF TypeOK, Acquire, Continue, Return
  <2>4. CASE Check(w)
    <3>1. result[w] = "none"
      BY <2>4 DEF Check, NotWrittenYet
    <3> QED
      BY <1>1, <2>4, <3>1, QuietNotWritten
      DEF TypeOK, Check, Continue, Conclude
  <2>5. CASE Write(w)
    <3>1. result[w] = "none"
      BY <2>5 DEF Write, NotWrittenYet
    <3> QED
      BY <1>1, <2>5, <3>1, QuietNotWritten DEF TypeOK, Write, Continue
  <2>6. CASE Replace(w)
    <3>1. /\ result[w] = "none" /\ Entry(w).by = w
          /\ pc' = [pc EXCEPT ![w] = "readBack"]
          /\ UNCHANGED <<base, result>>
          /\ commits' = commits \cup {Entry(w)}
      BY <2>6 DEF Replace, Continue, Entry, NotWrittenYet
    <3> QED BY <1>1, <3>1 DEF TypeOK, NotWrittenYet
  <2>7. CASE ReadBack(w)
    BY <1>1, <2>7, QuietNotWritten DEF TypeOK, ReadBack, Conclude
  <2>8. CASE Release(w)
    BY <1>1, <2>8, QuietNotWritten DEF TypeOK, Release, Return
  <2> QED BY <1>4, <2>1, <2>2, <2>3, <2>4, <2>5, <2>6, <2>7, <2>8 DEF Proceed
<1>5. ASSUME NEW w \in Workers, Disturb(w) PROVE NotWrittenYet'
  <2>1. CASE SaveFails(w)
    BY <1>1, <2>1, QuietNotWritten DEF TypeOK, SaveFails, Conclude
  <2>2. CASE LoadFails(w) \/ AcquireFails(w) \/ ReleaseFails(w) \/ Crash(w)
    BY <1>1, <2>2, QuietNotWritten
    DEF TypeOK, LoadFails, AcquireFails, ReleaseFails, Crash, Return
  <2> QED BY <1>5, <2>1, <2>2 DEF Disturb
<1>6. ASSUME NEW object \in Objects, StoreObject(object)
      PROVE  NotWrittenYet'
  BY <1>6 DEF StoreObject, NotWrittenYet
<1> QED BY <1>2, <1>3, <1>4, <1>5, <1>6 DEF Next

\* A conflict or a refusal changed nothing, and "durable" changed the disk.
THEOREM StoreAnswersHonestly == Spec => []HonestReturn
<1>1. StoreInv /\ NotWrittenYet => HonestReturn
  <2> SUFFICES ASSUME StoreInv, NotWrittenYet, NEW w \in Workers
               PROVE  /\ result[w] = "durable" => Entry(w) \in commits
                      /\ result[w] \in {"conflict", "blocked"} =>
                           Entry(w) \notin commits
    BY DEF HonestReturn
  <2>1. base[w].revision \in Nat
    BY DEF StoreInv, TypeOK, Snapshot
  <2>2. Entry(w).by = w /\ Entry(w).revision = base[w].revision + 1
    BY DEF Entry
  <2>3. CASE result[w] = "durable"
    BY <2>3 DEF StoreInv, Written, Unreported, NotWrittenYet
  <2>4. CASE result[w] \in {"conflict", "blocked"}
    <3>1. \A c \in commits : c.by = w => c.revision <= base[w].revision
      BY <2>4 DEF NotWrittenYet
    <3> QED BY <2>1, <2>2, <2>4, <3>1
  <2> QED BY <2>3, <2>4
<1> QED
  BY <1>1, InitNotWritten, NextNotWritten, StoreInvariant, PTL DEF Spec

-----------------------------------------------------------------------------
(* Residue is never cleared by the store itself *)

\* Nobody writes a temporary file while there is one, or without the lock.
LEMMA WedgedStep ==
  StoreInv /\ [Next]_vars => (Wedged => Wedged' /\ queue' = queue)
<1> SUFFICES ASSUME StoreInv, [Next]_vars, Wedged
             PROVE  Wedged' /\ queue' = queue
  OBVIOUS
<1> USE DEF Wedged
<1>1. pc \in [Workers -> Locations]
  BY DEF StoreInv, TypeOK
<1>2. CASE lock /\ \A w \in Workers : pc[w] \notin Critical
  <2>1. \A w \in Workers :
          pc[w] \in {"idle", "load", "read", "acquire"}
    BY <1>1, <1>2 DEF Locations, Critical
  <2>2. CASE UNCHANGED vars
    BY <1>2, <2>2 DEF vars
  <2>3. ASSUME NEW w \in Workers, Start(w) PROVE Wedged' /\ queue' = queue
    <3>1. /\ pc' = [pc EXCEPT ![w] = "load"] /\ UNCHANGED <<lock, queue>>
      BY <2>3, StartOutside DEF Begin, fileVars
    <3> QED BY <1>1, <1>2, <3>1 DEF Critical
  <2>4. ASSUME NEW w \in Workers, Proceed(w) \/ Disturb(w)
        PROVE  Wedged' /\ queue' = queue
    <3>1. /\ \E l \in {"idle", "read", "acquire"} : pc' = [pc EXCEPT ![w] = l]
          /\ lock' = lock /\ queue' = queue
      BY <1>2, <2>1, <2>4
      DEF Proceed, LoadLook, LoadRead, Acquire, Check, Write, Replace,
          ReadBack, Release, Disturb, LoadFails, AcquireFails, SaveFails,
          ReleaseFails, Crash, Continue, Return, fileVars
    <3> QED BY <1>1, <1>2, <3>1 DEF Critical
  <2>5. ASSUME NEW object \in Objects, StoreObject(object)
        PROVE  Wedged' /\ queue' = queue
    BY <1>2, <2>5 DEF StoreObject, fileVars
  <2> QED BY <2>2, <2>3, <2>4, <2>5 DEF Next
<1>3. CASE temp # NoTemp /\ \A w \in Workers : pc[w] # "replace"
  <2>1. \A w \in Workers : pc[w] \notin {"write", "replace"}
    BY <1>3 DEF StoreInv, Exclusive
  <2>2. CASE UNCHANGED vars
    BY <1>3, <2>2 DEF vars
  <2>3. ASSUME NEW w \in Workers, Start(w) PROVE Wedged' /\ queue' = queue
    <3>1. /\ pc' = [pc EXCEPT ![w] = "load"] /\ UNCHANGED <<temp, queue>>
      BY <2>3, StartOutside DEF Begin, fileVars
    <3> QED BY <1>1, <1>3, <3>1
  <2>4. ASSUME NEW w \in Workers, Proceed(w) \/ Disturb(w)
        PROVE  Wedged' /\ queue' = queue
    <3>1. /\ \E l \in {"idle", "read", "acquire", "check", "release"} :
               pc' = [pc EXCEPT ![w] = l]
          /\ temp' = temp /\ queue' = queue
      BY <1>3, <2>1, <2>4
      DEF Proceed, LoadLook, LoadRead, Acquire, Check, Write, Replace,
          ReadBack, Release, Disturb, LoadFails, AcquireFails, SaveFails,
          ReleaseFails, Crash, Continue, Conclude, Return, fileVars
    <3> QED BY <1>1, <1>3, <3>1
  <2>5. ASSUME NEW object \in Objects, StoreObject(object)
        PROVE  Wedged' /\ queue' = queue
    BY <1>3, <2>5 DEF StoreObject, fileVars
  <2> QED BY <2>2, <2>3, <2>4, <2>5 DEF Next
<1> QED BY <1>2, <1>3

\* Once wedged the store stays wedged and unchanged.
THEOREM StoreStaysWedged == Spec => WedgedForever
<1>1. StoreInv /\ [Next]_vars => [Wedged => Wedged' /\ queue' = queue]_vars
  BY WedgedStep
<1> QED BY <1>1, StoreInvariant, PTL DEF Spec, WedgedForever

-----------------------------------------------------------------------------
(* Calls come to their end *)

\* Every step of a call, and every error in it, leads nearer to the return.
LEMMA AccessShortens ==
  ASSUME pc \in [Workers -> Locations], NEW w \in Workers,
         Proceed(w) \/ Disturb(w)
  PROVE  \E l \in Locations :
           pc' = [pc EXCEPT ![w] = l] /\ AccessesLeft[l] < AccessesLeft[pc[w]]
<1> USE DEF Locations, AccessesLeft, Continue, Conclude, Return
<1>1. CASE LoadLook(w) \/ LoadRead(w) \/ LoadFails(w)
  BY <1>1 DEF LoadLook, LoadRead, LoadFails
<1>2. CASE Acquire(w) \/ AcquireFails(w)
  BY <1>2 DEF Acquire, AcquireFails
<1>3. CASE Check(w)
  BY <1>3 DEF Check
<1>4. CASE Write(w) \/ Replace(w) \/ ReadBack(w)
  BY <1>4 DEF Write, Replace, ReadBack
<1>5. CASE Release(w) \/ ReleaseFails(w)
  BY <1>5 DEF Release, ReleaseFails
<1>6. CASE SaveFails(w)
  BY <1>6 DEF SaveFails
<1>7. CASE Crash(w)
  BY <1>7 DEF Crash
<1> QED
  BY <1>1, <1>2, <1>3, <1>4, <1>5, <1>6, <1>7 DEF Proceed, Disturb

\* A call is over after eight accesses of its own at most, by whatever branches
\* and whatever other calls, errors and deaths do meanwhile.
THEOREM CallsComeToAnEnd == Spec => CallsAdvance
<1> DEFINE Advance ==
      \A w \in Workers :
        /\ Proceed(w) => AccessesLeft[pc'[w]] < AccessesLeft[pc[w]]
        /\ pc[w] # "idle" => AccessesLeft[pc'[w]] <= AccessesLeft[pc[w]]
<1>1. TypeOK /\ [Next]_vars => [Advance]_vars
  <2> SUFFICES ASSUME TypeOK, Next, NEW w \in Workers
               PROVE  /\ Proceed(w) => AccessesLeft[pc'[w]] < AccessesLeft[pc[w]]
                      /\ pc[w] # "idle" => AccessesLeft[pc'[w]] <= AccessesLeft[pc[w]]
    OBVIOUS
  <2> HIDE DEF Advance
  <2>1. pc \in [Workers -> Locations]
    BY DEF TypeOK
  <2>2. \A l \in Locations : AccessesLeft[l] \in Nat
    BY DEF Locations, AccessesLeft
  <2>3. ASSUME Proceed(w) \/ Disturb(w)
        PROVE  pc'[w] \in Locations /\ AccessesLeft[pc'[w]] < AccessesLeft[pc[w]]
    BY <2>1, <2>3, AccessShortens
  <2>4. ASSUME pc[w] # "idle", pc'[w] # pc[w]
        PROVE  Proceed(w) \/ Disturb(w)
    <3>1. ~ \E v \in Workers : Start(v)
      BY <2>1, <2>4, StartOutside DEF Begin
    <3>2. \A v \in Workers : v # w => ~ (Proceed(v) \/ Disturb(v))
      BY <2>1, <2>4, AccessShortens
    <3>3. ~ \E object \in Objects : StoreObject(object)
      BY <2>4 DEF StoreObject
    <3> QED BY <3>1, <3>2, <3>3 DEF Next
  <2> QED BY <2>1, <2>2, <2>3, <2>4
<1> QED BY <1>1, TypeCorrect, PTL DEF Spec, CallsAdvance

-----------------------------------------------------------------------------
(* Induction.  The provers cannot instantiate an induction theorem over a     *)
(* predicate; over a set of numbers one follows from WFMin.                   *)

LEMMA LessWellFounded == IsWellFoundedOn({p \in Nat \X Nat : p[1] < p[2]}, Nat)
  BY NatLessThanWellFounded, Zenon DEF OpToRel

\* A set of natural numbers that has a member has a smallest one.
LEMMA SmallestNumber ==
  ASSUME NEW T \in SUBSET Nat, T # {}
  PROVE  \E n \in T : \A m \in T : n <= m
<1> DEFINE R == {p \in Nat \X Nat : p[1] < p[2]}
<1>1. IsWellFoundedOn(R, Nat)
  BY LessWellFounded
<1>2. \A n, m \in Nat : <<n, m>> \notin R => m <= n
  BY DEF R
<1> HIDE DEF R
<1>3. \E n \in T : \A m \in T : <<m, n>> \notin R
  BY <1>1, WFMin
<1> QED BY <1>2, <1>3

\* A set that has zero, and the successor of every number it has, has them all.
LEMMA Induction ==
  ASSUME NEW T, 0 \in T, \A n \in Nat : n \in T => n + 1 \in T
  PROVE  Nat \subseteq T
<1> SUFFICES ASSUME Nat \ T # {} PROVE FALSE
  OBVIOUS
<1>1. PICK n \in Nat \ T : \A m \in Nat \ T : n <= m
  <2>1. Nat \ T \in SUBSET Nat
    OBVIOUS
  <2> QED BY <2>1, SmallestNumber
<1>2. n # 0 /\ n - 1 \in Nat
  BY <1>1
<1>3. n - 1 \in T
  BY <1>1, <1>2
<1>4. (n - 1) + 1 = n
  BY <1>1
<1> QED BY <1>1, <1>2, <1>3, <1>4

-----------------------------------------------------------------------------
(* Selection *)

\* select_next_job never has to choose: two jobs cannot both come first,
\* because created_at and job_id order the jobs of one priority totally.
THEOREM SelectionUnique ==
  ASSUME NEW jobs \in [Jobs -> JobRecord],
         NEW open \in SUBSET Jobs, NEW externalRead \in BOOLEAN,
         NEW j \in Jobs, NEW k \in Jobs,
         IsNext(jobs, j, open, externalRead),
         IsNext(jobs, k, open, externalRead)
  PROVE  j = k
<1>1. Contract[j] \in ContractType /\ Contract[k] \in ContractType
  BY ContractAssumption
<1>2. j # k => Precedes(j, k) /\ Precedes(k, j)
  BY DEF IsNext
<1> QED BY <1>1, <1>2 DEF Precedes, ContractType

\* select_next_job on a valid queue finds a job whenever one is eligible: the
\* smallest rank among those of the smallest priority.
THEOREM SelectionExists ==
  ASSUME NEW jobs \in [Jobs -> JobRecord],
         NEW open \in SUBSET Jobs, NEW externalRead \in BOOLEAN,
         Eligible(jobs, open, externalRead) # {}
  PROVE  \E j \in Jobs : IsNext(jobs, j, open, externalRead)
<1> DEFINE eligible == Eligible(jobs, open, externalRead)
           priorities == {Contract[j].priority : j \in eligible}
<1>1. \A j \in Jobs : Contract[j].priority \in Nat /\ Contract[j].rank \in Nat
  BY ContractAssumption DEF ContractType
<1>2. eligible \subseteq Jobs
  BY DEF Eligible
<1> HIDE DEF eligible
<1>3. PICK p \in priorities : \A q \in priorities : p <= q
  <2>1. priorities \in SUBSET Nat /\ priorities # {}
    BY <1>1, <1>2 DEF eligible
  <2> QED BY <2>1, SmallestNumber
<1> DEFINE ranks == {Contract[j].rank : j \in {k \in eligible : Contract[k].priority = p}}
<1>4. PICK r \in ranks : \A s \in ranks : r <= s
  <2>1. ranks \in SUBSET Nat /\ ranks # {}
    BY <1>1, <1>2, <1>3
  <2> QED BY <2>1, SmallestNumber
<1>5. PICK j \in eligible : Contract[j].priority = p /\ Contract[j].rank = r
  BY <1>4
<1>6. ASSUME NEW k \in eligible \ {j}
      PROVE  Precedes(j, k)
  <2>1. Contract[k].priority \in Nat /\ p \in Nat /\ p <= Contract[k].priority
    BY <1>1, <1>2, <1>3, <1>5
  <2>2. CASE Contract[k].priority = p
    <3>1. r <= Contract[k].rank /\ r # Contract[k].rank
      BY <1>2, <1>4, <1>5, <2>2, ContractAssumption
    <3>2. r \in Nat /\ Contract[k].rank \in Nat
      BY <1>1, <1>2, <1>5
    <3> QED BY <1>5, <2>2, <3>1, <3>2 DEF Precedes
  <2>3. CASE Contract[k].priority # p
    BY <1>5, <2>1, <2>3 DEF Precedes
  <2> QED BY <2>2, <2>3
<1> QED BY <1>2, <1>5, <1>6 DEF IsNext, eligible

-----------------------------------------------------------------------------
(* The operations on a board *)

\* Adopting or ending a valid job makes a valid one (validate_job).
LEMMA OperationValid ==
  ASSUME NEW j \in Jobs, board \in [Jobs -> JobRecord], ValidJob(j, board[j])
  PROVE  /\ \A open \in SUBSET Jobs, externalRead \in BOOLEAN :
              CanAdopt(board, j, open, externalRead) => ValidJob(j, Adopted(board[j]))
         /\ CanFinish(board, j)
              => ValidJob(j, Completed(board[j])) /\ ValidJob(j, FailedSafe(board[j]))
BY AdoptedValid, FinishedValid

\* The state an operation or a decision writes.
LEMMA NamedTyped ==
  ASSUME NEW rec \in JobRecord, NEW state \in JobStates
  PROVE  /\ [rec EXCEPT !.state = state] \in JobRecord
         /\ [rec EXCEPT !.state = state].state = state
         /\ [rec EXCEPT !.state = state].attempts = rec.attempts
         /\ [rec EXCEPT !.state = state].approved = rec.approved
BY DEF JobRecord

\* resume_from_checkpoint names one of four states, READY only for a job
\* selection would look at no less favourably.
LEMMA ResumeNames ==
  ASSUME NEW jobs \in [Jobs -> JobRecord], NEW j \in Jobs,
         NEW stale \in BOOLEAN, NEW preflight \in BOOLEAN
  PROVE  LET status == ResumeStatus(jobs, j, stale, preflight)
         IN /\ status \in {"FAILED_SAFE", "BLOCKED", "WAITING_APPROVAL", "READY"}
            /\ status = "READY"
                 => /\ \A d \in Contract[j].deps : jobs[d].state = "DONE"
                    /\ ~ Contract[j].hasBlockers
                    /\ Contract[j].requiresApproval => jobs[j].approved
                    /\ RiskAllows(j, jobs[j], FALSE)
BY DEF ResumeStatus

LEMMA RetryNames ==
  ASSUME NEW rec \in JobRecord, NEW j \in Jobs, NEW retryable \in BOOLEAN
  PROVE  /\ RetryState(j, rec, retryable) \in {"RETRY_WAIT", "FAILED_SAFE"}
         /\ RetryState(j, rec, retryable) = "RETRY_WAIT"
              => Contract[j].retry # "NONE"
BY DEF RetryState

\* A job that is allowed to run unattended is not a prohibited one.
LEMMA AllowedNotProhibited ==
  ASSUME NEW rec \in JobRecord, NEW j \in Jobs, RiskAllows(j, rec, FALSE)
  PROVE  Contract[j].risk # "PROHIBITED_UNATTENDED"
BY DEF RiskAllows

LEMMA ResumeAgreesAlways == BoardTypeOK => ResumeAgrees
<1> SUFFICES ASSUME BoardTypeOK, NEW j \in Jobs, NEW preflight \in BOOLEAN,
                    board[j].state = "CHECKPOINTED",
                    ResumeStatus(board, j, FALSE, preflight) = "READY",
                    board[j].attempts < Contract[j].maxAttempts
             PROVE  j \in Eligible([board EXCEPT ![j].state = "READY"], Jobs, FALSE)
  BY DEF ResumeAgrees
<1> DEFINE resumed == [board EXCEPT ![j].state = "READY"]
<1>1. /\ board \in [Jobs -> JobRecord]
      /\ Contract[j] \in ContractType
  BY ContractAssumption DEF BoardTypeOK
<1>2. /\ \A d \in Contract[j].deps : board[d].state = "DONE"
      /\ ~ Contract[j].hasBlockers
      /\ Contract[j].requiresApproval => board[j].approved
      /\ RiskAllows(j, board[j], FALSE)
  BY <1>1, ResumeNames
<1>3. /\ resumed[j] = [board[j] EXCEPT !.state = "READY"]
      /\ \A d \in Jobs \ {j} : resumed[d] = board[d]
  BY <1>1
<1>4. /\ resumed[j].state = "READY"
      /\ resumed[j].attempts = board[j].attempts
      /\ resumed[j].approved = board[j].approved
  <2>1. board[j] \in JobRecord
    BY <1>1
  <2> QED BY <1>3, <2>1 DEF JobRecord
<1>5. \A d \in Contract[j].deps : resumed[d].state = "DONE"
  <2>1. Contract[j].deps \subseteq Jobs
    BY <1>1 DEF ContractType
  <2> QED BY <1>2, <1>3, <2>1
<1>6. RiskAllows(j, resumed[j], FALSE)
  BY <1>2, <1>4 DEF RiskAllows
<1>7. WindowAllows(j, Jobs)
  BY DEF WindowAllows
<1>8. resumed[j].attempts < Contract[j].maxAttempts
  BY <1>4
<1>9. Contract[j].requiresApproval => resumed[j].approved
  BY <1>2, <1>4
<1> HIDE DEF resumed
<1>10. j \in Eligible(resumed, Jobs, FALSE)
  BY <1>2, <1>4, <1>5, <1>6, <1>7, <1>8, <1>9 DEF Eligible
<1> QED BY <1>10 DEF resumed

-----------------------------------------------------------------------------
(* A blocked queue *)

\* What is stopped is a root or a READY job one of whose dependencies is not
\* done.
LEMMA StoppedStates ==
  ASSUME NEW jobs \in [Jobs -> JobRecord], NEW j \in Stopped(jobs)
  PROVE  /\ j \in Jobs
         /\ jobs[j].state \in {"WAITING_APPROVAL", "FAILED_SAFE", "READY"}
         /\ jobs[j].state = "READY"
              => \E d \in Contract[j].deps : jobs[d].state # "DONE"
<1>1. j \in Jobs
  BY DEF Stopped
<1>2. \A k \in Roots(jobs) :
        k \in Jobs /\ jobs[k].state \in {"WAITING_APPROVAL", "FAILED_SAFE"}
  BY DEF Roots, BlockerClasses, AwaitsApproval
<1>3. jobs[j].state \in {"WAITING_APPROVAL", "FAILED_SAFE", "READY"}
  <2> DEFINE S == {k \in Jobs : jobs[k].state \in
                                  {"WAITING_APPROVAL", "FAILED_SAFE", "READY"}}
  <2>1. S \in SUBSET Jobs /\ Roots(jobs) \subseteq S
    BY <1>2
  <2>2. Propagated(jobs, S)
    BY DEF Propagated
  <2> QED BY <2>1, <2>2 DEF Stopped
<1>4. ASSUME jobs[j].state = "READY",
             \A d \in Contract[j].deps : jobs[d].state = "DONE"
      PROVE  FALSE
  <2> DEFINE S == {k \in Jobs : jobs[k].state # "DONE"} \ {j}
  <2>1. S \in SUBSET Jobs /\ Roots(jobs) \subseteq S
    BY <1>2, <1>4
  <2>2. ASSUME NEW k \in Jobs, jobs[k].state = "READY",
               NEW d \in Contract[k].deps, d \in S
        PROVE  k \in S
    BY <1>4, <2>2
  <2>3. Propagated(jobs, S)
    <3> HIDE DEF S
    <3> QED BY <2>2 DEF Propagated
  <2> QED BY <1>1, <2>1, <2>3 DEF Stopped
<1> QED BY <1>1, <1>3, <1>4

\* assess_queue_blocked looks at one set of windows and one policy; what it
\* reports as blocked has nothing to select under any.
THEOREM BlockedIsIdle ==
  ASSUME NEW jobs \in [Jobs -> JobRecord],
         NEW open \in SUBSET Jobs, NEW externalRead \in BOOLEAN,
         Assess(jobs, open, externalRead) = "QUEUE_BLOCKED"
  PROVE  /\ \A j \in Jobs :
              jobs[j].state \in {"DONE", "WAITING_APPROVAL", "FAILED_SAFE", "READY"}
         /\ \A windows \in SUBSET Jobs, policy \in BOOLEAN :
              Eligible(jobs, windows, policy) = {}
<1>1. Stopped(jobs) = Remaining(jobs)
  BY DEF Assess
<1>2. \A j \in Jobs : jobs[j].state = "DONE" \/ j \in Stopped(jobs)
  BY <1>1 DEF Remaining
<1>3. \A j \in Jobs :
        jobs[j].state \in {"DONE", "WAITING_APPROVAL", "FAILED_SAFE", "READY"}
  BY <1>2, StoppedStates
<1>4. ASSUME NEW windows \in SUBSET Jobs, NEW policy \in BOOLEAN,
             NEW j \in Eligible(jobs, windows, policy)
      PROVE  FALSE
  <2>1. /\ j \in Jobs
        /\ jobs[j].state = "READY"
        /\ \A d \in Contract[j].deps : jobs[d].state = "DONE"
    BY <1>4 DEF Eligible
  <2>2. j \in Stopped(jobs)
    BY <1>2, <2>1
  <2> QED BY <2>1, <2>2, StoppedStates
<1> QED BY <1>3, <1>4

\* In what is stopped the others than the roots are READY.
LEMMA StoppedRoots ==
  ASSUME NEW jobs \in [Jobs -> JobRecord], NEW j \in Stopped(jobs)
  PROVE  j \in Roots(jobs) \/ jobs[j].state = "READY"
<1> DEFINE S == Roots(jobs) \cup {k \in Jobs : jobs[k].state = "READY"}
<1>1. S \in SUBSET Jobs /\ Roots(jobs) \subseteq S
  BY DEF Roots
<1>2. Propagated(jobs, S)
  BY DEF Propagated
<1> QED BY <1>1, <1>2 DEF Stopped

\* What the assessment reports as blocked is halted.
LEMMA BlockedHalts == BoardTypeOK /\ BlockedSomewhere => Halted
<1> SUFFICES ASSUME BoardTypeOK, BlockedSomewhere PROVE Halted
  OBVIOUS
<1>1. board \in [Jobs -> JobRecord]
  BY DEF BoardTypeOK
<1>2. PICK open \in SUBSET Jobs, externalRead \in BOOLEAN :
        Assess(board, open, externalRead) = "QUEUE_BLOCKED"
  BY DEF BlockedSomewhere
<1>3. /\ Remaining(board) # {} /\ Stopped(board) = Remaining(board)
      /\ \A j \in Jobs : board[j].state # "RUNNING"
  BY <1>2 DEF Assess
<1>4. ASSUME NEW j \in Remaining(board) \ Roots(board)
      PROVE  Contract[j].deps \cap Remaining(board) # {}
  <2>1. j \in Stopped(board) /\ j \in Jobs
    BY <1>3 DEF Remaining
  <2>2. board[j].state = "READY"
    BY <1>1, <2>1, StoppedRoots
  <2>3. PICK d \in Contract[j].deps : board[d].state # "DONE"
    BY <1>1, <2>1, <2>2, StoppedStates
  <2>4. d \in Jobs
    BY <2>1, ContractAssumption DEF ContractType
  <2> QED BY <2>3, <2>4 DEF Remaining
<1> QED BY <1>3, <1>4 DEF Halted

\* A root is not READY, and whoever waits for an unfinished job is not eligible.
LEMMA HaltedIdle ==
  ASSUME BoardTypeOK, Halted,
         NEW open \in SUBSET Jobs, NEW externalRead \in BOOLEAN
  PROVE  Eligible(board, open, externalRead) = {}
<1> SUFFICES ASSUME NEW j \in Eligible(board, open, externalRead) PROVE FALSE
  OBVIOUS
<1>1. /\ j \in Jobs /\ board[j].state = "READY"
      /\ \A d \in Contract[j].deps : board[d].state = "DONE"
  BY DEF Eligible
<1>2. j \in Remaining(board) \ Roots(board)
  BY <1>1 DEF Remaining, Roots, BlockerClasses, AwaitsApproval
<1>3. Contract[j].deps \cap Remaining(board) # {}
  BY <1>2 DEF Halted
<1> QED BY <1>1, <1>3 DEF Remaining

\* Only an adoption makes a job run, and only a running job becomes done.
LEMMA StepStates ==
  ASSUME BoardTypeOK, [BoardNext]_boardVars, NEW k \in Jobs,
         board'[k].state # board[k].state
  PROVE  /\ board'[k].state = "RUNNING" =>
              \E open \in SUBSET Jobs, externalRead \in BOOLEAN :
                k \in Eligible(board, open, externalRead)
         /\ board'[k].state = "DONE" => board[k].state = "RUNNING"
<1>1. board \in [Jobs -> JobRecord]
  BY DEF BoardTypeOK
<1>2. PICK j \in Jobs :
        \/ \E open \in SUBSET Jobs, externalRead \in BOOLEAN :
             Adopt(j, open, externalRead)
        \/ Complete(j)
        \/ FailSafe(j)
        \/ \E received \in BOOLEAN : Approve(j, received)
        \/ Checkpoint(j)
        \/ \E stale, preflight \in BOOLEAN : Resume(j, stale, preflight)
        \/ \E retryable \in BOOLEAN : Retry(j, retryable)
  BY DEF BoardNext, boardVars
<1> DEFINE Kept == /\ board'[k].state # "DONE" /\ board'[k].state # "RUNNING"
<1>3. board[j] \in JobRecord
  BY <1>1
<1>4. ASSUME NEW open \in SUBSET Jobs, NEW externalRead \in BOOLEAN,
             Adopt(j, open, externalRead)
      PROVE  board'[k].state = "RUNNING" /\ k \in Eligible(board, open, externalRead)
  <2>1. board' = [board EXCEPT ![j] = Adopted(board[j])]
    BY <1>4 DEF Adopt, Applies
  <2>2. k = j
    BY <1>1, <2>1
  <2>3. Adopted(board[j]).state = "RUNNING"
    BY <1>3, RecordsTyped
  <2> QED BY <1>1, <1>4, <2>1, <2>2, <2>3 DEF Adopt, CanAdopt, IsNext
<1>5. CASE Complete(j)
  <2>1. board' = [board EXCEPT ![j] = Completed(board[j])] /\ board[j].state = "RUNNING"
    BY <1>5 DEF Complete, CanFinish, Applies
  <2>2. Completed(board[j]).state = "DONE"
    BY <1>3, RecordsTyped
  <2> QED BY <1>1, <2>1, <2>2
<1>6. CASE FailSafe(j)
  <2>1. board' = [board EXCEPT ![j] = FailedSafe(board[j])]
    BY <1>6 DEF FailSafe, Applies
  <2>2. FailedSafe(board[j]).state = "FAILED_SAFE"
    BY <1>3, RecordsTyped
  <2> QED BY <1>1, <2>1, <2>2
<1>7. ASSUME NEW received \in BOOLEAN, Approve(j, received)
      PROVE  Kept
  <2> DEFINE rec == ApprovalApplied(j, board[j], received)
  <2>1. board' = [board EXCEPT ![j] = rec]
    BY <1>7 DEF Approve, Applies
  <2>2. rec.state \in {"READY", "WAITING_APPROVAL"}
    BY <1>3 DEF ApprovalApplied, JobRecord
  <2> HIDE DEF rec
  <2> QED BY <1>1, <2>1, <2>2
<1>8. ASSUME NEW state \in JobStates \ {"RUNNING", "DONE"}, Named(j, state)
      PROVE  Kept
  <2>1. board' = [board EXCEPT ![j] = [board[j] EXCEPT !.state = state]]
    BY <1>1, <1>8 DEF Named
  <2>2. [board[j] EXCEPT !.state = state].state = state
    BY <1>3, NamedTyped
  <2> QED BY <1>1, <2>1, <2>2
<1>9. CASE Checkpoint(j)
  BY <1>8, <1>9 DEF Checkpoint, JobStates
<1>10. ASSUME NEW stale \in BOOLEAN, NEW preflight \in BOOLEAN,
              Resume(j, stale, preflight)
       PROVE  Kept
  <2> DEFINE state == ResumeStatus(board, j, stale, preflight)
  <2>1. state \in {"FAILED_SAFE", "BLOCKED", "WAITING_APPROVAL", "READY"}
    BY <1>1, ResumeNames
  <2>2. Named(j, state)
    BY <1>10 DEF Resume
  <2> HIDE DEF state
  <2> QED BY <1>8, <2>1, <2>2 DEF JobStates
<1>11. ASSUME NEW retryable \in BOOLEAN, Retry(j, retryable)
       PROVE  Kept
  BY <1>3, <1>8, <1>11, RetryNames DEF Retry, JobStates
<1> QED BY <1>2, <1>4, <1>5, <1>6, <1>7, <1>9, <1>10, <1>11

\* Nothing but lifting a root, or opening a finished job again, ends a halt.
LEMMA HaltLasts ==
  ASSUME BoardTypeOK, Halted, ~ Lifted, [BoardNext]_boardVars
  PROVE  Halted'
<1>1. \A k \in Jobs : board[k].state # "RUNNING"
  BY DEF Halted
<1>2. \A k \in Jobs : board'[k].state # "RUNNING"
  BY <1>1, StepStates, HaltedIdle
<1>3. \A k \in Jobs : board'[k].state = "DONE" <=> board[k].state = "DONE"
  BY <1>1, StepStates DEF Lifted
<1>4. Remaining(board') = Remaining(board)
  BY <1>3 DEF Remaining
<1>5. Roots(board) \subseteq Roots(board')
  BY DEF Lifted
<1>6. \A j \in Remaining(board') \ Roots(board') :
        Contract[j].deps \cap Remaining(board') # {}
  BY <1>4, <1>5 DEF Halted
<1> QED BY <1>2, <1>4, <1>6 DEF Halted

-----------------------------------------------------------------------------
(* The loop of assess_queue_blocked *)

\* t[n] is what is proven after n turns, for the first m turns.
AreTurns(jobs, m, t) ==
  t = [n \in 0 .. m |->
         IF n = 0 THEN [j \in Jobs |-> BlockerClasses(j, jobs[j])]
         ELSE Round(jobs, t[n - 1])]

LEMMA TurnsExist ==
  ASSUME NEW jobs, NEW m \in Nat
  PROVE  \E t : AreTurns(jobs, m, t)
<1> DEFINE start == [j \in Jobs |-> BlockerClasses(j, jobs[j])]
           T == {k \in Nat : \E t : AreTurns(jobs, k, t)}
<1>1. 0 \in T
  <2> DEFINE t == [n \in 0 .. 0 |-> start]
  <2>1. AreTurns(jobs, 0, t)
    BY DEF AreTurns
  <2> QED BY <2>1
<1>2. ASSUME NEW k \in Nat, k \in T
      PROVE  k + 1 \in T
  <2>1. PICK t : AreTurns(jobs, k, t)
    BY <1>2
  <2> DEFINE u == [n \in 0 .. k + 1 |-> IF n = k + 1 THEN Round(jobs, t[k]) ELSE t[n]]
             v == [n \in 0 .. k + 1 |-> IF n = 0 THEN start ELSE Round(jobs, u[n - 1])]
  <2>2. ASSUME NEW n \in 0 .. k + 1
        PROVE  u[n] = v[n]
    <3>1. CASE n = 0
      BY <2>1, <3>1 DEF AreTurns
    <3>2. CASE n = k + 1
      <4>1. n - 1 = k /\ n # 0 /\ k \in 0 .. k + 1 /\ k # k + 1
        BY <3>2
      <4> QED BY <3>2, <4>1
    <3>3. CASE n # 0 /\ n # k + 1
      <4>1. n \in 0 .. k /\ n - 1 \in 0 .. k + 1 /\ n - 1 # k + 1
        BY <3>3
      <4>2. u[n] = t[n] /\ u[n - 1] = t[n - 1]
        BY <3>3, <4>1
      <4>3. t[n] = Round(jobs, t[n - 1])
        BY <2>1, <3>3, <4>1 DEF AreTurns
      <4>4. v[n] = Round(jobs, u[n - 1])
        BY <3>3
      <4> HIDE DEF u, v
      <4> QED BY <4>2, <4>3, <4>4
    <3> QED BY <3>1, <3>2, <3>3
  <2>3. u = v
    BY <2>2, Zenon
  <2>4. AreTurns(jobs, k + 1, u)
    BY <2>3, Zenon DEF AreTurns
  <2> QED BY <2>4
<1>3. Nat \subseteq T
  <2> HIDE DEF T
  <2> QED BY <1>1, <1>2, Induction
<1> QED BY <1>3

\* Proven is the last of the turns.
LEMMA ProvenIsLast ==
  ASSUME NEW jobs
  PROVE  \E t : /\ AreTurns(jobs, Cardinality(Jobs), t)
                /\ Proven(jobs) = t[Cardinality(Jobs)]
<1> DEFINE t == CHOOSE s : AreTurns(jobs, Cardinality(Jobs), s)
<1>1. Cardinality(Jobs) \in Nat
  BY FiniteAssumption, FS_CardinalityType
<1>2. AreTurns(jobs, Cardinality(Jobs), t)
  BY <1>1, TurnsExist
<1>3. Proven(jobs) = t[Cardinality(Jobs)]
  BY DEF Proven, AreTurns
<1> QED BY <1>2, <1>3

Found(proven) == {j \in Jobs : proven[j] # {}}

\* A turn leaves what was proven as it was, and newly proves the READY jobs
\* that depend on what was proven.
LEMMA RoundFinds ==
  ASSUME NEW jobs, NEW proven, NEW j \in Jobs, Contract[j].deps \subseteq Jobs
  PROVE  /\ j \in Found(proven) => Round(jobs, proven)[j] = proven[j]
         /\ j \in Found(Round(jobs, proven))
              <=> \/ j \in Found(proven)
                  \/ /\ jobs[j].state = "READY"
                     /\ Contract[j].deps \cap Found(proven) # {}
         /\ Round(jobs, proven)[j] \subseteq UNION {proven[k] : k \in Jobs}
<1>1. Round(jobs, proven)[j] =
        IF proven[j] = {} /\ jobs[j].state = "READY"
        THEN UNION {proven[d] : d \in Contract[j].deps} ELSE proven[j]
  BY DEF Round
<1>2. UNION {proven[d] : d \in Contract[j].deps} # {}
        <=> Contract[j].deps \cap Found(proven) # {}
  BY DEF Found
<1>3. UNION {proven[d] : d \in Contract[j].deps} \subseteq UNION {proven[k] : k \in Jobs}
  OBVIOUS
<1>4. proven[j] \subseteq UNION {proven[k] : k \in Jobs}
  OBVIOUS
<1> QED BY <1>1, <1>2, <1>3, <1>4 DEF Found

\* Nothing is proven that is not stopped, the classes are those of the roots,
\* and a root keeps its own.
LEMMA TurnsSound ==
  ASSUME NEW jobs, NEW m \in Nat, NEW t, AreTurns(jobs, m, t)
  PROVE  \A n \in 0 .. m :
           /\ Found(t[n]) \subseteq Stopped(jobs)
           /\ \A j \in Jobs : t[n][j] \subseteq
                                UNION {BlockerClasses(k, jobs[k]) : k \in Jobs}
           /\ \A j \in Roots(jobs) : t[n][j] = BlockerClasses(j, jobs[j])
<1> DEFINE all == UNION {BlockerClasses(k, jobs[k]) : k \in Jobs}
           Sound(n) == /\ Found(t[n]) \subseteq Stopped(jobs)
                       /\ \A j \in Jobs : t[n][j] \subseteq all
                       /\ \A j \in Roots(jobs) : t[n][j] = BlockerClasses(j, jobs[j])
           T == {n \in Nat : n <= m => Sound(n)}
<1>1. Sound(0)
  <2>1. t[0] = [j \in Jobs |-> BlockerClasses(j, jobs[j])]
    BY DEF AreTurns
  <2>2. Found(t[0]) = Roots(jobs)
    BY <2>1 DEF Found, Roots
  <2>3. Roots(jobs) \subseteq Stopped(jobs)
    BY DEF Stopped, Roots
  <2>4. Roots(jobs) \subseteq Jobs
    BY DEF Roots
  <2> QED BY <2>1, <2>2, <2>3, <2>4
<1>2. ASSUME NEW n \in Nat, n + 1 <= m, Sound(n)
      PROVE  Sound(n + 1)
  <2>1. t[n + 1] = Round(jobs, t[n])
    <3>1. n + 1 \in 0 .. m /\ n + 1 # 0 /\ (n + 1) - 1 = n
      BY <1>2
    <3> QED BY <3>1 DEF AreTurns
  <2>2. \A j \in Jobs : Contract[j].deps \subseteq Jobs
    BY ContractAssumption DEF ContractType
  <2>3. ASSUME NEW j \in Found(t[n + 1])
        PROVE  j \in Stopped(jobs)
    <3>1. j \in Jobs
      BY DEF Found
    <3>2. CASE j \in Found(t[n])
      BY <1>2, <3>2
    <3>3. CASE jobs[j].state = "READY" /\ Contract[j].deps \cap Found(t[n]) # {}
      <4>1. PICK d \in Contract[j].deps : d \in Stopped(jobs)
        BY <1>2, <3>3
      <4> QED BY <3>1, <3>3, <4>1 DEF Stopped, Propagated
    <3> QED BY <2>1, <2>2, <3>1, <3>2, <3>3, RoundFinds
  <2>4. ASSUME NEW j \in Jobs
        PROVE  t[n + 1][j] \subseteq all
    <3>1. t[n + 1][j] \subseteq UNION {t[n][k] : k \in Jobs}
      BY <2>1, <2>2, RoundFinds
    <3> HIDE DEF all
    <3>2. UNION {t[n][k] : k \in Jobs} \subseteq all
      BY <1>2
    <3> QED BY <3>1, <3>2
  <2>5. ASSUME NEW j \in Roots(jobs)
        PROVE  t[n + 1][j] = BlockerClasses(j, jobs[j])
    <3>1. j \in Jobs /\ t[n][j] = BlockerClasses(j, jobs[j]) /\ j \in Found(t[n])
      BY <1>2 DEF Roots, Found
    <3> QED BY <2>1, <2>2, <3>1, RoundFinds
  <2> QED BY <2>3, <2>4, <2>5
<1>3. Nat \subseteq T
  <2>1. 0 \in T
    BY <1>1
  <2>2. ASSUME NEW n \in Nat, n \in T
        PROVE  n + 1 \in T
    <3> HIDE DEF Sound
    <3> QED BY <1>2, <2>2
  <2> HIDE DEF T
  <2> QED BY <2>1, <2>2, Induction
<1> HIDE DEF Sound
<1>4. \A n \in 0 .. m : Sound(n)
  BY <1>3
<1> QED BY <1>4 DEF Sound

\* As long as not everything is proven that follows, every turn proves one
\* more job at least.
LEMMA TurnsProgress ==
  ASSUME NEW jobs, NEW m \in Nat, NEW t, AreTurns(jobs, m, t)
  PROVE  \A n \in 0 .. m :
           Propagated(jobs, Found(t[n])) \/ Cardinality(Found(t[n])) >= n
<1> DEFINE Further(n) == Propagated(jobs, Found(t[n])) \/ Cardinality(Found(t[n])) >= n
           T == {n \in Nat : n <= m => Further(n)}
<1>1. \A S \in SUBSET Jobs : IsFiniteSet(S) /\ Cardinality(S) \in Nat
  BY FiniteAssumption, FS_Subset, FS_CardinalityType
<1>2. \A n \in Nat : Found(t[n]) \in SUBSET Jobs
  BY DEF Found
<1>3. Further(0)
  <2>1. Cardinality(Found(t[0])) \in Nat
    BY <1>1, <1>2
  <2> QED BY <2>1
<1>4. ASSUME NEW n \in Nat, n + 1 <= m, Further(n)
      PROVE  Further(n + 1)
  <2>1. t[n + 1] = Round(jobs, t[n])
    <3>1. n + 1 \in 0 .. m /\ n + 1 # 0 /\ (n + 1) - 1 = n
      BY <1>4
    <3> QED BY <3>1 DEF AreTurns
  <2>2. \A j \in Jobs : Contract[j].deps \subseteq Jobs
    BY ContractAssumption DEF ContractType
  <2>3. \A j \in Jobs : j \in Found(t[n + 1])
                          <=> \/ j \in Found(t[n])
                              \/ /\ jobs[j].state = "READY"
                                 /\ Contract[j].deps \cap Found(t[n]) # {}
    BY <2>1, <2>2, RoundFinds
  <2>4. CASE Propagated(jobs, Found(t[n]))
    <3>1. \A j \in Jobs : j \in Found(t[n + 1]) <=> j \in Found(t[n])
      BY <2>3, <2>4 DEF Propagated
    <3>2. Found(t[n + 1]) = Found(t[n])
      BY <3>1 DEF Found
    <3> QED BY <2>4, <3>2
  <2>5. CASE ~ Propagated(jobs, Found(t[n]))
    <3>1. Found(t[n]) \subseteq Found(t[n + 1]) /\ Found(t[n]) # Found(t[n + 1])
      <4>1. Found(t[n]) \subseteq Found(t[n + 1])
        BY <1>2, <2>3
      <4>2. PICK j \in Jobs : j \notin Found(t[n]) /\ j \in Found(t[n + 1])
        BY <2>3, <2>5 DEF Propagated
      <4> QED BY <4>1, <4>2
    <3>2. /\ Cardinality(Found(t[n])) <= Cardinality(Found(t[n + 1]))
          /\ Cardinality(Found(t[n])) # Cardinality(Found(t[n + 1]))
      BY <1>1, <1>2, <3>1, FS_Subset
    <3>3. Cardinality(Found(t[n])) \in Nat /\ Cardinality(Found(t[n + 1])) \in Nat
      BY <1>1, <1>2
    <3> QED BY <1>4, <2>5, <3>2, <3>3
  <2> QED BY <2>4, <2>5
<1>5. Nat \subseteq T
  <2>1. 0 \in T
    BY <1>3
  <2>2. ASSUME NEW n \in Nat, n \in T
        PROVE  n + 1 \in T
    <3> HIDE DEF Further
    <3> QED BY <1>4, <2>2
  <2> HIDE DEF T
  <2> QED BY <2>1, <2>2, Induction
<1> HIDE DEF Further
<1>6. \A n \in 0 .. m : Further(n)
  BY <1>5
<1> QED BY <1>6 DEF Further

\* The loop of assess_queue_blocked, which a turn that adds nothing ends, has
\* by then proven the least set it stands for, and no class but the roots'.
THEOREM LoopProvesStopped ==
  ASSUME NEW jobs
  PROVE  /\ Found(Proven(jobs)) = Stopped(jobs)
         /\ UNION {Proven(jobs)[j] : j \in Jobs}
              = UNION {BlockerClasses(j, jobs[j]) : j \in Jobs}
<1> DEFINE N == Cardinality(Jobs)
           all == UNION {BlockerClasses(j, jobs[j]) : j \in Jobs}
<1>1. N \in Nat /\ N \in 0 .. N
  BY FiniteAssumption, FS_CardinalityType
<1>2. PICK t : AreTurns(jobs, N, t) /\ Proven(jobs) = t[N]
  BY ProvenIsLast
<1> HIDE DEF N
<1>3. /\ Found(t[N]) \subseteq Stopped(jobs)
      /\ \A j \in Jobs : t[N][j] \subseteq all
      /\ \A j \in Roots(jobs) : t[N][j] = BlockerClasses(j, jobs[j])
  BY <1>1, <1>2, TurnsSound
<1>4. Stopped(jobs) \subseteq Found(t[N])
  <2>1. Found(t[N]) \in SUBSET Jobs /\ Roots(jobs) \subseteq Found(t[N])
    BY <1>3 DEF Found, Roots
  <2>2. Propagated(jobs, Found(t[N]))
    <3>1. CASE Cardinality(Found(t[N])) >= N
      <4>1. Cardinality(Found(t[N])) \in Nat /\ Cardinality(Found(t[N])) <= N
        BY <2>1, FiniteAssumption, FS_Subset, FS_CardinalityType DEF N
      <4>2. Found(t[N]) = Jobs
        <5>1. Cardinality(Found(t[N])) = Cardinality(Jobs)
          BY <1>1, <3>1, <4>1 DEF N
        <5> QED BY <2>1, <5>1, FiniteAssumption, FS_Subset
      <4> QED BY <4>2 DEF Propagated
    <3> QED BY <1>1, <1>2, <3>1, TurnsProgress
  <2> QED BY <2>1, <2>2 DEF Stopped
<1>5. UNION {t[N][j] : j \in Jobs} = all
  <2>1. UNION {t[N][j] : j \in Jobs} \subseteq all
    BY <1>3
  <2>2. ASSUME NEW j \in Jobs, NEW c \in BlockerClasses(j, jobs[j])
        PROVE  c \in UNION {t[N][k] : k \in Jobs}
    <3>1. j \in Roots(jobs)
      BY DEF Roots
    <3> QED BY <1>3, <3>1
  <2> QED BY <2>1, <2>2
<1> QED BY <1>2, <1>3, <1>4, <1>5

\* What a blocked queue is reported as: of two classes only where two jobs
\* remain, since no job is a root of both.
LEMMA BlockedReportable ==
  ASSUME board \in [Jobs -> JobRecord], BlockedSomewhere
  PROVE  Reportable(board, "QUEUE_BLOCKED")
<1>1. Stopped(board) = Remaining(board) /\ Remaining(board) # {}
  BY DEF BlockedSomewhere, Assess
<1> DEFINE all == UNION {BlockerClasses(j, board[j]) : j \in Jobs}
<1>2. Roots(board) # {}
  <2> SUFFICES ASSUME Roots(board) = {} PROVE FALSE
    OBVIOUS
  <2>1. Propagated(board, {})
    BY DEF Propagated
  <2> QED BY <1>1, <2>1 DEF Stopped
<1>3. ASSUME Classification(board) = "MIXED_BLOCKED"
      PROVE  Cardinality(Remaining(board)) >= 2
  <2>1. all # {"APPROVAL_BLOCKED"} /\ all # {"FAILED_SAFE_BLOCKED"}
    BY <1>3, LoopProvesStopped DEF Classification
  <2>2. all # {} /\ all \subseteq {"APPROVAL_BLOCKED", "FAILED_SAFE_BLOCKED"}
    BY <1>2 DEF Roots, BlockerClasses
  <2>3. "APPROVAL_BLOCKED" \in all /\ "FAILED_SAFE_BLOCKED" \in all
    <3> HIDE DEF all
    <3> QED BY <2>1, <2>2
  <2>4. PICK j \in Jobs : "APPROVAL_BLOCKED" \in BlockerClasses(j, board[j])
    BY <2>3
  <2>5. PICK k \in Jobs : "FAILED_SAFE_BLOCKED" \in BlockerClasses(k, board[k])
    BY <2>3
  <2>6. board[j].state = "WAITING_APPROVAL" /\ board[k].state = "FAILED_SAFE"
    BY <2>4, <2>5 DEF BlockerClasses, AwaitsApproval
  <2>7. j # k /\ {j, k} \subseteq Remaining(board)
    BY <2>6 DEF Remaining
  <2>8. Cardinality({j, k}) = 2
    <3>1. IsFiniteSet({j}) /\ Cardinality({j}) = 1
      BY FS_Singleton
    <3>2. k \notin {j}
      BY <2>7
    <3>3. Cardinality({j} \cup {k}) = Cardinality({j}) + 1
      BY <3>1, <3>2, FS_AddElement
    <3>4. {j} \cup {k} = {j, k}
      OBVIOUS
    <3> QED BY <3>1, <3>3, <3>4
  <2>9. /\ IsFiniteSet(Remaining(board)) /\ Cardinality(Remaining(board)) \in Nat
        /\ Cardinality({j, k}) <= Cardinality(Remaining(board))
    <3>1. Remaining(board) \in SUBSET Jobs
      BY DEF Remaining
    <3>2. IsFiniteSet(Remaining(board))
      BY <3>1, FiniteAssumption, FS_Subset
    <3> QED BY <2>7, <3>2, FS_Subset, FS_CardinalityType
  <2> QED BY <2>8, <2>9
<1> QED BY <1>1, <1>3 DEF Reportable

\* BlockedProofSound holds of every queue.
LEMMA ProofSound == BoardTypeOK => BlockedProofSound
<1> SUFFICES ASSUME BoardTypeOK PROVE BlockedProofSound
  OBVIOUS
<1>1. {j \in Jobs : Proven(board)[j] # {}} = Stopped(board)
  BY LoopProvesStopped DEF Found
<1>2. UNION {Proven(board)[j] : j \in Jobs}
        = UNION {BlockerClasses(j, board[j]) : j \in Jobs}
  BY LoopProvesStopped
<1>3. BlockedSomewhere => QueueDispatched(board, "QUEUE_BLOCKED") = "QUEUE_BLOCKED"
  BY BlockedReportable DEF QueueDispatched, BoardTypeOK
<1> QED BY <1>1, <1>2, <1>3 DEF BlockedProofSound

-----------------------------------------------------------------------------
(* The invariant *)

\* The dispatcher refuses, of the transitions it recognises, the starts.
LEMMA OnlyStartsRefused ==
  ASSUME NEW r, TransitionClass(r) # "UNSUPPORTED"
  PROVE  Recognised(r)
BY DEF Recognised, Dispatched, TransitionClass, Transition

\* What every step does: one job gets a valid record, and the transition, if
\* one is reported, is recognised.
LEMMA StepKeeps ==
  ASSUME BoardInv,
         NEW j \in Jobs, NEW rec \in JobRecord, ValidJob(j, rec),
         board' = [board EXCEPT ![j] = rec],
         \/ UNCHANGED applied
         \/ /\ applied' \in [reason : Reasons, from : JobStates, to : JobStates]
            /\ Recognised(applied')
  PROVE  BoardInv'
<1>1. board' \in [Jobs -> JobRecord]
  BY DEF BoardInv, BoardTypeOK
<1>2. ValidQueue(board')
  BY DEF BoardInv, BoardTypeOK, ValidQueue
<1>3. BoardTypeOK'
  BY <1>1 DEF BoardInv, BoardTypeOK
<1>4. (applied # NoResult => Recognised(applied))'
  BY DEF BoardInv
<1>5. ResumeAgrees'
  BY <1>3, ResumeAgreesAlways, PTL
<1> QED BY <1>2, <1>3, <1>4, <1>5 DEF BoardInv

LEMMA StutterKeeps == BoardInv /\ UNCHANGED <<board, applied>> => BoardInv'
BY DEF BoardInv, BoardTypeOK, ResumeAgrees, Recognised, Dispatched, TransitionClass

\* An applied transition is recognised.
LEMMA AppliesKeeps ==
  ASSUME BoardInv,
         NEW j \in Jobs, NEW rec \in JobRecord, NEW reason \in Reasons,
         ValidJob(j, rec), Applies(j, rec, reason),
         rec.state # board[j].state
           => TransitionClass(Transition(reason, board[j].state, rec.state))
                # "UNSUPPORTED"
  PROVE  BoardInv'
<1>1. board' = [board EXCEPT ![j] = rec]
  BY DEF Applies
<1>2. CASE rec.state = board[j].state
  BY <1>1, <1>2, StepKeeps DEF Applies
<1>3. CASE rec.state # board[j].state
  <2>1. applied' = Transition(reason, board[j].state, rec.state)
    BY <1>3 DEF Applies
  <2>2. board[j].state \in JobStates /\ rec.state \in JobStates
    BY DEF BoardInv, BoardTypeOK, JobRecord
  <2>3. applied' \in [reason : Reasons, from : JobStates, to : JobStates]
    BY <2>1, <2>2 DEF Transition
  <2> QED BY <1>1, <1>3, <2>1, <2>3, OnlyStartsRefused, StepKeeps
<1> QED BY <1>2, <1>3

\* A decision's state, when the record stays valid.
LEMMA NamedKeeps ==
  ASSUME BoardInv, NEW j \in Jobs, NEW state \in JobStates, Named(j, state),
         ValidJob(j, [board[j] EXCEPT !.state = state])
  PROVE  BoardInv'
<1>1. board[j] \in JobRecord
  BY DEF BoardInv, BoardTypeOK
<1>2. [board[j] EXCEPT !.state = state] \in JobRecord
  BY <1>1, NamedTyped
<1>3. board' = [board EXCEPT ![j] = [board[j] EXCEPT !.state = state]]
  BY DEF Named, BoardInv, BoardTypeOK
<1> QED BY <1>2, <1>3, StepKeeps DEF Named

LEMMA NextKeeps == BoardInv /\ [BoardNext]_boardVars => BoardInv'
<1> SUFFICES ASSUME BoardInv, [BoardNext]_boardVars PROVE BoardInv'
  OBVIOUS
<1>1. board \in [Jobs -> JobRecord] /\ ValidQueue(board) /\ BoardTypeOK
  BY DEF BoardInv, BoardTypeOK
<1>2. \A j \in Jobs :
        board[j] \in JobRecord /\ ValidJob(j, board[j]) /\ Contract[j] \in ContractType
  BY <1>1, ContractAssumption DEF ValidQueue
<1>3. ASSUME NEW j \in Jobs, NEW open \in SUBSET Jobs,
             NEW externalRead \in BOOLEAN, Adopt(j, open, externalRead)
      PROVE  BoardInv'
  <2>1. CanAdopt(board, j, open, externalRead)
    BY <1>3 DEF Adopt
  <2>2. ValidJob(j, Adopted(board[j]))
    BY <1>1, <1>2, <2>1, OperationValid
  <2>3. Adopted(board[j]) \in JobRecord /\ Adopted(board[j]).state = "RUNNING"
    BY <1>2, RecordsTyped
  <2>4. board[j].state = "READY"
    BY <2>1 DEF CanAdopt
  <2>5. TransitionClass(Transition("JOB_EXECUTION_ADOPTION", "READY", "RUNNING"))
          # "UNSUPPORTED"
    BY DEF TransitionClass, Transition, JobStates
  <2> QED BY <1>3, <2>2, <2>3, <2>4, <2>5, AppliesKeeps DEF Adopt, Reasons
<1>4. ASSUME NEW j \in Jobs, Complete(j) PROVE BoardInv'
  <2>1. CanFinish(board, j) /\ board[j].state = "RUNNING"
    BY <1>4 DEF Complete, CanFinish
  <2>2. ValidJob(j, Completed(board[j]))
    BY <1>1, <1>2, <2>1, OperationValid
  <2>3. Completed(board[j]) \in JobRecord /\ Completed(board[j]).state = "DONE"
    BY <1>2, RecordsTyped
  <2>4. TransitionClass(Transition("JOB_COMPLETION_TRANSITION", "RUNNING", "DONE"))
          # "UNSUPPORTED"
    BY DEF TransitionClass, Transition, JobStates
  <2> QED BY <1>4, <2>1, <2>2, <2>3, <2>4, AppliesKeeps DEF Complete, Reasons
<1>5. ASSUME NEW j \in Jobs, FailSafe(j) PROVE BoardInv'
  <2>1. CanFinish(board, j) /\ board[j].state = "RUNNING"
    BY <1>5 DEF FailSafe, CanFinish
  <2>2. ValidJob(j, FailedSafe(board[j]))
    BY <1>1, <1>2, <2>1, OperationValid
  <2>3. FailedSafe(board[j]) \in JobRecord /\ FailedSafe(board[j]).state = "FAILED_SAFE"
    BY <1>2, RecordsTyped
  <2>4. TransitionClass(Transition("FAILED_SAFE_CONFIRMED", "RUNNING", "FAILED_SAFE"))
          # "UNSUPPORTED"
    BY DEF TransitionClass, Transition, JobStates
  <2> QED BY <1>5, <2>1, <2>2, <2>3, <2>4, AppliesKeeps DEF FailSafe, Reasons
<1>6. ASSUME NEW j \in Jobs, NEW received \in BOOLEAN, Approve(j, received)
      PROVE  BoardInv'
  <2> DEFINE rec == ApprovalApplied(j, board[j], received)
  <2>1. ValidJob(j, rec)
    BY <1>6 DEF Approve, CanApprove
  <2>2. rec \in JobRecord
    BY <1>2, RecordsTyped
  <2>3. rec.state \in {"READY", "WAITING_APPROVAL"}
    BY <1>2 DEF ApprovalApplied, JobRecord
  <2>4. board[j].state \in JobStates /\ rec.state \in JobStates
    BY <1>2, <2>2 DEF JobRecord
  <2>5. rec.state # board[j].state
          => TransitionClass(Transition("APPROVAL_STATE_TRANSITION",
                                        board[j].state, rec.state)) # "UNSUPPORTED"
    <3> HIDE DEF rec
    <3> QED BY <2>3, <2>4 DEF TransitionClass, Transition
  <2>6. Applies(j, rec, "APPROVAL_STATE_TRANSITION")
    BY <1>6 DEF Approve
  <2> HIDE DEF rec
  <2> QED BY <2>1, <2>2, <2>5, <2>6, AppliesKeeps DEF Reasons
<1>7. ASSUME NEW j \in Jobs, Checkpoint(j) PROVE BoardInv'
  <2>1. ValidJob(j, [board[j] EXCEPT !.state = "CHECKPOINTED"])
    BY <1>2, <1>7, NamedTyped DEF Checkpoint, ValidJob, JobStates
  <2> QED BY <1>7, <2>1, NamedKeeps DEF Checkpoint, JobStates
<1>8. ASSUME NEW j \in Jobs, NEW stale \in BOOLEAN, NEW preflight \in BOOLEAN,
             Resume(j, stale, preflight)
      PROVE  BoardInv'
  <2> DEFINE state == ResumeStatus(board, j, stale, preflight)
  <2>1. /\ state \in {"FAILED_SAFE", "BLOCKED", "WAITING_APPROVAL", "READY"}
        /\ state = "READY" => RiskAllows(j, board[j], FALSE)
    BY <1>1, ResumeNames
  <2>2. Named(j, state)
    BY <1>8 DEF Resume
  <2> HIDE DEF state
  <2>3. state \in JobStates
    BY <2>1 DEF JobStates
  <2>4. state = "READY" => Contract[j].risk # "PROHIBITED_UNATTENDED"
    BY <1>2, <2>1, AllowedNotProhibited
  <2>5. ValidJob(j, [board[j] EXCEPT !.state = state])
    BY <1>2, <2>1, <2>3, <2>4, NamedTyped DEF ValidJob
  <2> QED BY <2>2, <2>3, <2>5, NamedKeeps
<1>9. ASSUME NEW j \in Jobs, NEW retryable \in BOOLEAN, Retry(j, retryable)
      PROVE  BoardInv'
  <2> DEFINE state == RetryState(j, board[j], retryable)
  <2>1. /\ state \in {"RETRY_WAIT", "FAILED_SAFE"}
        /\ state = "RETRY_WAIT" => Contract[j].retry # "NONE"
    BY <1>2, RetryNames
  <2>2. Named(j, state)
    BY <1>9 DEF Retry
  <2> HIDE DEF state
  <2>3. state \in JobStates
    BY <2>1 DEF JobStates
  <2>4. ValidJob(j, [board[j] EXCEPT !.state = state])
    BY <1>2, <2>1, <2>3, NamedTyped DEF ValidJob
  <2> QED BY <2>2, <2>3, <2>4, NamedKeeps
<1>10. CASE UNCHANGED boardVars
  BY <1>10, StutterKeeps DEF boardVars
<1> QED
  BY <1>3, <1>4, <1>5, <1>6, <1>7, <1>8, <1>9, <1>10 DEF BoardNext

\* The queue of every board, after any sequence of adoptions, endings,
\* approvals, checkpoints, resumptions and retries, is one validate_queue
\* accepts; what was applied is recognised; and resuming is never laxer than
\* selecting.
THEOREM BoardInvariant == BoardSpec => []BoardInv
<1>1. BoardInit => BoardInv
  <2> SUFFICES ASSUME BoardInit PROVE BoardInv
    OBVIOUS
  <2>1. BoardTypeOK
    BY DEF BoardInit, BoardTypeOK, NoResult
  <2> QED BY <2>1, ResumeAgreesAlways DEF BoardInit, BoardInv
<1> QED BY <1>1, NextKeeps, PTL DEF BoardSpec

\* A queue that was reported as blocked stands still, whatever windows open and
\* reads are allowed, and whatever is decided about the jobs that wait, until a
\* root is lifted or a finished job is opened again.
THEOREM BlockedStandsStill == BoardSpec => BlockedUntilLifted
<1>1. BoardInv => (BlockedSomewhere => Halted)
  BY BlockedHalts DEF BoardInv
<1>2. BoardInv =>
        (Halted => \A open \in SUBSET Jobs, externalRead \in BOOLEAN :
                     Eligible(board, open, externalRead) = {})
  BY HaltedIdle DEF BoardInv
<1>3. BoardInv /\ [BoardNext]_boardVars =>
        [Halted /\ ~ Lifted => Halted']_boardVars
  BY HaltLasts DEF BoardInv
<1> QED BY <1>1, <1>2, <1>3, BoardInvariant, PTL DEF BoardSpec, BlockedUntilLifted

\* The loop of assess_queue_blocked ends with the least set it stands for, its
\* class is that of the roots, and a blocked queue can always be reported:
\* however long the chains of dependencies are.
THEOREM BlockedProofAlwaysSound == BoardSpec => []BlockedProofSound
<1>1. BoardInv => BlockedProofSound
  BY ProofSound DEF BoardInv
<1> QED BY <1>1, BoardInvariant, PTL

=============================================================================
