----------------------- MODULE DevelopmentGatesProofs -----------------------
(***************************************************************************)
(* Proofs about DevelopmentGates, for any number of agents, gates and      *)
(* requests and any world of checkpoints, commits and runs.                *)
(***************************************************************************)
EXTENDS DevelopmentGates, TLAPS

\* What an agent in a call has: evidence up to a green run, hence a target.
LEMMA TargetType ==
  ASSUME NEW e \in Evidence, Stage(e) = "APPROVAL_REQUIRED"
  PROVE  TargetOf(e) \in Targets /\ e.approval = "REQUIRED"
  BY DEF Evidence, Stage, TargetOf, Targets

LEMMA InitInv == Init => GatesInv
<1> SUFFICES ASSUME Init PROVE GatesInv
  OBVIOUS
<1> USE WorldAssumption DEF Init
<1>1. PICK g \in [Agents -> Gates] : evidence = [a \in Agents |-> NoEvidence(g[a])]
  OBVIOUS
<1>2. TypeOK
  <2>1. \A a \in Agents : NoEvidence(g[a]) \in Evidence
    BY DEF Evidence, NoEvidence
  <2>2. evidence \in [Agents -> Evidence]
    BY <1>1, <2>1
  <2>3. store \in [revision : Nat, records : SUBSET Records]
    OBVIOUS
  <2>4. temp \in {"absent", "torn", "whole"} /\ pc \in [Agents -> Locations]
    BY DEF Locations
  <2>5. /\ expected \in [Agents -> Nat] /\ record \in [Agents -> Records \cup {None}]
        /\ releases \in [Requests -> Nat] /\ faults \in 0 .. MaxFaults
    OBVIOUS
  <2> QED
    BY <2>2, <2>3, <2>4, <2>5 DEF TypeOK
<1>3. EvidenceSound /\ ApprovalDurable
  BY <1>1 DEF EvidenceSound, OneWork, Stage, NoEvidence, ApprovalDurable, Passed
<1>4. OneHolder /\ RecordsUnique /\ HolderCurrent /\ ReleasedOnce
  BY DEF OneHolder, RecordsUnique, HolderCurrent, ReleasedOnce, Holding
<1> QED
  BY <1>2, <1>3, <1>4 DEF GatesInv

\* Good evidence stays good, and is not approved yet, when the observed field
\* is added.
Good(e) ==
  /\ e \in Evidence
  /\ OneWork(e)
  /\ Stage(e) = "NEXT_GATE_READY" => e.run # None /\ e.approval # "REQUIRED"
  /\ e.run # None /\ e.gate \in Approving => e.approval \in {"REQUIRED", "APPROVED"}

Open(e) == Good(e) /\ e.approval # "APPROVED"

LEMMA ObservedOpen ==
  ASSUME NEW e \in Evidence, Good(e)
  PROVE  /\ \A c \in Checkpoints : Stage(e) = "CHECKPOINT_REQUIRED"
              => Open([e EXCEPT !.checkpoint = c])
         /\ \A t \in Tiers : Stage(e) = "TEST_REQUIRED" /\ <<e.checkpoint, t>> \in Passes
              => Open([e EXCEPT !.tier = t])
         /\ \A m \in Commits :
              Stage(e) = "COMMIT_PUSH_REQUIRED" /\ MadeFrom[m] = <<e.checkpoint, e.tier>>
              => Open([e EXCEPT !.commit = m])
         /\ \A r \in Green : Stage(e) = "CI_REQUIRED" /\ HeadOf[r] = e.commit
              => Open([e EXCEPT !.run = r, !.approval = Policy(e.gate)])
         /\ \A g \in Gates : Open(NoEvidence(g))
<1> USE WorldAssumption DEF Open, Good, OneWork, Stage, Evidence
<1>1. ASSUME NEW c \in Checkpoints, Stage(e) = "CHECKPOINT_REQUIRED"
      PROVE  Open([e EXCEPT !.checkpoint = c])
  BY <1>1
<1>2. ASSUME NEW t \in Tiers, Stage(e) = "TEST_REQUIRED", <<e.checkpoint, t>> \in Passes
      PROVE  Open([e EXCEPT !.tier = t])
  BY <1>2
<1>3. ASSUME NEW m \in Commits, Stage(e) = "COMMIT_PUSH_REQUIRED",
             MadeFrom[m] = <<e.checkpoint, e.tier>>
      PROVE  Open([e EXCEPT !.commit = m])
  BY <1>3
<1>4. ASSUME NEW r \in Green, Stage(e) = "CI_REQUIRED", HeadOf[r] = e.commit
      PROVE  Open([e EXCEPT !.run = r, !.approval = Policy(e.gate)])
  <2> DEFINE n == [e EXCEPT !.run = r, !.approval = Policy(e.gate)]
  <2>1. /\ n.run = r /\ n.approval = Policy(e.gate) /\ n.gate = e.gate
        /\ n.checkpoint = e.checkpoint /\ n.tier = e.tier /\ n.commit = e.commit
        /\ r \in Runs
    OBVIOUS
  <2>2. Policy(e.gate) \in {"REQUIRED", "NOT_REQUIRED"} /\
        (e.gate \in Approving => Policy(e.gate) = "REQUIRED")
    BY DEF Policy
  <2>3. n \in Evidence
    BY <2>1, <2>2
  <2> HIDE DEF n
  <2> QED
    BY <1>4, <2>1, <2>2, <2>3
<1>5. ASSUME NEW g \in Gates PROVE Open(NoEvidence(g))
  BY DEF NoEvidence
<1> HIDE DEF Open, Good, OneWork, Stage, Evidence
<1> QED
  BY <1>1, <1>2, <1>3, <1>4, <1>5

\* The observers add to one agent's evidence what fits it.
LEMMA ObserveKeeps ==
  ASSUME GatesInv, NEW a \in Agents, Observe(a) PROVE GatesInv'
<1>0. /\ evidence \in [Agents -> Evidence] /\ Good(evidence[a])
      /\ evidence[a] \in Evidence
  BY DEF GatesInv, TypeOK, EvidenceSound, ApprovalDurable, Good
<1>a. PICK e : Coordinates(a, Stage(evidence[a])) /\ Observed(a, e) /\ Open(e)
  <2>1. CASE \E c \in Checkpoints : ObserveCheckpoint(a, c)
    BY <2>1, <1>0, ObservedOpen DEF ObserveCheckpoint, Coordinates
  <2>2. CASE \E c \in Checkpoints, t \in Tiers : ObserveTests(a, c, t)
    BY <2>2, <1>0, ObservedOpen DEF ObserveTests, Coordinates
  <2>3. CASE \E m \in Commits : ObservePush(a, m)
    BY <2>3, <1>0, ObservedOpen DEF ObservePush, Coordinates
  <2>4. CASE \E r \in Runs : ObserveCI(a, r)
    BY <2>4, <1>0, ObservedOpen DEF ObserveCI, Coordinates
  <2>5. CASE \E g \in Gates : StartNextGate(a, g)
    BY <2>5, <1>0, ObservedOpen DEF StartNextGate, Coordinates
  <2> QED
    BY <2>1, <2>2, <2>3, <2>4, <2>5 DEF Observe
<1>1. /\ UNCHANGED <<files, pc, call, releases, faults>>
      /\ pc[a] = "idle"
      /\ evidence' = [evidence EXCEPT ![a] = e]
      /\ Good(e) /\ e.approval # "APPROVED" /\ e \in Evidence
      /\ evidence'[a] = e
  BY <1>0, <1>a DEF Coordinates, Observed, Open, Good
<1>2. \A b \in Agents : b # a => evidence'[b] = evidence[b]
  BY <1>1 DEF GatesInv, TypeOK
<1>3. TypeOK'
  BY <1>1 DEF GatesInv, TypeOK, files, call
<1>4. EvidenceSound'
  BY <1>1, <1>2 DEF GatesInv, EvidenceSound, Good
<1>5. OneHolder' /\ RecordsUnique' /\ ReleasedOnce' /\ HolderCurrent'
  BY <1>1, <1>2 DEF GatesInv, OneHolder, RecordsUnique, ReleasedOnce, HolderCurrent,
     files, call, Holding, Consumed, TargetFree
<1>6. ApprovalDurable'
  BY <1>1, <1>2 DEF GatesInv, ApprovalDurable, Passed, files, Good
<1> QED
  BY <1>3, <1>4, <1>5, <1>6 DEF GatesInv

\* Steps that only move an agent's call on: the files, the evidence and the
\* releases stay, so only what the new location promises is to be shown.
LEMMA MoveKeeps ==
  ASSUME GatesInv, NEW a \in Agents, NEW to \in Locations,
         UNCHANGED <<evidence, store, releases>>,
         temp' \in {"absent", "torn", "whole"},
         faults' \in 0 .. MaxFaults, lock' \in BOOLEAN,
         Goto(a, to),
         expected' \in [Agents -> Nat], record' \in [Agents -> Records \cup {None}],
         \A b \in Agents \ {a} : expected'[b] = expected[b] /\ record'[b] = record[b],
         to \in Holding => lock',
         lock' # lock => lock' \/ \A b \in Agents \ {a} : pc[b] \notin Holding,
         to \in Holding => \A b \in Agents \ {a} : pc[b] \notin Holding,
         to # "idle" => Stage(evidence[a]) = "APPROVAL_REQUIRED",
         to \in {"acquire"} \cup Holding =>
           record'[a] \in Records /\ record'[a].target = TargetOf(evidence[a]),
         to \in {"create", "fill", "replace"} =>
           /\ store.revision = expected'[a]
           /\ ~ Consumed(record'[a].request)
           /\ TargetFree(record'[a].target),
         to \in {"readback", "return"} =>
           record'[a] \in store.records /\ releases[record'[a].request] = 0,
         to = "return" => store.revision = expected'[a] + 1
  PROVE  GatesInv'
<1>1. /\ pc'[a] = to /\ pc' \in [Agents -> Locations]
      /\ \A b \in Agents \ {a} : pc'[b] = pc[b]
  BY DEF GatesInv, TypeOK, Goto
<1>2. TypeOK'
  BY <1>1 DEF GatesInv, TypeOK
<1>3. EvidenceSound' /\ RecordsUnique' /\ ReleasedOnce' /\ ApprovalDurable'
  BY DEF GatesInv, EvidenceSound, RecordsUnique, ReleasedOnce, ApprovalDurable,
     Passed, Consumed
<1>4. OneHolder'
  BY <1>1 DEF GatesInv, OneHolder
<1>5. HolderCurrent'
  BY <1>1 DEF GatesInv, HolderCurrent, Consumed, TargetFree
<1> QED
  BY <1>2, <1>3, <1>4, <1>5 DEF GatesInv

\* The record is appended to the records it was compared with.
LEMMA ReplaceKeeps ==
  ASSUME GatesInv, NEW a \in Agents, Replace(a) PROVE GatesInv'
<1> DEFINE new == record[a]
<1>1. /\ TypeOK /\ HolderCurrent /\ OneHolder /\ RecordsUnique /\ ReleasedOnce
      /\ EvidenceSound /\ ApprovalDurable
  BY DEF GatesInv
<1>2. /\ pc[a] = "replace" /\ new \in Records /\ expected[a] \in Nat
      /\ \A seen \in store.records : seen.request # new.request /\ seen.target # new.target
      /\ store.revision = expected[a] /\ releases[new.request] = 0
      /\ \A b \in Agents \ {a} : pc[b] \notin Holding
  BY <1>1 DEF Replace, HolderCurrent, OneHolder, ReleasedOnce, Consumed, TargetFree,
     TypeOK, Holding, Records
<1>3. /\ store'.records = store.records \cup {new}
      /\ store'.revision = expected[a] + 1
      /\ pc' = [pc EXCEPT ![a] = "readback"]
      /\ UNCHANGED <<evidence, lock, call, releases, faults>>
      /\ temp' = "absent"
      /\ store' \in [revision : Nat, records : SUBSET Records]
  BY <1>1, <1>2 DEF Replace, Goto, TypeOK
<1>4. TypeOK'
  BY <1>1, <1>3 DEF TypeOK, call, Locations
<1>5. EvidenceSound'
  BY <1>1, <1>3 DEF EvidenceSound
<1>6. OneHolder'
  BY <1>1, <1>2, <1>3 DEF OneHolder, Holding, TypeOK
<1>7. RecordsUnique'
  BY <1>1, <1>2, <1>3 DEF RecordsUnique
<1>8. HolderCurrent'
  BY <1>1, <1>2, <1>3 DEF HolderCurrent, Holding, TypeOK, call, Locations
<1>9. ReleasedOnce'
  BY <1>1, <1>3 DEF ReleasedOnce, Consumed
<1>10. ApprovalDurable'
  BY <1>1, <1>3 DEF ApprovalDurable, Passed
<1> QED
  BY <1>4, <1>5, <1>6, <1>7, <1>8, <1>9, <1>10 DEF GatesInv

\* The lock file goes or stays, and SAVED releases the approval once.
LEMMA LeaveKeeps ==
  ASSUME GatesInv, NEW a \in Agents,
         pc[a] \in {"return", "abandon"},
         IF pc[a] = "return" THEN Approved(a) ELSE UNCHANGED <<evidence, releases>>,
         Return(a), lock' \in {FALSE, lock}, UNCHANGED <<store, temp>>,
         faults' \in 0 .. MaxFaults
  PROVE  GatesInv'
<1>1. /\ TypeOK /\ HolderCurrent /\ OneHolder /\ RecordsUnique /\ ReleasedOnce
      /\ EvidenceSound /\ ApprovalDurable
  BY DEF GatesInv
<1>2. /\ \A b \in Agents \ {a} : pc[b] \notin Holding
      /\ pc' = [pc EXCEPT ![a] = "idle"] /\ pc' \in [Agents -> Locations]
      /\ \A b \in Agents \ {a} : pc'[b] = pc[b] /\ record'[b] = record[b]
                                 /\ expected'[b] = expected[b]
      /\ expected' \in [Agents -> Nat] /\ record' \in [Agents -> Records \cup {None}]
  BY <1>1 DEF OneHolder, Holding, Return, Goto, TypeOK, Locations
<1>3. OneHolder' /\ RecordsUnique'
  BY <1>1, <1>2 DEF OneHolder, RecordsUnique, Holding, TypeOK
<1>4. CASE pc[a] = "abandon"
  <2>1. UNCHANGED <<evidence, releases>>
    BY <1>4
  <2>2. TypeOK'
    BY <2>1, <1>1, <1>2 DEF TypeOK
  <2>3. EvidenceSound' /\ ReleasedOnce' /\ ApprovalDurable'
    BY <2>1, <1>1 DEF EvidenceSound, ReleasedOnce, ApprovalDurable, Passed, Consumed
  <2>4. HolderCurrent'
    BY <2>1, <1>1, <1>2 DEF HolderCurrent, Consumed, TargetFree, TypeOK, Holding
  <2> QED
    BY <1>3, <2>2, <2>3, <2>4 DEF GatesInv
<1>5. CASE pc[a] = "return"
  <2> DEFINE e == evidence'[a]
             mine == record[a]
  <2>1. /\ mine \in store.records /\ mine \in Records /\ releases[mine.request] = 0
        /\ mine.target = TargetOf(evidence[a])
        /\ evidence[a] \in Evidence /\ Stage(evidence[a]) = "APPROVAL_REQUIRED"
    BY <1>1, <1>5 DEF HolderCurrent, TypeOK, Holding, Locations
  <2>2. /\ evidence' = [evidence EXCEPT ![a] = e]
        /\ releases' = [releases EXCEPT ![mine.request] = 1]
        /\ e = [evidence[a] EXCEPT !.approval = "APPROVED"]
    BY <1>1, <1>5, <2>1 DEF Approved, TypeOK, Records
  <2>3. /\ e \in Evidence /\ e.approval = "APPROVED" /\ e.gate = evidence[a].gate
        /\ e.checkpoint = evidence[a].checkpoint /\ e.tier = evidence[a].tier
        /\ e.commit = evidence[a].commit /\ e.run = evidence[a].run
        /\ e.run # None
    BY <2>1, <2>2 DEF Evidence, Stage
  <2>4. TypeOK'
    BY <1>1, <1>2, <2>1, <2>2, <2>3 DEF TypeOK, Records
  <2>5. /\ \A b \in Agents \ {a} : evidence'[b] = evidence[b]
        /\ \A r \in Requests \ {mine.request} : releases'[r] = releases[r]
        /\ releases'[mine.request] = 1
        /\ TargetOf(e) = mine.target
    BY <1>1, <2>1, <2>2, <2>3 DEF TypeOK, Records, TargetOf
  <2>6. EvidenceSound'
    BY <1>1, <2>3, <2>5 DEF EvidenceSound, OneWork, Stage
  <2>7. ReleasedOnce'
    BY <1>1, <2>1, <2>5 DEF ReleasedOnce, Consumed
  <2>8. HolderCurrent'
    BY <1>1, <1>2, <2>5 DEF HolderCurrent, Consumed, TargetFree, TypeOK, Holding
  <2>9. ApprovalDurable'
    <3>1. \A b \in Agents \ {a} : Passed(b) => TargetOf(evidence[b]) # mine.target
      BY <1>1, <2>1 DEF ApprovalDurable, RecordsUnique
    <3>2. \A b \in Agents : Passed(b)' => \E seen \in store.records :
            seen.target = TargetOf(evidence'[b]) /\ releases'[seen.request] = 1
      BY <1>1, <2>1, <2>5, <1>2 DEF ApprovalDurable, Passed, TypeOK, Records
    <3>3. \A b \in Agents : evidence'[b].run # None /\ evidence'[b].gate \in Approving =>
            evidence'[b].approval \in {"REQUIRED", "APPROVED"}
      BY <1>1, <2>3, <2>5 DEF ApprovalDurable
    <3> QED
      BY <1>1, <2>5, <3>1, <3>2, <3>3 DEF ApprovalDurable, Passed
  <2> QED
    BY <1>3, <2>4, <2>6, <2>7, <2>8, <2>9 DEF GatesInv
<1> QED
  BY <1>4, <1>5

\* An approval call, step by step.
LEMMA ApproveKeeps ==
  ASSUME GatesInv, NEW a \in Agents, Approve(a) PROVE GatesInv'
<1> DEFINE Holds == /\ TypeOK /\ HolderCurrent /\ OneHolder
<1>0. Holds
  BY DEF GatesInv
<1>t. /\ pc[a] # "idle" => evidence[a] \in Evidence /\ Stage(evidence[a]) = "APPROVAL_REQUIRED"
      /\ pc[a] # "idle" => TargetOf(evidence[a]) \in Targets
  BY <1>0, TargetType DEF TypeOK, HolderCurrent, Locations
<1>1. CASE RequestApproval(a)
  BY <1>1, <1>0, MoveKeeps DEF RequestApproval, Coordinates, Goto, TypeOK, files,
     Locations, Holding
<1>2. CASE Look(a) \/ LookTemp(a) \/ Refused(a)
  BY <1>2, <1>0, MoveKeeps DEF Look, LookTemp, Refused, Return, Goto, TypeOK,
     HolderCurrent, files, call, Locations, Holding
<1>3. CASE \E r \in Requests : Accepted(a, r)
  <2> PICK r \in Requests : Accepted(a, r)
    BY <1>3
  <2>1. pc[a] = "read" /\ Goto(a, "acquire") /\ record'[a] \in Records
        /\ record'[a].target = TargetOf(evidence[a])
    BY <1>0, <1>t DEF Accepted, RecordOf, Records, TypeOK
  <2> QED
    BY <2>1, <1>0, <1>t, MoveKeeps DEF Accepted, Goto, TypeOK, files, Locations, Holding
<1>4. CASE Acquire(a)
  <2>1. CASE lock
    BY <2>1, <1>4, <1>0, MoveKeeps DEF Acquire, Return, Goto, TypeOK, HolderCurrent,
       files, call, Locations, Holding
  <2>2. CASE ~ lock
    BY <2>2, <1>4, <1>0, <1>t, MoveKeeps DEF Acquire, Goto, TypeOK, HolderCurrent,
       OneHolder, files, call, Locations, Holding
  <2> QED
    BY <2>1, <2>2
<1>5. CASE Check(a)
  BY <1>5, <1>0, <1>t, MoveKeeps DEF Check, Savable, Goto, TypeOK, HolderCurrent,
     OneHolder, files, call, Locations, Holding
<1>6. CASE Create(a) \/ Fill(a)
  BY <1>6, <1>0, <1>t, MoveKeeps DEF Create, Fill, Goto, TypeOK, HolderCurrent,
     OneHolder, call, Locations, Holding
<1>7. CASE Replace(a)
  BY <1>7, ReplaceKeeps
<1>8. CASE ReadBack(a)
  BY <1>8, <1>0, <1>t, MoveKeeps DEF ReadBack, Goto, TypeOK, HolderCurrent,
     OneHolder, files, call, Locations, Holding
<1>9. CASE Leave(a)
  BY <1>9, LeaveKeeps DEF Leave, GatesInv, TypeOK
<1> QED
  BY <1>1, <1>2, <1>3, <1>4, <1>5, <1>6, <1>7, <1>8, <1>9 DEF Approve

\* Errors, deaths and the operator.
LEMMA FaultKeeps ==
  ASSUME GatesInv, (\E a \in Agents : Fails(a)) \/ Review PROVE GatesInv'
<1>0. TypeOK /\ HolderCurrent /\ OneHolder
  BY DEF GatesInv
<1>1. CASE Review
  <2>1. TypeOK' /\ OneHolder'
    BY <1>0, <1>1 DEF Review, TypeOK, OneHolder, call
  <2>2. EvidenceSound' /\ RecordsUnique' /\ ReleasedOnce' /\ ApprovalDurable' /\ HolderCurrent'
    BY <1>1 DEF Review, GatesInv, EvidenceSound, RecordsUnique, ReleasedOnce,
       ApprovalDurable, HolderCurrent, Passed, Consumed, TargetFree, call
  <2> QED
    BY <2>1, <2>2 DEF GatesInv
<1>2. ASSUME NEW a \in Agents, Fails(a) PROVE GatesInv'
  <2>1. faults' \in 0 .. MaxFaults
    BY <1>0, <1>2, WorldAssumption DEF Fails, CallFails, SaveFails, UnlinkFails,
       Crash, Fault, TypeOK
  <2>2. CASE CallFails(a)
    BY <2>1, <2>2, <1>0, MoveKeeps DEF CallFails, Return, Goto, TypeOK, files,
       Locations, Holding
  <2>3. CASE SaveFails(a)
    BY <2>1, <2>3, <1>0, MoveKeeps DEF SaveFails, Goto, TypeOK, HolderCurrent,
       OneHolder, files, call, Locations, Holding
  <2>4. CASE UnlinkFails(a)
    BY <2>1, <2>4, LeaveKeeps DEF UnlinkFails, files
  <2>5. CASE Crash(a)
    <3> DEFINE e == NoEvidence(evidence[a].gate)
    <3>1. evidence[a].gate \in Gates /\ Good(evidence[a]) /\ evidence[a] \in Evidence
      BY <1>0 DEF TypeOK, Evidence, GatesInv, EvidenceSound, ApprovalDurable, Good
    <3>2. Open(e)
      BY <3>1, ObservedOpen
    <3>3. /\ \A b \in Agents : evidence'[b] = IF b = a THEN e ELSE evidence[b]
          /\ evidence' \in [Agents -> Evidence]
          /\ pc' = [pc EXCEPT ![a] = "idle"] /\ pc' \in [Agents -> Locations]
          /\ expected' \in [Agents -> Nat] /\ record' \in [Agents -> Records \cup {None}]
          /\ \A b \in Agents \ {a} : expected'[b] = expected[b] /\ record'[b] = record[b]
          /\ UNCHANGED <<store, lock, temp, releases>>
      BY <2>5, <3>2, <1>0 DEF Crash, Return, Goto, TypeOK, files, Open, Good, Locations
    <3>4. TypeOK'
      BY <3>3, <2>1, <1>0 DEF TypeOK
    <3>5. EvidenceSound' /\ ApprovalDurable'
      BY <3>2, <3>3 DEF GatesInv, EvidenceSound, ApprovalDurable, Passed, Open, Good
    <3>6. OneHolder'
      BY <3>3, <1>0 DEF OneHolder, Holding, TypeOK
    <3>7. HolderCurrent'
      BY <3>3, <1>0 DEF HolderCurrent, Holding, TypeOK, Consumed, TargetFree
    <3>8. RecordsUnique' /\ ReleasedOnce'
      BY <3>3 DEF GatesInv, RecordsUnique, ReleasedOnce, Consumed
    <3> QED
      BY <3>4, <3>5, <3>6, <3>7, <3>8 DEF GatesInv
  <2> QED
    BY <1>2, <2>2, <2>3, <2>4, <2>5 DEF Fails
<1> QED
  BY <1>1, <1>2

LEMMA StutterKeeps == ASSUME GatesInv, UNCHANGED vars PROVE GatesInv'
  BY DEF vars, call, GatesInv, TypeOK, EvidenceSound, OneHolder, RecordsUnique,
     HolderCurrent, ReleasedOnce, ApprovalDurable, Passed, Consumed, TargetFree

LEMMA NextKeeps == GatesInv /\ [Next]_vars => GatesInv'
  BY ObserveKeeps, ApproveKeeps, FaultKeeps, StutterKeeps DEF Next

\* GatesInv always holds: evidence is of one piece of work, the lock file has
\* one holder, and a gate that asks for an approval is passed only on a
\* record that is on disk for it, released once, and not by two agents.
THEOREM GatesInvariant == Spec => []GatesInv
  BY InitInv, NextKeeps, PTL DEF Spec

-----------------------------------------------------------------------------

\* The two steps that show: a record is consumed, an approval is released.
Consumes(a) == Replace(a)
Releases(a) == pc[a] = "return" /\ Approved(a) /\ Return(a) /\ UNCHANGED store

LEMMA StepKinds ==
  ASSUME GatesInv, [Next]_vars
  PROVE  \/ \E a \in Agents : Consumes(a) \/ Releases(a)
         \/ /\ UNCHANGED <<store, releases>>
            /\ \A a \in Agents : pc'[a] \in {"readback", "return"} =>
                 pc[a] \in {"readback", "return"} /\ record'[a] = record[a]
<1>0. TypeOK
  BY DEF GatesInv
<1>1. CASE UNCHANGED vars
  BY <1>1 DEF vars, call
<1>2. CASE Review
  BY <1>2 DEF Review, call
<1>3. ASSUME NEW a \in Agents, Observe(a) PROVE UNCHANGED <<store, releases, pc, record>>
  BY <1>3 DEF Observe, ObserveCheckpoint, ObserveTests, ObservePush, ObserveCI,
     StartNextGate, Observed, files, call
<1>4. ASSUME NEW a \in Agents, Approve(a) \/ Fails(a)
      PROVE  \/ Consumes(a) \/ Releases(a)
             \/ /\ UNCHANGED <<store, releases>>
                /\ \A b \in Agents : pc'[b] \in {"readback", "return"} =>
                     pc[b] \in {"readback", "return"} /\ record'[b] = record[b]
  <2> USE <1>0 DEF Goto, Return, files, call, Consumes, Releases, TypeOK
  <2>1. CASE Approve(a)
    BY <2>1 DEF Approve, RequestApproval, Look, LookTemp, Refused, Accepted,
       Acquire, Check, Create, Fill, ReadBack, Leave
  <2>2. CASE Fails(a)
    BY <2>2 DEF Fails, CallFails, SaveFails, UnlinkFails, Crash
  <2> QED
    BY <1>4, <2>1, <2>2
<1> QED
  BY <1>1, <1>2, <1>3, <1>4 DEF Next

\* An approval that was consumed and not answered for is spent for good.
THEOREM SpentForGood == Spec => LostForGood
<1>1. ASSUME GatesInv, [Next]_vars PROVE \A seen \in store.records : Lost(seen) => Lost(seen)'
  <2> SUFFICES ASSUME NEW seen \in store.records, Lost(seen) PROVE Lost(seen)'
    OBVIOUS
  <2>0. TypeOK /\ HolderCurrent /\ RecordsUnique
    BY <1>1 DEF GatesInv
  <2>1. ASSUME NEW a \in Agents, Consumes(a) PROVE Lost(seen)'
    <3>1. /\ record[a] # seen /\ record' = record /\ releases' = releases
          /\ seen \in store'.records
          /\ \A b \in Agents : pc'[b] \in {"readback", "return"} =>
               b = a \/ pc[b] \in {"readback", "return"}
      BY <2>0, <2>1 DEF Consumes, Replace, HolderCurrent, Consumed, Goto, call, TypeOK
    <3> QED
      BY <3>1 DEF Lost
  <2>2. ASSUME NEW a \in Agents, Releases(a) PROVE Lost(seen)'
    <3>1. /\ record[a] # seen /\ record[a] \in store.records
      BY <2>0, <2>2 DEF Lost, Releases, HolderCurrent
    <3>2. record[a].request # seen.request
      BY <2>0, <3>1 DEF RecordsUnique
    <3>3. /\ releases'[seen.request] = releases[seen.request]
          /\ \A b \in Agents : pc'[b] \in {"readback", "return"} =>
               pc[b] \in {"readback", "return"} /\ record'[b] = record[b]
      BY <2>0, <2>2, <3>2 DEF Releases, Approved, Return, Goto, TypeOK, Records
    <3> QED
      BY <2>2, <3>3 DEF Lost, Releases
  <2>3. CASE /\ UNCHANGED <<store, releases>>
             /\ \A a \in Agents : pc'[a] \in {"readback", "return"} =>
                  pc[a] \in {"readback", "return"} /\ record'[a] = record[a]
    BY <2>3 DEF Lost
  <2> QED
    BY <1>1, <2>1, <2>2, <2>3, StepKinds
<1> QED
  BY <1>1, GatesInvariant, PTL DEF Spec, LostForGood

\* Every step consumes one unused approval, releases one consumed and not yet
\* released, or is invisible.
THEOREM Refines == Spec => ImplementsLedger
<1>1. Init => Ledger!Init
  BY DEF Init, Ledger!Init
<1>2. ASSUME GatesInv, [Next]_vars PROVE [Ledger!Next]_<<store.records, releases>>
  <2>0. TypeOK /\ HolderCurrent
    BY <1>2 DEF GatesInv
  <2>1. ASSUME NEW a \in Agents, Consumes(a) PROVE Ledger!Next
    <3>1. record[a] \in Ledger!Approvals /\ Ledger!Consume(record[a])
      BY <2>0, <2>1 DEF Consumes, Replace, HolderCurrent, Holding, Consumed,
         TargetFree, Ledger!Approvals, Ledger!Consume, Records
    <3> QED
      BY <3>1 DEF Ledger!Next
  <2>2. ASSUME NEW a \in Agents, Releases(a) PROVE Ledger!Next
    <3>1. /\ record[a] \in Records /\ record[a] \in store.records
          /\ releases[record[a].request] = 0
      BY <2>0, <2>2 DEF Releases, HolderCurrent, Holding
    <3>2. releases' = [releases EXCEPT ![record[a].request] = 0 + 1]
      BY <2>2, <3>1 DEF Releases, Approved
    <3>3. store'.records = store.records
      BY <2>2 DEF Releases
    <3>4. Ledger!Release(record[a])
      BY <3>1, <3>2, <3>3 DEF Ledger!Release
    <3> QED
      BY <3>1, <3>4 DEF Ledger!Next, Ledger!Approvals, Records
  <2> QED
    BY <1>2, <2>1, <2>2, StepKinds
<1> QED
  BY <1>1, <1>2, GatesInvariant, PTL DEF Spec, ImplementsLedger, Ledger!Spec

=============================================================================
