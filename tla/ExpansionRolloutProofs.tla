----------------------- MODULE ExpansionRolloutProofs -----------------------
(***************************************************************************)
(* RolloutInv is inductive, and RecheckPrevails follows step by step.      *)
(* The proof separates what the steps of the others may do to a run's rows *)
(* (Drift) from the run's own steps.                                       *)
(***************************************************************************)
EXTENDS ExpansionRollout, TLAPS

USE RolloutAssumption, NoneAssumption

\* Rows only move from absent to inert, and from inert to approved or refused.
RowsDrift ==
  \A r \in Rows :
    /\ state[r] # "absent" => state'[r] # "absent"
    /\ state[r] # "absent" /\ state'[r] = "inert" => state[r] = "inert"
    /\ state[r] \in Approved => state'[r] \in Approved
    /\ state[r] = "refused" => state'[r] = "refused"

\* Targets, events, movers and files stay.
RestDrifts ==
  /\ target \subseteq target' /\ audited \subseteq audited'
  /\ \A r \in Rows : mover[r] # None => mover'[r] = mover[r]
  /\ after # None => before' = before /\ after' = after

\* A step that is not the run's own.
Untouched(x) ==
  /\ pc'[x] = pc[x] /\ selection'[x] = selection[x] /\ answers'[x] = answers[x]
  /\ stage'[x] = stage[x] /\ alive'[x] = alive[x] /\ changed'[x] = changed[x]

\* An export is what it is taken to be.
LEMMA SnapshotIsExport == TypeOK => Snapshot \in Exports
  BY DEF TypeOK, Snapshot, Exports

\* At first no run has selected anything and there are no files.
LEMMA InitSound == Init => RolloutInv
  <1> SUFFICES ASSUME Init PROVE RolloutInv
    OBVIOUS
  <1>1. state \in [Rows -> States]
    BY DEF Init
  <1>2. TypeOK
    BY <1>1 DEF Init, TypeOK, Outcomes, Stages
  <1>3. \A x \in Executors : Pending(x) = {}
    BY DEF Init, Pending
  <1>4. \A x \in Executors : SelectionSound(x) /\ QuerySound(x)
    BY <1>3 DEF Init, SelectionSound, QuerySound
  <1>5. ReportsTrue
    BY DEF Init, ReportsTrue
  <1>6. EnabledSound /\ ScopeKept /\ VerifiedExact /\ FilesSound
    BY DEF Init, EnabledSound, ScopeKept, VerifiedExact, FilesSound
  <1> QED  BY <1>2, <1>4, <1>5, <1>6 DEF RolloutInv

-----------------------------------------------------------------------------
(* Types *)

\* A cycle that ends leaves well-typed variables.
LEMMA ReturnTyped ==
  ASSUME TypeOK, NEW x \in Executors, Return(x)
  PROVE  /\ pc' \in [Executors -> {"idle", "chosen", "ask", "send", "wait", "lost"}]
         /\ selection' \in [Executors -> SUBSET Rows]
         /\ answers' \in [Executors -> [Rows -> Outcomes]]
         /\ stage' \in [Executors -> [Rows -> Stages]]
         /\ alive' \in [Executors -> BOOLEAN]
         /\ changed' \in [Executors -> BOOLEAN]
  <1>1. [r \in Rows |-> "UNCONFIRMED"] \in [Rows -> Outcomes]
    BY DEF Outcomes
  <1>2. [r \in Rows |-> "done"] \in [Rows -> Stages]
    BY DEF Stages
  <1> QED  BY <1>1, <1>2 DEF TypeOK, Return, Goto

\* Imports and rechecks keep the types.
LEMMA OthersTyped ==
  ASSUME TypeOK, Others
  PROVE  TypeOK'
  <1>1. ASSUME NEW r \in Rows, Import(r) PROVE TypeOK'
    BY <1>1 DEF TypeOK, Import, rows, files, run, States, Present
  <1>2. ASSUME NEW r \in Rows, NEW outcome \in Outcomes, Recheck(r, outcome)
        PROVE  TypeOK'
    <2>1. state' \in [Rows -> States]
      BY <1>2 DEF TypeOK, Recheck, States, Present, Outcomes
    <2>2. {touched', target', audited'} \subseteq SUBSET Rows
      BY <1>2 DEF TypeOK, Recheck, Touch
    <2>3. UNCHANGED <<files, run, mover, faults>> /\ rechecks' \in Nat
      BY <1>2 DEF TypeOK, Recheck
    <2> QED  BY <2>1, <2>2, <2>3 DEF TypeOK, files, run
  <1> QED  BY <1>1, <1>2 DEF Others

\* The operator's steps keep the types.
LEMMA OperateTyped ==
  ASSUME TypeOK, Operate
  PROVE  TypeOK'
  <1>1. CASE ExportBefore
    <2>1. [Snapshot EXCEPT !.touched = {}] \in Exports
      BY DEF Snapshot, Exports, TypeOK
    <2> QED  BY <1>1, <2>1 DEF ExportBefore, TypeOK, run
  <1>2. CASE Gate
    BY <1>2 DEF Gate, TypeOK, rows, run
  <1>3. CASE InsertDelta
    <2>1. state' \in [Rows -> States]
      BY <1>3 DEF InsertDelta, TypeOK, States, Present
    <2> QED  BY <1>3, <2>1 DEF InsertDelta, TypeOK, files, run
  <1>4. CASE ExportAfter
    BY <1>4, SnapshotIsExport DEF ExportAfter, TypeOK, run
  <1>5. CASE Verify
    BY <1>5 DEF Verify, TypeOK, rows, run
  <1>6. ASSUME NEW x \in Executors, NEW current \in BOOLEAN,
               NEW index \in 0 .. Cardinality(Candidate), Choose(x, current, index)
        PROVE  TypeOK'
    <2>1. Batch(Selectable(current), index) \subseteq Rows
      BY DEF Batch, Selectable, Inserted, RowsOf
    <2> QED  BY <1>6, <2>1 DEF Choose, Goto, TypeOK, rows, files
  <1> QED  BY <1>1, <1>2, <1>3, <1>4, <1>5, <1>6 DEF Operate

\* The steps of a run keep the types.
LEMMA RunTyped ==
  ASSUME TypeOK, NEW x \in Executors, Run(x)
  PROVE  TypeOK'
  <1>1. CASE Select(x)
    BY <1>1, ReturnTyped DEF Select, Goto, TypeOK, rows, files
  <1>2. CASE Ask(x)
    <2>1. PICK given \in [selection[x] -> Outcomes] :
            answers' = [answers EXCEPT ![x] = [r \in Rows |->
              IF r \in selection[x] THEN given[r] ELSE "UNCONFIRMED"]]
      BY <1>2 DEF Ask
    <2>2. [r \in Rows |-> IF r \in selection[x] THEN given[r] ELSE "UNCONFIRMED"]
            \in [Rows -> Outcomes]
      BY DEF Outcomes
    <2>3. answers' \in [Executors -> [Rows -> Outcomes]]
      BY <2>1, <2>2 DEF TypeOK
    <2> QED  BY <1>2, <2>3 DEF Ask, Goto, TypeOK, rows, files
  <1>3. CASE Send(x)
    <2>1. [r \in Rows |-> IF r \in selection[x] THEN First(answers[x][r]) ELSE "done"]
            \in [Rows -> Stages]
      BY DEF First, Stages
    <2> QED  BY <1>3, <2>1 DEF Send, Goto, TypeOK, rows, files
  <1>4. CASE Complete(x)
    BY <1>4, ReturnTyped DEF Complete, TypeOK, rows, files
  <1>5. CASE Unknown(x)
    BY <1>5 DEF Unknown, Fault, Goto, TypeOK, rows, files
  <1>6. CASE RunFails(x)
    BY <1>6, ReturnTyped DEF RunFails, Fault, TypeOK, rows, files
  <1> QED  BY <1>1, <1>2, <1>3, <1>4, <1>5, <1>6 DEF Run

\* The steps of a query keep the types.
LEMMA QueryTyped ==
  ASSUME TypeOK, NEW x \in Executors, Query(x)
  PROVE  TypeOK'
  <1>1. ASSUME NEW r \in Rows, Execute(x, r) PROVE TypeOK'
    <2>1. state' \in [Rows -> States]
      BY <1>1 DEF Execute, TypeOK, rows, Updated, States, Present
    <2>2. {touched', target', audited'} \subseteq SUBSET Rows
      BY <1>1 DEF Execute, TypeOK, rows, Touch
    <2>3. mover' \in [Rows -> Executors \cup {None}]
      BY <1>1 DEF Execute, TypeOK
    <2>4. changed' \in [Executors -> BOOLEAN]
      BY <1>1 DEF Execute, TypeOK
    <2>5. stage' \in [Executors -> [Rows -> Stages]]
      BY <1>1 DEF Execute, TypeOK, Following, Stages
    <2> QED  BY <1>1, <2>1, <2>2, <2>3, <2>4, <2>5 DEF Execute, TypeOK, files
  <1>2. CASE Fail(x)
    BY <1>2 DEF Fail, TypeOK, rows, files
  <1>3. CASE Drop(x)
    BY <1>3 DEF Drop, Fault, TypeOK, rows, files
  <1>4. CASE Expire(x)
    BY <1>4, ReturnTyped DEF Expire, TypeOK, rows, files
  <1> QED  BY <1>1, <1>2, <1>3, <1>4 DEF Query

\* Types are kept by every step.
LEMMA TypesKept ==
  ASSUME TypeOK, [Next]_vars
  PROVE  TypeOK'
  <1>1. CASE UNCHANGED vars
    BY <1>1 DEF vars, rows, files, run, TypeOK
  <1> QED  BY <1>1, OthersTyped, OperateTyped, RunTyped, QueryTyped DEF Next

-----------------------------------------------------------------------------
(* What every step leaves alone *)

\* What a query does to one row, or what stands.
LEMMA ExecuteDrifts ==
  ASSUME TypeOK, ScopeKept, NEW x \in Executors, NEW r \in Rows, Execute(x, r)
  PROVE  RowsDrift /\ RestDrifts
  <1>1. CASE Applies(r)
    <2>1. state[r] = "inert" /\ mover[r] = None
      BY <1>1 DEF Applies, ScopeKept, Approved
    <2>2. state'[r] \in {"inert", "active", "refused"}
      BY <1>1, <2>1 DEF Execute, TypeOK, Updated, States, Present
    <2>3. \A s \in Rows \ {r} : state'[s] = state[s] /\ mover'[s] = mover[s]
      BY <1>1 DEF Execute, TypeOK
    <2>4. target \subseteq target' /\ audited \subseteq audited'
      BY <1>1 DEF Execute
    <2>5. UNCHANGED files
      BY DEF Execute
    <2>6. RowsDrift
      BY <2>1, <2>2, <2>3 DEF RowsDrift, Approved
    <2>7. RestDrifts
      BY <2>1, <2>3, <2>4, <2>5 DEF RestDrifts, files
    <2> QED  BY <2>6, <2>7
  <1>2. CASE ~ Applies(r)
    BY <1>2 DEF Execute, RowsDrift, RestDrifts, rows, files
  <1> QED  BY <1>1, <1>2

\* Every step moves rows and history in these directions only.
LEMMA StepDrifts ==
  ASSUME TypeOK, ScopeKept, [Next]_vars
  PROVE  RowsDrift /\ RestDrifts
  <1>1. CASE UNCHANGED vars
    BY <1>1 DEF vars, rows, files, RowsDrift, RestDrifts
  <1>2. ASSUME NEW r \in Rows, Import(r) PROVE RowsDrift /\ RestDrifts
    BY <1>2 DEF Import, RowsDrift, RestDrifts, files, TypeOK, Approved
  <1>3. ASSUME NEW r \in Rows, NEW outcome \in Outcomes, Recheck(r, outcome)
        PROVE  RowsDrift /\ RestDrifts
    <2>1. state[r] \in Approved /\ state'[r] \in Approved
      BY <1>3 DEF Recheck, Approved, TypeOK, Outcomes
    <2>2. \A s \in Rows \ {r} : state'[s] = state[s]
      BY <1>3 DEF Recheck, TypeOK
    <2>3. RowsDrift
      BY <2>1, <2>2 DEF RowsDrift, Approved
    <2> QED  BY <1>3, <2>3 DEF Recheck, RestDrifts, files
  <1>4. CASE Operate
    <2>1. CASE InsertDelta
      BY <2>1 DEF InsertDelta, RowsDrift, RestDrifts, files, Approved
    <2>2. CASE ~ InsertDelta
      <3>1. UNCHANGED <<state, target, audited, mover>>
        BY <1>4, <2>2 DEF Operate, ExportBefore, Gate, ExportAfter, Verify, Choose, rows
      <3>2. after # None => UNCHANGED <<before, after>>
        BY <1>4, <2>2 DEF Operate, ExportBefore, Gate, ExportAfter, Verify, Choose, files
      <3> QED  BY <3>1, <3>2 DEF RowsDrift, RestDrifts
    <2> QED  BY <2>1, <2>2
  <1>5. ASSUME NEW x \in Executors, Run(x) PROVE RowsDrift /\ RestDrifts
    BY <1>5 DEF Run, Select, Ask, Send, Complete, Unknown, RunFails, rows, files,
       RowsDrift, RestDrifts
  <1>6. ASSUME NEW x \in Executors, Query(x) PROVE RowsDrift /\ RestDrifts
    <2>1. CASE \E r \in Rows : Execute(x, r)
      BY <2>1, ExecuteDrifts
    <2>2. CASE Fail(x) \/ Drop(x) \/ Expire(x)
      BY <2>2 DEF Fail, Drop, Expire, rows, files, RowsDrift, RestDrifts
    <2> QED  BY <1>6, <2>1, <2>2 DEF Query
  <1> QED  BY <1>1, <1>2, <1>3, <1>4, <1>5, <1>6 DEF Next, Others

-----------------------------------------------------------------------------
(* The rows and the files *)

\* A step that enables a row finds, or writes, its target and its event.
LEMMA EnabledKept ==
  ASSUME RolloutInv, [Next]_vars
  PROVE  EnabledSound'
  <1> USE DEF RolloutInv
  <1>1. RestDrifts
    BY StepDrifts
  <1>2. ASSUME \A r \in Rows : state'[r] = "active" => state[r] = "active"
        PROVE  EnabledSound'
    BY <1>1, <1>2 DEF RestDrifts, EnabledSound
  <1>3. CASE UNCHANGED state
    BY <1>2, <1>3
  <1>4. ASSUME NEW r \in Rows, Import(r) PROVE EnabledSound'
    BY <1>2, <1>4 DEF Import, TypeOK
  <1>5. ASSUME NEW r \in Rows, NEW outcome \in Outcomes, Recheck(r, outcome)
        PROVE  EnabledSound'
    BY <1>5 DEF Recheck, TypeOK, EnabledSound, Outcomes
  <1>6. CASE InsertDelta
    BY <1>2, <1>6 DEF InsertDelta, TypeOK
  <1>7. ASSUME NEW x \in Executors, NEW r \in Rows, Execute(x, r)
        PROVE  EnabledSound'
    <2>1. QuerySound(x) /\ r \in Pending(x)
      BY <1>7 DEF Execute
    <2>2. \A s \in Rows \ {r} : state'[s] = state[s]
      BY <1>7 DEF Execute, TypeOK, rows
    <2>3. ASSUME state'[r] = "active", state[r] # "active"
          PROVE  r \in target /\ r \in audited
      <3>1. Applies(r) /\ stage[x][r] = "update" /\ Updated(answers[x][r]) = "active"
        BY <1>7, <2>3 DEF Execute, TypeOK, rows
      <3>2. answers[x][r] = "VALID" /\ state[r] = "inert"
        BY <3>1 DEF Updated, Applies
      <3> QED  BY <2>1, <3>1, <3>2 DEF QuerySound
    <2> QED  BY <1>1, <2>2, <2>3 DEF RestDrifts, EnabledSound
  <1>8. CASE Operate
    BY <1>3, <1>6, <1>8 DEF Operate, ExportBefore, Gate, ExportAfter, Verify, Choose, rows
  <1>9. ASSUME NEW x \in Executors, Run(x) PROVE EnabledSound'
    BY <1>3, <1>9 DEF Run, Select, Ask, Send, Complete, Unknown, RunFails, rows
  <1>10. ASSUME NEW x \in Executors, Query(x) PROVE EnabledSound'
    BY <1>3, <1>7, <1>10 DEF Query, Fail, Drop, Expire, rows
  <1>11. CASE UNCHANGED vars
    BY <1>3, <1>11 DEF vars, rows
  <1> QED  BY <1>4, <1>5, <1>8, <1>9, <1>10, <1>11 DEF Next, Others

\* Only an operator's steps move the files.
LEMMA FilesMove ==
  ASSUME [Next]_vars
  PROVE  \/ UNCHANGED <<before, after, verified>>
         \/ ExportBefore \/ ExportAfter \/ Verify
  BY DEF Next, vars, files, Others, Import, Recheck, Operate, Gate, InsertDelta, Choose,
     Run, Select, Ask, Send, Complete, Unknown, RunFails,
     Query, Execute, Fail, Drop, Expire

\* The exports stay true of D1, and a verified difference the candidate's.
LEMMA FilesKept ==
  ASSUME RolloutInv, [Next]_vars
  PROVE  FilesSound' /\ VerifiedExact'
  <1> USE DEF RolloutInv
  <1>1. RowsDrift /\ RestDrifts
    BY StepDrifts
  <1>2. CASE UNCHANGED <<before, after, verified>>
    <2>1. FilesSound'
      BY <1>1, <1>2 DEF RowsDrift, FilesSound, RowsOf
    <2>2. VerifiedExact'
      BY <1>2 DEF VerifiedExact, Inserted, Missing, RowsOf
    <2> QED  BY <2>1, <2>2
  <1>3. CASE ExportBefore
    BY <1>3 DEF ExportBefore, FilesSound, VerifiedExact
  <1>4. CASE ExportAfter
    BY <1>4 DEF ExportAfter, Snapshot, RowsOf, FilesSound, VerifiedExact
  <1>5. CASE Verify
    <2>1. UNCHANGED <<before, after, state>> /\ after # None /\ Verifies
      BY <1>5 DEF Verify, rows
    <2>2. FilesSound'
      BY <2>1 DEF FilesSound, RowsOf
    <2>3. Candidate \subseteq RowsOf(after)
      BY <2>1 DEF Verifies, Unchanged, Inserted, Missing, RowsOf
    <2>4. VerifiedExact'
      BY <2>1, <2>3 DEF Verifies, VerifiedExact, Inserted, Missing, RowsOf
    <2> QED  BY <2>2, <2>4
  <1> QED  BY <1>2, <1>3, <1>4, <1>5, FilesMove

\* Only a statement of a query makes a row its run's, and that row is selected.
LEMMA ScopeStays ==
  ASSUME RolloutInv, [Next]_vars
  PROVE  ScopeKept'
  <1> USE DEF RolloutInv
  <1>1. RowsDrift /\ RestDrifts
    BY StepDrifts
  <1>2. ASSUME UNCHANGED mover PROVE ScopeKept'
    BY <1>1, <1>2 DEF RowsDrift, RestDrifts, ScopeKept, Approved
  <1>3. ASSUME NEW x \in Executors, NEW r \in Rows, Execute(x, r)
        PROVE  ScopeKept'
    <2>1. r \in selection[x] /\ pc[x] # "idle"
      BY <1>3 DEF Execute, QuerySound
    <2>2. after # None /\ before # None /\ before.state[r] = "absent"
      BY <2>1 DEF SelectionSound
    <2>3. UNCHANGED files
      BY <1>3 DEF Execute
    <2>4. \A s \in Rows \ {r} : state'[s] = state[s] /\ mover'[s] = mover[s]
      BY <1>3 DEF Execute, TypeOK, rows
    <2>5. mover'[r] = mover[r] \/ state'[r] \in Approved \cup {"refused"}
      <3>1. answers[x][r] \in Outcomes
        BY DEF TypeOK
      <3>2. answers[x][r] # "UNCONFIRMED" => Updated(answers[x][r]) \in Approved \cup {"refused"}
        BY <3>1 DEF Outcomes, Updated, Approved
      <3>3. CASE Applies(r)
        BY <1>3, <3>2, <3>3 DEF Execute, TypeOK
      <3>4. CASE ~ Applies(r)
        BY <1>3, <3>4 DEF Execute
      <3> QED  BY <3>3, <3>4
    <2>6. mover'[r] # None => state'[r] \in Approved \cup {"refused"}
      BY <1>1, <2>5 DEF RowsDrift, ScopeKept, Approved
    <2> QED  BY <2>2, <2>3, <2>4, <2>6 DEF files, ScopeKept
  <1> QED  BY <1>2, <1>3 DEF Next, vars, Others, Import, Recheck, Operate, ExportBefore, Gate,
             InsertDelta, ExportAfter, Verify, Choose, Run, Select, Ask, Send, Complete,
             Unknown, RunFails, Query, Fail, Drop, Expire

-----------------------------------------------------------------------------
(* A run and its query *)

\* What others do to the rows of a run breaks nothing it relies on.
LEMMA OthersKeep ==
  ASSUME RolloutInv, [Next]_vars, NEW x \in Executors, Untouched(x)
  PROVE  SelectionSound(x)' /\ QuerySound(x)'
  <1> USE DEF RolloutInv
  <1>1. RowsDrift /\ RestDrifts
    BY StepDrifts
  <1>2. Pending(x)' = Pending(x)
    BY DEF Untouched, Pending
  <1>3. SelectionSound(x) /\ QuerySound(x) /\ Pending(x) \subseteq selection[x]
    BY DEF QuerySound
  <1>4. selection[x] \subseteq Rows /\ \A r \in selection[x] : state[r] # "absent"
    BY <1>3 DEF TypeOK, SelectionSound
  <1>5. SelectionSound(x)'
    BY <1>1, <1>3, <1>4 DEF Untouched, RowsDrift, RestDrifts, SelectionSound
  <1>6. QuerySound(x)'
    <2>1. pc'[x] \notin {"wait", "lost"} =>
            Pending(x)' = {} /\ ~ changed'[x] /\ ~ alive'[x]
      BY <1>2, <1>3 DEF Untouched, QuerySound
    <2>2. \A r \in Pending(x)' :
            answers'[x][r] = "VALID" /\ state'[r] = "inert" =>
              /\ stage'[x][r] # "target" => r \in target'
              /\ stage'[x][r] = "update" => r \in audited'
      BY <1>1, <1>2, <1>3, <1>4 DEF Untouched, RowsDrift, RestDrifts, QuerySound
    <2>3. changed'[x] => \A r \in selection'[x] \ Pending(x)' :
            /\ answers'[x][r] = "VALID" => mover'[r] = x /\ state'[r] \in Approved
            /\ answers'[x][r] = "NOT_AVAILABLE" => mover'[r] = x /\ state'[r] = "refused"
      <3> SUFFICES ASSUME changed'[x], NEW r \in selection'[x] \ Pending(x)'
                   PROVE  /\ answers'[x][r] = "VALID" =>
                               mover'[r] = x /\ state'[r] \in Approved
                          /\ answers'[x][r] = "NOT_AVAILABLE" =>
                               mover'[r] = x /\ state'[r] = "refused"
        OBVIOUS
      <3>1. /\ changed[x] /\ r \in selection[x] \ Pending(x)
            /\ answers'[x][r] = answers[x][r] /\ r \in Rows
        BY <1>2, <1>4 DEF Untouched
      <3>2. /\ answers[x][r] = "VALID" => mover[r] = x /\ state[r] \in Approved
            /\ answers[x][r] = "NOT_AVAILABLE" => mover[r] = x /\ state[r] = "refused"
        BY <1>3, <3>1 DEF QuerySound
      <3>3. /\ state[r] \in Approved => state'[r] \in Approved
            /\ state[r] = "refused" => state'[r] = "refused"
            /\ mover[r] # None => mover'[r] = mover[r]
        BY <1>1, <3>1 DEF RowsDrift, RestDrifts
      <3> QED  BY <3>1, <3>2, <3>3
    <2> QED  BY <1>2, <1>3, <2>1, <2>2, <2>3 DEF Untouched, QuerySound
  <1> QED  BY <1>5, <1>6

\* A run that is over relies on nothing.
LEMMA ReturnKeeps ==
  ASSUME TypeOK, NEW x \in Executors, Return(x)
  PROVE  SelectionSound(x)' /\ QuerySound(x)'
  <1>1. pc'[x] = "idle" /\ selection'[x] = {} /\ ~ alive'[x] /\ ~ changed'[x]
    BY DEF Return, Goto, TypeOK
  <1>2. Pending(x)' = {}
    BY DEF Return, Pending, TypeOK
  <1> QED  BY <1>1, <1>2 DEF SelectionSound, QuerySound

\* What is chosen has come between the exports.
LEMMA ChooseKeeps ==
  ASSUME RolloutInv, NEW x \in Executors, NEW current \in BOOLEAN,
         NEW index \in 0 .. Cardinality(Candidate), Choose(x, current, index)
  PROVE  SelectionSound(x)' /\ QuerySound(x)'
  <1> USE DEF RolloutInv
  <1>1. selection'[x] \subseteq Inserted /\ pc'[x] = "chosen"
    BY DEF Choose, Goto, Batch, Selectable, TypeOK
  <1>2. after # None /\ before # None /\ UNCHANGED <<before, after, state>>
    BY DEF Choose, files, rows, FilesSound
  <1>3. \A r \in Inserted :
          before.state[r] = "absent" /\ after.state[r] # "absent" /\ state[r] # "absent"
    BY <1>2 DEF Inserted, RowsOf, FilesSound
  <1>4. Pending(x)' = {} /\ ~ changed'[x] /\ ~ alive'[x]
    BY DEF Choose, Pending, QuerySound
  <1> QED  BY <1>1, <1>2, <1>3, <1>4 DEF SelectionSound, QuerySound

\* A run's own steps keep what is said of it.
LEMMA RunKeeps ==
  ASSUME RolloutInv, NEW x \in Executors, Run(x)
  PROVE  SelectionSound(x)' /\ QuerySound(x)'
  <1> USE DEF RolloutInv
  <1>1. CASE Return(x)
    BY <1>1, ReturnKeeps
  <1>2. SelectionSound(x) /\ QuerySound(x)
    OBVIOUS
  <1>3. CASE Select(x) /\ ~ Return(x)
    <2>1. pc[x] = "chosen" /\ pc'[x] = "ask"
      BY <1>3 DEF Select, Goto, TypeOK
    <2>2. UNCHANGED <<rows, files, mover, selection, answers, stage, alive, changed>>
      BY <1>3 DEF Select
    <2>3. Pending(x)' = Pending(x)
      BY <2>2 DEF Pending
    <2> QED  BY <1>2, <2>1, <2>2, <2>3 DEF rows, files, SelectionSound, QuerySound
  <1>4. CASE Ask(x)
    <2>1. pc[x] = "ask" /\ pc'[x] = "send"
      BY <1>4 DEF Ask, Goto, TypeOK
    <2>2. UNCHANGED <<rows, files, mover, selection, stage, alive, changed>>
      BY <1>4 DEF Ask
    <2>3. Pending(x)' = Pending(x)
      BY <2>2 DEF Pending
    <2> QED  BY <1>2, <2>1, <2>2, <2>3 DEF rows, files, SelectionSound, QuerySound
  <1>5. CASE Send(x)
    <2>1. pc[x] = "send" /\ pc'[x] = "wait"
      BY <1>5 DEF Send, Goto, TypeOK
    <2>2. UNCHANGED <<rows, files, mover, selection, answers>>
      BY <1>5 DEF Send
    <2>3. \A r \in Rows : stage'[x][r] =
            IF r \in selection[x] THEN First(answers[x][r]) ELSE "done"
      BY <1>5 DEF Send, TypeOK
    <2>4. selection[x] \subseteq Rows
      BY DEF TypeOK
    <2>5. Pending(x)' = selection[x]
      BY <2>3, <2>4 DEF Pending, First
    <2>6. \A r \in Pending(x)' :
            answers[x][r] = "VALID" => stage'[x][r] = "target"
      BY <2>3, <2>4, <2>5 DEF First
    <2> QED  BY <1>2, <2>1, <2>2, <2>5, <2>6 DEF rows, files, SelectionSound, QuerySound
  <1>6. CASE Unknown(x)
    <2>1. pc[x] = "wait" /\ pc'[x] = "lost"
      BY <1>6 DEF Unknown, Goto, TypeOK
    <2>2. UNCHANGED <<rows, files, mover, selection, answers, stage, alive, changed>>
      BY <1>6 DEF Unknown
    <2>3. Pending(x)' = Pending(x)
      BY <2>2 DEF Pending
    <2> QED  BY <1>2, <2>1, <2>2, <2>3 DEF rows, files, SelectionSound, QuerySound
  <1> QED  BY <1>1, <1>3, <1>4, <1>5, <1>6 DEF Run, Complete, RunFails

\* The statement that is executed leaves its row as the next one needs it.
LEMMA ExecuteKeeps ==
  ASSUME RolloutInv, [Next]_vars, NEW x \in Executors, NEW r \in Rows, Execute(x, r)
  PROVE  SelectionSound(x)' /\ QuerySound(x)'
  <1> USE DEF RolloutInv
  <1>1. RowsDrift /\ RestDrifts /\ SelectionSound(x) /\ QuerySound(x)
    BY StepDrifts
  <1>2. /\ UNCHANGED <<files, pc, selection, answers, alive>>
        /\ pc[x] \in {"wait", "lost"} /\ r \in Pending(x) /\ r \in selection[x]
        /\ answers[x][r] \in Outcomes /\ stage[x][r] \in Stages \ {"done"}
    BY <1>1 DEF Execute, Pending, QuerySound, TypeOK
  <1>3. selection[x] \subseteq Rows
    BY DEF TypeOK
  <1>4. SelectionSound(x)'
    BY <1>1, <1>2, <1>3 DEF files, RowsDrift, SelectionSound
  <1>5. /\ stage'[x][r] = Following(stage[x][r])
        /\ \A s \in Rows \ {r} : stage'[x][s] = stage[x][s]
    BY DEF Execute, TypeOK
  <1>6. \A s \in Rows \ {r} : state'[s] = state[s] /\ mover'[s] = mover[s]
    BY DEF Execute, TypeOK, rows
  <1>7. Pending(x)' \subseteq Pending(x)
    BY <1>2, <1>5 DEF Pending
  <1>8. ASSUME r \in Pending(x)', answers[x][r] = "VALID", state'[r] = "inert"
        PROVE  /\ stage'[x][r] # "target" => r \in target'
               /\ stage'[x][r] = "update" => r \in audited'
    <2>1. state[r] = "inert" /\ Applies(r)
      BY <1>1, <1>2, <1>3, <1>8 DEF RowsDrift, SelectionSound, Applies
    <2>2. CASE stage[x][r] = "target"
      BY <1>5, <2>1, <2>2 DEF Execute, Following
    <2>3. CASE stage[x][r] = "event"
      BY <1>1, <1>2, <1>5, <1>8, <2>1, <2>3 DEF Execute, Following, QuerySound, RestDrifts
    <2>4. stage[x][r] # "update"
      BY <1>5, <1>8 DEF Following, Pending
    <2> QED  BY <1>2, <2>2, <2>3, <2>4 DEF Stages
  <1>9. \A s \in Pending(x)' :
          answers'[x][s] = "VALID" /\ state'[s] = "inert" =>
            /\ stage'[x][s] # "target" => s \in target'
            /\ stage'[x][s] = "update" => s \in audited'
    BY <1>1, <1>2, <1>3, <1>5, <1>6, <1>7, <1>8 DEF QuerySound, RestDrifts
  <1>10. ASSUME changed'[x], r \notin Pending(x)'
         PROVE  /\ answers[x][r] = "VALID" => mover'[r] = x /\ state'[r] \in Approved
                /\ answers[x][r] = "NOT_AVAILABLE" => mover'[r] = x /\ state'[r] = "refused"
    <2>1. Applies(r)
      BY <1>10 DEF Execute, TypeOK
    <2>2. stage[x][r] = "update"
      BY <1>2, <1>5, <1>10 DEF Following, Pending, Stages
    <2>3. state'[r] = Updated(answers[x][r])
      BY <2>1, <2>2 DEF Execute, TypeOK
    <2>4. answers[x][r] # "UNCONFIRMED" => mover'[r] = x
      BY <2>1, <2>2 DEF Execute, TypeOK
    <2> QED  BY <2>3, <2>4 DEF Updated, Approved
  <1>11. changed'[x] => changed[x]
    BY DEF Execute, TypeOK
  <1>12. \A s \in Rows \ {r} : s \in Pending(x) <=> s \in Pending(x)'
    BY <1>5 DEF Pending
  <1>13. changed'[x] => \A s \in selection'[x] \ Pending(x)' :
           /\ answers'[x][s] = "VALID" => mover'[s] = x /\ state'[s] \in Approved
           /\ answers'[x][s] = "NOT_AVAILABLE" => mover'[s] = x /\ state'[s] = "refused"
    BY <1>1, <1>2, <1>3, <1>6, <1>10, <1>11, <1>12 DEF QuerySound
  <1>14. QuerySound(x)'
    BY <1>1, <1>2, <1>7, <1>9, <1>13 DEF QuerySound
  <1> QED  BY <1>4, <1>14

\* The steps of a run's query keep what is said of it.
LEMMA QueryKeeps ==
  ASSUME RolloutInv, [Next]_vars, NEW x \in Executors, Query(x)
  PROVE  SelectionSound(x)' /\ QuerySound(x)'
  <1> USE DEF RolloutInv
  <1>1. CASE \E r \in Rows : Execute(x, r)
    BY <1>1, ExecuteKeeps
  <1>2. CASE Fail(x) \/ Drop(x)
    <2>1. UNCHANGED <<rows, files, pc, selection, answers, stage, changed, mover>>
      BY <1>2 DEF Fail, Drop
    <2>2. ~ alive'[x]
      BY <1>2 DEF Fail, Drop, TypeOK
    <2>3. Pending(x)' = Pending(x) /\ SelectionSound(x) /\ QuerySound(x)
      BY <2>1 DEF Pending
    <2> QED  BY <2>1, <2>2, <2>3 DEF rows, files, SelectionSound, QuerySound
  <1>3. CASE Expire(x)
    BY <1>3, ReturnKeeps DEF Expire
  <1> QED  BY <1>1, <1>2, <1>3 DEF Query

\* A step of one run leaves the others alone.
LEMMA Separate ==
  ASSUME TypeOK, [Next]_vars, NEW x \in Executors
  PROVE  \/ Untouched(x) \/ Run(x) \/ Query(x)
         \/ \E current \in BOOLEAN, index \in 0 .. Cardinality(Candidate) :
              Choose(x, current, index)
  <1>1. CASE UNCHANGED run
    BY <1>1 DEF run, Untouched
  <1>2. ASSUME NEW y \in Executors, y # x, Run(y) PROVE Untouched(x)
    BY <1>2 DEF Run, Select, Ask, Send, Complete, Unknown, RunFails, Return, Goto,
       Untouched, TypeOK
  <1>3. ASSUME NEW y \in Executors, y # x, Query(y) PROVE Untouched(x)
    BY <1>3 DEF Query, Execute, Fail, Drop, Expire, Return, Goto, Untouched, TypeOK
  <1>4. ASSUME NEW y \in Executors, y # x, NEW current \in BOOLEAN,
               NEW index \in 0 .. Cardinality(Candidate), Choose(y, current, index)
        PROVE  Untouched(x)
    BY <1>4 DEF Choose, Goto, Untouched, TypeOK
  <1>5. CASE Others
    BY <1>1, <1>5 DEF Others, Import, Recheck
  <1>6. CASE ExportBefore \/ Gate \/ InsertDelta \/ ExportAfter \/ Verify
    BY <1>1, <1>6 DEF ExportBefore, Gate, InsertDelta, ExportAfter, Verify
  <1>7. CASE UNCHANGED vars
    BY <1>1, <1>7 DEF vars
  <1> QED  BY <1>2, <1>3, <1>4, <1>5, <1>6, <1>7 DEF Next, Operate

\* Whoever takes a step, every run keeps what is said of it.
LEMMA RunsKept ==
  ASSUME RolloutInv, [Next]_vars
  PROVE  \A x \in Executors : SelectionSound(x)' /\ QuerySound(x)'
  <1> SUFFICES ASSUME NEW x \in Executors PROVE SelectionSound(x)' /\ QuerySound(x)'
    OBVIOUS
  <1>1. TypeOK
    BY DEF RolloutInv
  <1> QED  BY <1>1, Separate, OthersKeep, RunKeeps, QueryKeeps, ChooseKeeps

\* An acknowledged query has nothing left to do: what QuerySound says of the
\* rows that are done it says of the whole selection.
LEMMA ReportsFollow ==
  ASSUME \A x \in Executors : QuerySound(x)'
  PROVE  ReportsTrue'
  BY DEF QuerySound, ReportsTrue, Acknowledged

\* Every step keeps RolloutInv.
LEMMA StepSound == RolloutInv /\ [Next]_vars => RolloutInv'
  <1> SUFFICES ASSUME RolloutInv, [Next]_vars PROVE RolloutInv'
    OBVIOUS
  <1>1. TypeOK'
    BY TypesKept DEF RolloutInv
  <1>2. EnabledSound' /\ FilesSound' /\ VerifiedExact' /\ ScopeKept'
    BY EnabledKept, FilesKept, ScopeStays
  <1>3. \A x \in Executors : SelectionSound(x)' /\ QuerySound(x)'
    BY RunsKept
  <1>4. ReportsTrue'
    BY <1>3, ReportsFollow
  <1> QED  BY <1>1, <1>2, <1>3, <1>4 DEF RolloutInv

\* For any rows, candidate, batch size and number of runs and queries: a row is
\* enabled only with target and event, a COMPLETED answer is true of the run's
\* own query, and only rows that are new since the first export move.
THEOREM RolloutInvariant == Spec => []RolloutInv
  <1>1. Init => RolloutInv
    BY InitSound
  <1> QED  BY <1>1, StepSound, PTL DEF Spec

\* A row that has left its original state is changed by rechecks only, however
\* late or often the queries of the initial revalidation are executed.
LEMMA StepPrevails ==
  ASSUME TypeOK, [Next]_vars, NEW r \in Rows,
         state[r] \notin {"absent", "inert"}, state'[r] # state[r]
  PROVE  \E outcome \in Outcomes : Recheck(r, outcome)
  <1>1. CASE UNCHANGED state
    BY <1>1
  <1>2. ASSUME NEW s \in Rows, Import(s) PROVE FALSE
    BY <1>2 DEF Import, TypeOK
  <1>3. ASSUME NEW s \in Rows, NEW outcome \in Outcomes, Recheck(s, outcome)
        PROVE  s = r
    BY <1>3 DEF Recheck, TypeOK
  <1>4. CASE InsertDelta
    BY <1>4 DEF InsertDelta
  <1>5. ASSUME NEW x \in Executors, NEW s \in Rows, Execute(x, s) PROVE FALSE
    BY <1>5 DEF Execute, Applies, TypeOK, rows
  <1>6. CASE Operate
    BY <1>1, <1>4, <1>6 DEF Operate, ExportBefore, Gate, ExportAfter, Verify, Choose, rows
  <1>7. ASSUME NEW x \in Executors, Run(x) PROVE UNCHANGED state
    BY <1>7 DEF Run, Select, Ask, Send, Complete, Unknown, RunFails, rows
  <1>8. ASSUME NEW x \in Executors, Query(x) PROVE FALSE
    BY <1>1, <1>5, <1>8 DEF Query, Fail, Drop, Expire, rows
  <1>9. CASE UNCHANGED vars
    BY <1>1, <1>9 DEF vars, rows
  <1> QED  BY <1>1, <1>2, <1>3, <1>6, <1>7, <1>8, <1>9 DEF Next, Others

\* RecheckPrevails, for every value of the constants.
THEOREM RechecksAlwaysPrevail == Spec => RecheckPrevails
  <1>1. ASSUME TypeOK, [Next]_vars
        PROVE  [\A r \in Rows :
                  \/ state[r] \in {"absent", "inert"}
                  \/ state'[r] = state[r]
                  \/ \E outcome \in Outcomes : Recheck(r, outcome)]_vars
    BY <1>1, StepPrevails
  <1>2. RolloutInv => TypeOK
    BY DEF RolloutInv
  <1> QED  BY <1>1, <1>2, RolloutInvariant, PTL DEF Spec, RecheckPrevails

=============================================================================
