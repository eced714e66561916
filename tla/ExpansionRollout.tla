-------------------------- MODULE ExpansionRollout --------------------------
(***************************************************************************)
(* How new items come into the remote database D1: an operator exports     *)
(* affiliate_item_lookup, has the delta to the candidate built and checked *)
(* (revenue_mvp_expansion_d1_delta.py, ..._d1_prewrite_gate.py), sends it, *)
(* exports again and has the difference verified                           *)
(* (..._d1_postwrite_verify.py); selections of the new rows are written    *)
(* (..._initial_selection.py), and each is taken to the DMM catalogue once *)
(* and then to D1 in one query of guarded statements                       *)
(* (..._initial_revalidation.py, affiliate_d1_sensitive_query.py).         *)
(*                                                                         *)
(* All the while the recurring rechecks rewrite the rows that are approved *)
(* (AffiliateRevalidation has them in detail; here one is one step), other *)
(* imports insert rows, and a query that was given up may still arrive.    *)
(*                                                                         *)
(* A row is named by its number, in the order of public_id, and has one    *)
(* of the states the four status columns can be in:                        *)
(*   inert     PENDING_SEPARATE_POLICY, PENDING_OFFICIAL_CONFIRMATION,     *)
(*             PENDING, disabled                                           *)
(*   refused   the same, but FAILED                                        *)
(*   active    CONDITIONALLY_APPROVED, RESOLVED, PASS, enabled             *)
(*   retry     the same, but PENDING and disabled                          *)
(*   failed    the same, but FAILED and disabled                           *)
(* Whether D1 applies the statements of a query as a whole the code does   *)
(* not rely on; here it may stop after any of them.                        *)
(***************************************************************************)
EXTENDS Naturals, FiniteSets

CONSTANTS
  Rows,        \* the rows there may be
  Candidate,   \* the rows of the candidate file
  SameContent, \* pairs of rows that would have the same content_id
  Openings,    \* the states D1 may be in at first
  Expected,    \* the counts the operator expects: remote, delta, final
  Executors,   \* names for runs of the initial revalidation
  None,        \* there is no such file
  BatchSize,
  MaxRechecks, MaxFaults \* bounds: rechecks of a row, failures

Present == {"inert", "refused", "active", "retry", "failed"}

\* What the recurring rechecks select.
Approved == {"active", "retry", "failed"}

States == Present \cup {"absent"}

Outcomes == {"VALID", "NOT_AVAILABLE", "UNCONFIRMED"}

Clashes(state, r) ==
  \E s \in Rows : <<r, s>> \in SameContent /\ state[s] # "absent"

ASSUME RolloutAssumption ==
  /\ Rows \subseteq Nat /\ IsFiniteSet(Rows)
  /\ Candidate \subseteq Rows
  /\ Openings \subseteq [Rows -> States]
  /\ SameContent \subseteq Rows \X Rows
  /\ \A r, s \in Rows : <<r, s>> \in SameContent => r # s /\ <<s, r>> \in SameContent
  /\ \A s \in Openings, r \in Rows : s[r] # "absent" => ~ Clashes(s, r)
  /\ Expected \in [remote : Nat, delta : Nat, final : Nat]
  /\ BatchSize \in Nat \ {0} /\ MaxRechecks \in Nat /\ MaxFaults \in Nat

\* An export of D1: of updated_at only whether it changed after the first one.
Exports == [state : [Rows -> States], target : SUBSET Rows, touched : SUBSET Rows]

ASSUME NoneAssumption == None \notin Exports \cup Executors

VARIABLES
  state,     \* affiliate_item_lookup
  touched,   \* the rows written between the two exports
  target,    \* the rows with an affiliate_redirect_target
  audited,   \* the rows with a VALID revalidation event
  before,    \* the export before the delta
  ready,     \* the gate has let its delta pass
  after,     \* the export after the delta
  verified,  \* the difference has been verified
  pc,        \* where a run is
  selection, \* its selection file
  answers,   \* what the catalogue said of each row
  stage,     \* the next statement for each row, of the query in flight
  alive,     \* D1 goes on with the query
  changed,   \* every statement so far has changed one row
  mover,     \* history: the run that took a row out of its original state
  rechecks, faults

rows == <<state, touched, target, audited>>
files == <<before, ready, after, verified>>
run == <<pc, selection, answers, stage, alive, changed>>
vars == <<rows, files, run, mover, rechecks, faults>>

Goto(x, location) == pc' = [pc EXCEPT ![x] = location]

Snapshot == [state |-> state, target |-> target, touched |-> touched]

\* Followed until the export after the delta, the one that shows it.
Touch(r) == IF after = None THEN touched \cup {r} ELSE touched

RowsOf(export) == {r \in Rows : export.state[r] # "absent"}

-----------------------------------------------------------------------------
(* Others who write to D1 (external) *)

Import(r) ==
  /\ state[r] = "absent"
  /\ ~ Clashes(state, r)
  /\ state' = [state EXCEPT ![r] = "inert"]
  /\ UNCHANGED <<touched, target, audited, files, run, mover, rechecks,
                 faults>>

\* A local or scheduled cycle has written its outcome for a row.
Recheck(r, outcome) ==
  /\ rechecks < MaxRechecks
  /\ rechecks' = rechecks + 1
  /\ state[r] \in Approved
  /\ state' = [state EXCEPT ![r] = CASE outcome = "VALID" -> "active"
                                     [] outcome = "NOT_AVAILABLE" -> "failed"
                                     [] OTHER -> "retry"]
  /\ touched' = Touch(r)
  /\ target' = IF outcome = "VALID" THEN target \cup {r} ELSE target
  /\ audited' = IF outcome = "VALID" THEN audited \cup {r} ELSE audited
  /\ UNCHANGED <<files, run, mover, faults>>

-----------------------------------------------------------------------------
(* The delta *)

ExportBefore ==
  /\ after = None
  /\ before' = [Snapshot EXCEPT !.touched = {}]
  /\ touched' = {}
  /\ ready' = FALSE
  /\ UNCHANGED <<state, target, audited, after, verified, run, mover,
                 rechecks, faults>>

\* Rows of the candidate the export does not have; one of them whose
\* content_id it has under another name would be a conflict.
Missing(export) == {r \in Candidate : export.state[r] = "absent"}

\* build: MAPPING_CONFLICT_DETECTED or NO_MISSING_ROWS, else a delta.
DeltaReady(export) ==
  /\ Missing(export) # {}
  /\ \A r \in Missing(export) : ~ Clashes(export.state, r)

\* assess: the delta is still exact, the counts are as expected (an export of
\* more than 900 seconds is refused; D1 may change within them as well).
Gate ==
  /\ before # None
  /\ DeltaReady(before)
  /\ Cardinality(RowsOf(before)) = Expected.remote
  /\ Cardinality(Missing(before)) = Expected.delta
  /\ Cardinality(RowsOf(before) \cup Missing(before)) = Expected.final
  /\ ready' = TRUE
  /\ UNCHANGED <<rows, before, after, verified, run, mover,
                 rechecks, faults>>

\* One INSERT of all the missing rows: where a public_id or content_id is there
\* by now it fails as a whole (external, by hand; it may be sent again).
InsertDelta ==
  /\ ready
  /\ \A r \in Missing(before) : state[r] = "absent" /\ ~ Clashes(state, r)
  /\ state' = [r \in Rows |-> IF r \in Missing(before) THEN "inert" ELSE state[r]]
  /\ UNCHANGED <<touched, target, audited, files, run, mover, rechecks,
                 faults>>

ExportAfter ==
  /\ before # None
  /\ after = None
  /\ after' = Snapshot
  /\ touched' = {}
  /\ UNCHANGED <<state, target, audited, before, ready, verified, run, mover,
                 rechecks, faults>>

\* The rows an insert has brought.
Inserted == RowsOf(after) \ RowsOf(before)

\* verify: existing rows are as they were, the new ones are what the candidate
\* lacked and have never been written to, and nothing else has become eligible.
Unchanged ==
  \A r \in RowsOf(before) :
    after.state[r] = before.state[r] /\ r \notin after.touched

Verifies ==
  /\ Cardinality(RowsOf(before)) = Expected.remote
  /\ Cardinality(RowsOf(after)) = Expected.final
  /\ Cardinality(Inserted) = Expected.delta
  /\ Unchanged
  /\ Inserted = Missing(before)
  /\ \A r \in Inserted : after.state[r] = "inert" /\ r \notin after.touched
  /\ Cardinality(after.target) = Cardinality(before.target)

Verify ==
  /\ after # None
  /\ Verifies
  /\ verified' = TRUE
  /\ UNCHANGED <<rows, before, ready, after, run, mover, rechecks,
                 faults>>

-----------------------------------------------------------------------------
(* Selections *)

\* INSERTED_SCOPE_INVALID unless there are as many rows as expected, all inert.
ScopeValid ==
  /\ Cardinality(Inserted) = Expected.delta
  /\ \A r \in Inserted : after.state[r] = "inert"

\* A third export, when one is given, must hold each of them in an allowed
\* state, and only those still inert are selected.
Selectable(withCurrent) ==
  IF withCurrent THEN {r \in Inserted : state[r] = "inert"} ELSE Inserted

CurrentValid == \A r \in Inserted : state[r] \in {"inert", "active", "retry"}

\* The batch of that number in the order of public_id.
Batch(S, index) ==
  {r \in S : LET position == Cardinality({s \in S : s < r})
             IN /\ position >= index * BatchSize
                /\ position < (index + 1) * BatchSize}

\* The operator's own rule is a verified difference; the code asks for the
\* exports only.
Choose(x, withCurrent, index) ==
  /\ pc[x] = "idle"
  /\ after # None
  /\ ScopeValid
  /\ withCurrent => CurrentValid
  /\ Batch(Selectable(withCurrent), index) # {}
  /\ selection' = [selection EXCEPT ![x] = Batch(Selectable(withCurrent), index)]
  /\ Goto(x, "chosen")
  /\ UNCHANGED <<rows, files, answers, stage, alive, changed, mover,
                 rechecks, faults>>

-----------------------------------------------------------------------------
(* A run of the initial revalidation *)

\* The run is over, and nothing of its query is in flight.
Return(x) ==
  /\ Goto(x, "idle")
  /\ selection' = [selection EXCEPT ![x] = {}]
  /\ answers' = [answers EXCEPT ![x] = [r \in Rows |-> "UNCONFIRMED"]]
  /\ stage' = [stage EXCEPT ![x] = [r \in Rows |-> "done"]]
  /\ alive' = [alive EXCEPT ![x] = FALSE]
  /\ changed' = [changed EXCEPT ![x] = FALSE]

\* _select: D1 must have every row of the file, still inert.
Select(x) ==
  /\ pc[x] = "chosen"
  /\ IF \A r \in selection[x] : state[r] = "inert"
     THEN Goto(x, "ask") /\ UNCHANGED <<selection, answers, stage, alive, changed>>
     ELSE Return(x)
  /\ UNCHANGED <<rows, files, mover, rechecks, faults>>

\* Each row is asked about once; whatever is neither the item nor an empty
\* list of items, and any error, is UNCONFIRMED.
Ask(x) ==
  /\ pc[x] = "ask"
  /\ \E given \in [selection[x] -> Outcomes] :
       answers' = [answers EXCEPT ![x] = [r \in Rows |->
         IF r \in selection[x] THEN given[r] ELSE "UNCONFIRMED"]]
  /\ Goto(x, "send")
  /\ UNCHANGED <<rows, files, selection, stage, alive, changed, mover,
                 rechecks, faults>>

\* build_queries: target (of a valid row), event, update.
First(outcome) == IF outcome = "VALID" THEN "target" ELSE "event"

Following(statement) ==
  CASE statement = "target" -> "event"
    [] statement = "event" -> "update"
    [] OTHER -> "done"

\* write: one POST, once.
Send(x) ==
  /\ pc[x] = "send"
  /\ stage' = [stage EXCEPT ![x] = [r \in Rows |->
       IF r \in selection[x] THEN First(answers[x][r]) ELSE "done"]]
  /\ alive' = [alive EXCEPT ![x] = TRUE]
  /\ changed' = [changed EXCEPT ![x] = TRUE]
  /\ Goto(x, "wait")
  /\ UNCHANGED <<rows, files, selection, answers, mover, rechecks, faults>>

Pending(x) == {r \in Rows : stage[x][r] # "done"}

\* ENABLE, FAIL and KEEP_PENDING
Updated(outcome) ==
  CASE outcome = "VALID" -> "active"
    [] outcome = "NOT_AVAILABLE" -> "refused"
    [] OTHER -> "inert"

\* Defect: the statements do not look at the state of the row.
AppliesAlways(r) == state[r] # "absent"

\* PENDING, which guards every statement.
Applies(r) == state[r] = "inert"

\* TARGET finds a target of another query: an error, and D1 goes no further.
Conflict(x, r) == stage[x][r] = "target" /\ Applies(r) /\ r \in target

\* D1 executes the next statement, of the first row that is left (external).
Execute(x, r) ==
  /\ pc[x] \in {"wait", "lost"}
  /\ alive[x]
  /\ r \in Pending(x) /\ \A s \in Pending(x) : r <= s
  /\ ~ Conflict(x, r)
  /\ LET outcome == answers[x][r]
         statement == stage[x][r]
     IN IF Applies(r)
        THEN /\ target' = IF statement = "target" THEN target \cup {r} ELSE target
             /\ audited' = IF statement = "event" /\ outcome = "VALID"
                           THEN audited \cup {r} ELSE audited
             /\ state' = IF statement = "update"
                         THEN [state EXCEPT ![r] = Updated(outcome)] ELSE state
             /\ touched' = IF statement = "update" THEN Touch(r) ELSE touched
             /\ mover' = IF statement = "update" /\ outcome # "UNCONFIRMED"
                         THEN [mover EXCEPT ![r] = x] ELSE mover
             /\ UNCHANGED changed
        ELSE /\ changed' = [changed EXCEPT ![x] = FALSE]
             /\ UNCHANGED <<rows, mover>>
  /\ stage' = [stage EXCEPT ![x][r] = Following(@)]
  /\ UNCHANGED <<files, pc, selection, answers, alive, rechecks, faults>>

Fail(x) ==
  /\ pc[x] \in {"wait", "lost"}
  /\ alive[x]
  /\ \E r \in Pending(x) : (\A s \in Pending(x) : r <= s) /\ Conflict(x, r)
  /\ alive' = [alive EXCEPT ![x] = FALSE]
  /\ UNCHANGED <<rows, files, pc, selection, answers, stage, changed, mover,
                 rechecks, faults>>

\* Defect: an answer without an error is enough.
AcknowledgedUnchecked(x) == Pending(x) = {}

\* Every statement is reported to have changed one row.
Acknowledged(x) == Pending(x) = {} /\ changed[x]

\* COMPLETED
Complete(x) ==
  /\ pc[x] = "wait"
  /\ Acknowledged(x)
  /\ Return(x)
  /\ UNCHANGED <<rows, files, mover, rechecks, faults>>

Fault ==
  /\ faults < MaxFaults
  /\ faults' = faults + 1

\* UNKNOWN: an error, changes other than one, or no answer within 30 seconds;
\* what D1 has not executed by then it may execute yet.
Unknown(x) ==
  /\ pc[x] = "wait"
  /\ \/ (~ alive[x] \/ ~ changed[x]) /\ UNCHANGED faults
     \/ Fault
  /\ Goto(x, "lost")
  /\ UNCHANGED <<rows, files, selection, answers, stage, alive, changed, mover,
                 rechecks>>

\* The query never arrives, or D1 stops part-way (external).
Drop(x) ==
  /\ Fault
  /\ alive[x]
  /\ alive' = [alive EXCEPT ![x] = FALSE]
  /\ UNCHANGED <<rows, files, pc, selection, answers, stage, changed, mover,
                 rechecks>>

\* Nothing is left of a query nobody waits for.
Expire(x) ==
  /\ pc[x] = "lost"
  /\ ~ alive[x] \/ Pending(x) = {}
  /\ Return(x)
  /\ UNCHANGED <<rows, files, mover, rechecks, faults>>

\* The run fails or dies before it has sent anything: FAILED_SAFE, no write.
RunFails(x) ==
  /\ Fault
  /\ pc[x] \in {"chosen", "ask", "send"}
  /\ Return(x)
  /\ UNCHANGED <<rows, files, mover, rechecks>>

-----------------------------------------------------------------------------

Init ==
  /\ state \in Openings
  /\ target = {r \in Rows : state[r] = "active"}
  /\ audited = {r \in Rows : state[r] = "active"}
  /\ touched = {}
  /\ before = None /\ after = None
  /\ ready = FALSE /\ verified = FALSE
  /\ pc = [x \in Executors |-> "idle"]
  /\ selection = [x \in Executors |-> {}]
  /\ answers = [x \in Executors |-> [r \in Rows |-> "UNCONFIRMED"]]
  /\ stage = [x \in Executors |-> [r \in Rows |-> "done"]]
  /\ alive = [x \in Executors |-> FALSE]
  /\ changed = [x \in Executors |-> FALSE]
  /\ mover = [r \in Rows |-> None]
  /\ rechecks = 0 /\ faults = 0

Others ==
  \E r \in Rows : Import(r) \/ \E outcome \in Outcomes : Recheck(r, outcome)

Operate ==
  \/ ExportBefore \/ Gate \/ InsertDelta \/ ExportAfter \/ Verify
  \/ \E x \in Executors, withCurrent \in BOOLEAN, index \in 0 .. Cardinality(Candidate) :
       Choose(x, withCurrent, index)

Run(x) ==
  \/ Select(x) \/ Ask(x) \/ Send(x) \/ Complete(x) \/ Unknown(x) \/ RunFails(x)

Query(x) == (\E r \in Rows : Execute(x, r)) \/ Fail(x) \/ Drop(x) \/ Expire(x)

Next == Others \/ Operate \/ \E x \in Executors : Run(x) \/ Query(x)

Spec == Init /\ [][Next]_vars

-----------------------------------------------------------------------------
(* Properties *)

Stages == {"target", "event", "update", "done"}

TypeOK ==
  /\ state \in [Rows -> States]
  /\ {touched, target, audited} \subseteq SUBSET Rows
  /\ {before, after} \subseteq Exports \cup {None}
  /\ {ready, verified} \subseteq BOOLEAN
  /\ pc \in [Executors -> {"idle", "chosen", "ask", "send", "wait", "lost"}]
  /\ selection \in [Executors -> SUBSET Rows]
  /\ answers \in [Executors -> [Rows -> Outcomes]]
  /\ stage \in [Executors -> [Rows -> Stages]]
  /\ alive \in [Executors -> BOOLEAN]
  /\ changed \in [Executors -> BOOLEAN]
  /\ mover \in [Rows -> Executors \cup {None}]
  /\ rechecks \in Nat /\ faults \in Nat

\* A row is enabled only with a redirect target and a VALID event behind it,
\* wherever queries stop, however late they are executed and whatever the
\* rechecks do in between.
EnabledSound == \A r \in Rows : state[r] = "active" => r \in target /\ r \in audited

\* What a run that may answer COMPLETED says of a row it has done itself: the
\* row was not there already, and no other run's query has taken it there.
ReportsTrue ==
  \A x \in Executors :
    pc[x] = "wait" /\ Acknowledged(x) => \A r \in selection[x] :
      /\ answers[x][r] = "VALID" => mover[r] = x /\ state[r] \in Approved
      /\ answers[x][r] = "NOT_AVAILABLE" => mover[r] = x /\ state[r] = "refused"

\* The rollout takes only rows out of their original state that the export
\* before the delta does not have; those that were there and waiting stay.
ScopeKept ==
  \A r \in Rows : mover[r] # None =>
    /\ after # None /\ before # None /\ before.state[r] = "absent"
    /\ state[r] \in Approved \cup {"refused"}

\* A verified difference is the candidate's, and its rows were untouched.
VerifiedExact ==
  verified => /\ after # None
              /\ Inserted = Missing(before)
              /\ \A r \in Inserted : after.state[r] = "inert"
              /\ Candidate \subseteq RowsOf(after)

FilesSound ==
  after # None =>
    before # None /\ \A r \in RowsOf(after) : state[r] # "absent"

\* A run has selected rows only that came between the two exports.
SelectionSound(x) ==
  /\ pc[x] # "idle" => after # None
  /\ pc[x] = "idle" => selection[x] = {}
  /\ \A r \in selection[x] :
       before # None /\ before.state[r] = "absent" /\ after.state[r] # "absent"
       /\ state[r] # "absent"

\* The statements of a query follow one another for every row that is still
\* inert, and where each has changed one row, the row is as the query left it.
QuerySound(x) ==
  /\ Pending(x) \subseteq selection[x]
  /\ pc[x] \notin {"wait", "lost"} => Pending(x) = {} /\ ~ changed[x] /\ ~ alive[x]
  /\ \A r \in Pending(x) :
       answers[x][r] = "VALID" /\ state[r] = "inert" =>
         /\ stage[x][r] # "target" => r \in target
         /\ stage[x][r] = "update" => r \in audited
  /\ changed[x] => \A r \in selection[x] \ Pending(x) :
       /\ answers[x][r] = "VALID" => mover[r] = x /\ state[r] \in Approved
       /\ answers[x][r] = "NOT_AVAILABLE" => mover[r] = x /\ state[r] = "refused"

\* All of it together, which is inductive.
RolloutInv ==
  /\ TypeOK
  /\ EnabledSound
  /\ ReportsTrue
  /\ ScopeKept
  /\ VerifiedExact
  /\ FilesSound
  /\ \A x \in Executors : SelectionSound(x) /\ QuerySound(x)

\* Once a row has left its original state only a recheck changes it: no query,
\* delayed, repeated or of another run, enables again what a recheck has
\* disabled, and a row the catalogue has denied at first stays disabled.
RecheckPrevails ==
  [][\A r \in Rows :
       \/ state[r] \in {"absent", "inert"}
       \/ state'[r] = state[r]
       \/ \E outcome \in Outcomes : Recheck(r, outcome)]_vars

=============================================================================
