------------------------- MODULE NotificationRuntime -------------------------
(***************************************************************************)
(* One notification cycle of the unattended layer: process_notification    *)
(* (scripts/unattended_runtime.py) over the persistent ledger of delivered *)
(* events (notification_ledger.py), with its diagnosis beforehand          *)
(* (ledger_recovery.py) and, in MOCK_RUNTIME, incident suppression         *)
(* (notification_incident_suppression_coordinator.py and                   *)
(* notification_noise_control.py).                                         *)
(*                                                                         *)
(* A ledger belongs to one mode: LIVE_NOTIFICATION writes the production   *)
(* file, MOCK_RUNTIME a test file.  DRY_RUN writes nothing anywhere and is *)
(* left out, and so are the events that are never notified, which return   *)
(* before they reach the ledger.  The Pushover service is external: a send *)
(* may arrive, may not, and may arrive and still be reported as failed.    *)
(***************************************************************************)
EXTENDS Integers, FiniteSets, Functions

CONSTANTS
  Workers,   \* processes that handle one event at a time
  Events,    \* exact events (the event identity digests every field)
  Incident,  \* the incident of an event: its fields without the time
  Occurred,  \* occurred_at of an event
  Class,     \* "IMMEDIATE", "NORMAL" or "CRITICAL", by event type
  Window,    \* the reminder window of an incident's event type
  Capacity,  \* how many records MAX_BYTES has room for
  MaxTime,   \* bound: the clock stops there
  MaxFaults  \* bound: errors, deaths and ill-reported deliveries

ASSUME EventAssumption ==
  /\ Events # {}
  /\ Occurred \in [Events -> Nat]
  /\ Class \in [Events -> {"IMMEDIATE", "NORMAL", "CRITICAL"}]
  /\ DOMAIN Incident = Events
  /\ Window \in [Range(Incident) -> Nat \ {0}]
  /\ \A d, e \in Events :
       Incident[d] = Incident[e] =>
         Class[d] = Class[e] /\ (Occurred[d] = Occurred[e] => d = e)

ASSUME ModeAssumption ==
  /\ {Capacity, MaxTime, MaxFaults} \subseteq Nat

VARIABLES
  ledger, \* the records of the ledger file
  missing, \* the ledger file does not exist
  live,   \* it is the production ledger; never changes
  lock,   \* the ledger's lock file exists
  temps,  \* the workers a temporary file was made by
  clock,
  pc,     \* the access a worker's cycle makes next
  event,  \* the event of that cycle
  rows,   \* the records its transaction read, then those it writes
  outcome, \* how far it got: nothing sent, delivered, or also recorded
  arrived, \* history: the events the service got a message for
  reports, \* history: the events reported NOTIFICATION_DELIVERED
  faults

files == <<ledger, missing, live, lock, temps>>
locals == <<event, rows, outcome>>
vars == <<ledger, missing, live, lock, temps, clock, pc, event, rows, outcome,
          arrived, reports, faults>>

Record == [event: Events, at: 0 .. MaxTime]

Locations ==
  {"idle",
   "inspect", \* inspect_ledger looks for the lock and for temporary files
   "confirm", \* inspect_ledger reads the snapshot and looks for the lock again
   "acquire", \* the transaction creates the lock file
   "read",    \* the transaction reads the ledger, then looks the event up
   "send",    \* the sender calls the service
   "write",   \* the successor is written to a temporary file
   "replace", \* os.replace onto the ledger
   "release"} \* the lock file is unlinked and the cycle returns

Transaction == {"read", "send", "write", "replace", "release"}

Recorded(records) == {r.event : r \in records}

-----------------------------------------------------------------------------
(* The decision on the records that were read *)

\* latest_incident_delivery: the times at which the incident was delivered.
DeliveredAt(records, e) ==
  {r.at : r \in {s \in records : Incident[s.event] = Incident[e]}}

\* Defect: a reminder is due as soon as any time has passed.
SuppressedBriefly(records, e) ==
  \E t \in DeliveredAt(records, e) :
    \/ Occurred[e] <= t
    \/ Class[e] = "NORMAL"

\* The coordinator blocks an event that occurred before the last delivery of
\* its incident, and the noise policy suppresses a completion for good and a
\* failure or a wait until its reminder window has passed.
Suppressed(records, e) ==
  \E t \in DeliveredAt(records, e) :
    \/ Occurred[e] < t
    \/ Class[e] = "NORMAL"
    \/ Occurred[e] - t < Window[Incident[e]]

\* Defect: the incident is looked up, the event itself is not.
DeliverableByIncident(records, e) ==
  live \/ Class[e] = "CRITICAL" \/ ~ Suppressed(records, e)

Deliverable(records, e) ==
  /\ \A r \in records : r.event # e
  /\ live \/ Class[e] = "CRITICAL" \/ ~ Suppressed(records, e)

-----------------------------------------------------------------------------
(* One cycle *)

Goto(w, location) == pc' = [pc EXCEPT ![w] = location]

Leave(w) ==
  /\ Goto(w, "idle")
  /\ event' = [event EXCEPT ![w] = CHOOSE e \in Events : TRUE]
  /\ rows' = [rows EXCEPT ![w] = {}]
  /\ outcome' = [outcome EXCEPT ![w] = "nothing"]

Start(w, e) ==
  /\ pc[w] = "idle"
  /\ Occurred[e] <= clock
  /\ Goto(w, "inspect")
  /\ event' = [event EXCEPT ![w] = e]
  /\ UNCHANGED <<files, clock, rows, outcome, arrived, reports, faults>>

Inspect(w) ==
  /\ pc[w] = "inspect"
  /\ IF lock \/ temps # {}
     THEN Leave(w)
     ELSE Goto(w, "confirm") /\ UNCHANGED locals
  /\ UNCHANGED <<files, clock, arrived, reports, faults>>

\* Missing is not healthy: production delivery needs an initialised ledger.
Confirm(w) ==
  /\ pc[w] = "confirm"
  /\ IF lock \/ (live /\ missing)
     THEN Leave(w)
     ELSE Goto(w, "acquire") /\ UNCHANGED locals
  /\ UNCHANGED <<files, clock, arrived, reports, faults>>

\* Defect: the lock file is opened, not created exclusively.
AcquireShared(w) ==
  /\ pc[w] = "acquire"
  /\ lock' = TRUE
  /\ Goto(w, "read")
  /\ UNCHANGED <<ledger, missing, live, temps, clock, locals, arrived, reports,
                 faults>>

\* Defect: a lock whose process is gone is taken over.
AcquireStale(w) ==
  /\ pc[w] = "acquire"
  /\ IF \E v \in Workers : pc[v] \in Transaction
     THEN Leave(w) /\ UNCHANGED lock
     ELSE lock' = TRUE /\ Goto(w, "read") /\ UNCHANGED locals
  /\ UNCHANGED <<ledger, missing, live, temps, clock, arrived, reports, faults>>

\* Defect: the cycle waits for the lock.
AcquireWaiting(w) ==
  /\ pc[w] = "acquire"
  /\ ~ lock
  /\ lock' = TRUE
  /\ Goto(w, "read")
  /\ UNCHANGED <<ledger, missing, live, temps, clock, locals, arrived, reports,
                 faults>>

Acquire(w) ==
  /\ pc[w] = "acquire"
  /\ IF lock
     THEN Leave(w) /\ UNCHANGED lock
     ELSE lock' = TRUE /\ Goto(w, "read") /\ UNCHANGED locals
  /\ UNCHANGED <<ledger, missing, live, temps, clock, arrived, reports, faults>>

Read(w) ==
  /\ pc[w] = "read"
  /\ rows' = [rows EXCEPT ![w] = ledger]
  /\ Goto(w, IF Deliverable(ledger, event[w]) THEN "send" ELSE "release")
  /\ UNCHANGED <<files, clock, event, outcome, arrived, reports, faults>>

Arrive(w) ==
  arrived' = arrived \cup {event[w]}

\* A critical event is stopped in the sender (EMERGENCY_SEND_BLOCKED); any
\* other send is delivered, or fails and nothing has arrived.
Send(w) ==
  /\ pc[w] = "send"
  /\ \/ /\ Class[event[w]] # "CRITICAL"
        /\ Arrive(w)
        /\ outcome' = [outcome EXCEPT ![w] = "delivered"]
        /\ Goto(w, "write")
     \/ Goto(w, "release") /\ UNCHANGED <<outcome, arrived>>
  /\ UNCHANGED <<files, clock, event, rows, reports, faults>>

\* record_success and record_success_v02 append to what was read.
Successor(w) == rows[w] \cup {[event |-> event[w], at |-> clock]}

Fits(w) == Cardinality(Successor(w)) <= Capacity

\* LEDGER_CAPACITY_EXCEEDED is found here, with the message gone already.
Write(w) ==
  /\ pc[w] = "write"
  /\ IF Fits(w)
     THEN /\ temps' = temps \cup {w}
          /\ rows' = [rows EXCEPT ![w] = Successor(w)]
          /\ Goto(w, "replace")
     ELSE Goto(w, "release") /\ UNCHANGED <<temps, rows>>
  /\ UNCHANGED <<ledger, missing, live, lock, clock, event, outcome, arrived,
                 reports, faults>>

Replace(w) ==
  /\ pc[w] = "replace"
  /\ ledger' = rows[w]
  /\ missing' = FALSE
  /\ temps' = temps \ {w}
  /\ outcome' = [outcome EXCEPT ![w] = "recorded"]
  /\ Goto(w, "release")
  /\ UNCHANGED <<live, lock, clock, event, rows, arrived, reports, faults>>

\* NOTIFICATION_DELIVERED is returned for what was delivered and recorded; a
\* delivery without its record returns NOTIFICATION_FAILED_SAFE.
Release(w) ==
  /\ pc[w] = "release"
  /\ lock' = FALSE
  /\ reports' = IF outcome[w] = "recorded" THEN reports \cup {event[w]}
                                            ELSE reports
  /\ Leave(w)
  /\ UNCHANGED <<ledger, missing, live, temps, clock, arrived, faults>>

-----------------------------------------------------------------------------
(* Faults, time and the operator *)

Fault ==
  /\ faults < MaxFaults
  /\ faults' = faults + 1

\* An OSError before the lock is taken: nothing has changed.
EarlyFails(w) ==
  /\ Fault
  /\ pc[w] \in {"inspect", "confirm", "acquire"}
  /\ Leave(w)
  /\ UNCHANGED <<files, clock, arrived, reports>>

ReadFails(w) ==
  /\ Fault
  /\ pc[w] = "read"
  /\ Goto(w, "release")
  /\ UNCHANGED <<files, clock, locals, arrived, reports>>

\* The message arrives, but the answer does not (TRANSPORT_FAILURE).
SendUncertain(w) ==
  /\ Fault
  /\ pc[w] = "send"
  /\ Class[event[w]] # "CRITICAL"
  /\ Arrive(w)
  /\ Goto(w, "release")
  /\ UNCHANGED <<files, clock, locals, reports>>

\* LEDGER_WRITE_FAILED; removing the temporary file may fail as well.
WriteFails(w) ==
  /\ Fault
  /\ \/ pc[w] = "replace"
     \/ pc[w] = "write" /\ Fits(w)
  /\ temps' \in {temps \ {w}, temps \cup {w}}
  /\ Goto(w, "release")
  /\ UNCHANGED <<ledger, missing, live, lock, clock, locals, arrived, reports>>

\* LEDGER_LOCK_RELEASE_FAILED, whatever had been achieved.
ReleaseFails(w) ==
  /\ Fault
  /\ pc[w] = "release"
  /\ Leave(w)
  /\ UNCHANGED <<files, clock, arrived, reports>>

\* The process dies, within the send perhaps after the message arrived and
\* within the write perhaps with a temporary file.
Crash(w) ==
  /\ Fault
  /\ pc[w] # "idle"
  /\ Leave(w)
  /\ \/ UNCHANGED arrived
     \/ pc[w] = "send" /\ Class[event[w]] # "CRITICAL" /\ Arrive(w)
  /\ \/ UNCHANGED temps
     \/ pc[w] = "write" /\ Fits(w) /\ temps' = temps \cup {w}
  /\ UNCHANGED <<ledger, missing, live, lock, clock, reports>>

Tick ==
  /\ clock < MaxTime
  /\ clock' = clock + 1
  /\ UNCHANGED <<files, pc, locals, arrived, reports, faults>>

\* The recovery procedure: with every process stopped the operator removes
\* the lock and temporary files and initialises a missing ledger.
OperatorRecovers ==
  /\ \A w \in Workers : pc[w] = "idle"
  /\ lock' = FALSE
  /\ temps' = {}
  /\ missing' = FALSE
  /\ UNCHANGED <<ledger, live, clock, pc, locals, arrived, reports, faults>>

-----------------------------------------------------------------------------

Init ==
  /\ ledger = {}
  /\ missing \in BOOLEAN
  /\ live \in BOOLEAN
  /\ lock = FALSE
  /\ temps = {}
  /\ clock = 0
  /\ pc = [w \in Workers |-> "idle"]
  /\ event = [w \in Workers |-> CHOOSE e \in Events : TRUE]
  /\ rows = [w \in Workers |-> {}]
  /\ outcome = [w \in Workers |-> "nothing"]
  /\ arrived = {}
  /\ reports = {}
  /\ faults = 0

Proceed(w) ==
  \/ Inspect(w) \/ Confirm(w) \/ Acquire(w) \/ Read(w) \/ Send(w)
  \/ Write(w) \/ Replace(w) \/ Release(w)

Disturb(w) ==
  \/ EarlyFails(w) \/ ReadFails(w) \/ SendUncertain(w) \/ WriteFails(w)
  \/ ReleaseFails(w) \/ Crash(w)

Next ==
  \/ \E w \in Workers :
       Proceed(w) \/ Disturb(w) \/ \E e \in Events : Start(w, e)
  \/ Tick
  \/ OperatorRecovers

Spec == Init /\ [][Next]_vars

\* A cycle waits for nothing but the sender, whose transport has a timeout.
FairSpec == Spec /\ \A w \in Workers : WF_vars(Proceed(w))

-----------------------------------------------------------------------------
(* Properties *)

TypeOK ==
  /\ ledger \subseteq Record
  /\ missing \in BOOLEAN
  /\ live \in BOOLEAN
  /\ lock \in BOOLEAN
  /\ temps \subseteq Workers
  /\ clock \in 0 .. MaxTime
  /\ pc \in [Workers -> Locations]
  /\ event \in [Workers -> Events]
  /\ rows \in [Workers -> SUBSET Record]
  /\ outcome \in [Workers -> {"nothing", "delivered", "recorded"}]
  /\ arrived \subseteq Events
  /\ reports \subseteq Events
  /\ faults \in Nat

\* An event whose delivery is recorded is never sent again, by whatever
\* process and however the cycles interleave: the lock spans lookup, send and
\* replacement.  What is sent twice was lost between delivery and record.
NeverResentOnceRecorded ==
  \A w \in Workers : pc[w] = "send" => event[w] \notin Recorded(ledger)

\* No record is ever lost: two cycles never write from the same reading.
RecordsKept == [][ledger \subseteq ledger']_vars

\* Nothing is recorded, nor reported as delivered, that did not arrive and
\* is not on disk.
ReportsTrue ==
  /\ reports \subseteq Recorded(ledger)
  /\ Recorded(ledger) \subseteq arrived

\* The ledger, its deliveries and its reports agree at all times.
LedgerSound ==
  /\ TypeOK
  /\ ReportsTrue
  /\ NeverResentOnceRecorded

\* Two recorded deliveries of one incident are a reminder window apart, and
\* completions are recorded once, in a ledger kept with incident suppression.
RemindersSpaced ==
  ~ live =>
    \A r, s \in ledger :
      Incident[r.event] = Incident[s.event] /\ r # s =>
        /\ Class[r.event] # "NORMAL"
        /\ \/ Occurred[s.event] - r.at >= Window[Incident[s.event]]
           \/ Occurred[r.event] - s.at >= Window[Incident[s.event]]

\* A lock whose process is gone silences the subsystem: no later cycle gets
\* past it to read, send or record, until the operator has removed it.
StaleLock == lock /\ \A w \in Workers : pc[w] \notin Transaction

SilentWhileStale ==
  [][StaleLock => \A w \in Workers : pc'[w] \notin Transaction]_vars

\* Every cycle returns, also when another process died holding the lock.
CyclesReturn == \A w \in Workers : pc[w] # "idle" ~> pc[w] = "idle"

\* What makes cycles return, fairness apart: each access of its own shortens a
\* cycle, by whatever branch it goes, and nothing anybody does lengthens it.
AccessesLeft ==
  [idle |-> 0, release |-> 1, replace |-> 2, write |-> 3, send |-> 4,
   read |-> 5, acquire |-> 6, confirm |-> 7, inspect |-> 8]

CyclesAdvance ==
  [][\A w \in Workers :
       /\ Proceed(w) => AccessesLeft[pc'[w]] < AccessesLeft[pc[w]]
       /\ pc[w] # "idle" => AccessesLeft[pc'[w]] <= AccessesLeft[pc[w]]]_vars

-----------------------------------------------------------------------------
(* The inductive invariant behind these properties *)

LockHeld == \A w \in Workers : pc[w] \in Transaction => lock

OneTransaction ==
  \A v, w \in Workers :
    pc[v] \in Transaction /\ pc[w] \in Transaction => v = w

\* Until its replacement a transaction has what is in the ledger, so that its
\* decision to send still stands, and then one record more.
ReadingCurrent ==
  \A w \in Workers :
    /\ pc[w] \in {"send", "write", "replace"} => Deliverable(ledger, event[w])
    /\ pc[w] \in {"send", "write"} => rows[w] = ledger
    /\ pc[w] = "replace" =>
         \E t \in 0 .. MaxTime :
           rows[w] = ledger \cup {[event |-> event[w], at |-> t]}

\* What is about to be recorded has arrived, and only events that may be sent
\* unattended get there; what is about to be reported is recorded.
OutcomeTrue ==
  \A w \in Workers :
    /\ pc[w] \in {"write", "replace"} =>
         event[w] \in arrived /\ Class[event[w]] # "CRITICAL"
    /\ outcome[w] = "recorded" =>
         pc[w] = "release" /\ event[w] \in Recorded(ledger)

RuntimeInv ==
  /\ TypeOK
  /\ LockHeld
  /\ OneTransaction
  /\ ReadingCurrent
  /\ OutcomeTrue
  /\ ReportsTrue

=============================================================================
