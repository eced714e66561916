--------------------- MODULE NotificationRuntimeProofs ---------------------
(***************************************************************************)
(* Proofs about the notification cycle: RuntimeInv is inductive, so the    *)
(* ledger, its deliveries and its reports agree; no record is lost,        *)
(* reminders are a window apart, and nothing gets past a stale lock.  They *)
(* hold for any number of processes, events, incidents, records and        *)
(* faults, and for every class and reminder window.                        *)
(***************************************************************************)
EXTENDS NotificationRuntime, TLAPS

-----------------------------------------------------------------------------
(* Type correctness *)

LEMMA SomeEvent == (CHOOSE e \in Events : TRUE) \in Events
BY EventAssumption

LEMMA InitTypeOK == Init => TypeOK
<1> SUFFICES ASSUME Init PROVE TypeOK
  OBVIOUS
<1>1. 0 \in 0 .. MaxTime
  BY ModeAssumption
<1>2. event \in [Workers -> Events]
  BY SomeEvent DEF Init
<1>3. /\ pc \in [Workers -> Locations]
      /\ rows \in [Workers -> SUBSET Record]
      /\ outcome \in [Workers -> {"nothing", "delivered", "recorded"}]
  BY DEF Init, Locations
<1>4. /\ ledger \subseteq Record /\ temps \subseteq Workers
      /\ arrived \subseteq Events /\ reports \subseteq Events
      /\ clock \in 0 .. MaxTime /\ faults \in Nat
  BY <1>1 DEF Init
<1>5. missing \in BOOLEAN /\ live \in BOOLEAN /\ lock \in BOOLEAN
  BY DEF Init
<1> QED BY <1>2, <1>3, <1>4, <1>5 DEF TypeOK

\* The record a transaction appends.
LEMMA SuccessorTyped ==
  ASSUME TypeOK, NEW w \in Workers
  PROVE  Successor(w) \in SUBSET Record
BY DEF TypeOK, Successor, Record

LEMMA NextTypeOK == TypeOK /\ [Next]_vars => TypeOK'
<1> SUFFICES ASSUME TypeOK, [Next]_vars PROVE TypeOK'
  OBVIOUS
<1> USE SomeEvent DEF TypeOK, files, locals
<1>1. CASE UNCHANGED vars
  BY <1>1 DEF vars
<1>2. ASSUME NEW w \in Workers, Proceed(w) PROVE TypeOK'
  <2>1. CASE Inspect(w)
    BY <2>1 DEF Inspect, Leave, Goto, Locations
  <2>2. CASE Confirm(w)
    BY <2>2 DEF Confirm, Leave, Goto, Locations
  <2>3. CASE Acquire(w)
    BY <2>3 DEF Acquire, Leave, Goto, Locations
  <2>4. CASE Read(w)
    BY <2>4 DEF Read, Goto, Locations
  <2>5. CASE Send(w)
    BY <2>5 DEF Send, Arrive, Goto, Locations
  <2>6. CASE Write(w)
    BY <2>6, SuccessorTyped DEF Write, Goto, Locations
  <2>7. CASE Replace(w)
    BY <2>7 DEF Replace, Goto, Locations
  <2>8. CASE Release(w)
    BY <2>8 DEF Release, Leave, Goto, Locations
  <2> QED BY <1>2, <2>1, <2>2, <2>3, <2>4, <2>5, <2>6, <2>7, <2>8 DEF Proceed
<1>3. ASSUME NEW w \in Workers, Disturb(w) PROVE TypeOK'
  <2>1. CASE EarlyFails(w)
    BY <2>1 DEF EarlyFails, Fault, Leave, Goto, Locations
  <2>2. CASE ReadFails(w)
    BY <2>2 DEF ReadFails, Fault, Goto, Locations
  <2>3. CASE SendUncertain(w)
    BY <2>3 DEF SendUncertain, Fault, Arrive, Goto, Locations
  <2>4. CASE WriteFails(w)
    BY <2>4 DEF WriteFails, Fault, Goto, Locations
  <2>5. CASE ReleaseFails(w)
    BY <2>5 DEF ReleaseFails, Fault, Leave, Goto, Locations
  <2>6. CASE Crash(w)
    BY <2>6 DEF Crash, Fault, Arrive, Leave, Goto, Locations
  <2> QED BY <1>3, <2>1, <2>2, <2>3, <2>4, <2>5, <2>6 DEF Disturb
<1>4. ASSUME NEW w \in Workers, NEW e \in Events, Start(w, e) PROVE TypeOK'
  BY <1>4 DEF Start, Goto, Locations
<1>5. CASE Tick
  BY <1>5, ModeAssumption DEF Tick
<1>6. CASE OperatorRecovers
  BY <1>6 DEF OperatorRecovers
<1> QED BY <1>1, <1>2, <1>3, <1>4, <1>5, <1>6 DEF Next

-----------------------------------------------------------------------------
(* The lock excludes *)

LEMMA NextExclusion ==
  TypeOK /\ LockHeld /\ OneTransaction /\ [Next]_vars
  => LockHeld' /\ OneTransaction'
<1> SUFFICES ASSUME TypeOK, LockHeld, OneTransaction, [Next]_vars
             PROVE  LockHeld' /\ OneTransaction'
  OBVIOUS
<1> USE DEF LockHeld, OneTransaction, Transaction, files
<1>1. pc \in [Workers -> Locations]
  BY DEF TypeOK
<1>2. CASE UNCHANGED vars
  BY <1>2 DEF vars
<1>3. ASSUME NEW w \in Workers, Proceed(w)
      PROVE  LockHeld' /\ OneTransaction'
  <2>1. CASE Inspect(w) \/ Confirm(w)
    <3>1. /\ lock' = lock
          /\ \E l \in {"idle", "confirm", "acquire"} :
               pc' = [pc EXCEPT ![w] = l]
      BY <2>1 DEF Inspect, Confirm, Leave, Goto
    <3> QED BY <1>1, <3>1
  <2>2. CASE Acquire(w)
    <3>1. CASE lock
      BY <1>1, <2>2, <3>1 DEF Acquire, Leave, Goto
    <3>2. CASE ~ lock
      BY <1>1, <2>2, <3>2 DEF Acquire, Goto
    <3> QED BY <3>1, <3>2
  <2>3. CASE Read(w) \/ Send(w) \/ Write(w) \/ Replace(w)
    <3>1. /\ lock' = lock /\ pc[w] \in Transaction
          /\ \E l \in Transaction : pc' = [pc EXCEPT ![w] = l]
      BY <2>3 DEF Read, Send, Write, Replace, Goto
    <3> QED BY <1>1, <3>1
  <2>4. CASE Release(w)
    BY <1>1, <2>4 DEF Release, Leave, Goto
  <2> QED BY <1>3, <2>1, <2>2, <2>3, <2>4 DEF Proceed
<1>4. ASSUME NEW w \in Workers, Disturb(w)
      PROVE  LockHeld' /\ OneTransaction'
  <2>1. /\ lock' = lock
        /\ \/ pc' = [pc EXCEPT ![w] = "idle"]
           \/ pc[w] \in Transaction /\ pc' = [pc EXCEPT ![w] = "release"]
    BY <1>4
    DEF Disturb, EarlyFails, ReadFails, SendUncertain, WriteFails,
        ReleaseFails, Crash, Leave, Goto
  <2> QED BY <1>1, <2>1
<1>5. ASSUME NEW w \in Workers, NEW e \in Events, Start(w, e)
      PROVE  LockHeld' /\ OneTransaction'
  BY <1>1, <1>5 DEF Start, Goto
<1>6. CASE Tick
  BY <1>6 DEF Tick
<1>7. CASE OperatorRecovers
  BY <1>7 DEF OperatorRecovers
<1> QED BY <1>2, <1>3, <1>4, <1>5, <1>6, <1>7 DEF Next

-----------------------------------------------------------------------------
(* The inductive invariant *)

LEMMA InitInvariant == Init => RuntimeInv
<1> SUFFICES ASSUME Init PROVE RuntimeInv
  OBVIOUS
<1>1. /\ \A w \in Workers : pc[w] = "idle" /\ outcome[w] = "nothing"
      /\ reports = {} /\ ledger = {}
  BY DEF Init
<1>2. /\ LockHeld /\ OneTransaction /\ ReadingCurrent /\ OutcomeTrue
      /\ ReportsTrue
  BY <1>1
  DEF LockHeld, OneTransaction, Transaction, ReadingCurrent, OutcomeTrue,
      ReportsTrue, Recorded
<1> QED BY <1>2, InitTypeOK DEF RuntimeInv

\* Whether an event may be sent depends on the ledger and on its mode alone.
LEMMA SameDecision ==
  ASSUME NEW v \in Workers,
         ledger' = ledger, live' = live, event'[v] = event[v],
         Deliverable(ledger, event[v])
  PROVE  Deliverable(ledger, event[v])'
BY DEF Deliverable, Suppressed, DeliveredAt

\* A step that leaves the cycles and the ledger alone keeps what they rely on.
LEMMA ApartKeeps ==
  ASSUME RuntimeInv,
         UNCHANGED <<ledger, live, pc, event, rows, outcome, arrived, reports>>
  PROVE  ReadingCurrent' /\ OutcomeTrue' /\ ReportsTrue'
<1> USE DEF RuntimeInv
<1>1. ReadingCurrent'
  BY SameDecision DEF ReadingCurrent
<1>2. OutcomeTrue'
  BY DEF OutcomeTrue, Recorded
<1>3. ReportsTrue'
  BY DEF ReportsTrue, Recorded
<1> QED BY <1>1, <1>2, <1>3

\* A step of w that leaves ledger, lock owners and reports to the others, and
\* after which w has nothing to send or to record.
LEMMA QuietKeeps ==
  ASSUME RuntimeInv, NEW w \in Workers,
         ledger' = ledger, live' = live, arrived \subseteq arrived',
         \A v \in Workers \ {w} :
           /\ pc'[v] = pc[v] /\ event'[v] = event[v]
           /\ rows'[v] = rows[v] /\ outcome'[v] = outcome[v],
         pc'[w] \notin {"send", "write", "replace"},
         outcome'[w] # "recorded",
         reports' = reports
  PROVE  ReadingCurrent' /\ OutcomeTrue' /\ ReportsTrue'
<1> USE DEF RuntimeInv
<1>1. ReadingCurrent'
  BY SameDecision DEF ReadingCurrent
<1>2. OutcomeTrue'
  BY DEF OutcomeTrue, Recorded
<1>3. ReportsTrue'
  BY DEF ReportsTrue, Recorded
<1> QED BY <1>1, <1>2, <1>3

LEMMA NextInvariant == RuntimeInv /\ [Next]_vars => RuntimeInv'
<1> SUFFICES ASSUME RuntimeInv, [Next]_vars PROVE RuntimeInv'
  OBVIOUS
<1> DEFINE Rest == ReadingCurrent /\ OutcomeTrue /\ ReportsTrue
<1>1. TypeOK /\ LockHeld /\ OneTransaction /\ Rest
  BY DEF RuntimeInv
<1>2. TypeOK' /\ LockHeld' /\ OneTransaction'
  BY <1>1, NextTypeOK, NextExclusion
<1> USE DEF files, locals
<1>3. ASSUME UNCHANGED vars PROVE Rest'
  BY <1>3, ApartKeeps DEF vars
<1>4. ASSUME NEW w \in Workers, Proceed(w) PROVE Rest'
  <2>0. \A v \in Workers \ {w} : pc[w] \in Transaction => pc[v] \notin Transaction
    BY <1>1 DEF OneTransaction
  <2>1. CASE Inspect(w) \/ Confirm(w) \/ Acquire(w)
    <3>1. outcome[w] # "recorded"
      BY <1>1, <2>1 DEF Inspect, Confirm, Acquire, OutcomeTrue
    <3> QED
      BY <1>1, <2>1, <3>1, QuietKeeps
      DEF TypeOK, Inspect, Confirm, Acquire, Leave, Goto
  <2>2. CASE Read(w)
    <3>1. /\ rows' = [rows EXCEPT ![w] = ledger]
          /\ pc' = [pc EXCEPT ![w] = IF Deliverable(ledger, event[w])
                                     THEN "send" ELSE "release"]
          /\ pc[w] = "read"
          /\ UNCHANGED <<ledger, live, event, outcome, arrived, reports>>
      BY <2>2 DEF Read, Goto
    <3>2. ReadingCurrent'
      BY <1>1, <3>1, SameDecision DEF TypeOK, ReadingCurrent
    <3>3. OutcomeTrue' /\ ReportsTrue'
      BY <1>1, <3>1 DEF TypeOK, OutcomeTrue, ReportsTrue, Recorded
    <3> QED BY <3>2, <3>3
  <2>3. CASE Send(w)
    <3>1. outcome[w] # "recorded"
      BY <1>1, <2>3 DEF Send, OutcomeTrue
    <3>2. CASE Goto(w, "release") /\ UNCHANGED <<outcome, arrived>>
      BY <1>1, <2>3, <3>1, <3>2, QuietKeeps DEF TypeOK, Send, Goto
    <3>3. CASE /\ Class[event[w]] # "CRITICAL" /\ Arrive(w)
               /\ outcome' = [outcome EXCEPT ![w] = "delivered"]
               /\ Goto(w, "write")
      <4>1. /\ pc[w] = "send" /\ pc' = [pc EXCEPT ![w] = "write"]
            /\ UNCHANGED <<ledger, live, event, rows, reports>>
            /\ arrived' = arrived \cup {event[w]}
        BY <2>3, <3>3 DEF Send, Goto, Arrive
      <4>2. ReadingCurrent'
        BY <1>1, <4>1, SameDecision DEF TypeOK, ReadingCurrent
      <4>3. OutcomeTrue' /\ ReportsTrue'
        BY <1>1, <3>3, <4>1 DEF TypeOK, OutcomeTrue, ReportsTrue, Recorded
      <4> QED BY <4>2, <4>3
    <3> QED BY <2>3, <3>2, <3>3 DEF Send
  <2>4. CASE Write(w)
    <3>1. outcome[w] # "recorded" /\ clock \in 0 .. MaxTime
      BY <1>1, <2>4 DEF Write, OutcomeTrue, TypeOK
    <3>2. CASE Fits(w)
      <4>1. /\ rows' = [rows EXCEPT ![w] = Successor(w)]
            /\ pc[w] = "write" /\ pc' = [pc EXCEPT ![w] = "replace"]
            /\ UNCHANGED <<ledger, live, event, outcome, arrived, reports>>
        BY <2>4, <3>2 DEF Write, Goto
      <4>2. Successor(w) = ledger \cup {[event |-> event[w], at |-> clock]}
        BY <1>1, <4>1 DEF Successor, ReadingCurrent
      <4>3. ReadingCurrent'
        BY <1>1, <3>1, <4>1, <4>2, SameDecision DEF TypeOK, ReadingCurrent
      <4>4. OutcomeTrue' /\ ReportsTrue'
        BY <1>1, <4>1 DEF TypeOK, OutcomeTrue, ReportsTrue, Recorded
      <4> QED BY <4>3, <4>4
    <3>3. CASE ~ Fits(w)
      BY <1>1, <2>4, <3>1, <3>3, QuietKeeps DEF TypeOK, Write, Goto
    <3> QED BY <3>2, <3>3
  <2>5. CASE Replace(w)
    <3>1. /\ pc[w] = "replace" /\ pc' = [pc EXCEPT ![w] = "release"]
          /\ ledger' = rows[w]
          /\ outcome' = [outcome EXCEPT ![w] = "recorded"]
          /\ UNCHANGED <<live, event, rows, arrived, reports>>
      BY <2>5 DEF Replace, Goto
    <3>2. PICK t \in 0 .. MaxTime :
            ledger' = ledger \cup {[event |-> event[w], at |-> t]}
      BY <1>1, <3>1 DEF ReadingCurrent
    <3>3. Recorded(ledger)' = Recorded(ledger) \cup {event[w]}
      <4>1. [event |-> event[w], at |-> t].event = event[w]
        OBVIOUS
      <4> QED BY <3>2, <4>1, Zenon DEF Recorded
    <3>4. ReadingCurrent'
      BY <1>1, <2>0, <3>1 DEF TypeOK, ReadingCurrent, Transaction
    <3>5. OutcomeTrue' /\ ReportsTrue'
      BY <1>1, <3>1, <3>3 DEF TypeOK, OutcomeTrue, ReportsTrue
    <3> QED BY <3>4, <3>5
  <2>6. CASE Release(w)
    <3>1. /\ pc[w] = "release" /\ pc' = [pc EXCEPT ![w] = "idle"]
          /\ outcome' = [outcome EXCEPT ![w] = "nothing"]
          /\ rows' = [rows EXCEPT ![w] = {}]
          /\ \A v \in Workers \ {w} : event'[v] = event[v]
          /\ reports' = IF outcome[w] = "recorded"
                        THEN reports \cup {event[w]} ELSE reports
          /\ UNCHANGED <<ledger, live, arrived>>
      BY <1>1, <2>6 DEF Release, Leave, Goto, TypeOK
    <3>2. ReadingCurrent'
      BY <1>1, <3>1, SameDecision DEF TypeOK, ReadingCurrent
    <3>3. OutcomeTrue'
      BY <1>1, <3>1 DEF TypeOK, OutcomeTrue, Recorded
    <3>4. ReportsTrue'
      BY <1>1, <3>1 DEF OutcomeTrue, ReportsTrue, Recorded
    <3> QED BY <3>2, <3>3, <3>4
  <2> QED BY <1>4, <2>1, <2>2, <2>3, <2>4, <2>5, <2>6 DEF Proceed
<1>5. ASSUME NEW w \in Workers, Disturb(w) PROVE Rest'
  <2>1. CASE EarlyFails(w) \/ ReleaseFails(w) \/ Crash(w)
    BY <1>1, <2>1, QuietKeeps
    DEF TypeOK, EarlyFails, ReleaseFails, Crash, Arrive, Leave, Goto
  <2>2. CASE ReadFails(w) \/ SendUncertain(w) \/ WriteFails(w)
    <3>1. outcome[w] # "recorded"
      BY <1>1, <2>2 DEF ReadFails, SendUncertain, WriteFails, OutcomeTrue
    <3> QED
      BY <1>1, <2>2, <3>1, QuietKeeps
      DEF TypeOK, ReadFails, SendUncertain, WriteFails, Arrive, Goto
  <2> QED BY <1>5, <2>1, <2>2 DEF Disturb
<1>6. ASSUME NEW w \in Workers, NEW e \in Events, Start(w, e) PROVE Rest'
  <2>1. outcome[w] # "recorded"
    BY <1>1, <1>6 DEF Start, OutcomeTrue
  <2> QED BY <1>1, <1>6, <2>1, QuietKeeps DEF TypeOK, Start, Goto
<1>7. ASSUME Tick PROVE Rest'
  BY <1>7, ApartKeeps DEF Tick
<1>8. ASSUME OperatorRecovers PROVE Rest'
  BY <1>8, ApartKeeps DEF OperatorRecovers
<1> QED
  BY <1>2, <1>3, <1>4, <1>5, <1>6, <1>7, <1>8 DEF Next, RuntimeInv

\* The runtime keeps its invariant.
THEOREM RuntimeInvariant == Spec => []RuntimeInv
BY InitInvariant, NextInvariant, PTL DEF Spec

-----------------------------------------------------------------------------
(* What follows of the ledger *)

\* Nothing is sent that is recorded, nothing recorded that did not arrive, and
\* nothing reported as delivered that is not recorded.
THEOREM LedgerStaysSound == Spec => []LedgerSound
<1>1. RuntimeInv => LedgerSound
  <2> SUFFICES ASSUME RuntimeInv PROVE NeverResentOnceRecorded
    BY DEF RuntimeInv, LedgerSound
  <2>1. \A w \in Workers : pc[w] = "send" => Deliverable(ledger, event[w])
    BY DEF RuntimeInv, ReadingCurrent
  <2> QED BY <2>1 DEF NeverResentOnceRecorded, Deliverable, Recorded
<1> QED BY <1>1, RuntimeInvariant, PTL

\* A step leaves the ledger alone or adds the record of one delivery that was
\* due when its transaction read the ledger, and is due still.
LEMMA LedgerStep ==
  ASSUME RuntimeInv, [Next]_vars, ledger' # ledger
  PROVE  \E w \in Workers, t \in 0 .. MaxTime :
           /\ ledger' = ledger \cup {[event |-> event[w], at |-> t]}
           /\ Deliverable(ledger, event[w])
           /\ Class[event[w]] # "CRITICAL"
<1>1. PICK w \in Workers : Replace(w)
  <2>1. ~ UNCHANGED vars
    BY DEF vars
  <2>2. ~ Tick /\ ~ OperatorRecovers
    BY DEF Tick, OperatorRecovers, files
  <2>3. ASSUME NEW w \in Workers, NEW e \in Events PROVE ~ Start(w, e)
    BY DEF Start, files
  <2>4. ASSUME NEW w \in Workers PROVE ~ Disturb(w)
    BY DEF Disturb, EarlyFails, ReadFails, SendUncertain, WriteFails,
           ReleaseFails, Crash, files
  <2>5. ASSUME NEW w \in Workers, Proceed(w) PROVE Replace(w)
    BY <2>5
    DEF Proceed, Inspect, Confirm, Acquire, Read, Send, Write, Release, files
  <2> QED BY <2>1, <2>2, <2>3, <2>4, <2>5 DEF Next
<1>2. pc[w] = "replace" /\ ledger' = rows[w]
  BY <1>1 DEF Replace
<1> QED BY <1>2 DEF RuntimeInv, ReadingCurrent, OutcomeTrue

\* No record is ever lost.
THEOREM NoRecordLost == Spec => RecordsKept
<1>1. RuntimeInv /\ [Next]_vars => [ledger \subseteq ledger']_vars
  BY LedgerStep
<1> QED BY <1>1, RuntimeInvariant, PTL DEF Spec, RecordsKept

\* An event due although its incident was delivered before is no completion
\* and occurred a reminder window after every such delivery.
LEMMA DueIsSpaced ==
  ASSUME RuntimeInv, ~ live, NEW e \in Events, Class[e] # "CRITICAL",
         Deliverable(ledger, e),
         NEW r \in ledger, Incident[r.event] = Incident[e]
  PROVE  /\ Class[e] # "NORMAL" /\ Class[r.event] # "NORMAL"
         /\ Occurred[e] - r.at >= Window[Incident[e]]
<1>1. r.event \in Events /\ r.at \in Int
  BY DEF RuntimeInv, TypeOK, Record
<1>2. Occurred[e] \in Int /\ Window[Incident[e]] \in Int
  BY EventAssumption DEF Range
<1>3. ~ Suppressed(ledger, e) /\ r.at \in DeliveredAt(ledger, e)
  BY DEF Deliverable, DeliveredAt
<1>4. Class[r.event] = Class[e]
  BY <1>1, EventAssumption
<1> QED BY <1>1, <1>2, <1>3, <1>4 DEF Suppressed

\* Two recorded deliveries of one incident are a reminder window apart, and a
\* completion is recorded once.
THEOREM RemindersStaySpaced == Spec => []RemindersSpaced
<1>1. Init => RemindersSpaced
  BY DEF Init, RemindersSpaced
<1>2. RuntimeInv /\ RemindersSpaced /\ [Next]_vars => RemindersSpaced'
  <2> SUFFICES ASSUME RuntimeInv, RemindersSpaced, [Next]_vars, ~ live',
                      NEW r \in ledger', NEW s \in ledger',
                      Incident[r.event] = Incident[s.event], r # s
               PROVE  /\ Class[r.event] # "NORMAL"
                      /\ \/ Occurred[s.event] - r.at
                              >= Window[Incident[s.event]]
                         \/ Occurred[r.event] - s.at
                              >= Window[Incident[s.event]]
    BY DEF RemindersSpaced
  <2>1. live' = live
    BY DEF Next, vars, Proceed, Inspect, Confirm, Acquire, Read, Send, Write,
           Replace, Release, Disturb, EarlyFails, ReadFails, SendUncertain,
           WriteFails, ReleaseFails, Crash, Start, Tick, OperatorRecovers, files
  <2>2. CASE ledger' = ledger
    BY <2>1, <2>2 DEF RemindersSpaced
  <2>3. CASE ledger' # ledger
    <3>1. PICK w \in Workers, t \in 0 .. MaxTime :
            /\ ledger' = ledger \cup {[event |-> event[w], at |-> t]}
            /\ Deliverable(ledger, event[w])
            /\ Class[event[w]] # "CRITICAL"
      BY <2>3, LedgerStep
    <3> DEFINE new == [event |-> event[w], at |-> t]
    <3>2. event[w] \in Events /\ new.event = event[w]
      BY DEF RuntimeInv, TypeOK
    <3>3. CASE r \in ledger /\ s \in ledger
      BY <2>1, <3>3 DEF RemindersSpaced
    <3>4. CASE r \in ledger /\ s = new
      BY <2>1, <3>1, <3>2, <3>4, DueIsSpaced
    <3>5. CASE r = new /\ s \in ledger
      BY <2>1, <3>1, <3>2, <3>5, DueIsSpaced
    <3> QED BY <3>1, <3>3, <3>4, <3>5
  <2> QED BY <2>2, <2>3
<1> QED BY <1>1, <1>2, RuntimeInvariant, PTL DEF Spec

\* Nothing gets past a lock whose process is gone, to read, send or record,
\* before the operator has removed it.
THEOREM StaysSilent == Spec => SilentWhileStale
<1> DEFINE Silent == \A w \in Workers : pc'[w] \notin Transaction
<1>1. RuntimeInv /\ [Next]_vars => [StaleLock => Silent]_vars
  <2> SUFFICES ASSUME RuntimeInv, Next, StaleLock PROVE Silent
    OBVIOUS
  <2> USE DEF StaleLock, Transaction
  <2>1. pc \in [Workers -> Locations]
    BY DEF RuntimeInv, TypeOK
  <2>2. ASSUME NEW w \in Workers, Proceed(w) \/ Disturb(w) PROVE Silent
    <3>1. \E l \in {"idle", "confirm", "acquire"} : pc' = [pc EXCEPT ![w] = l]
      BY <2>2
      DEF Proceed, Inspect, Confirm, Acquire, Read, Send, Write, Replace,
          Release, Disturb, EarlyFails, ReadFails, SendUncertain, WriteFails,
          ReleaseFails, Crash, Leave, Goto
    <3> QED BY <2>1, <3>1
  <2>3. ASSUME NEW w \in Workers, NEW e \in Events, Start(w, e) PROVE Silent
    BY <2>1, <2>3 DEF Start, Goto
  <2>4. CASE Tick \/ OperatorRecovers
    BY <2>4 DEF Tick, OperatorRecovers
  <2> QED BY <2>2, <2>3, <2>4 DEF Next
<1> QED BY <1>1, RuntimeInvariant, PTL DEF Spec, SilentWhileStale

-----------------------------------------------------------------------------
(* Cycles come to their end *)

\* Every step of a cycle, and every error in it, leads nearer to the return.
LEMMA AccessShortens ==
  ASSUME pc \in [Workers -> Locations], NEW w \in Workers,
         Proceed(w) \/ Disturb(w)
  PROVE  \E l \in Locations :
           pc' = [pc EXCEPT ![w] = l] /\ AccessesLeft[l] < AccessesLeft[pc[w]]
<1> USE DEF Locations, AccessesLeft, Goto, Leave
<1>1. CASE Inspect(w) \/ Confirm(w) \/ Acquire(w) \/ EarlyFails(w)
  BY <1>1 DEF Inspect, Confirm, Acquire, EarlyFails
<1>2. CASE Read(w) \/ ReadFails(w)
  BY <1>2 DEF Read, ReadFails
<1>3. CASE Send(w) \/ SendUncertain(w)
  BY <1>3 DEF Send, SendUncertain
<1>4. CASE Write(w)
  BY <1>4 DEF Write
<1>5. CASE Replace(w) \/ WriteFails(w)
  BY <1>5 DEF Replace, WriteFails
<1>6. CASE Release(w) \/ ReleaseFails(w)
  BY <1>6 DEF Release, ReleaseFails
<1>7. CASE Crash(w)
  BY <1>7 DEF Crash
<1> QED
  BY <1>1, <1>2, <1>3, <1>4, <1>5, <1>6, <1>7 DEF Proceed, Disturb

\* A cycle is over after eight accesses of its own at most, by whatever branches
\* and whatever other cycles, errors, deaths and the operator do meanwhile.
THEOREM CyclesComeToAnEnd == Spec => CyclesAdvance
<1> DEFINE Advance ==
      \A w \in Workers :
        /\ Proceed(w) => AccessesLeft[pc'[w]] < AccessesLeft[pc[w]]
        /\ pc[w] # "idle" => AccessesLeft[pc'[w]] <= AccessesLeft[pc[w]]
<1>1. RuntimeInv /\ [Next]_vars => [Advance]_vars
  <2> SUFFICES ASSUME RuntimeInv, Next, NEW w \in Workers
               PROVE  /\ Proceed(w) => AccessesLeft[pc'[w]] < AccessesLeft[pc[w]]
                      /\ pc[w] # "idle" => AccessesLeft[pc'[w]] <= AccessesLeft[pc[w]]
    OBVIOUS
  <2> HIDE DEF Advance
  <2>1. pc \in [Workers -> Locations]
    BY DEF RuntimeInv, TypeOK
  <2>2. \A l \in Locations : AccessesLeft[l] \in Nat
    BY DEF Locations, AccessesLeft
  <2>3. ASSUME Proceed(w) \/ Disturb(w)
        PROVE  pc'[w] \in Locations /\ AccessesLeft[pc'[w]] < AccessesLeft[pc[w]]
    BY <2>1, <2>3, AccessShortens
  <2>4. ASSUME pc[w] # "idle", pc'[w] # pc[w]
        PROVE  Proceed(w) \/ Disturb(w)
    <3>1. ~ \E v \in Workers, e \in Events : Start(v, e)
      BY <2>1, <2>4 DEF Start, Goto
    <3>2. \A v \in Workers : v # w => ~ (Proceed(v) \/ Disturb(v))
      BY <2>1, <2>4, AccessShortens
    <3>3. ~ Tick /\ ~ OperatorRecovers
      BY <2>4 DEF Tick, OperatorRecovers
    <3> QED BY <3>1, <3>2, <3>3 DEF Next
  <2> QED BY <2>1, <2>2, <2>3, <2>4
<1> QED BY <1>1, RuntimeInvariant, PTL DEF Spec, CyclesAdvance

=============================================================================
