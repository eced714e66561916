-------------------- MODULE AffiliateRevalidationProofs --------------------
(***************************************************************************)
(* RecheckInv is inductive, so whatever cycles overlap and wherever D1     *)
(* stops, a row is enabled with a target and with the audit of the check   *)
(* that enabled it, on its latest audit where one cycle runs at a time;    *)
(* and without the worker no failure disables a row that has been listed   *)
(* all along, malformed answers about it apart.  RotationInv adds that no  *)
(* row waiting for its recheck is passed by another.  For any number of    *)
(* rows, cycles, installations and failures.                               *)
(***************************************************************************)
EXTENDS AffiliateRevalidation, TLAPS, FiniteSetTheorems

\* An installation: its rows are rows, its cycles cycles of one kind each.
LEMMA SiteTyped ==
  ASSUME site \in Installations
  PROVE  /\ site.rows \subseteq Rows
         /\ Local \cup Cron \subseteq Cycles
         /\ Local \cap Cron = {}
         /\ site.batchSize \in Nat \ {0}
BY InstallationAssumption DEF Local, Cron, Daily, Manual

\* A batch is a sequence of rows that are installed, and not empty.
LEMMA BatchTyped ==
  ASSUME site \in Installations, NEW s \in Batches
  PROVE  /\ s \in Seq(Rows) /\ s # <<>> /\ Len(s) \in Nat \ {0}
         /\ DOMAIN s = 1 .. Len(s)
         /\ \A i \in 1 .. Len(s) : s[i] \in site.rows /\ s[i] \in Rows
<1>1. PICK n \in 1 .. site.batchSize : s \in [1 .. n -> site.rows]
  BY DEF Batches
<1>2. n \in Nat \ {0} /\ site.rows \subseteq Rows
  BY SiteTyped, <1>1
<1>3. s \in [1 .. n -> Rows]
  BY <1>1, <1>2
<1>4. s \in Seq(Rows) /\ Len(s) = n
  BY <1>2, <1>3
<1> QED BY <1>1, <1>2, <1>4

\* A rank is smaller than the times there are, and the first one is 0.
LEMMA RankTyped ==
  ASSUME TypeOK, NEW c \in Cycles, stamp[c] = 0
  PROVE  /\ \A t : Rank(t) \in 0 .. Cardinality(Rows) + Cardinality(Cycles)
         /\ Now \in 0 .. Cardinality(Rows) + Cardinality(Cycles)
         /\ Rank(0) = 0
<1> DEFINE U == {updated[r] : r \in Rows}
           S == {stamp[d] : d \in Cycles}
<1>1. IsFiniteSet(Rows) /\ IsFiniteSet(Cycles)
  BY RowAssumption, InstallationAssumption
<1>2. /\ Cardinality(Rows) \in Nat /\ Cardinality(Cycles) \in Nat
  BY <1>1, FS_CardinalityType
<1>3. /\ IsFiniteSet(U) /\ Cardinality(U) <= Cardinality(Rows)
  <2>1. updated \in Surjection(Rows, U)
    BY DEF Surjection, TypeOK
  <2> QED BY <1>1, <2>1, FS_Surjection
<1>4. /\ IsFiniteSet(S) /\ Cardinality(S) <= Cardinality(Cycles)
  <2>1. stamp \in Surjection(Cycles, S)
    BY DEF Surjection, TypeOK
  <2> QED BY <1>1, <2>1, FS_Surjection
<1>5. /\ IsFiniteSet(U \cup S)
      /\ Cardinality(U \cup S) <= Cardinality(Rows) + Cardinality(Cycles)
  <2> HIDE DEF U, S
  <2>1. /\ IsFiniteSet(U \cup S) /\ IsFiniteSet(U \cap S)
        /\ Cardinality(U \cup S) = Cardinality(U) + Cardinality(S) - Cardinality(U \cap S)
    BY <1>3, <1>4, FS_Union, FS_Intersection
  <2>2. {Cardinality(U), Cardinality(S), Cardinality(U \cap S)} \subseteq Nat
    BY <1>3, <1>4, <2>1, FS_CardinalityType
  <2> QED BY <1>2, <1>3, <1>4, <2>1, <2>2
<1>6. Times = U \cup S
  BY DEF Times
<1> HIDE DEF U, S
<1>7. \A T \in SUBSET Times : Cardinality(T) \in 0 .. Cardinality(Rows) + Cardinality(Cycles)
  <2> SUFFICES ASSUME NEW T \in SUBSET Times
               PROVE  Cardinality(T) \in 0 .. Cardinality(Rows) + Cardinality(Cycles)
    OBVIOUS
  <2>1. IsFiniteSet(T) /\ Cardinality(T) <= Cardinality(U \cup S)
    BY <1>5, <1>6, FS_Subset
  <2>2. Cardinality(T) \in Nat /\ Cardinality(U \cup S) \in Nat
    BY <1>5, <2>1, FS_CardinalityType
  <2> QED BY <1>2, <1>5, <2>1, <2>2
<1>8. \A t : Rank(t) \in 0 .. Cardinality(Rows) + Cardinality(Cycles)
  BY <1>7 DEF Rank
<1>9. Now \in 0 .. Cardinality(Rows) + Cardinality(Cycles)
  <2>1. Times \cup {0} = Times
    BY DEF Times
  <2> QED BY <1>7, <2>1 DEF Now
<1>10. Rank(0) = 0
  <2>1. \A t \in Times : t \in Nat
    BY <1>2 DEF Times, TypeOK
  <2>2. {t \in Times : t < 0} = {}
    BY <2>1
  <2> QED BY <2>2, FS_EmptySet DEF Rank
<1> QED BY <1>8, <1>9, <1>10

\* A cycle that takes the time changes nothing about who audited what.
LEMMA Reranked ==
  ASSUME TypeOK, NEW c \in Cycles, stamp[c] = 0, TakeTime(c)
  PROVE  /\ updated' \in [Rows -> 0 .. Cardinality(Rows) + Cardinality(Cycles)]
         /\ stamp' \in [Cycles -> 0 .. Cardinality(Rows) + Cardinality(Cycles)]
         /\ audited' \subseteq Rows \X (0 .. Cardinality(Rows) + Cardinality(Cycles))
         /\ \A r \in Rows : <<r, updated[r]>> \in audited => <<r, updated'[r]>> \in audited'
         /\ \A d \in Cycles \ {c} :
              /\ stamp[d] = 0 => stamp'[d] = 0
              /\ \A r : <<r, stamp[d]>> \in audited => <<r, stamp'[d]>> \in audited'
<1>1. /\ \A t : Rank(t) \in 0 .. Cardinality(Rows) + Cardinality(Cycles)
      /\ Now \in 0 .. Cardinality(Rows) + Cardinality(Cycles)
      /\ Rank(0) = 0
  BY RankTyped
<1>2. \A r, t : <<r, t>> \in audited /\ t \in Times => <<r, Rank(t)>> \in audited'
  <2> SUFFICES ASSUME NEW r, NEW t, <<r, t>> \in audited, t \in Times
               PROVE  <<r, Rank(t)>> \in audited'
    OBVIOUS
  <2> DEFINE a == <<r, t>>
  <2>1. a[1] = r /\ a[2] = t
    OBVIOUS
  <2>2. a \in {b \in audited : b[2] \in Times}
    BY <2>1
  <2> QED BY <2>1, <2>2 DEF TakeTime
<1>3. /\ \A r \in Rows : updated[r] \in Times /\ updated'[r] = Rank(updated[r])
      /\ \A d \in Cycles \ {c} : stamp[d] \in Times /\ stamp'[d] = Rank(stamp[d])
  BY DEF Times, TakeTime
<1>4. audited' \subseteq Rows \X (0 .. Cardinality(Rows) + Cardinality(Cycles))
  BY <1>1 DEF TakeTime, TypeOK
<1>5. /\ updated' \in [Rows -> 0 .. Cardinality(Rows) + Cardinality(Cycles)]
      /\ stamp' \in [Cycles -> 0 .. Cardinality(Rows) + Cardinality(Cycles)]
  BY <1>1 DEF TakeTime
<1> QED BY <1>1, <1>2, <1>3, <1>4, <1>5

-----------------------------------------------------------------------------

\* At first nothing is enabled and no cycle has anything.
LEMMA InitRecheck == Init => RecheckInv
<1> SUFFICES ASSUME Init PROVE RecheckInv
  OBVIOUS
<1>1. Cardinality(Rows) \in Nat /\ Cardinality(Cycles) \in Nat /\ MaxFaults \in Nat
  BY RowAssumption, InstallationAssumption, BoundAssumption, FS_CardinalityType
<1>2. \A r \in Rows : catalog[r] \in Listed \cup {"missing"}
  BY InstallationAssumption DEF Init, Listed
<1>3. TypeOK
  BY <1>1, <1>2 DEF Init, TypeOK
<1>4. Enabled = {}
  BY SiteTyped DEF Init, Enabled
<1> QED BY <1>3, <1>4 DEF Init, RecheckInv, RouteReady, EnabledAsAudited, InPlace,
           DeniedBefore, FileInOrder, AuditedAlone

\* There is a row of the batch for every answer.
LEMMA AnswersTyped ==
  ASSUME TypeOK, NEW d \in Cycles, InPlace(d)
  PROVE  \A i \in DOMAIN answers[d] : i \in DOMAIN batch[d] /\ batch[d][i] \in Rows
<1>1. CASE pc[d] = "idle"
  <2>1. DOMAIN answers[d] = {}
    BY <1>1 DEF InPlace
  <2> QED BY <2>1
<1>2. CASE pc[d] # "idle"
  <2>1. /\ DOMAIN batch[d] = 1 .. Len(batch[d]) /\ Len(batch[d]) \in Nat
        /\ \A i \in 1 .. Len(batch[d]) : batch[d][i] \in Rows
    BY <1>2, BatchTyped DEF InPlace, TypeOK
  <2>2. DOMAIN answers[d] = 1 .. Len(answers[d]) /\ Len(answers[d]) \in Nat
    BY DEF TypeOK
  <2>3. Len(answers[d]) <= Len(batch[d])
    BY <1>2 DEF InPlace
  <2> QED BY <2>1, <2>2, <2>3
<1> QED BY <1>1, <1>2

\* A file holds rows with statements.
LEMMA TodoTyped ==
  ASSUME TypeOK, NEW d \in Cycles
  PROVE  /\ todo[d] \in Seq([row : Rows, statement : Statements])
         /\ DOMAIN todo[d] = 1 .. Len(todo[d]) /\ Len(todo[d]) \in Nat
         /\ \A i \in DOMAIN todo[d] :
              /\ todo[d][i] \in [row : Rows, statement : Statements]
              /\ todo[d][i].row \in Rows /\ todo[d][i].statement \in Statements
<1> DEFINE R == [row : Rows, statement : Statements]
<1>1. todo[d] \in Seq(R)
  BY DEF TypeOK
<1> HIDE DEF R
<1>2. DOMAIN todo[d] = 1 .. Len(todo[d]) /\ Len(todo[d]) \in Nat
  BY <1>1
<1>3. \A i \in DOMAIN todo[d] : todo[d][i] \in R
  BY <1>1
<1> USE DEF R
<1> QED BY <1>1, <1>2, <1>3

\* What is not empty has a first entry.
LEMMA HeadThere ==
  ASSUME NEW R, NEW t \in Seq(R), t # <<>>
  PROVE  1 \in DOMAIN t
<1>1. Len(t) \in Nat /\ Len(t) # 0 /\ DOMAIN t = 1 .. Len(t)
  OBVIOUS
<1> QED BY <1>1

\* What others do leaves a cycle where it is, and what it has true.
LEMMA OthersKeep ==
  ASSUME RecheckInv, NEW d \in Cycles, UNCHANGED site,
         pc'[d] = pc[d], batch'[d] = batch[d], answers'[d] = answers[d], todo'[d] = todo[d],
         stamp[d] = 0 => stamp'[d] = 0,
         \A r : <<r, stamp[d]>> \in audited => <<r, stamp'[d]>> \in audited',
         target \subseteq target',
         \A r \in Rows : Denied(d, r) => Denied(d, r)'
  PROVE  InPlace(d)' /\ DeniedBefore(d)' /\ FileInOrder(d)'
<1>1. InPlace(d) /\ DeniedBefore(d) /\ FileInOrder(d) /\ TypeOK
  BY DEF RecheckInv, RouteReady
<1>2. Batches' = Batches /\ Local' = Local /\ Cron' = Cron
  BY DEF Batches, Local, Cron, Daily, Manual
<1>3. InPlace(d)'
  BY <1>1, <1>2 DEF InPlace
<1>4. FileInOrder(d)'
  BY <1>1 DEF FileInOrder
<1>5. \A i \in DOMAIN answers[d] : i \in DOMAIN batch[d] /\ batch[d][i] \in Rows
  BY <1>1, AnswersTyped
<1>6. \A i \in DOMAIN todo[d] : todo[d][i].row \in Rows
  BY <1>1, TodoTyped
<1>7. DeniedBefore(d)'
  BY <1>1, <1>5, <1>6 DEF DeniedBefore, Denied
<1> QED BY <1>3, <1>4, <1>7

\* A cycle that is not one of the installation's never starts.
LEMMA OnlyOne ==
  ASSUME RecheckInv, \A c, d \in Local \cup Cron : c = d, NEW c \in Local \cup Cron,
         NEW d \in Cycles, d # c
  PROVE  pc[d] = "idle" /\ todo[d] = <<>>
<1>1. pc[d] \in {"idle", "fetch", "execute", "persist"} /\ InPlace(d)
  BY DEF RecheckInv, RouteReady, TypeOK
<1>2. d \notin Local \cup Cron
  OBVIOUS
<1> QED BY <1>1, <1>2 DEF InPlace

\* A cycle starts, asks or ends, D1 stays as it is.
LEMMA QuietStep ==
  ASSUME RecheckInv, NEW c \in Local \cup Cron, UNCHANGED <<site, d1>>,
         \A d \in Cycles \ {c} :
           /\ pc'[d] = pc[d] /\ batch'[d] = batch[d] /\ answers'[d] = answers[d]
           /\ todo'[d] = todo[d] /\ stamp'[d] = stamp[d],
         \A d \in Cycles \ {c}, r \in Rows : Denied(d, r) => Denied(d, r)',
         TypeOK', todo'[c] = <<>>, InPlace(c)', DeniedBefore(c)'
  PROVE  RecheckInv'
<1>1. c \in Cycles
  BY SiteTyped DEF RecheckInv, RouteReady, TypeOK
<1>2. Enabled' = Enabled /\ Local' = Local /\ Cron' = Cron
  BY DEF Enabled, d1, Local, Cron, Daily, Manual
<1>3. RouteReady' /\ EnabledAsAudited'
  BY <1>2 DEF RecheckInv, RouteReady, EnabledAsAudited, d1
<1>4. \A d \in Cycles \ {c} : InPlace(d)' /\ DeniedBefore(d)' /\ FileInOrder(d)'
  BY OthersKeep DEF d1
<1>5. FileInOrder(c)'
  <2>1. DOMAIN todo'[c] = {}
    OBVIOUS
  <2> QED BY <2>1 DEF FileInOrder
<1>6. ASSUME (\A b, d \in Local \cup Cron : b = d)', NEW d \in Cycles PROVE AuditedAlone(d)'
  <2>1. CASE d = c
    BY <2>1 DEF AuditedAlone
  <2>2. CASE d # c
    <3>1. todo[d] = <<>>
      BY <1>2, <1>6, <2>2, OnlyOne
    <3> QED BY <2>2, <3>1 DEF AuditedAlone
  <2> QED BY <2>1, <2>2
<1> QED BY <1>1, <1>3, <1>4, <1>5, <1>6 DEF RecheckInv

\* A cycle that ends leaves well-typed variables.
LEMMA ReturnTyped ==
  ASSUME TypeOK, NEW c \in Cycles, Return(c)
  PROVE  /\ pc' \in [Cycles -> {"idle", "fetch", "execute", "persist"}]
         /\ batch' \in [Cycles -> Seq(Rows)] /\ answers' \in [Cycles -> Seq(Outcomes)]
         /\ stamp' \in [Cycles -> 0 .. Cardinality(Rows) + Cardinality(Cycles)]
         /\ todo' \in [Cycles -> Seq([row : Rows, statement : Statements])]
<1> DEFINE R == [row : Rows, statement : Statements]
<1>1. 0 \in 0 .. Cardinality(Rows) + Cardinality(Cycles)
  BY FS_CardinalityType, RowAssumption, InstallationAssumption
<1>2. todo \in [Cycles -> Seq(R)]
  BY DEF TypeOK
<1>3. stamp' \in [Cycles -> 0 .. Cardinality(Rows) + Cardinality(Cycles)]
  BY <1>1 DEF Return, TypeOK
<1>4. pc' \in [Cycles -> {"idle", "fetch", "execute", "persist"}]
  BY DEF Return, Goto, TypeOK
<1>5. batch' \in [Cycles -> Seq(Rows)] /\ answers' \in [Cycles -> Seq(Outcomes)]
  BY DEF Return, TypeOK
<1> HIDE DEF R
<1>6. todo' \in [Cycles -> Seq(R)]
  BY <1>2 DEF Return
<1> QED BY <1>3, <1>4, <1>5, <1>6 DEF R

\* A cycle that ends, or dies, leaves nothing it would have to answer for.
LEMMA ReturnKeeps ==
  ASSUME RecheckInv, NEW c \in Local \cup Cron, Return(c),
         UNCHANGED <<site, d1, catalog>>,
         faults' \in 0 .. MaxFaults
  PROVE  RecheckInv'
<1>1. TypeOK /\ c \in Cycles
  BY SiteTyped DEF RecheckInv, RouteReady, TypeOK
<1>2. /\ pc'[c] = "idle" /\ batch'[c] = <<>> /\ answers'[c] = <<>> /\ todo'[c] = <<>>
      /\ stamp'[c] = 0
      /\ \A d \in Cycles \ {c} :
           /\ pc'[d] = pc[d] /\ batch'[d] = batch[d] /\ answers'[d] = answers[d]
           /\ todo'[d] = todo[d] /\ stamp'[d] = stamp[d]
  BY <1>1 DEF Return, Goto, TypeOK
<1>4. TypeOK'
  BY <1>1, ReturnTyped DEF TypeOK, d1, Return
<1>5. InPlace(c)' /\ DeniedBefore(c)'
  BY <1>2 DEF InPlace, DeniedBefore
<1>6. \A d \in Cycles \ {c}, r \in Rows : Denied(d, r) => Denied(d, r)'
  BY DEF Denied, Return
<1> QED BY <1>2, <1>4, <1>5, <1>6, QuietStep

\* Select and SelectScoped
LEMMA SelectKeeps ==
  ASSUME RecheckInv, NEW c \in Local, Select(c) \/ SelectScoped(c)
  PROVE  RecheckInv'
<1>1. TypeOK /\ c \in Cycles /\ InPlace(c)
  BY SiteTyped DEF RecheckInv, RouteReady, TypeOK
<1>2. PICK s \in Batches :
        /\ pc[c] = "idle" /\ batch' = [batch EXCEPT ![c] = s] /\ Goto(c, "fetch")
        /\ UNCHANGED <<site, d1, catalog, misread, answers, stamp, todo, faults>>
  BY DEF Select, SelectScoped, FirstRows
<1>3. s \in Seq(Rows) /\ Len(s) \in Nat
  BY <1>1, BatchTyped DEF TypeOK
<1>4. /\ pc'[c] = "fetch" /\ batch'[c] = s /\ answers'[c] = <<>> /\ todo'[c] = <<>>
      /\ stamp'[c] = 0
      /\ \A d \in Cycles \ {c} :
           /\ pc'[d] = pc[d] /\ batch'[d] = batch[d] /\ answers'[d] = answers[d]
           /\ todo'[d] = todo[d] /\ stamp'[d] = stamp[d]
  BY <1>1, <1>2 DEF Goto, TypeOK, InPlace
<1>5. TypeOK'
  BY <1>1, <1>2, <1>3 DEF Goto, TypeOK, d1
<1>6. InPlace(c)'
  BY <1>2, <1>3, <1>4 DEF InPlace, Batches, Local, Daily, Manual
<1>7. DeniedBefore(c)'
  BY <1>4 DEF DeniedBefore
<1>8. \A d \in Cycles \ {c}, r \in Rows : Denied(d, r) => Denied(d, r)'
  BY <1>2 DEF Denied
<1> QED BY <1>2, <1>4, <1>5, <1>6, <1>7, <1>8, QuietStep

\* Fetch, FetchFails, CronFetch and CronFetchFails
LEMMA AskKeeps ==
  ASSUME RecheckInv, NEW c \in Local \cup Cron, NEW answer \in Outcomes, Ask(c, answer),
         \/ c \in Local /\ pc' = pc
         \/ c \in Cron /\ Goto(c, "persist"),
         misread \subseteq misread', misread' \subseteq Cycles \X Rows,
         faults' \in 0 .. MaxFaults,
         answer = "NOT_AVAILABLE" =>
           catalog[Asked(c)] # "listed" \/ <<c, Asked(c)>> \in misread',
         UNCHANGED <<site, d1, catalog, batch, stamp, todo>>
  PROVE  RecheckInv'
<1>1. TypeOK /\ c \in Cycles /\ InPlace(c) /\ DeniedBefore(c)
  BY SiteTyped DEF RecheckInv, RouteReady, TypeOK
<1>2. /\ pc[c] = "fetch" /\ Len(answers[c]) < Len(batch[c])
      /\ answers' = [answers EXCEPT ![c] = Append(answers[c], answer)]
  BY DEF Ask
<1>3. /\ answers[c] \in Seq(Outcomes) /\ Len(answers[c]) \in Nat
      /\ Append(answers[c], answer) \in Seq(Outcomes)
  BY <1>1 DEF TypeOK
<1>4. /\ answers'[c] = Append(answers[c], answer) /\ todo'[c] = <<>>
      /\ \A d \in Cycles \ {c} :
           /\ pc'[d] = pc[d] /\ batch'[d] = batch[d] /\ answers'[d] = answers[d]
           /\ todo'[d] = todo[d] /\ stamp'[d] = stamp[d]
  BY <1>1, <1>2 DEF Goto, TypeOK, InPlace
<1>5. TypeOK'
  <2>1. pc' \in [Cycles -> {"idle", "fetch", "execute", "persist"}]
    BY <1>1 DEF Goto, TypeOK
  <2>2. answers' \in [Cycles -> Seq(Outcomes)]
    BY <1>1, <1>2, <1>3 DEF TypeOK
  <2> QED BY <1>1, <2>1, <2>2 DEF TypeOK, d1
<1>6. batch[c] \in Batches /\ Len(batch[c]) \in Nat
  BY <1>1, <1>2, BatchTyped DEF InPlace, TypeOK
<1>7. /\ Len(answers'[c]) = Len(answers[c]) + 1 /\ answers'[c] # <<>>
      /\ DOMAIN answers'[c] = DOMAIN answers[c] \cup {Len(answers[c]) + 1}
      /\ \A i \in DOMAIN answers[c] : answers'[c][i] = answers[c][i]
      /\ answers'[c][Len(answers[c]) + 1] = answer
  BY <1>3, <1>4
<1>8. InPlace(c)'
  <2>1. Batches' = Batches /\ Local' = Local /\ Cron' = Cron /\ Local \cap Cron = {}
    BY <1>1, SiteTyped DEF Batches, Local, Cron, Daily, Manual, TypeOK
  <2>2. pc'[c] = IF c \in Local THEN "fetch" ELSE "persist"
    BY <1>1, <1>2, <2>1 DEF Goto, TypeOK
  <2>3. c \in Local => stamp'[c] = 0
    BY <1>1, <1>2, <2>1 DEF InPlace
  <2> QED BY <1>2, <1>3, <1>4, <1>6, <1>7, <2>1, <2>2, <2>3 DEF InPlace
<1>9. DeniedBefore(c)'
  <2>1. batch'[c][Len(answers[c]) + 1] = Asked(c) /\ batch'[c] = batch[c]
    BY DEF Asked
  <2>2. \A i \in DOMAIN answers[c] : batch[c][i] \in Rows
    BY <1>1, AnswersTyped
  <2> QED BY <1>1, <1>4, <1>7, <2>1, <2>2 DEF DeniedBefore, Denied
<1>10. \A d \in Cycles \ {c}, r \in Rows : Denied(d, r) => Denied(d, r)'
  BY DEF Denied
<1> QED BY <1>4, <1>5, <1>8, <1>9, <1>10, QuietStep

\* No change of the catalogue makes a missing item "listed" again.
LEMMA CatalogKeeps ==
  ASSUME RecheckInv, NEW r \in Rows, CatalogChanges(r)
  PROVE  RecheckInv'
<1>1. TypeOK
  BY DEF RecheckInv, RouteReady
<1>2. /\ \A d \in Cycles, s \in Rows : Denied(d, s) => Denied(d, s)'
      /\ catalog' \in [Rows -> Listed \cup {"missing"}]
  BY <1>1 DEF CatalogChanges, TypeOK, Listed, Denied
<1>3. TypeOK'
  BY <1>1, <1>2 DEF CatalogChanges, TypeOK, d1
<1>4. Enabled' = Enabled /\ Local' = Local /\ Cron' = Cron
  BY DEF CatalogChanges, Enabled, d1, Local, Cron, Daily, Manual
<1>5. RouteReady' /\ EnabledAsAudited'
  BY <1>3, <1>4 DEF CatalogChanges, RecheckInv, RouteReady, EnabledAsAudited, d1
<1>6. \A d \in Cycles : InPlace(d)' /\ DeniedBefore(d)' /\ FileInOrder(d)'
  BY <1>2, OthersKeep DEF CatalogChanges, d1
<1>7. \A d \in Cycles : AuditedAlone(d) => AuditedAlone(d)'
  BY <1>4 DEF CatalogChanges, AuditedAlone, d1
<1> QED BY <1>4, <1>5, <1>6, <1>7 DEF RecheckInv

\* The time is taken: by Prepare, after which there is a file, and by
\* SelectOldest.
LEMMA TimeKeeps ==
  ASSUME RecheckInv, NEW c \in Local \cup Cron, stamp[c] = 0, TakeTime(c),
         UNCHANGED <<site, status, target, valid, catalog, misread>>,
         \A d \in Cycles \ {c} :
           /\ pc'[d] = pc[d] /\ batch'[d] = batch[d] /\ answers'[d] = answers[d]
           /\ todo'[d] = todo[d],
         TypeOK', InPlace(c)', DeniedBefore(c)', FileInOrder(c)',
         \A i \in DOMAIN todo'[c] : todo'[c][i].statement \in {"target", "disable"}
  PROVE  RecheckInv'
<1>1. c \in Cycles /\ TypeOK
  BY SiteTyped DEF RecheckInv, RouteReady, TypeOK
<1>2. /\ \A r \in Rows : <<r, updated[r]>> \in audited => <<r, updated'[r]>> \in audited'
      /\ \A d \in Cycles \ {c} :
           /\ stamp[d] = 0 => stamp'[d] = 0
           /\ \A r : <<r, stamp[d]>> \in audited => <<r, stamp'[d]>> \in audited'
  BY <1>1, Reranked
<1>3. /\ Enabled' = Enabled /\ Local' = Local /\ Cron' = Cron
      /\ Enabled \subseteq Rows
  BY <1>1, SiteTyped DEF Enabled, Local, Cron, Daily, Manual, TypeOK
<1>4. RouteReady' /\ EnabledAsAudited'
  BY <1>2, <1>3 DEF RecheckInv, RouteReady, EnabledAsAudited
<1>5. \A d \in Cycles \ {c} : InPlace(d)' /\ DeniedBefore(d)' /\ FileInOrder(d)'
  <2>1. \A d \in Cycles, r \in Rows : Denied(d, r) => Denied(d, r)'
    BY DEF Denied
  <2> QED BY <1>2, <2>1, OthersKeep
<1>6. ASSUME (\A b, d \in Local \cup Cron : b = d)', NEW d \in Cycles PROVE AuditedAlone(d)'
  <2>1. CASE d = c
    <3>1. todo'[c] # <<>> => 1 \in DOMAIN todo'[c]
      <4> DEFINE R == [row : Rows, statement : Statements]
      <4>1. todo'[c] \in Seq(R)
        BY <1>1 DEF TypeOK
      <4> HIDE DEF R
      <4> QED BY <4>1, HeadThere
    <3> QED BY <2>1, <3>1 DEF AuditedAlone
  <2>2. CASE d # c
    <3>1. todo[d] = <<>>
      BY <1>3, <1>6, <2>2, OnlyOne
    <3> QED BY <2>2, <3>1 DEF AuditedAlone
  <2> QED BY <2>1, <2>2
<1> QED BY <1>4, <1>5, <1>6 DEF RecheckInv

\* A file starts with each row at its first statement, as its answer says.
LEMMA PrepareKeeps ==
  ASSUME RecheckInv, NEW c \in Local, Prepare(c)
  PROVE  RecheckInv'
<1>1. TypeOK /\ c \in Cycles /\ InPlace(c) /\ DeniedBefore(c) /\ Local \cap Cron = {}
  BY SiteTyped DEF RecheckInv, RouteReady, TypeOK
<1>2. /\ pc[c] = "fetch" /\ Len(answers[c]) = Len(batch[c]) /\ stamp[c] = 0
      /\ batch[c] \in Batches
  BY <1>1 DEF Prepare, InPlace
<1>3. /\ DOMAIN batch[c] = 1 .. Len(batch[c]) /\ Len(batch[c]) \in Nat
      /\ \A i \in 1 .. Len(batch[c]) : batch[c][i] \in site.rows /\ batch[c][i] \in Rows
  BY <1>1, <1>2, BatchTyped DEF TypeOK
<1>4. /\ DOMAIN answers[c] = DOMAIN batch[c]
      /\ \A i \in DOMAIN batch[c] : answers[c][i] \in Outcomes
  BY <1>1, <1>2, <1>3 DEF TypeOK
<1>5. /\ DOMAIN File(c) = DOMAIN batch[c]
      /\ \A i \in DOMAIN batch[c] :
           /\ File(c)[i].row = batch[c][i] /\ File(c)[i].statement = First(answers[c][i])
           /\ File(c)[i] \in [row : Rows, statement : Statements]
  BY <1>3 DEF File, First, Statements
<1>6. /\ pc'[c] = "execute" /\ todo'[c] = File(c)
      /\ \A d \in Cycles \ {c} :
           /\ pc'[d] = pc[d] /\ batch'[d] = batch[d] /\ answers'[d] = answers[d]
           /\ todo'[d] = todo[d]
  BY <1>1 DEF Prepare, Goto, TypeOK
<1>7. File(c) \in Seq([row : Rows, statement : Statements])
  <2> DEFINE R == [row : Rows, statement : Statements]
  <2>1. File(c) \in [1 .. Len(batch[c]) -> R]
    BY <1>3, <1>5 DEF File
  <2> HIDE DEF R
  <2>2. File(c) \in Seq(R)
    BY <1>3, <2>1
  <2> QED BY <2>2 DEF R
<1>8. TypeOK'
  <2> DEFINE R == Seq([row : Rows, statement : Statements])
  <2>1. todo' \in [Cycles -> R]
    <3>1. todo \in [Cycles -> R] /\ File(c) \in R
      BY <1>1, <1>7 DEF TypeOK
    <3> HIDE DEF R
    <3> QED BY <3>1 DEF Prepare
  <2>2. pc' \in [Cycles -> {"idle", "fetch", "execute", "persist"}]
    BY <1>1 DEF Prepare, Goto, TypeOK
  <2>3. /\ updated' \in [Rows -> 0 .. Cardinality(Rows) + Cardinality(Cycles)]
        /\ stamp' \in [Cycles -> 0 .. Cardinality(Rows) + Cardinality(Cycles)]
        /\ audited' \subseteq Rows \X (0 .. Cardinality(Rows) + Cardinality(Cycles))
    BY <1>1, <1>2, Reranked DEF Prepare
  <2> QED BY <1>1, <2>1, <2>2, <2>3 DEF Prepare, TypeOK
<1>9. InPlace(c)'
  BY <1>2, <1>6 DEF Prepare, InPlace, Batches, Local, Daily, Manual
<1>10. FileInOrder(c)'
  <2>1. \A i \in DOMAIN todo'[c] :
          todo'[c][i].row \in site.rows /\ todo'[c][i].statement \in {"target", "disable"}
    BY <1>3, <1>5, <1>6 DEF First
  <2>2. site' = site
    BY DEF Prepare
  <2> QED BY <2>1, <2>2 DEF FileInOrder
<1>11. DeniedBefore(c)'
  <2>1. /\ catalog' = catalog /\ misread' = misread
        /\ batch' = batch /\ answers' = answers
    BY DEF Prepare
  <2>2. \A i \in DOMAIN batch[c] : answers[c][i] # "UNCONFIRMED"
    BY <1>4 DEF Prepare, Unconfirmed
  <2>3. \A i \in DOMAIN batch[c] :
          File(c)[i].statement = "disable" => answers[c][i] = "NOT_AVAILABLE"
    BY <1>4, <1>5, <2>2 DEF First, Outcomes
  <2>4. \A i \in DOMAIN answers[c] :
          answers[c][i] = "NOT_AVAILABLE" => Denied(c, batch[c][i])
    BY <1>1 DEF DeniedBefore
  <2>5. \A r : Denied(c, r)' <=> Denied(c, r)
    BY <2>1 DEF Denied
  <2>6. \A i \in DOMAIN File(c) :
          File(c)[i].statement = "disable" => Denied(c, File(c)[i].row)
    BY <1>4, <1>5, <2>3, <2>4
  <2> QED BY <1>6, <2>1, <2>4, <2>5, <2>6 DEF DeniedBefore
<1>12. \A i \in DOMAIN todo'[c] : todo'[c][i].statement \in {"target", "disable"}
  BY <1>5, <1>6 DEF First
<1> QED BY <1>2, <1>6, <1>8, <1>9, <1>10, <1>11, <1>12, TimeKeeps DEF Prepare

\* The worker starts a cycle.
LEMMA OldestKeeps ==
  ASSUME RecheckInv, NEW c \in Cron, SelectOldest(c)
  PROVE  RecheckInv'
<1>1. TypeOK /\ c \in Cycles /\ InPlace(c)
  BY SiteTyped DEF RecheckInv, RouteReady, TypeOK
<1>2. /\ pc[c] = "idle" /\ stamp[c] = 0 /\ answers[c] = <<>> /\ todo[c] = <<>>
  BY <1>1 DEF SelectOldest, InPlace
<1>3. PICK s \in Batches : batch' = [batch EXCEPT ![c] = s]
  BY DEF SelectOldest, FirstRows
<1>4. s \in Seq(Rows) /\ Len(s) \in Nat \ {0}
  BY <1>1, BatchTyped DEF TypeOK
<1>5. /\ pc'[c] = "fetch" /\ batch'[c] = s /\ answers'[c] = <<>> /\ todo'[c] = <<>>
      /\ \A d \in Cycles \ {c} :
           /\ pc'[d] = pc[d] /\ batch'[d] = batch[d] /\ answers'[d] = answers[d]
           /\ todo'[d] = todo[d]
  BY <1>1, <1>2, <1>3 DEF SelectOldest, Goto, TypeOK
<1>6. TypeOK'
  <2>1. batch' \in [Cycles -> Seq(Rows)]
    BY <1>1, <1>3, <1>4 DEF TypeOK
  <2>2. pc' \in [Cycles -> {"idle", "fetch", "execute", "persist"}]
    BY <1>1 DEF SelectOldest, Goto, TypeOK
  <2>3. /\ updated' \in [Rows -> 0 .. Cardinality(Rows) + Cardinality(Cycles)]
        /\ stamp' \in [Cycles -> 0 .. Cardinality(Rows) + Cardinality(Cycles)]
        /\ audited' \subseteq Rows \X (0 .. Cardinality(Rows) + Cardinality(Cycles))
    BY <1>1, <1>2, Reranked DEF SelectOldest
  <2> QED BY <1>1, <2>1, <2>2, <2>3 DEF SelectOldest, TypeOK
<1>7. InPlace(c)'
  BY <1>4, <1>5 DEF SelectOldest, InPlace, Batches, Cron
<1>8. DOMAIN answers'[c] = {} /\ DOMAIN todo'[c] = {}
  BY <1>5
<1>9. DeniedBefore(c)' /\ FileInOrder(c)'
  BY <1>8 DEF DeniedBefore, FileInOrder
<1> QED BY <1>2, <1>5, <1>6, <1>7, <1>8, <1>9, TimeKeeps DEF SelectOldest

\* A cycle writes a row.
LEMMA WriteKeeps ==
  ASSUME RecheckInv, NEW c \in Local \cup Cron,
         UNCHANGED <<site, catalog>>,
         \A d \in Cycles \ {c}, r \in Rows : Denied(d, r) => Denied(d, r)',
         \A d \in Cycles \ {c} :
           /\ pc'[d] = pc[d] /\ batch'[d] = batch[d] /\ answers'[d] = answers[d]
           /\ todo'[d] = todo[d] /\ stamp'[d] = stamp[d],
         target \subseteq target', audited \subseteq audited',
         RouteReady', InPlace(c)', DeniedBefore(c)', FileInOrder(c)',
         (\A b, d \in Local \cup Cron : b = d) => Enabled' \subseteq valid' /\ AuditedAlone(c)'
  PROVE  RecheckInv'
<1>1. Local' = Local /\ Cron' = Cron
  BY DEF Local, Cron, Daily, Manual
<1>2. EnabledAsAudited'
  BY <1>1 DEF EnabledAsAudited
<1>3. \A d \in Cycles \ {c} : InPlace(d)' /\ DeniedBefore(d)' /\ FileInOrder(d)'
  BY OthersKeep
<1>4. ASSUME (\A b, d \in Local \cup Cron : b = d)', NEW d \in Cycles PROVE AuditedAlone(d)'
  <2>1. CASE d = c
    BY <1>1, <1>4, <2>1
  <2>2. CASE d # c
    <3>1. todo[d] = <<>>
      BY <1>1, <1>4, <2>2, OnlyOne
    <3> QED BY <2>2, <3>1 DEF AuditedAlone
  <2> QED BY <2>1, <2>2
<1> QED BY <1>2, <1>3, <1>4 DEF RecheckInv

\* The worker writes target, audit and row in one batch.
LEMMA PersistKeeps ==
  ASSUME RecheckInv, NEW c \in Cron, Persist(c)
  PROVE  RecheckInv'
<1> DEFINE row == batch[c][Len(answers[c])]
           answer == answers[c][Len(answers[c])]
<1>1. TypeOK /\ c \in Cycles /\ InPlace(c) /\ DeniedBefore(c) /\ FileInOrder(c)
  BY SiteTyped DEF RecheckInv, RouteReady, TypeOK
<1>2. /\ pc[c] = "persist" /\ batch[c] \in Batches /\ todo[c] = <<>>
      /\ answers[c] # <<>> /\ Len(answers[c]) <= Len(batch[c])
  BY <1>1 DEF Persist, InPlace
<1>3. /\ Len(answers[c]) \in DOMAIN answers[c] /\ Len(answers[c]) \in Nat
      /\ answer \in Outcomes
  BY <1>1, <1>2 DEF TypeOK
<1>4. row \in site.rows /\ row \in Rows /\ Len(batch[c]) \in Nat
  BY <1>1, <1>2, <1>3, BatchTyped DEF TypeOK
<1> HIDE DEF row, answer
<1>5. /\ IF answer = "VALID" THEN PersistValid(c, row) ELSE PersistBlocked(c, row, answer)
      /\ updated' = [updated EXCEPT ![row] = stamp[c]]
      /\ UNCHANGED <<site, catalog, faults>>
      /\ \/ /\ Len(answers[c]) < Len(batch[c])
            /\ Goto(c, "fetch") /\ UNCHANGED <<batch, answers, stamp, todo, misread>>
         \/ Return(c)
  BY DEF Persist, row, answer
<1>6. /\ status' = [status EXCEPT ![row] =
                      IF answer = "VALID" THEN "PASS" ELSE Verification(answer)]
      /\ target' = IF answer = "VALID" THEN target \cup {row} ELSE target
      /\ valid' = IF answer = "VALID" THEN valid \cup {row} ELSE valid \ {row}
      /\ audited' = IF answer = "VALID" THEN audited \cup {<<row, stamp[c]>>} ELSE audited
  BY <1>5 DEF PersistValid, PersistBlocked
<1>7. /\ \A d \in Cycles \ {c} :
           /\ pc'[d] = pc[d] /\ batch'[d] = batch[d] /\ answers'[d] = answers[d]
           /\ todo'[d] = todo[d] /\ stamp'[d] = stamp[d]
      /\ todo'[c] = <<>>
  BY <1>1, <1>2, <1>5 DEF Return, Goto, TypeOK
<1>8. TypeOK'
  <2>1. /\ status' \in [Rows -> {"PASS", "PENDING", "FAILED"}] /\ target' \subseteq Rows
        /\ valid' \subseteq Rows
        /\ updated' \in [Rows -> 0 .. Cardinality(Rows) + Cardinality(Cycles)]
        /\ audited' \subseteq Rows \X (0 .. Cardinality(Rows) + Cardinality(Cycles))
    BY <1>1, <1>4, <1>5, <1>6 DEF TypeOK, Verification
  <2>2. /\ pc' \in [Cycles -> {"idle", "fetch", "execute", "persist"}]
        /\ batch' \in [Cycles -> Seq(Rows)] /\ answers' \in [Cycles -> Seq(Outcomes)]
        /\ stamp' \in [Cycles -> 0 .. Cardinality(Rows) + Cardinality(Cycles)]
        /\ todo' \in [Cycles -> Seq([row : Rows, statement : Statements])]
    <3>1. CASE Goto(c, "fetch") /\ UNCHANGED <<batch, answers, stamp, todo, misread>>
      BY <1>1, <3>1 DEF Goto, TypeOK
    <3>2. CASE Return(c)
      BY <1>1, <3>2, ReturnTyped
    <3> QED BY <1>5, <3>1, <3>2
  <2>3. misread' \subseteq misread
    BY <1>5 DEF Return
  <2> QED BY <1>1, <1>5, <2>1, <2>2, <2>3 DEF TypeOK
<1>9. RouteReady'
  <2>1. \A r \in Enabled' :
          \/ r = row /\ answer = "VALID"
          \/ r # row /\ r \in Enabled /\ r \in Rows
    BY <1>1, <1>4, <1>5, <1>6, SiteTyped DEF Enabled, TypeOK, Verification
  <2>2. \A r \in Enabled : r \in target /\ <<r, updated[r]>> \in audited
    BY DEF RecheckInv, RouteReady
  <2>3. updated'[row] = stamp[c] /\ \A r \in Rows \ {row} : updated'[r] = updated[r]
    BY <1>1, <1>4, <1>5 DEF TypeOK
  <2> QED BY <1>6, <1>8, <2>1, <2>2, <2>3 DEF RouteReady
<1>10. InPlace(c)'
  BY <1>1, <1>2, <1>3, <1>4, <1>5, <1>7 DEF InPlace, Return, Goto, TypeOK, Batches, Local, Daily,
     Manual, Cron
<1>11. DOMAIN todo'[c] = {}
  BY <1>7
<1>12. FileInOrder(c)' /\ AuditedAlone(c)'
  BY <1>7, <1>11 DEF FileInOrder, AuditedAlone
<1>13. DeniedBefore(c)'
  <2>1. CASE UNCHANGED <<batch, answers, misread>>
    BY <1>1, <1>5, <1>11, <2>1 DEF DeniedBefore, Denied
  <2>2. CASE Return(c)
    <3>1. answers'[c] = <<>>
      BY <1>1, <2>2 DEF Return, TypeOK
    <3> QED BY <1>11, <3>1 DEF DeniedBefore
  <2> QED BY <1>5, <2>1, <2>2
<1>14. ASSUME \A b, d \in Local \cup Cron : b = d PROVE Enabled' \subseteq valid'
  <2>1. Enabled \subseteq valid
    BY <1>14 DEF RecheckInv, EnabledAsAudited
  <2> QED BY <1>1, <1>4, <1>5, <1>6, <2>1, SiteTyped DEF Enabled, TypeOK, Verification
<1>15. \A d \in Cycles \ {c}, r \in Rows : Denied(d, r) => Denied(d, r)'
  BY <1>5 DEF Denied, Return
<1> QED BY <1>5, <1>6, <1>7, <1>9, <1>10, <1>12, <1>13, <1>14, <1>15, WriteKeeps

\* What is left of a file after a statement of it.
LEMMA FileMoves ==
  ASSUME TypeOK, NEW c \in Cycles, Execute(c)
  PROVE  /\ todo'[c] \in Seq([row : Rows, statement : Statements])
         /\ \A i \in DOMAIN todo'[c] :
              \/ i = 1 /\ Following(todo[c][1].statement) # "none"
                 /\ todo'[c][1].row = todo[c][1].row
                 /\ todo'[c][1].statement = Following(todo[c][1].statement)
              \/ \E j \in DOMAIN todo[c] :
                   j > 1 /\ todo'[c][i] = todo[c][j]
<1> DEFINE R == [row : Rows, statement : Statements]
           following == Following(todo[c][1].statement)
<1>1. todo[c] \in Seq(R) /\ todo[c] # <<>>
  BY DEF TypeOK, Execute
<1>2. todo'[c] = IF following = "none" THEN Tail(todo[c])
                 ELSE [todo[c] EXCEPT ![1].statement = following]
  BY DEF TypeOK, Execute
<1>3. following \in Statements \cup {"none"}
  BY DEF Following, Statements
<1> HIDE DEF following, R
<1>4. /\ Len(todo[c]) \in Nat \ {0} /\ DOMAIN todo[c] = 1 .. Len(todo[c])
      /\ \A i \in DOMAIN todo[c] : todo[c][i] \in R
  BY <1>1
<1>5. CASE following = "none"
  <2>1. /\ Tail(todo[c]) \in Seq(R)
        /\ DOMAIN Tail(todo[c]) = 1 .. Len(todo[c]) - 1
        /\ \A i \in 1 .. Len(todo[c]) - 1 : Tail(todo[c])[i] = todo[c][i + 1]
    BY <1>1, <1>4
  <2>2. \A i \in DOMAIN todo'[c] : i + 1 \in DOMAIN todo[c] /\ i + 1 > 1
    BY <1>2, <1>4, <1>5, <2>1
  <2> QED BY <1>2, <1>5, <2>1, <2>2 DEF R
<1>6. CASE following # "none"
  <2> DEFINE h == [todo[c][1] EXCEPT !.statement = following]
  <2>1. todo[c][1] \in R
    BY <1>4
  <2>2. h \in R /\ h.row = todo[c][1].row /\ h.statement = following
    BY <1>3, <1>6, <2>1 DEF R
  <2>3. todo'[c] = [todo[c] EXCEPT ![1] = h]
    BY <1>2, <1>6
  <2> HIDE DEF h
  <2>4. /\ todo'[c] \in Seq(R) /\ DOMAIN todo'[c] = DOMAIN todo[c]
        /\ todo'[c][1] = h /\ \A i \in DOMAIN todo[c] : i # 1 => todo'[c][i] = todo[c][i]
    BY <1>1, <1>4, <2>2, <2>3
  <2>5. \A i \in DOMAIN todo[c] : i = 1 \/ i > 1
    BY <1>4
  <2> QED BY <1>6, <2>2, <2>4, <2>5 DEF R, following
<1> QED BY <1>5, <1>6

\* D1 executes a statement: what the next one needs is there afterwards.
LEMMA ExecuteKeeps ==
  ASSUME RecheckInv, NEW c \in Local, Execute(c)
  PROVE  RecheckInv'
<1> DEFINE R == [row : Rows, statement : Statements]
           row == todo[c][1].row
           statement == todo[c][1].statement
<1>1. TypeOK /\ c \in Cycles /\ InPlace(c) /\ DeniedBefore(c) /\ FileInOrder(c)
  BY SiteTyped DEF RecheckInv, RouteReady, TypeOK
<1>2. 1 \in DOMAIN todo[c]
  <2>1. todo[c] \in Seq(R) /\ todo[c] # <<>>
    BY <1>1 DEF TypeOK, Execute
  <2> HIDE DEF R
  <2> QED BY <2>1, HeadThere
<1>3. row \in site.rows /\ row \in Rows /\ statement \in Statements
  BY <1>1, <1>2, TodoTyped DEF FileInOrder
<1>4. /\ statement \in {"audit valid", "enable"} => row \in target
      /\ statement = "enable" => <<row, stamp[c]>> \in audited
  BY <1>1, <1>2 DEF FileInOrder
<1>5. Effect(c, statement, row) /\ pc[c] = "execute"
  BY DEF Execute
<1>6. /\ todo'[c] \in Seq(R)
      /\ \A i \in DOMAIN todo'[c] :
           \/ i = 1 /\ Following(statement) # "none"
              /\ todo'[c][1].row = row /\ todo'[c][1].statement = Following(statement)
           \/ \E j \in DOMAIN todo[c] : j > 1 /\ todo'[c][i] = todo[c][j]
  BY <1>1, FileMoves
<1> HIDE DEF row, statement
<1>7. /\ \A d \in Cycles \ {c} :
           /\ pc'[d] = pc[d] /\ batch'[d] = batch[d] /\ answers'[d] = answers[d]
           /\ todo'[d] = todo[d] /\ stamp'[d] = stamp[d]
      /\ pc'[c] = "execute"
  BY <1>1, <1>5 DEF Execute, TypeOK
<1>16. /\ statement = "enable" => status' = [status EXCEPT ![row] = "PASS"]
       /\ statement = "disable" => status' = [status EXCEPT ![row] = "FAILED"]
       /\ statement \notin {"enable", "disable"} => status' = status
  BY <1>5 DEF Effect, Verification
<1>17. /\ statement = "audit valid" => valid' = valid \cup {row}
       /\ statement = "audit unavailable" => valid' = valid \ {row}
       /\ statement \notin {"audit valid", "audit unavailable"} => valid' = valid
  BY <1>5 DEF Effect
<1>18. /\ updated' = IF statement \in {"enable", "disable"}
                     THEN [updated EXCEPT ![row] = stamp[c]] ELSE updated
       /\ target' = IF statement = "target" THEN target \cup {row} ELSE target
       /\ audited' = IF statement = "audit valid"
                     THEN audited \cup {<<row, stamp[c]>>} ELSE audited
  BY <1>5 DEF Effect
<1>8. /\ target \subseteq target' /\ audited \subseteq audited'
      /\ statement = "target" => row \in target'
      /\ statement = "audit valid" => <<row, stamp[c]>> \in audited' /\ row \in valid'
      /\ statement = "disable" => status'[row] # "PASS"
      /\ status'[row] = "PASS" => 
           \/ statement = "enable"
           \/ statement # "disable" /\ status[row] = "PASS"
      /\ statement # "audit unavailable" => valid \subseteq valid'
      /\ valid \ {row} \subseteq valid'
      /\ \A r \in Rows \ {row} : status'[r] = status[r] /\ updated'[r] = updated[r]
      /\ updated'[row] = IF statement \in {"enable", "disable"} THEN stamp[c] ELSE updated[row]
  BY <1>1, <1>3, <1>16, <1>17, <1>18 DEF TypeOK
<1>9. TypeOK'
  <2>1. /\ status' \in [Rows -> {"PASS", "PENDING", "FAILED"}] /\ target' \subseteq Rows
        /\ valid' \subseteq Rows
    BY <1>1, <1>3, <1>16, <1>17, <1>18 DEF TypeOK
  <2>3. /\ updated' \in [Rows -> 0 .. Cardinality(Rows) + Cardinality(Cycles)]
        /\ audited' \subseteq Rows \X (0 .. Cardinality(Rows) + Cardinality(Cycles))
    <3> DEFINE T == 0 .. Cardinality(Rows) + Cardinality(Cycles)
    <3>1. updated \in [Rows -> T] /\ audited \subseteq Rows \X T /\ stamp[c] \in T
      BY <1>1 DEF TypeOK
    <3> HIDE DEF T
    <3>2. updated' \in [Rows -> T]
      BY <1>3, <1>18, <3>1
    <3>3. audited' \subseteq Rows \X T
      <4>1. <<row, stamp[c]>> \in Rows \X T
        BY <1>3, <3>1
      <4>2. audited' \subseteq audited \cup {<<row, stamp[c]>>}
        BY <1>18
      <4> QED BY <3>1, <4>1, <4>2
    <3> QED BY <3>2, <3>3 DEF T
  <2>2. todo' \in [Cycles -> Seq(R)]
    <3>1. todo \in [Cycles -> Seq(R)] /\ todo' = [todo EXCEPT ![c] = todo'[c]]
      BY <1>1 DEF TypeOK, Execute
    <3> HIDE DEF R
    <3> QED BY <1>6, <3>1
  <2> QED BY <1>1, <2>1, <2>2, <2>3 DEF TypeOK, Execute
<1>10. RouteReady'
  <2>1. \A r \in Enabled' :
          \/ r = row /\ statement = "enable"
          \/ r = row /\ statement # "disable" /\ r \in Enabled
          \/ r # row /\ r \in Enabled /\ r \in Rows
    BY <1>1, <1>8, SiteTyped DEF Enabled, TypeOK, Execute
  <2>2. \A r \in Enabled : r \in target /\ <<r, updated[r]>> \in audited
    BY DEF RecheckInv, RouteReady
  <2> QED BY <1>4, <1>8, <1>9, <2>1, <2>2 DEF RouteReady
<1>11. InPlace(c)'
  BY <1>1, <1>5, <1>7 DEF Execute, InPlace, Batches, Local, Daily, Manual
<1>12. \A j \in DOMAIN todo[c] : j > 1 =>
         todo[c][j].row \in site.rows /\ todo[c][j].statement \in {"target", "disable"}
  BY <1>1 DEF FileInOrder
<1>13. FileInOrder(c)'
  <2>1. ASSUME NEW i \in DOMAIN todo'[c]
        PROVE  /\ todo'[c][i].row \in site.rows
               /\ todo'[c][i].statement \in {"audit valid", "enable"} => todo'[c][i].row \in target'
               /\ todo'[c][i].statement = "enable" => <<todo'[c][i].row, stamp[c]>> \in audited'
               /\ i > 1 => todo'[c][i].statement \in {"target", "disable"}
    <3>1. CASE /\ i = 1 /\ Following(statement) # "none"
               /\ todo'[c][1].row = row /\ todo'[c][1].statement = Following(statement)
      <4>1. /\ statement \in {"target", "audit valid", "disable"}
            /\ statement = "target" => Following(statement) = "audit valid"
            /\ statement = "audit valid" => Following(statement) = "enable"
            /\ statement = "disable" => Following(statement) = "audit unavailable"
        BY <1>3, <3>1 DEF Following, Statements
      <4> DEFINE h == todo'[c][i]
      <4>2. h.row = row /\ h.statement = Following(statement) /\ ~ (i > 1)
        BY <3>1
      <4>3. CASE statement = "target"
        BY <1>3, <1>8, <4>1, <4>2, <4>3
      <4>4. CASE statement = "audit valid"
        BY <1>3, <1>4, <1>8, <4>1, <4>2, <4>4
      <4>5. CASE statement = "disable"
        BY <1>3, <4>1, <4>2, <4>5
      <4> QED BY <4>1, <4>3, <4>4, <4>5
    <3>2. CASE \E j \in DOMAIN todo[c] : j > 1 /\ todo'[c][i] = todo[c][j]
      BY <1>12, <3>2
    <3> QED BY <1>6, <3>1, <3>2
  <2>2. site' = site /\ stamp'[c] = stamp[c]
    BY DEF Execute
  <2> QED BY <2>1, <2>2 DEF FileInOrder
<1>14. DeniedBefore(c)'
  <2>1. ASSUME NEW i \in DOMAIN todo'[c], todo'[c][i].statement = "disable"
        PROVE  Denied(c, todo'[c][i].row)
    BY <1>1, <1>6, <2>1 DEF DeniedBefore, Following
  <2> QED BY <1>1, <2>1 DEF DeniedBefore, Denied, Execute
<1>15. ASSUME \A b, d \in Local \cup Cron : b = d
       PROVE  Enabled' \subseteq valid' /\ AuditedAlone(c)'
  <2>1. Enabled \subseteq valid /\ AuditedAlone(c)
    BY <1>1, <1>15 DEF RecheckInv, EnabledAsAudited
  <2>2. /\ statement = "enable" => row \in valid
        /\ statement = "audit unavailable" => row \notin Enabled
    BY <1>2, <2>1 DEF AuditedAlone, Execute, row, statement
  <2>3. \A r \in Enabled' :
          \/ r = row /\ statement = "enable"
          \/ r = row /\ statement # "disable" /\ r \in Enabled
          \/ r # row /\ r \in Enabled
    BY <1>1, <1>8, SiteTyped DEF Enabled, TypeOK, Execute
  <2>4. Enabled' \subseteq valid'
    BY <1>8, <2>1, <2>2, <2>3
  <2>5. AuditedAlone(c)'
    <3> SUFFICES ASSUME todo'[c] # <<>>
                 PROVE  /\ todo'[c][1].statement = "enable" => todo'[c][1].row \in valid'
                        /\ todo'[c][1].statement = "audit unavailable" => todo'[c][1].row \notin Enabled'
      BY DEF AuditedAlone
    <3>1. 1 \in DOMAIN todo'[c]
      <4> HIDE DEF R
      <4> QED BY <1>6, HeadThere
    <3>2. CASE todo'[c][1].row = row /\ todo'[c][1].statement = Following(statement)
      BY <1>8, <3>2 DEF Following, Enabled
    <3>3. CASE \E j \in DOMAIN todo[c] : j > 1 /\ todo'[c][1] = todo[c][j]
      BY <1>12, <3>3
    <3> QED BY <1>6, <3>1, <3>2, <3>3
  <2> QED BY <2>4, <2>5
<1>19. \A d \in Cycles, r \in Rows : Denied(d, r) => Denied(d, r)'
  BY DEF Denied, Execute
<1> QED BY <1>7, <1>8, <1>10, <1>11, <1>13, <1>14, <1>15, <1>19, WriteKeeps DEF Execute

\* The row a cycle asks about.
LEMMA AskedTyped ==
  ASSUME RecheckInv, NEW c \in Cycles, pc[c] = "fetch", Len(answers[c]) < Len(batch[c])
  PROVE  Asked(c) \in Rows
<1>1. TypeOK /\ InPlace(c)
  BY DEF RecheckInv, RouteReady
<1>2. batch[c] \in Batches
  BY <1>1 DEF InPlace
<1>3. /\ Len(batch[c]) \in Nat
      /\ \A i \in 1 .. Len(batch[c]) : batch[c][i] \in Rows
  BY <1>1, <1>2, BatchTyped DEF TypeOK
<1>4. answers[c] \in Seq(Outcomes)
  BY <1>1 DEF TypeOK
<1>5. Len(answers[c]) \in Nat
  BY <1>4
<1>6. Len(answers[c]) + 1 \in 1 .. Len(batch[c])
  BY <1>3, <1>5
<1> QED BY <1>3, <1>6 DEF Asked

\* A row is asked about, and the answer is the catalogue's or a failure.
LEMMA FetchKeeps ==
  ASSUME RecheckInv, NEW c \in Local \cup Cron,
         \/ c \in Local /\ (Fetch(c) \/ FetchFails(c))
         \/ c \in Cron /\ (CronFetch(c) \/ CronFetchFails(c))
  PROVE  RecheckInv'
<1>1. TypeOK /\ c \in Cycles
  BY SiteTyped DEF RecheckInv, RouteReady, TypeOK
<1>2. Asked(c) \in Rows
  <2>1. pc[c] = "fetch" /\ Len(answers[c]) < Len(batch[c])
    BY DEF Fetch, FetchFails, CronFetch, CronFetchFails, Ask
  <2> QED BY <1>1, <2>1, AskedTyped
<1>3. CASE Fetch(c) \/ CronFetch(c)
  <2>1. /\ Answer(Asked(c)) \in Outcomes
        /\ Answer(Asked(c)) = "NOT_AVAILABLE" => catalog[Asked(c)] # "listed"
    BY DEF Answer, Outcomes, Listed
  <2>2. /\ Ask(c, Answer(Asked(c)))
        /\ \/ c \in Local /\ pc' = pc
           \/ c \in Cron /\ Goto(c, "persist")
        /\ UNCHANGED <<site, d1, catalog, misread, batch, stamp, todo, faults>>
    BY <1>1, <1>3, SiteTyped DEF Fetch, CronFetch, FetchFails, CronFetchFails, TypeOK, Ask
  <2> QED BY <1>1, <2>1, <2>2, AskKeeps DEF TypeOK
<1>4. CASE FetchFails(c) \/ CronFetchFails(c)
  <2>1. PICK answer \in Failure : Ask(c, answer) /\ Misread(c, answer)
    BY <1>4 DEF FetchFails, CronFetchFails
  <2>2. /\ \/ c \in Local /\ pc' = pc
           \/ c \in Cron /\ Goto(c, "persist")
        /\ UNCHANGED <<site, d1, catalog, batch, stamp, todo>> /\ Fault
    BY <1>1, <1>4, SiteTyped DEF Fetch, CronFetch, FetchFails, CronFetchFails, TypeOK
  <2>3. /\ misread \subseteq misread' /\ misread' \subseteq Cycles \X Rows
        /\ answer = "NOT_AVAILABLE" => <<c, Asked(c)>> \in misread'
    BY <1>1, <1>2, <2>1 DEF Misread, TypeOK
  <2>4. faults' \in 0 .. MaxFaults /\ answer \in Outcomes
    BY <1>1, <2>2, BoundAssumption DEF Fault, TypeOK, Failure, Outcomes
  <2> QED BY <2>1, <2>2, <2>3, <2>4, AskKeeps
<1> QED BY <1>3, <1>4

\* Every step keeps RecheckInv.
LEMMA NextRecheck == RecheckInv /\ [Next]_vars => RecheckInv'
<1> SUFFICES ASSUME RecheckInv, [Next]_vars PROVE RecheckInv'
  OBVIOUS
<1>1. TypeOK
  BY DEF RecheckInv, RouteReady
<1>2. ASSUME NEW c \in Local, LocalStep(c) \/ SelectScoped(c) \/ FetchFails(c)
      PROVE  RecheckInv'
  <2>1. CASE Select(c) \/ SelectScoped(c)
    BY <2>1, SelectKeeps
  <2>2. CASE Fetch(c) \/ FetchFails(c)
    BY <2>2, FetchKeeps
  <2>3. CASE Abandon(c) \/ Complete(c)
    BY <1>1, <2>3, ReturnKeeps DEF Abandon, Complete, TypeOK
  <2>4. CASE Prepare(c)
    BY <2>4, PrepareKeeps
  <2>5. CASE Execute(c)
    BY <2>5, ExecuteKeeps
  <2> QED BY <1>2, <2>1, <2>2, <2>3, <2>4, <2>5 DEF LocalStep
<1>3. ASSUME NEW c \in Cron, CronStep(c) \/ CronFetchFails(c)
      PROVE  RecheckInv'
  <2>1. CASE SelectOldest(c)
    BY <2>1, OldestKeeps
  <2>2. CASE CronFetch(c) \/ CronFetchFails(c)
    BY <2>2, FetchKeeps
  <2>3. CASE Persist(c)
    BY <2>3, PersistKeeps
  <2> QED BY <1>3, <2>1, <2>2, <2>3 DEF CronStep
<1>4. ASSUME NEW c \in Local \cup Cron, CycleFails(c)
      PROVE  RecheckInv'
  <2>1. faults' \in 0 .. MaxFaults
    BY <1>1, <1>4, BoundAssumption DEF CycleFails, Fault, TypeOK
  <2> QED BY <1>4, <2>1, ReturnKeeps DEF CycleFails
<1>5. CASE UNCHANGED vars
  <2>1. /\ UNCHANGED <<site, status, updated, target, valid, audited, catalog, misread, pc,
                       batch, answers, stamp, todo, faults>>
    BY <1>5 DEF vars, d1
  <2>2. Local' = Local /\ Cron' = Cron /\ Enabled' = Enabled /\ Batches' = Batches
    BY <2>1 DEF Local, Cron, Daily, Manual, Enabled, Batches
  <2>3. RouteReady' /\ EnabledAsAudited'
    BY <2>1, <2>2 DEF RecheckInv, RouteReady, EnabledAsAudited, TypeOK
  <2>4. \A d \in Cycles : InPlace(d)' /\ DeniedBefore(d)' /\ FileInOrder(d)'
    <3>1. \A d \in Cycles, r \in Rows : Denied(d, r) => Denied(d, r)'
      BY <2>1 DEF Denied
    <3> QED BY <2>1, <3>1, OthersKeep
  <2>5. \A d \in Cycles : AuditedAlone(d) => AuditedAlone(d)'
    BY <2>1, <2>2 DEF AuditedAlone
  <2> QED BY <2>2, <2>3, <2>4, <2>5 DEF RecheckInv
<1> QED BY <1>2, <1>3, <1>4, <1>5, CatalogKeeps DEF Next

\* However cycles and runs by hand overlap, wherever D1 stops in a file and
\* whatever the provider answers: what precedes a statement of a file has been
\* executed, and a row is to be disabled only when its item has been missing or
\* an answer about it was malformed.
THEOREM RecheckInvariant == Spec => []RecheckInv
BY InitRecheck, NextRecheck, PTL DEF Spec

\* An enabled row has a target to redirect to and an audit event of the check
\* that enabled it: the order of _statements and the batch of persistValid.
THEOREM RoutesStayReady == Spec => []RouteReady
<1>1. RecheckInv => RouteReady
  BY DEF RecheckInv
<1> QED BY <1>1, RecheckInvariant, PTL

\* With one cycle at a time a row is enabled on its latest audited check.
THEOREM EnabledOnAudit == Spec => []EnabledAsAudited
<1>1. RecheckInv => EnabledAsAudited
  BY DEF RecheckInv
<1> QED BY <1>1, RecheckInvariant, PTL

\* Only a "disable" of a local file takes a row out of Enabled, and
\* DeniedBefore says what its item is then.
LEMMA ListedStays ==
  ASSUME RecheckInv, [Next]_vars, Cron = {}, NEW r \in Enabled,
         \A c \in Cycles : ~ Denied(c, r)
  PROVE  r \in Enabled'
<1>1. TypeOK /\ r \in Rows /\ r \in site.rows /\ status[r] = "PASS"
  BY SiteTyped DEF RecheckInv, RouteReady, TypeOK, Enabled
<1>2. ASSUME NEW c \in Local, Execute(c) PROVE r \in Enabled'
  <2> DEFINE R == [row : Rows, statement : Statements]
             row == todo[c][1].row
             statement == todo[c][1].statement
  <2>1. c \in Cycles /\ DeniedBefore(c)
    BY <1>1, SiteTyped DEF RecheckInv, TypeOK
  <2>2. 1 \in DOMAIN todo[c]
    <3>1. todo[c] \in Seq(R) /\ todo[c] # <<>>
      BY <1>1, <1>2, <2>1 DEF TypeOK, Execute
    <3> HIDE DEF R
    <3> QED BY <3>1, HeadThere
  <2>3. statement = "disable" => row # r
    BY <2>1, <2>2 DEF DeniedBefore
  <2>4. Effect(c, statement, row) /\ site' = site
    BY <1>2 DEF Execute
  <2> HIDE DEF row, statement
  <2>5. \/ status' = [status EXCEPT ![row] = "PASS"]
        \/ /\ statement = "disable"
           /\ status' = [status EXCEPT ![row] = Verification("NOT_AVAILABLE")]
        \/ status' = status
    BY <2>4 DEF Effect
  <2> QED BY <1>1, <2>3, <2>4, <2>5 DEF Enabled, TypeOK
<1>3. CASE UNCHANGED <<site, status>>
  BY <1>3 DEF Enabled
<1>4. ASSUME NEW c \in Local,
             \/ Select(c) \/ SelectScoped(c) \/ Fetch(c) \/ FetchFails(c) \/ Abandon(c)
             \/ Prepare(c) \/ Complete(c) \/ CycleFails(c)
      PROVE  UNCHANGED <<site, status>>
  BY <1>4 DEF Select, SelectScoped, Fetch, FetchFails, Abandon, Prepare, Complete,
     CycleFails, d1
<1>5. ASSUME NEW s \in Rows, CatalogChanges(s) PROVE UNCHANGED <<site, status>>
  BY <1>5 DEF CatalogChanges, d1
<1>6. CASE UNCHANGED vars
  BY <1>3, <1>6 DEF vars, d1
<1> QED BY <1>2, <1>3, <1>4, <1>5, <1>6 DEF Next, LocalStep

\* Without the worker no failure disables a row that has been listed all along,
\* unless a malformed answer was read to deny it: the batch is abandoned when
\* one of its answers is unconfirmed (affiliate_local_lifecycle_revalidation.py).
THEOREM ListedRowsStay == Spec => StaysWhileListed
<1>1. RecheckInv /\ [Next]_vars =>
        [Cron = {} =>
           \A r \in Enabled :
             catalog[r] = "listed" /\ (\A c \in Cycles : <<c, r>> \notin misread) =>
               r \in Enabled']_vars
  BY ListedStays DEF Denied
<1> QED BY <1>1, RecheckInvariant, PTL DEF Spec, StaysWhileListed

-----------------------------------------------------------------------------
(* No row is passed by another *)

LEMMA TimesFinite ==
  ASSUME TypeOK
  PROVE  IsFiniteSet(Times) /\ Times \subseteq Nat
<1> DEFINE U == {updated[r] : r \in Rows}
           S == {stamp[d] : d \in Cycles}
<1>1. IsFiniteSet(Rows) /\ IsFiniteSet(Cycles)
  BY RowAssumption, InstallationAssumption
<1>2. IsFiniteSet(U)
  <2>1. updated \in Surjection(Rows, U)
    BY DEF Surjection, TypeOK
  <2> QED BY <1>1, <2>1, FS_Surjection
<1>3. IsFiniteSet(S)
  <2>1. stamp \in Surjection(Cycles, S)
    BY DEF Surjection, TypeOK
  <2> QED BY <1>1, <2>1, FS_Surjection
<1>4. U \subseteq Nat /\ S \subseteq Nat
  <2>1. Cardinality(Rows) + Cardinality(Cycles) \in Nat
    BY <1>1, FS_CardinalityType
  <2> QED BY <2>1 DEF TypeOK
<1>5. Times = U \cup S
  BY DEF Times
<1> HIDE DEF U, S
<1> QED BY <1>2, <1>3, <1>4, <1>5, FS_Union

\* Ranks are in the order of the times they stand for, below the present.
LEMMA RankOrdered ==
  ASSUME TypeOK, NEW t \in Times, NEW u \in Times
  PROVE  /\ Rank(t) \in Nat /\ Rank(u) \in Nat /\ Now \in Nat
         /\ t < u => Rank(t) < Rank(u)
         /\ Rank(t) <= Now
<1>1. IsFiniteSet(Times) /\ Times \subseteq Nat
  BY TimesFinite
<1> DEFINE Before(x) == {y \in Times : y < x}
<1>2. \A x \in Times : IsFiniteSet(Before(x)) /\ Cardinality(Before(x)) \in Nat
  <2> SUFFICES ASSUME NEW x \in Times
               PROVE  IsFiniteSet(Before(x)) /\ Cardinality(Before(x)) \in Nat
    OBVIOUS
  <2>1. Before(x) \in SUBSET Times
    OBVIOUS
  <2> HIDE DEF Before
  <2> QED BY <1>1, <2>1, FS_Subset, FS_CardinalityType
<1>3. \A x : Rank(x) = Cardinality(Before(x))
  BY DEF Rank
<1>4. ASSUME t < u PROVE Rank(t) < Rank(u)
  <2>1. /\ Before(t) \in SUBSET Before(u)
        /\ t \in Before(u) /\ t \notin Before(t)
    <3>1. t \in Nat /\ u \in Nat /\ \A y \in Times : y \in Nat
      BY <1>1
    <3>2. \A y \in Times : y < t => y < u
      BY <1>4, <3>1
    <3>3. ~ (t < t)
      BY <3>1
    <3> QED BY <1>4, <3>2, <3>3
  <2> HIDE DEF Before
  <2>2. Before(t) # Before(u)
    BY <2>1
  <2>3. /\ Cardinality(Before(t)) <= Cardinality(Before(u))
        /\ Cardinality(Before(t)) # Cardinality(Before(u))
    BY <1>2, <2>1, <2>2, FS_Subset
  <2> QED BY <1>2, <1>3, <2>3
<1>5. Now \in Nat /\ Rank(t) <= Now
  <2>1. IsFiniteSet(Times \cup {0})
    BY <1>1, FS_AddElement
  <2>2. Before(t) \in SUBSET (Times \cup {0})
    OBVIOUS
  <2> HIDE DEF Before
  <2> QED BY <1>3, <2>1, <2>2, FS_Subset, FS_CardinalityType DEF Now
<1> HIDE DEF Before
<1> QED BY <1>2, <1>3, <1>4, <1>5

\* What a step does to rows and times: nothing; the time is taken; or the row a
\* cycle is at is written.
Writes(c, row) ==
  /\ UNCHANGED site
  /\ updated' \in {updated, [updated EXCEPT ![row] = stamp[c]]}
  /\ \/ Execute(c) /\ c \in Local /\ row = todo[c][1].row
     \/ Persist(c) /\ c \in Cron /\ row = batch[c][Len(answers[c])]

\* Executing the next statement of a file writes, if anything, the row it is for,
LEMMA ExecuteWrites ==
  ASSUME RecheckInv, NEW c \in Local, Execute(c)
  PROVE  \E row \in Rows : Writes(c, row)
<1> DEFINE R == [row : Rows, statement : Statements]
           row == todo[c][1].row
<1>1. TypeOK /\ c \in Cycles
  BY SiteTyped DEF RecheckInv, RouteReady, TypeOK
<1>2. 1 \in DOMAIN todo[c]
  <2>1. todo[c] \in Seq(R) /\ todo[c] # <<>>
    BY <1>1 DEF TypeOK, Execute
  <2> HIDE DEF R
  <2> QED BY <2>1, HeadThere
<1>3. row \in Rows
  BY <1>1, <1>2, TodoTyped
<1>4. updated' \in {updated, [updated EXCEPT ![row] = stamp[c]]} /\ UNCHANGED site
  BY DEF Execute, Effect
<1> HIDE DEF row
<1>5. Writes(c, row)
  BY <1>4 DEF Writes, row
<1> QED BY <1>3, <1>5

\* and the worker the row of the last answer it has.
LEMMA PersistWrites ==
  ASSUME RecheckInv, NEW c \in Cron, Persist(c)
  PROVE  \E row \in Rows : Writes(c, row)
<1> DEFINE row == batch[c][Len(answers[c])]
<1>1. TypeOK /\ c \in Cycles
  BY SiteTyped DEF RecheckInv, RouteReady, TypeOK
<1>2. InPlace(c) /\ c \in Cycles
  BY <1>1 DEF RecheckInv
<1>3. Len(answers[c]) \in DOMAIN answers[c]
  BY <1>1, <1>2 DEF InPlace, Persist, TypeOK
<1>4. row \in Rows
  BY <1>1, <1>2, <1>3, AnswersTyped
<1>5. updated' = [updated EXCEPT ![row] = stamp[c]] /\ UNCHANGED site
  BY DEF Persist
<1> HIDE DEF row
<1>6. Writes(c, row)
  BY <1>5 DEF Writes, row
<1> QED BY <1>4, <1>6

\* There are no other writes.
LEMMA StepKinds ==
  ASSUME RecheckInv, [Next]_vars
  PROVE  \/ UNCHANGED <<site, updated>>
         \/ \E c \in Local \cup Cron :
              TakeTime(c) /\ (Prepare(c) \/ SelectOldest(c)) /\ UNCHANGED site
         \/ \E c \in Local \cup Cron, row \in Rows : Writes(c, row)
<1>1. ASSUME NEW c \in Local \cup Cron,
             \/ Select(c) \/ SelectScoped(c) \/ Fetch(c) \/ FetchFails(c) \/ Abandon(c)
             \/ Complete(c) \/ CycleFails(c) \/ CronFetch(c) \/ CronFetchFails(c)
      PROVE  UNCHANGED <<site, updated>>
  BY <1>1 DEF Select, SelectScoped, Fetch, FetchFails, Abandon, Complete,
     CycleFails, CronFetch, CronFetchFails, d1
<1>2. ASSUME NEW c \in Local \cup Cron, Prepare(c) \/ SelectOldest(c)
      PROVE  TakeTime(c) /\ UNCHANGED site
  BY <1>2 DEF Prepare, SelectOldest
<1>3. ASSUME NEW r \in Rows, CatalogChanges(r) PROVE UNCHANGED <<site, updated>>
  BY <1>3 DEF CatalogChanges, d1
<1>4. CASE UNCHANGED vars
  BY <1>4 DEF vars, d1
<1> QED
  BY ExecuteWrites, PersistWrites, <1>1, <1>2, <1>3, <1>4 DEF Next, LocalStep, CronStep

\* A file stays about rows of its batch: it is made of them, loses the first or
\* keeps it, and goes with the batch.
LEMMA FilesOfBatches ==
  ASSUME RecheckInv, [Next]_vars, \A c \in Cycles : FileOfBatch(c)
  PROVE  \A c \in Cycles : FileOfBatch(c)'
<1> SUFFICES ASSUME NEW d \in Cycles PROVE FileOfBatch(d)'
  OBVIOUS
<1>1. TypeOK /\ Local \cup Cron \subseteq Cycles /\ Local \cap Cron = {}
  BY SiteTyped DEF RecheckInv, RouteReady, TypeOK
<1>2. FileOfBatch(d) /\ InPlace(d)
  BY DEF RecheckInv
<1>3. CASE batch'[d] = batch[d] /\ todo'[d] = todo[d]
  BY <1>2, <1>3 DEF FileOfBatch, RowsOf
<1>4. CASE todo'[d] = <<>>
  <2>1. DOMAIN todo'[d] = {}
    BY <1>4
  <2> QED BY <2>1 DEF FileOfBatch
<1>5. CASE Prepare(d)
  <2>1. todo'[d] = File(d) /\ batch'[d] = batch[d]
    BY <1>1, <1>5 DEF Prepare, TypeOK
  <2> QED BY <2>1 DEF FileOfBatch, File, RowsOf
<1>6. CASE Execute(d)
  <2>1. 1 \in DOMAIN todo[d]
    <3> DEFINE R == [row : Rows, statement : Statements]
    <3>1. todo[d] \in Seq(R) /\ todo[d] # <<>>
      BY <1>1, <1>6 DEF TypeOK, Execute
    <3> HIDE DEF R
    <3> QED BY <3>1, HeadThere
  <2>2. \A i \in DOMAIN todo'[d] : \E j \in DOMAIN todo[d] : todo'[d][i].row = todo[d][j].row
    BY <1>1, <1>6, <2>1, FileMoves
  <2>3. batch'[d] = batch[d]
    BY <1>6 DEF Execute
  <2> QED BY <1>2, <2>2, <2>3 DEF FileOfBatch, RowsOf
<1>7. ASSUME NEW c \in Cycles, Return(c)
      PROVE  todo'[d] = <<>> \/ (batch'[d] = batch[d] /\ todo'[d] = todo[d])
  BY <1>1, <1>7 DEF Return, TypeOK
<1>8. ASSUME NEW c \in Cycles, Select(c) \/ SelectScoped(c) \/ SelectOldest(c)
      PROVE  todo'[d] = <<>> \/ (batch'[d] = batch[d] /\ todo'[d] = todo[d])
  <2>1. pc[c] = "idle" /\ todo' = todo /\ \E s : batch' = [batch EXCEPT ![c] = s]
    BY <1>8 DEF Select, SelectScoped, SelectOldest
  <2>2. CASE c = d
    BY <1>2, <2>1, <2>2 DEF InPlace
  <2>3. CASE c # d
    BY <1>1, <2>1, <2>3 DEF TypeOK
  <2> QED BY <2>2, <2>3
<1>9. ASSUME NEW c \in Cycles, c # d, Prepare(c) \/ Execute(c)
      PROVE  batch'[d] = batch[d] /\ todo'[d] = todo[d]
  BY <1>1, <1>9 DEF Prepare, Execute, TypeOK
<1>10. ASSUME NEW c \in Cycles, Persist(c)
       PROVE  Return(c) \/ UNCHANGED <<batch, todo>>
  BY <1>10 DEF Persist
<1>11. ASSUME NEW c \in Cycles,
              \/ Fetch(c) \/ FetchFails(c) \/ CronFetch(c) \/ CronFetchFails(c)
       PROVE  UNCHANGED <<batch, todo>>
  BY <1>11 DEF Fetch, FetchFails, CronFetch, CronFetchFails
<1>12. ASSUME NEW r \in Rows, CatalogChanges(r) PROVE UNCHANGED <<batch, todo>>
  BY <1>12 DEF CatalogChanges
<1>13. CASE UNCHANGED vars
  BY <1>3, <1>13 DEF vars
<1>14. ASSUME NEW c \in Local, LocalStep(c) \/ SelectScoped(c) \/ FetchFails(c)
       PROVE  FileOfBatch(d)'
  <2>1. c \in Cycles
    BY <1>1
  <2>2. CASE Select(c) \/ SelectScoped(c)
    BY <1>3, <1>4, <1>8, <2>1, <2>2
  <2>3. CASE Abandon(c) \/ Complete(c)
    BY <1>3, <1>4, <1>7, <2>1, <2>3 DEF Abandon, Complete
  <2>4. CASE Prepare(c) \/ Execute(c)
    BY <1>3, <1>5, <1>6, <1>9, <2>1, <2>4
  <2>5. CASE Fetch(c) \/ FetchFails(c)
    BY <1>3, <1>11, <2>1, <2>5
  <2> QED BY <1>14, <2>2, <2>3, <2>4, <2>5 DEF LocalStep
<1>15. ASSUME NEW c \in Cron, CronStep(c) \/ CronFetchFails(c)
       PROVE  FileOfBatch(d)'
  <2>1. c \in Cycles
    BY <1>1
  <2>2. CASE SelectOldest(c)
    BY <1>3, <1>4, <1>8, <2>1, <2>2
  <2>3. CASE Persist(c)
    BY <1>3, <1>4, <1>7, <1>10, <2>1, <2>3
  <2>4. CASE CronFetch(c) \/ CronFetchFails(c)
    BY <1>3, <1>11, <2>1, <2>4
  <2> QED BY <1>15, <2>2, <2>3, <2>4 DEF CronStep
<1>16. ASSUME NEW c \in Local \cup Cron, CycleFails(c) PROVE FileOfBatch(d)'
  BY <1>1, <1>3, <1>4, <1>7, <1>16 DEF CycleFails
<1> QED BY <1>3, <1>12, <1>13, <1>14, <1>15, <1>16 DEF Next

\* Where one cycle runs, what it writes and what the others have is not newer
\* than the time it has taken, until it returns.
LEMMA NewestStamp ==
  ASSUME RecheckInv, [Next]_vars, OneAtATime, \A c \in Cycles : StampNewest(c)
  PROVE  \A c \in Cycles : StampNewest(c)'
<1> SUFFICES ASSUME NEW d \in Cycles, Timed(d)', NEW r \in Rows
             PROVE  updated'[r] <= stamp'[d]
  BY DEF StampNewest
<1>1. TypeOK /\ Local \cup Cron \subseteq Cycles /\ Local \cap Cron = {}
  BY SiteTyped DEF RecheckInv, RouteReady, TypeOK
<1>2. /\ updated \in [Rows -> Nat] /\ stamp \in [Cycles -> Nat]
      /\ pc \in [Cycles -> {"idle", "fetch", "execute", "persist"}]
  <2>1. Cardinality(Rows) + Cardinality(Cycles) \in Nat
    BY RowAssumption, InstallationAssumption, FS_CardinalityType
  <2> QED BY <1>1, <2>1 DEF TypeOK
<1>3. \A c \in Local \cup Cron : d # c => pc[d] = "idle"
  BY OnlyOne DEF OneAtATime
<1>4. site' = site /\ Cron' = Cron
  <2>1. site' = site
    BY StepKinds DEF Writes
  <2> QED BY <2>1 DEF Cron
<1>5. CASE UNCHANGED <<updated, stamp>> /\ Timed(d)
  BY <1>5 DEF StampNewest
<1>6. CASE pc'[d] = "idle"
  BY <1>6 DEF Timed
<1>7. ASSUME NEW c \in Local \cup Cron, TakeTime(c), Goto(c, "execute") \/ Goto(c, "fetch")
      PROVE  updated'[r] <= stamp'[d]
  <2>1. d = c
    BY <1>2, <1>3, <1>7 DEF Timed, Goto
  <2>2. updated'[r] = Rank(updated[r]) /\ stamp'[d] = Now /\ updated[r] \in Times
    BY <1>7, <2>1 DEF TakeTime, Times
  <2> QED BY <1>1, <2>2, RankOrdered
<1>8. ASSUME NEW c \in Local \cup Cron, NEW row \in Rows, Writes(c, row)
      PROVE  updated'[r] <= stamp'[d]
  <2>1. Timed(c) /\ c \in Cycles
    BY <1>1, <1>8 DEF Writes, Timed, Execute, Persist
  <2>2. d = c
    <3> SUFFICES ASSUME d # c PROVE FALSE
      OBVIOUS
    <3>1. pc[d] = "idle" /\ pc'[d] = pc[d]
      BY <1>2, <1>3, <1>8, <2>1 DEF Writes, Execute, Persist, Goto, Return
    <3> QED BY <3>1 DEF Timed
  <2>3. updated[r] <= stamp[c] /\ stamp[c] \in Nat
    BY <1>2, <2>1 DEF StampNewest
  <2>4. updated'[r] \in {updated[r], stamp[c]}
    BY <1>2, <1>8 DEF Writes
  <2>5. stamp'[c] = stamp[c] \/ pc'[c] = "idle"
    BY <1>2, <1>8, <2>1 DEF Writes, Execute, Persist, Return, Goto
  <2> QED BY <1>6, <2>2, <2>3, <2>4, <2>5
<1>9. ASSUME NEW c \in Local, LocalStep(c) \/ SelectScoped(c) \/ FetchFails(c)
      PROVE  updated'[r] <= stamp'[d]
  <2>1. c \in Cycles /\ c \notin Cron
    BY <1>1
  <2>2. CASE Select(c) \/ SelectScoped(c)
    <3>1. Goto(c, "fetch") /\ UNCHANGED <<updated, stamp>>
      BY <2>2 DEF Select, SelectScoped, d1
    <3>2. Timed(d)
      BY <1>2, <1>4, <2>1, <3>1 DEF Timed, Goto
    <3> QED BY <1>5, <3>1, <3>2
  <2>3. CASE Abandon(c) \/ Complete(c)
    <3>1. Goto(c, "idle")
      BY <2>3 DEF Abandon, Complete, Return
    <3>2. d = c
      BY <1>2, <1>3, <3>1 DEF Timed, Goto
    <3> QED BY <1>2, <1>6, <3>1, <3>2 DEF Goto
  <2>4. CASE Prepare(c)
    BY <1>7, <2>4 DEF Prepare
  <2>5. CASE Execute(c)
    BY <1>8, <2>5, ExecuteWrites
  <2>6. CASE Fetch(c) \/ FetchFails(c)
    <3>1. UNCHANGED <<pc, updated, stamp>>
      BY <2>6 DEF Fetch, FetchFails, d1
    <3> QED BY <1>4, <1>5, <3>1 DEF Timed
  <2> QED BY <1>9, <2>2, <2>3, <2>4, <2>5, <2>6 DEF LocalStep
<1>10. ASSUME NEW c \in Cron, CronStep(c) \/ CronFetchFails(c)
       PROVE  updated'[r] <= stamp'[d]
  <2>2. CASE SelectOldest(c)
    BY <1>7, <2>2 DEF SelectOldest
  <2>3. CASE Persist(c)
    BY <1>8, <2>3, PersistWrites
  <2>4. CASE CronFetch(c) \/ CronFetchFails(c)
    <3>1. Goto(c, "persist") /\ pc[c] = "fetch" /\ UNCHANGED <<updated, stamp>>
      BY <2>4 DEF CronFetch, CronFetchFails, Ask, d1
    <3>2. Timed(d)
      BY <1>2, <1>4, <3>1 DEF Timed, Goto
    <3> QED BY <1>5, <3>1, <3>2
  <2> QED BY <1>10, <2>2, <2>3, <2>4 DEF CronStep
<1>11. ASSUME NEW c \in Local \cup Cron, CycleFails(c)
       PROVE  updated'[r] <= stamp'[d]
  <2>1. Goto(c, "idle")
    BY <1>11 DEF CycleFails, Return
  <2>2. d = c
    BY <1>2, <1>3, <2>1 DEF Timed, Goto
  <2> QED BY <1>2, <1>6, <2>1, <2>2 DEF Goto
<1>12. CASE (\E q \in Rows : CatalogChanges(q)) \/ UNCHANGED vars
  <2>1. UNCHANGED <<pc, updated, stamp>>
    BY <1>12 DEF CatalogChanges, d1, vars
  <2> QED BY <1>4, <1>5, <2>1 DEF Timed
<1> QED BY <1>9, <1>10, <1>11, <1>12 DEF Next

\* Where one cycle runs at a time: the row a step writes gets the newest time, so
\* it passes no row, and taking the time changes no order.
LEMMA RowPassed ==
  ASSUME RecheckInv, RotationInv, [Next]_vars, OneAtATime,
         NEW r \in site.rows, NEW s \in site.rows,
         OlderFirst(r, s), ~ OlderFirst(r, s)'
  PROVE  LocalChecks(r) \/ WorkerChecks(r)
<1>1. /\ TypeOK /\ Local \cup Cron \subseteq Cycles
      /\ r \in Rows /\ s \in Rows /\ r \in Nat /\ s \in Nat
  BY SiteTyped, RowAssumption DEF RecheckInv, RouteReady, TypeOK
<1>2. updated \in [Rows -> Nat] /\ stamp \in [Cycles -> Nat]
  <2>1. Cardinality(Rows) + Cardinality(Cycles) \in Nat
    BY RowAssumption, InstallationAssumption, FS_CardinalityType
  <2> QED BY <1>1, <2>1 DEF TypeOK
<1>3. ~ UNCHANGED <<site, updated>>
  BY DEF OlderFirst
<1>4. ASSUME NEW c \in Local \cup Cron, TakeTime(c) PROVE FALSE
  <2>1. /\ updated[r] \in Times /\ updated[s] \in Times
        /\ updated'[r] = Rank(updated[r]) /\ updated'[s] = Rank(updated[s])
    BY <1>1, <1>4 DEF TakeTime, Times
  <2>2. updated[r] < updated[s] => updated'[r] < updated'[s]
    BY <1>1, <2>1, RankOrdered
  <2> QED BY <2>1, <2>2 DEF OlderFirst
<1>5. ASSUME NEW c \in Local \cup Cron, NEW row \in Rows, Writes(c, row), row # r
      PROVE  FALSE
  <2>1. Timed(c) /\ c \in Cycles
    BY <1>1, <1>5 DEF Writes, Timed, Execute, Persist
  <2>2. updated[r] <= stamp[c] /\ updated[s] <= stamp[c]
    BY <1>1, <2>1 DEF RotationInv, StampNewest
  <2>3. updated'[r] = updated[r] /\ updated'[s] \in {updated[s], stamp[c]}
    BY <1>1, <1>2, <1>5 DEF Writes
  <2>4. {updated[r], updated[s], stamp[c]} \subseteq Nat
    BY <1>1, <1>2, <2>1
  <2> QED BY <2>2, <2>3, <2>4 DEF OlderFirst
<1>6. PICK c \in Local \cup Cron : Writes(c, r)
  BY <1>3, <1>4, <1>5, StepKinds
<1>7. CASE Execute(c) /\ c \in Local /\ r = todo[c][1].row
  <2>1. 1 \in DOMAIN todo[c]
    <3> DEFINE R == [row : Rows, statement : Statements]
    <3>1. todo[c] \in Seq(R) /\ todo[c] # <<>>
      BY <1>1, <1>7 DEF TypeOK, Execute
    <3> HIDE DEF R
    <3> QED BY <3>1, HeadThere
  <2>2. r \in RowsOf(batch[c])
    BY <1>1, <1>7, <2>1 DEF RotationInv, FileOfBatch
  <2> QED BY <1>7, <2>2 DEF Execute, LocalChecks
<1>8. CASE Persist(c) /\ c \in Cron /\ r = batch[c][Len(answers[c])]
  BY <1>8 DEF Persist, WorkerChecks
<1> QED BY <1>6, <1>7, <1>8 DEF Writes

LEMMA RotationInvariant == Spec => []RotationInv
<1>1. Init => RotationInv
  <2> SUFFICES ASSUME Init, NEW c \in Cycles
               PROVE  FileOfBatch(c) /\ StampNewest(c)
    BY DEF RotationInv
  <2>1. DOMAIN todo[c] = {} /\ ~ Timed(c)
    BY DEF Init, Timed
  <2> QED BY <2>1 DEF FileOfBatch, StampNewest
<1>2. RecheckInv /\ RotationInv /\ [Next]_vars => RotationInv'
  <2> SUFFICES ASSUME RecheckInv, RotationInv, [Next]_vars PROVE RotationInv'
    OBVIOUS
  <2>1. site' = site
    BY StepKinds DEF Writes
  <2>2. OneAtATime' => OneAtATime
    BY <2>1 DEF OneAtATime, Local, Cron, Daily, Manual
  <2> QED BY <2>2, FilesOfBatches, NewestStamp DEF RotationInv
<1> QED BY <1>1, <1>2, RecheckInvariant, PTL DEF Spec

\* Where one cycle runs at a time, wherever it stops, a row waiting for its
\* recheck is passed by no other: updated_at of what a cycle writes is the time
\* it took, and nothing is newer.
THEOREM NoRowPassed == Spec => NeverPassed
<1> DEFINE Passed ==
      OneAtATime =>
        \A r, s \in site.rows :
          OlderFirst(r, s) /\ ~ OlderFirst(r, s)' =>
            LocalChecks(r) \/ WorkerChecks(r)
<1>1. RecheckInv /\ RotationInv /\ [Next]_vars => [Passed]_vars
  BY RowPassed
<1> QED
  BY <1>1, RecheckInvariant, RotationInvariant, PTL DEF Spec, NeverPassed

=============================================================================
