-------------------------- MODULE CollectionProofs --------------------------
(***************************************************************************)
(* Proofs about the two collections that write databases.                  *)
(*                                                                         *)
(* ExpansionCommit: its invariant KeptInv is inductive, so nothing         *)
(* unfinished is kept, receipts are true, and commits that do not overlap  *)
(* lose no kept database before the rotation may.                          *)
(*                                                                         *)
(* CollectorRuns, of which ExpansionCommit sees only Claim and Store: its  *)
(* invariant CollectorInv is inductive, so one run is active at a time, a  *)
(* successful run is stored whole and no backup shows a run under way; and *)
(* an orphaned run stops them all.  With LockOwned and Settled, no other   *)
(* writer is ever in the way of a collector that has a run, and only an    *)
(* error or a reader beside the run makes it leave the run running.        *)
(*                                                                         *)
(* They hold for any number of operators, collectors, runs, databases and  *)
(* failures; what the constants must satisfy is what the two modules       *)
(* assume of theirs.                                                       *)
(***************************************************************************)
EXTENDS ExpansionCommit, CollectorRuns, TLAPS, FiniteSetTheorems, SequenceTheorems

\* Of finitely many files one comes first.
LEMMA FirstFile ==
  ASSUME NEW S \in SUBSET Files, S # {}, CommitAssumption,
         \A f, g \in S : f.stamp = g.stamp => f = g
  PROVE  \E f \in S : \A g \in S \ {f} : Newer(f, g)
<1> DEFINE T == {MaxRuns - f.stamp : f \in S}
           R == OpToRel(<, Nat)
<1>1. MaxRuns \in Nat /\ \A f \in S : f.stamp \in 0 .. MaxRuns
  BY DEF CommitAssumption, Files
<1>2. T \subseteq Nat /\ T # {}
  BY <1>1
<1>3. PICK x \in T : \A y \in T : ~ (<<y, x>> \in R)
  <2> HIDE DEF T, R
  <2> QED BY <1>2, WFMin, NatLessThanWellFounded DEF R
<1>4. \A y \in T : ~ (y < x)
  BY <1>2, <1>3 DEF OpToRel
<1>5. PICK f \in S : x = MaxRuns - f.stamp
  OBVIOUS
<1>6. \A g \in S : ~ (MaxRuns - g.stamp < MaxRuns - f.stamp)
  BY <1>4, <1>5
<1> QED BY <1>1, <1>6 DEF Newer

\* What is left of the backups when there are too many: RETENTION_COUNT of them
\* at least, each newer than all that go.
LEMMA ObsoleteLeaves ==
  ASSUME NEW S \in SUBSET Files, IsFiniteSet(S), CommitAssumption,
         \A f, g \in S : f.stamp = g.stamp => f = g,
         Obsolete(S) # {}
  PROVE  /\ Obsolete(S) \subseteq S
         /\ Cardinality(S \ Obsolete(S)) >= RETENTION_COUNT
         /\ \A f \in Obsolete(S), g \in S \ Obsolete(S) : f.stamp < g.stamp
<1> DEFINE Above(f) == {g \in S : Newer(g, f)}
<1>1. /\ \A f \in S : f.stamp \in Nat /\ f.hash.number \in Nat
      /\ RETENTION_COUNT \in Nat
  BY DEF Files, Databases, CommitAssumption
<1>2. \A f, g \in S : Newer(f, g) <=> f.stamp > g.stamp
  BY <1>1 DEF Newer
<1>3. /\ Obsolete(S) \subseteq S
      /\ \A f \in S : f \in Obsolete(S) <=> Cardinality(Above(f)) >= RETENTION_COUNT
  BY DEF Obsolete
<1>4. PICK f \in Obsolete(S) : \A g \in Obsolete(S) \ {f} : Newer(f, g)
  <2>1. Obsolete(S) \in SUBSET Files /\ \A g, h \in Obsolete(S) : g.stamp = h.stamp => g = h
    BY DEF Obsolete
  <2> QED BY <2>1, FirstFile
<1>5. Cardinality(S \ Obsolete(S)) >= RETENTION_COUNT
  <2>1. Above(f) \subseteq S \ Obsolete(S)
    <3> SUFFICES ASSUME NEW g \in S, Newer(g, f) PROVE g \notin Obsolete(S)
      OBVIOUS
    <3> QED BY <1>1, <1>2, <1>3, <1>4
  <2>2. IsFiniteSet(S \ Obsolete(S)) /\ IsFiniteSet(Above(f))
    BY FS_Subset DEF Obsolete
  <2>3. Cardinality(Above(f)) <= Cardinality(S \ Obsolete(S))
    BY <2>1, <2>2, FS_Subset
  <2> QED BY <1>1, <1>3, <2>2, <2>3, FS_CardinalityType
<1>6. ASSUME NEW h \in Obsolete(S), NEW g \in S \ Obsolete(S), ~ (h.stamp < g.stamp)
      PROVE  FALSE
  <2>1. Above(h) \subseteq Above(g)
    <3> SUFFICES ASSUME NEW k \in S, Newer(k, h) PROVE Newer(k, g)
      OBVIOUS
    <3> QED BY <1>1, <1>2, <1>3, <1>6
  <2>2. IsFiniteSet(Above(g)) /\ IsFiniteSet(Above(h))
    BY FS_Subset
  <2>3. Cardinality(Above(h)) <= Cardinality(Above(g))
    BY <2>1, <2>2, FS_Subset
  <2> QED BY <1>1, <1>3, <1>6, <2>2, <2>3, FS_CardinalityType
<1> QED BY <1>3, <1>5, <1>6

-----------------------------------------------------------------------------

LocalsTyped ==
  /\ pc \in [Operators -> Locations]
  /\ before \in [Operators -> 0 .. MaxVersions]
  /\ stamp \in [Operators -> 0 .. MaxRuns]
  /\ {candidate, old, saved} \subseteq [Operators -> Databases \cup {None}]
  /\ obsolete \in [Operators -> SUBSET Files]

LEMMA InitKept == ASSUME CommitAssumption, NoneAssumption, Init PROVE KeptInv
<1> USE DEF Init
<1>1. /\ RETENTION_COUNT \in Nat \ {0} /\ MaxVersions \in Nat /\ MaxRuns \in Nat
      /\ MaxFaults \in Nat
  BY DEF CommitAssumption
<1>2. TypeOK
  <2>1. LocalsTyped
    BY <1>1 DEF LocalsTyped, Locations
  <2>2. committed \in Seq(Databases)
    OBVIOUS
  <2>3. /\ version \in 0 .. MaxVersions /\ {clock, made} \subseteq 0 .. MaxRuns
        /\ faults \in 0 .. MaxFaults
    BY <1>1
  <2>4. /\ unfinished \in BOOLEAN /\ overlapped \in BOOLEAN
        /\ retained \in Databases \cup {None} /\ backups \subseteq Files
        /\ receipts \subseteq [before : 0 .. MaxVersions, database : Databases]
    BY Zenon
  <2> QED BY <2>1, <2>2, <2>3, <2>4 DEF TypeOK, LocalsTyped
<1>3. {x \in Operators : pc[x] = "collect"} = {}
  OBVIOUS
<1>4. Counted
  <2>1. clock = 0 /\ made = 0 /\ Cardinality({x \in Operators : pc[x] = "collect"}) = 0
    BY ONLY <1>3, FS_EmptySet, Init DEF Init
  <2> QED BY ONLY <2>1 DEF Counted
<1>5. \A x \in Operators : Staged(x)
  BY <1>1 DEF Staged, Committing, CommitLocations
<1>6. Recorded
  BY FS_EmptySet DEF Recorded
<1>7. Alone /\ Ordered /\ \A x \in Operators : Pruning(x)
  BY DEF Alone, Ordered, Pruning, Committing, CommitLocations
<1>8. FinishedOnly /\ ReceiptsTrue /\ NamesTrue /\ NothingLost
  BY DEF FinishedOnly, ReceiptsTrue, NamesTrue, NothingLost
<1> QED BY <1>2, <1>4, <1>5, <1>6, <1>7, <1>8 DEF KeptInv, CommitInv

\* What the other runs have at hand stays.
Frame(x) ==
  \A y \in Operators \ {x} :
    /\ pc'[y] = pc[y] /\ before'[y] = before[y] /\ candidate'[y] = candidate[y]
    /\ stamp'[y] = stamp[y] /\ old'[y] = old[y] /\ saved'[y] = saved[y]
    /\ obsolete'[y] = obsolete[y]

LEMMA Returned ==
  ASSUME CommitAssumption, TypeOK, NEW x \in Operators, Return(x)
  PROVE  /\ Frame(x) /\ LocalsTyped'
         /\ pc'[x] = "idle" /\ before'[x] = 0 /\ candidate'[x] = None
         /\ stamp'[x] = 0 /\ old'[x] = None /\ saved'[x] = None /\ obsolete'[x] = {}
BY DEF CommitAssumption, TypeOK, Return, Goto, Frame, LocalsTyped, Locations

LEMMA Gone ==
  ASSUME TypeOK, NEW x \in Operators, NEW location \in Locations,
         Goto(x, location), UNCHANGED locals
  PROVE  Frame(x) /\ LocalsTyped' /\ pc'[x] = location
BY DEF TypeOK, Goto, Frame, LocalsTyped, locals

\* Nothing that one run does takes from another what it has at hand.
LEMMA OthersKept ==
  ASSUME NoneAssumption, KeptInv, NEW x \in Operators, Frame(x),
         version' \in Nat, clock' \in Nat, made' \in Nat,
         version <= version', clock <= clock', made <= made',
         retained # None => retained' # None,
         \/ committed' = committed
         \/ candidate[x] # None /\ committed' = Append(committed, candidate[x])
  PROVE  \A y \in Operators \ {x} : Staged(y)'
<1> SUFFICES ASSUME NEW y \in Operators, y # x PROVE Staged(y)'
  OBVIOUS
<1> USE DEF Frame
<1>1. /\ version \in Nat /\ clock \in Nat /\ made \in Nat
      /\ before[y] \in Nat /\ stamp[y] \in Nat
      /\ candidate[y] # None => candidate[y].base \in Nat /\ candidate[y].number \in Nat
      /\ committed \in Seq(Databases)
  <2>1. TypeOK
    BY DEF KeptInv, CommitInv
  <2>2. candidate[y] \in Databases \cup {None}
    BY <2>1 DEF TypeOK
  <2> QED BY <2>1, <2>2 DEF TypeOK, Databases
<1>2. Staged(y)
  BY DEF KeptInv
<1>3. ASSUME candidate[y] # None
      PROVE  IF pc[y] \in {"confirm", "prune", "unlink", "compare"}
             THEN IsKept(candidate[y])'
             ELSE \A i \in DOMAIN committed' : committed'[i].number # candidate[y].number
  <2>1. CASE committed' = committed
    BY <1>2, <1>3, <2>1 DEF Staged, IsKept
  <2>2. CASE candidate[x] # None /\ committed' = Append(committed, candidate[x])
    <3>1. candidate[x].number # candidate[y].number
      BY <1>3, <2>2 DEF KeptInv, Recorded
    <3>2. /\ DOMAIN committed \subseteq DOMAIN committed'
          /\ \A i \in DOMAIN committed : committed'[i] = committed[i]
          /\ \A i \in DOMAIN committed' : i \in DOMAIN committed \/ committed'[i] = candidate[x]
      BY <1>1, <2>2
    <3> QED BY <1>2, <1>3, <3>1, <3>2 DEF Staged, IsKept
  <2> QED BY <2>1, <2>2
<1>4. before'[y] <= version' /\ stamp'[y] <= clock'
  BY <1>1, <1>2 DEF Staged
<1>5. candidate[y] # None =>
        before[y] <= candidate[y].base /\ candidate[y].base <= version'
        /\ candidate[y].number <= made'
  BY <1>1, <1>2 DEF Staged
<1> QED BY <1>2, <1>3, <1>4, <1>5 DEF Staged, Committing

\* The copies being collected are the clock's steps to come.
LEMMA CollectingKept ==
  ASSUME CommitAssumption, KeptInv, NEW x \in Operators, Frame(x),
         made' \in Nat, pc'[x] = "collect" => pc[x] = "collect" \/ made' = made + 1,
         made <= made', clock' \in Nat,
         clock' = clock \/ (clock' = clock + 1 /\ pc[x] = "collect" /\ pc'[x] # "collect")
  PROVE  Counted'
<1> DEFINE C == {y \in Operators : pc[y] = "collect"}
           D == {y \in Operators : pc'[y] = "collect"}
<1>1. /\ IsFiniteSet(C) /\ IsFiniteSet(D) /\ IsFiniteSet(C \ {x})
      /\ clock \in Nat /\ made \in Nat
  <2>1. IsFiniteSet(Operators) /\ MaxRuns \in Nat
    BY DEF CommitAssumption
  <2> QED BY <2>1, FS_Subset DEF KeptInv, CommitInv, TypeOK
<1>2. clock + Cardinality(C) <= made
  BY DEF KeptInv, Counted
<1>3. D = C \/ D = C \ {x} \/ D = C \cup {x}
  BY DEF Frame
<1>4. pc[x] = "collect" <=> x \in C
  OBVIOUS
<1>5. pc'[x] = "collect" <=> x \in D
  OBVIOUS
<1>6. Cardinality(C) \in Nat
  BY <1>1, FS_CardinalityType
<1> HIDE DEF C, D
<1>7. /\ x \in C => Cardinality(C \ {x}) = Cardinality(C) - 1
      /\ x \notin C => Cardinality(C \cup {x}) = Cardinality(C) + 1
  BY <1>1, FS_RemoveElement, FS_AddElement
<1>8. clock' + Cardinality(D) <= made'
  <2>1. CASE x \in C /\ x \in D
    <3>1. D = C
      BY <1>3, <2>1
    <3> QED BY <1>1, <1>2, <1>4, <1>5, <1>6, <2>1, <3>1
  <2>2. CASE x \in C /\ x \notin D
    <3>1. D = C \ {x}
      BY <1>3, <2>2
    <3> QED BY <1>1, <1>2, <1>6, <1>7, <2>2, <3>1
  <2>3. CASE x \notin C /\ x \in D
    <3>1. D = C \cup {x}
      BY <1>3, <2>3
    <3> QED BY <1>1, <1>2, <1>4, <1>5, <1>6, <1>7, <2>3, <3>1
  <2>4. CASE x \notin C /\ x \notin D
    <3>1. D = C
      BY <1>3, <2>4
    <3> QED BY <1>1, <1>2, <1>4, <1>6, <2>4, <3>1
  <2> QED BY <2>1, <2>2, <2>3, <2>4
<1> QED BY <1>8 DEF Counted, D

LEMMA NumbersBounded ==
  ASSUME KeptInv
  PROVE  \A i \in DOMAIN committed :
           /\ committed[i] \in Databases
           /\ committed[i].number \in Nat /\ committed[i].number <= made
<1>1. committed \in Seq(Databases)
  BY DEF KeptInv, CommitInv, TypeOK
<1>2. \A i \in DOMAIN committed : committed[i] \in Databases
  BY <1>1
<1> QED BY <1>2 DEF KeptInv, Recorded, Databases

\* A step of one run outside the few that save, replace or remove.
LEMMA QuietStep ==
  ASSUME NoneAssumption, KeptInv, NEW x \in Operators, Frame(x), LocalsTyped',
         UNCHANGED <<version, unfinished, retained, backups, committed, overlapped>>,
         clock <= clock', {clock', made'} \subseteq 0 .. MaxRuns, faults' \in 0 .. MaxFaults,
         Counted', Staged(x)',
         \/ made' = made /\ candidate'[x] \in {candidate[x], None}
         \/ made' = made + 1 /\ candidate'[x].number = made',
         receipts' \subseteq [before : 0 .. MaxVersions, database : Databases],
         ReceiptsTrue',
         pc'[x] \notin {"gate", "backup", "publish", "replace", "unlink"},
         Committing(x)' => Committing(x)
  PROVE  KeptInv'
<1>1. TypeOK
  BY DEF KeptInv, CommitInv
<1>2. TypeOK'
  BY <1>1 DEF TypeOK, LocalsTyped
<1>3. version \in Nat /\ clock' \in Nat /\ made \in Nat /\ made' \in Nat /\ made <= made'
  BY <1>1 DEF TypeOK
<1>4. \A y \in Operators : Staged(y)'
  BY <1>3, OthersKept
<1>5. Recorded'
  <2>1. clock \in Nat /\ \A file \in backups : file.stamp \in Nat
    BY <1>1 DEF TypeOK, Files
  <2>2. \A file \in backups : file.stamp <= clock'
    BY <1>3, <2>1 DEF KeptInv, Recorded
  <2>3. \A i \in DOMAIN committed : committed[i].number \in Nat /\ committed[i].number <= made
    BY NumbersBounded
  <2>4. \A y \in Operators : candidate[y] # None =>
          candidate[y].number \in Nat /\ candidate[y].number <= made
    <3>1. \A y \in Operators : Staged(y) /\ candidate[y] \in Databases \cup {None}
      BY <1>1 DEF KeptInv, TypeOK
    <3> QED BY <3>1 DEF Staged, Databases
  <2>5. \A y, z \in Operators :
          /\ candidate'[y] # None /\ candidate'[z] # None
          /\ candidate'[y].number = candidate'[z].number
          => y = z
    <3>1. \A y \in Operators \ {x} : candidate'[y] = candidate[y]
      BY DEF Frame
    <3>2. CASE made' = made /\ candidate'[x] \in {candidate[x], None}
      BY <3>1, <3>2 DEF KeptInv, Recorded
    <3>3. CASE made' = made + 1 /\ candidate'[x].number = made'
      BY <1>3, <2>4, <3>1, <3>3 DEF KeptInv, Recorded
    <3> QED BY <3>2, <3>3
  <2>6. \A i \in DOMAIN committed : committed[i].number <= made'
    BY <1>3, <2>3
  <2> QED BY <2>2, <2>5, <2>6 DEF KeptInv, Recorded
<1>6. FinishedOnly' /\ NamesTrue' /\ NothingLost'
  BY DEF KeptInv, CommitInv, FinishedOnly, NamesTrue, NothingLost
<1>7. ASSUME ~ overlapped PROVE Alone' /\ Ordered' /\ \A y \in Operators : Pruning(y)'
  <2>1. Alone /\ Ordered /\ \A y \in Operators : Pruning(y)
    BY <1>7 DEF KeptInv
  <2>2. \A y \in Operators : Committing(y)' => Committing(y)
    BY DEF Frame, Committing
  <2>3. \A y \in Operators :
          pc'[y] \in {"gate", "backup", "publish", "replace", "unlink"} => y # x
    OBVIOUS
  <2>4. Alone'
    BY <2>1, <2>2, <2>3 DEF Alone, Frame
  <2>5. Ordered'
    BY <2>1 DEF Ordered, IsKept
  <2>6. \A y \in Operators : Pruning(y)'
    BY <2>1, <2>3 DEF Pruning, Frame
  <2> QED BY <2>4, <2>5, <2>6
<1> QED
  BY <1>2, <1>4, <1>5, <1>6, <1>7 DEF KeptInv, CommitInv

LEMMA ClockBound ==
  ASSUME CommitAssumption, KeptInv, NEW x \in Operators, pc[x] = "collect"
  PROVE  clock + 1 <= made /\ clock + 1 \in 0 .. MaxRuns
<1> DEFINE C == {y \in Operators : pc[y] = "collect"}
<1>1. IsFiniteSet(C) /\ IsFiniteSet({x})
  BY FS_Subset, FS_Singleton DEF CommitAssumption
<1>2. {x} \subseteq C
  OBVIOUS
<1>3. Cardinality(C) \in Nat /\ 1 <= Cardinality(C)
  BY <1>1, <1>2, FS_Subset, FS_Singleton, FS_CardinalityType
<1>4. clock + Cardinality(C) <= made
  BY DEF KeptInv, Counted
<1>5. clock \in 0 .. MaxRuns /\ made \in 0 .. MaxRuns /\ MaxRuns \in Nat
  BY DEF KeptInv, CommitInv, TypeOK, CommitAssumption
<1> HIDE DEF C
<1> QED BY <1>3, <1>4, <1>5

LEMMA ReturnKeeps ==
  ASSUME CommitAssumption, NoneAssumption, KeptInv, NEW x \in Operators, Return(x),
         UNCHANGED <<production, retained, backups, made, committed, overlapped>>,
         clock' = clock \/ (pc[x] = "collect" /\ clock' = clock + 1),
         faults' \in 0 .. MaxFaults,
         receipts' \subseteq [before : 0 .. MaxVersions, database : Databases],
         ReceiptsTrue'
  PROVE  KeptInv'
<1>1. /\ Frame(x) /\ LocalsTyped'
      /\ pc'[x] = "idle" /\ before'[x] = 0 /\ candidate'[x] = None /\ stamp'[x] = 0
  BY Returned DEF KeptInv, CommitInv
<1>2. clock \in 0 .. MaxRuns /\ version \in Nat /\ made \in 0 .. MaxRuns
  BY DEF KeptInv, CommitInv, TypeOK
<1>3. clock <= clock' /\ clock' \in 0 .. MaxRuns
  BY <1>2, ClockBound
<1>4. Counted'
  BY <1>1, <1>2, <1>3, CollectingKept
<1>5. Staged(x)'
  BY <1>1, <1>2, <1>3 DEF Staged, Committing, CommitLocations, production
<1>6. ~ Committing(x)'
  BY <1>1 DEF Committing, CommitLocations
<1> QED BY <1>1, <1>2, <1>3, <1>4, <1>5, <1>6, QuietStep DEF production

\* A run goes on, with what it has at hand.
LEMMA GoesKeeps ==
  ASSUME CommitAssumption, NoneAssumption, KeptInv, NEW x \in Operators,
         NEW location \in {"copy", "commit", "prune", "compare"},
         Goto(x, location), UNCHANGED locals,
         UNCHANGED <<production, retained, backups, made, history, faults>>,
         \/ location = "copy" /\ pc[x] = "look"
            /\ clock' = clock
         \/ location = "commit" /\ pc[x] = "collect" /\ ~ candidate[x].unfinished
            /\ clock' = clock + 1
         \/ location = "prune" /\ pc[x] = "confirm" /\ clock' = clock
         \/ location = "compare" /\ pc[x] = "unlink" /\ clock' = clock
  PROVE  KeptInv'
<1>1. Frame(x) /\ LocalsTyped' /\ pc'[x] = location
  BY Gone DEF KeptInv, CommitInv, Locations, CommitLocations
<1>2. /\ clock \in 0 .. MaxRuns /\ version \in Nat /\ made \in 0 .. MaxRuns
      /\ faults \in 0 .. MaxFaults
      /\ stamp[x] \in Nat /\ receipts \subseteq [before : 0 .. MaxVersions, database : Databases]
  BY DEF KeptInv, CommitInv, TypeOK
<1>3. clock <= clock' /\ clock' \in 0 .. MaxRuns
  BY <1>2, ClockBound
<1>4. Counted'
  BY <1>1, <1>2, <1>3, CollectingKept
<1>5. Staged(x)'
  BY <1>1, <1>2, <1>3 DEF KeptInv, Staged, Committing, CommitLocations, production, locals,
     history, IsKept
<1>6. Committing(x)' => Committing(x)
  BY <1>1 DEF Committing, CommitLocations
<1>7. ReceiptsTrue'
  BY DEF KeptInv, CommitInv, ReceiptsTrue, history
<1> QED BY <1>1, <1>2, <1>3, <1>4, <1>5, <1>6, <1>7, QuietStep DEF production, locals, history

LEMMA StartKeeps ==
  ASSUME CommitAssumption, NoneAssumption, KeptInv, NEW x \in Operators, Start(x)
  PROVE  KeptInv'
<1> USE DEF Start
<1>1. TypeOK /\ Staged(x)
  BY DEF KeptInv, CommitInv
<1>2. Frame(x) /\ LocalsTyped' /\ pc'[x] = "look" /\ before'[x] = version
  BY <1>1 DEF TypeOK, Frame, LocalsTyped, Goto, Locations
<1>3. /\ clock \in 0 .. MaxRuns /\ version \in Nat /\ made \in 0 .. MaxRuns
      /\ faults \in 0 .. MaxFaults
      /\ receipts \subseteq [before : 0 .. MaxVersions, database : Databases]
  BY <1>1 DEF TypeOK
<1>4. Counted'
  BY <1>2, <1>3, CollectingKept
<1>5. Staged(x)'
  BY <1>1, <1>2, <1>3 DEF Staged, Committing, CommitLocations, production
<1>6. ~ Committing(x)'
  BY <1>2 DEF Committing, CommitLocations
<1>7. ReceiptsTrue'
  BY DEF KeptInv, CommitInv, ReceiptsTrue, history
<1> QED BY <1>2, <1>3, <1>4, <1>5, <1>6, <1>7, QuietStep DEF production, history

LEMMA CopyKeeps ==
  ASSUME CommitAssumption, NoneAssumption, KeptInv, NEW x \in Operators, Copy(x)
  PROVE  KeptInv'
<1> USE DEF Copy
<1> DEFINE taken == [number |-> made + 1, base |-> version, unfinished |-> unfinished]
<1>1. TypeOK /\ Staged(x)
  BY DEF KeptInv, CommitInv
<1>2. /\ clock \in 0 .. MaxRuns /\ version \in 0 .. MaxVersions /\ made \in 0 .. MaxRuns
      /\ made' \in 1 .. MaxRuns /\ faults \in 0 .. MaxFaults /\ before[x] \in Nat
      /\ MaxRuns \in Nat
      /\ receipts \subseteq [before : 0 .. MaxVersions, database : Databases]
  BY <1>1 DEF TypeOK, CommitAssumption
<1>3. taken \in Databases /\ taken # None
  <2>1. unfinished \in BOOLEAN
    BY <1>1 DEF TypeOK
  <2> QED BY <1>2, <2>1, NoneAssumption DEF Databases, NoneAssumption
<1>4. Frame(x) /\ LocalsTyped' /\ pc'[x] = "collect" /\ candidate'[x] = taken
  BY <1>1, <1>3 DEF TypeOK, Frame, LocalsTyped, Goto, Locations
<1>5. Counted'
  BY <1>2, <1>4, CollectingKept
<1>6. Staged(x)'
  <2>1. \A i \in DOMAIN committed : committed[i].number # made + 1
    BY <1>2, NumbersBounded
  <2> QED
    BY <1>1, <1>2, <1>3, <1>4, <2>1 DEF Staged, Committing, CommitLocations, production, history
<1>7. ~ Committing(x)'
  BY <1>4 DEF Committing, CommitLocations
<1>8. ReceiptsTrue'
  BY DEF KeptInv, CommitInv, ReceiptsTrue, history
<1> QED BY <1>2, <1>4, <1>5, <1>6, <1>7, <1>8, QuietStep DEF production, history

LEMMA CollectKeeps ==
  ASSUME CommitAssumption, NoneAssumption, KeptInv, NEW x \in Operators, Collect(x)
  PROVE  KeptInv'
<1> USE DEF Collect
<1>1. TypeOK /\ Staged(x) /\ ReceiptsTrue
  BY DEF KeptInv, CommitInv
<1>2. /\ clock \in 0 .. MaxRuns /\ version \in Nat /\ made \in 0 .. MaxRuns
      /\ faults \in 0 .. MaxFaults /\ stamp[x] \in Nat
      /\ receipts \subseteq [before : 0 .. MaxVersions, database : Databases]
  BY <1>1 DEF TypeOK
<1>3. ReceiptsTrue'
  BY <1>1 DEF ReceiptsTrue, history
<1>4. CASE Return(x)
  BY <1>2, <1>3, <1>4, ReturnKeeps DEF history
<1>5. CASE Goto(x, "commit") /\ UNCHANGED locals /\ ~ Refuses(candidate[x]) /\ clock' = clock + 1
  BY <1>5, GoesKeeps DEF Refuses
<1>6. CASE /\ Goto(x, "compare") /\ candidate' = [candidate EXCEPT ![x] = None]
           /\ UNCHANGED <<before, stamp, old, saved, obsolete>> /\ clock' = clock + 1
  <2>1. Frame(x) /\ LocalsTyped' /\ pc'[x] = "compare" /\ candidate'[x] = None
    BY <1>1, <1>6 DEF TypeOK, Frame, LocalsTyped, Goto, Locations
  <2>2. clock <= clock' /\ clock' \in 0 .. MaxRuns
    BY <1>2, <1>6, ClockBound
  <2>3. Counted'
    BY <1>2, <1>6, <2>1, CollectingKept
  <2>4. Staged(x)'
    BY <1>1, <1>2, <1>6, <2>1, <2>2 DEF Staged, Committing, CommitLocations, production
  <2>5. ~ Committing(x)'
    BY <2>1 DEF Committing, CommitLocations
  <2> QED BY <1>2, <1>3, <2>1, <2>2, <2>3, <2>4, <2>5, QuietStep DEF production, history
<1> QED BY <1>4, <1>5, <1>6

LEMMA CompareKeeps ==
  ASSUME CommitAssumption, NoneAssumption, KeptInv, NEW x \in Operators, Compare(x)
  PROVE  KeptInv'
<1> USE DEF Compare
<1>1. TypeOK /\ Staged(x) /\ ReceiptsTrue
  BY DEF KeptInv, CommitInv
<1>2. /\ faults \in 0 .. MaxFaults /\ before[x] \in 0 .. MaxVersions /\ version \in Nat
      /\ candidate[x] \in Databases \cup {None}
      /\ receipts \subseteq [before : 0 .. MaxVersions, database : Databases]
  BY <1>1 DEF TypeOK
<1>3. CASE version = before[x] /\ candidate[x] # None
  <2> DEFINE receipt == [before |-> before[x], database |-> candidate[x]]
  <2>1. candidate[x].base \in Nat /\ candidate[x] \in Databases
    BY <1>2, <1>3 DEF Databases
  <2>2. candidate[x].base = before[x] /\ IsKept(candidate[x])
    BY <1>1, <1>2, <1>3, <2>1 DEF Staged
  <2>3. receipts' = receipts \cup {receipt}
    BY <1>3
  <2>4. receipt \in [before : 0 .. MaxVersions, database : Databases]
    BY <1>2, <2>1
  <2>5. ReceiptsTrue'
    BY <1>1, <2>2, <2>3 DEF ReceiptsTrue, IsKept
  <2> HIDE DEF receipt
  <2> QED BY <1>2, <2>3, <2>4, <2>5, ReturnKeeps
<1>4. CASE ~ (version = before[x] /\ candidate[x] # None)
  <2>1. receipts' = receipts
    BY <1>4
  <2>2. ReceiptsTrue'
    BY <1>1, <2>1 DEF ReceiptsTrue
  <2> QED BY <1>2, <2>1, <2>2, ReturnKeeps
<1> QED BY <1>3, <1>4

-----------------------------------------------------------------------------
(* Saving, replacing and removing *)

\* What a step of a commit has in common: of the run's own only its place, a
\* stamp and a few databases change.
LEMMA CommitStep ==
  ASSUME CommitAssumption, NoneAssumption, KeptInv, NEW x \in Operators,
         Frame(x), LocalsTyped', Staged(x)',
         UNCHANGED <<version, unfinished, clock, made, candidate, receipts, faults>>,
         pc'[x] # "collect", retained' \in Databases \cup {None},
         retained # None => retained' # None,
         \/ committed' = committed
         \/ candidate[x] # None /\ committed' = Append(committed, candidate[x]),
         backups' \subseteq Files, overlapped' \in BOOLEAN
  PROVE  /\ TypeOK' /\ Counted' /\ ReceiptsTrue'
         /\ \A y \in Operators : Staged(y)'
<1>1. TypeOK /\ ReceiptsTrue /\ Counted
  BY DEF KeptInv, CommitInv
<1>2. version \in Nat /\ clock \in Nat /\ made \in Nat
  BY <1>1 DEF TypeOK
<1>3. candidate[x] \in Databases \cup {None} /\ committed \in Seq(Databases)
  BY <1>1 DEF TypeOK
<1>4. committed' \in Seq(Databases)
  BY <1>3
<1>5. TypeOK'
  <2>1. unfinished' \in BOOLEAN /\ overlapped' \in BOOLEAN /\ version' \in 0 .. MaxVersions
    BY <1>1, Zenon DEF TypeOK
  <2>2. /\ {clock', made'} \subseteq 0 .. MaxRuns /\ faults' \in 0 .. MaxFaults
        /\ receipts' \subseteq [before : 0 .. MaxVersions, database : Databases]
    BY <1>1 DEF TypeOK
  <2> QED BY <1>4, <2>1, <2>2 DEF TypeOK, LocalsTyped
<1>6. Counted'
  BY <1>2, CollectingKept
<1>7. ReceiptsTrue'
  <2>1. \A d : IsKept(d) => IsKept(d)'
    <3>1. /\ DOMAIN committed \subseteq DOMAIN committed'
          /\ \A i \in DOMAIN committed : committed'[i] = committed[i]
      BY <1>3
    <3> QED BY <3>1 DEF IsKept
  <2> QED BY <1>1, <2>1 DEF ReceiptsTrue, IsKept
<1>8. \A y \in Operators : Staged(y)'
  BY <1>2, OthersKept
<1> QED BY <1>5, <1>6, <1>7, <1>8

LEMMA CommitKeeps ==
  ASSUME CommitAssumption, NoneAssumption, KeptInv, NEW x \in Operators, Commit(x)
  PROVE  KeptInv'
<1> USE DEF Commit
<1>1. TypeOK /\ Staged(x) /\ CommitInv /\ Recorded
  BY DEF KeptInv, CommitInv
<1>2. /\ Frame(x) /\ LocalsTyped'
      /\ pc'[x] = "gate" /\ stamp'[x] = clock /\ before'[x] = before[x]
  BY <1>1 DEF TypeOK, Frame, LocalsTyped, Goto, Locations, CommitLocations
<1>3. clock \in Nat
  BY <1>1 DEF TypeOK
<1>4. Staged(x)'
  BY <1>1, <1>2, <1>3 DEF Staged, Committing, CommitLocations, IsKept, production
<1>5. /\ TypeOK' /\ Counted' /\ ReceiptsTrue'
      /\ \A y \in Operators : Staged(y)'
  <2>1. overlapped' \in BOOLEAN
    BY <1>1, Zenon DEF TypeOK
  <2>2. retained \in Databases \cup {None} /\ backups \subseteq Files
    BY <1>1 DEF TypeOK
  <2> QED BY <1>2, <1>4, <2>1, <2>2, CommitStep DEF production
<1>6. Recorded'
  BY <1>1 DEF Recorded
<1>7. FinishedOnly' /\ NamesTrue' /\ NothingLost'
  BY DEF KeptInv, CommitInv, FinishedOnly, NamesTrue, NothingLost
<1>8. ASSUME ~ overlapped' PROVE Alone' /\ Ordered' /\ \A y \in Operators : Pruning(y)'
  <2>1. /\ ~ overlapped /\ \A y \in Operators : ~ Committing(y)
        /\ \A file \in backups : file.stamp # clock
    BY <1>8
  <2>2. Ordered /\ \A y \in Operators : Pruning(y)
    BY <2>1 DEF KeptInv
  <2>3. \A y \in Operators \ {x} : ~ Committing(y)'
    BY <1>2, <2>1 DEF Frame, Committing
  <2>4. \A file \in backups : file.stamp < clock
    <3>1. \A file \in backups : file.stamp \in Nat /\ file.stamp <= clock
      BY <1>1 DEF TypeOK, Files, Recorded
    <3> QED BY <1>3, <2>1, <3>1
  <2>5. Alone'
    BY <1>2, <2>3, <2>4 DEF Alone, Committing, CommitLocations
  <2>6. Ordered'
    BY <2>2 DEF Ordered, IsKept
  <2>7. \A y \in Operators : Pruning(y)'
    BY <1>2, <2>3 DEF Pruning, Committing, CommitLocations
  <2> QED BY <2>5, <2>6, <2>7
<1> QED BY <1>5, <1>6, <1>7, <1>8 DEF KeptInv, CommitInv

\* What there is to save is what is retained when it is hashed.
LEMMA HashOldKeeps ==
  ASSUME CommitAssumption, NoneAssumption, KeptInv, NEW x \in Operators, HashOld(x)
  PROVE  KeptInv'
<1> USE DEF HashOld
<1>1. TypeOK /\ Staged(x) /\ CommitInv /\ Recorded
  BY DEF KeptInv, CommitInv
<1>2. /\ Frame(x) /\ LocalsTyped'
      /\ pc'[x] = IF retained = None THEN "replace" ELSE "backup"
      /\ old'[x] = retained /\ before'[x] = before[x] /\ stamp'[x] = stamp[x]
  BY <1>1 DEF TypeOK, Frame, LocalsTyped, Goto, Locations, CommitLocations
<1>3. Staged(x)'
  BY <1>1, <1>2 DEF Staged, Committing, CommitLocations, IsKept, production, history
<1>4. /\ TypeOK' /\ Counted' /\ ReceiptsTrue'
      /\ \A y \in Operators : Staged(y)'
  <2>1. overlapped' \in BOOLEAN
    BY <1>1, Zenon DEF TypeOK, history
  <2>2. retained \in Databases \cup {None} /\ backups \subseteq Files
    BY <1>1 DEF TypeOK
  <2> QED BY <1>2, <1>3, <2>1, <2>2, CommitStep DEF production, history
<1>5. Recorded'
  BY <1>1 DEF Recorded, history
<1>6. FinishedOnly' /\ NamesTrue' /\ NothingLost'
  BY DEF KeptInv, CommitInv, FinishedOnly, NamesTrue, NothingLost, history
<1>7. ASSUME ~ overlapped' PROVE Alone' /\ Ordered' /\ \A y \in Operators : Pruning(y)'
  <2>1. Alone /\ Ordered /\ \A y \in Operators : Pruning(y)
    BY <1>7 DEF KeptInv, history
  <2>2. \A y \in Operators : Committing(y)' => Committing(y)
    BY <1>2 DEF Frame, Committing, CommitLocations
  <2>3. \A file \in backups : file.stamp < stamp[x]
    BY <2>1 DEF Alone
  <2>4. Alone'
    BY <1>2, <2>1, <2>2, <2>3 DEF Alone, Frame
  <2>5. Ordered'
    BY <2>1 DEF Ordered, IsKept, history
  <2>6. \A y \in Operators : Pruning(y)'
    BY <1>2, <2>1 DEF Pruning, Frame
  <2> QED BY <2>4, <2>5, <2>6
<1> QED BY <1>4, <1>5, <1>6, <1>7 DEF KeptInv, CommitInv

\* BACKUP_COLLISION aside, the run has copied what it is about to replace.
LEMMA BackupKeeps ==
  ASSUME CommitAssumption, NoneAssumption, KeptInv, NEW x \in Operators, Backup(x)
  PROVE  KeptInv'
<1> USE DEF Backup
<1>1. TypeOK /\ Staged(x) /\ CommitInv /\ Recorded
  BY DEF KeptInv, CommitInv
<1>2. CASE Named(x) # {}
  <2>1. /\ faults \in 0 .. MaxFaults
        /\ receipts \subseteq [before : 0 .. MaxVersions, database : Databases]
    BY <1>1 DEF TypeOK
  <2>2. ReceiptsTrue'
    BY <1>1 DEF CommitInv, ReceiptsTrue, history
  <2> QED BY <1>2, <2>1, <2>2, ReturnKeeps DEF history
<1>3. CASE Named(x) = {}
  <2>1. /\ Frame(x) /\ LocalsTyped' /\ pc'[x] = "publish" /\ saved'[x] = retained
        /\ UNCHANGED <<before, candidate, stamp, old>>
    <3>1. /\ Goto(x, "publish") /\ saved' = [saved EXCEPT ![x] = retained]
          /\ UNCHANGED <<before, candidate, stamp, old, obsolete>>
      BY <1>3
    <3>2. retained \in Databases \cup {None} /\ "publish" \in Locations
      BY <1>1 DEF TypeOK, Locations, CommitLocations
    <3>3. Frame(x) /\ pc'[x] = "publish" /\ saved'[x] = retained
      BY <1>1, <3>1 DEF TypeOK, Frame, Goto
    <3>4. LocalsTyped'
      BY <1>1, <3>1, <3>2 DEF TypeOK, LocalsTyped, Goto
    <3> QED BY <3>1, <3>3, <3>4
  <2>2. Staged(x)'
    BY <1>1, <2>1 DEF Staged, Committing, CommitLocations, IsKept, production, history
  <2>3. /\ TypeOK' /\ Counted' /\ ReceiptsTrue'
        /\ \A y \in Operators : Staged(y)'
    <3>1. overlapped' \in BOOLEAN
      BY <1>1, Zenon DEF TypeOK, history
    <3>2. retained \in Databases \cup {None} /\ backups \subseteq Files
      BY <1>1 DEF TypeOK
    <3> QED BY <2>1, <2>2, <3>1, <3>2, CommitStep DEF production, history
  <2>4. Recorded'
    BY <1>1, <2>1 DEF Recorded, history
  <2>5. FinishedOnly' /\ NamesTrue' /\ NothingLost'
    BY DEF KeptInv, CommitInv, FinishedOnly, NamesTrue, NothingLost, history
  <2>6. ASSUME ~ overlapped' PROVE Alone' /\ Ordered' /\ \A y \in Operators : Pruning(y)'
    <3>1. Alone /\ Ordered /\ \A y \in Operators : Pruning(y)
      BY <2>6 DEF KeptInv, history
    <3>2. \A y \in Operators : Committing(y)' => Committing(y)
      BY <2>1 DEF Frame, Committing, CommitLocations
    <3>3. Alone'
      BY <2>1, <3>1, <3>2 DEF Alone, Frame
    <3>4. Ordered'
      BY <3>1 DEF Ordered, IsKept, history
    <3>5. \A y \in Operators : Pruning(y)'
      BY <2>1, <3>1 DEF Pruning, Frame
    <3> QED BY <3>3, <3>4, <3>5
  <2> QED BY <2>3, <2>4, <2>5, <2>6 DEF KeptInv, CommitInv
<1> QED BY <1>2, <1>3

\* More backups are no fewer.
LEMMA MoreKept ==
  ASSUME CommitAssumption, NEW S, NEW T, S \subseteq T, IsFiniteSet(T),
         Cardinality(S) >= RETENTION_COUNT
  PROVE  Cardinality(T) >= RETENTION_COUNT
<1>1. IsFiniteSet(S) /\ Cardinality(S) <= Cardinality(T)
  BY FS_Subset
<1>2. Cardinality(S) \in Nat /\ Cardinality(T) \in Nat /\ RETENTION_COUNT \in Nat
  BY <1>1, FS_CardinalityType DEF CommitAssumption
<1> QED BY <1>1, <1>2

\* While one run commits alone no other one is in a commit.
LEMMA NobodyElse ==
  ASSUME Alone, NEW x \in Operators, Committing(x), Frame(x)
  PROVE  \A y \in Operators \ {x} : ~ Committing(y) /\ ~ Committing(y)'
BY DEF Alone, Frame, Committing

LEMMA PublishKeeps ==
  ASSUME CommitAssumption, NoneAssumption, KeptInv, NEW x \in Operators, Publish(x)
  PROVE  KeptInv'
<1> USE DEF Publish
<1> DEFINE new == [stamp |-> stamp[x], hash |-> old[x], content |-> saved[x]]
<1>1. TypeOK /\ Staged(x) /\ CommitInv /\ Recorded /\ Committing(x)
  BY DEF KeptInv, CommitInv, Committing, CommitLocations
<1>2. Frame(x) /\ LocalsTyped' /\ pc'[x] = "replace"
  BY <1>1, Gone DEF Locations, CommitLocations
<1>3. old[x] \in Databases /\ saved[x] \in Databases /\ retained \in Databases
      /\ stamp[x] \in 0 .. MaxRuns /\ stamp[x] <= clock /\ backups \subseteq Files
  BY <1>1 DEF TypeOK, Staged
<1>4. new \in Files
  BY <1>3 DEF Files
<1>5. backups' = (backups \ Named(x)) \cup {new}
  OBVIOUS
<1> HIDE DEF new
<1>6. Staged(x)'
  BY <1>1, <1>2 DEF Staged, Committing, CommitLocations, IsKept, production, history, locals
<1>7. /\ TypeOK' /\ Counted' /\ ReceiptsTrue'
      /\ \A y \in Operators : Staged(y)'
  <2>1. overlapped' \in BOOLEAN
    BY <1>1, Zenon DEF TypeOK, history
  <2>2. backups' \subseteq Files
    BY <1>3, <1>4, <1>5
  <2> QED BY <1>2, <1>3, <1>6, <2>1, <2>2, CommitStep DEF production, history, locals
<1>8. Recorded'
  <2>1. IsFiniteSet(backups')
    <3>1. IsFiniteSet(backups \ Named(x))
      BY <1>1, FS_Subset DEF Recorded
    <3> QED BY ONLY <1>5, <3>1, FS_AddElement
  <2>2. new.stamp <= clock
    BY <1>3 DEF new
  <2> QED BY <1>1, <1>5, <2>1, <2>2 DEF Recorded, history, locals
<1>9. FinishedOnly'
  BY DEF KeptInv, CommitInv, FinishedOnly, history
<1>10. ASSUME ~ overlapped
       PROVE  NamesTrue' /\ NothingLost' /\ Alone' /\ Ordered' /\ \A y \in Operators : Pruning(y)'
  <2>1. Alone /\ Ordered /\ \A y \in Operators : Pruning(y)
    BY <1>10 DEF KeptInv
  <2>2. /\ \A file \in backups : file.stamp < stamp[x] /\ file.stamp \in Nat
        /\ saved[x] = retained /\ old[x] = retained
    BY <1>3, <2>1 DEF Alone, Files
  <2>3. backups' = backups \cup {new}
    BY <1>3, <1>5, <2>2 DEF Named
  <2>4. new.stamp = stamp[x] /\ new.hash = retained /\ new.content = retained
    BY <2>2 DEF new
  <2>5. \A y \in Operators \ {x} : ~ Committing(y)'
    BY <1>1, <1>2, <2>1, NobodyElse
  <2>6. NamesTrue'
    BY <1>1, <1>10, <2>3, <2>4 DEF CommitInv, NamesTrue
  <2>7. NothingLost'
    <3> DEFINE Later(i) == {file \in backups :
                  \E j \in DOMAIN committed : j > i /\ file.content = committed[j]}
               LaterNew(i) == {file \in backups' :
                  \E j \in DOMAIN committed : j > i /\ file.content = committed[j]}
    <3>1. ASSUME NEW i \in DOMAIN committed, Cardinality(Later(i)) >= RETENTION_COUNT
          PROVE  Cardinality(LaterNew(i)) >= RETENTION_COUNT
      <4>1. Later(i) \subseteq LaterNew(i) /\ IsFiniteSet(LaterNew(i))
        BY <1>1, <1>8, <2>3, FS_Subset DEF Recorded
      <4> HIDE DEF Later, LaterNew
      <4> QED BY <3>1, <4>1, MoreKept
    <3> QED BY <1>10, <2>3, <3>1 DEF KeptInv, NothingLost, history
  <2>8. Alone'
    BY <1>2, <2>2, <2>3, <2>4, <2>5 DEF Alone, Committing, CommitLocations, locals
  <2>9. Ordered'
    <3>1. /\ committed # <<>> /\ retained = committed[Len(committed)]
          /\ Len(committed) \in DOMAIN committed
      BY <1>1, <1>3, NoneAssumption DEF Recorded, NoneAssumption, TypeOK
    <3>2. \A j \in DOMAIN committed : committed[j] = retained => j = Len(committed)
      BY <1>1, <3>1 DEF Recorded
    <3>3. \A i \in DOMAIN committed : i \in Nat /\ i <= Len(committed)
      BY <1>1 DEF TypeOK
    <3>4. stamp[x] \in Nat
      BY <1>3
    <3>5. IsKept(retained)
      BY <3>1 DEF IsKept
    <3>6. \A file, other \in backups' : file.stamp = other.stamp => file = other
      BY <2>1, <2>2, <2>3, <2>4, <3>4 DEF Ordered
    <3>7. \A file \in backups' : IsKept(file.content)'
      BY <2>1, <2>3, <2>4, <3>5 DEF Ordered, IsKept, history
    <3>8. ASSUME NEW file \in backups', NEW other \in backups',
                 NEW i \in DOMAIN committed, NEW j \in DOMAIN committed,
                 file.stamp < other.stamp,
                 file.content = committed[i], other.content = committed[j]
          PROVE  i <= j
      <4>1. file \in backups
        BY <2>2, <2>3, <2>4, <3>4, <3>8
      <4>2. CASE other \in backups
        BY <2>1, <3>8, <4>1, <4>2 DEF Ordered
      <4>3. CASE other = new
        BY <2>4, <3>2, <3>3, <3>8, <4>3
      <4> QED BY <2>3, <4>2, <4>3
    <3> QED BY <3>6, <3>7, <3>8 DEF Ordered, history
  <2>10. \A y \in Operators : Pruning(y)'
    BY <1>2, <2>5 DEF Pruning, Committing, CommitLocations
  <2> QED BY <2>6, <2>7, <2>8, <2>9, <2>10
<1>11. overlapped => NamesTrue' /\ NothingLost'
  BY DEF NamesTrue, NothingLost, history
<1> QED BY <1>7, <1>8, <1>9, <1>10, <1>11 DEF KeptInv, CommitInv, history

\* What was kept is in a backup by now, or was no database yet.
LEMMA ReplaceKeeps ==
  ASSUME CommitAssumption, NoneAssumption, KeptInv, NEW x \in Operators, Replace(x)
  PROVE  KeptInv'
<1> USE DEF Replace
<1>1. TypeOK /\ Staged(x) /\ CommitInv /\ Recorded /\ Committing(x)
  BY DEF KeptInv, CommitInv, Committing, CommitLocations
<1>2. Frame(x) /\ LocalsTyped' /\ pc'[x] = "confirm" /\ UNCHANGED locals
  <2>1. UNCHANGED locals
    BY DEF locals
  <2> QED BY <1>1, <2>1, Gone DEF Locations, CommitLocations
<1>3. /\ candidate[x] \in Databases /\ candidate[x] # None /\ ~ candidate[x].unfinished
      /\ candidate[x].number \in Nat /\ candidate[x].number <= made
      /\ \A i \in DOMAIN committed : committed[i].number # candidate[x].number
  <2>1. candidate[x] \in Databases
    BY <1>1 DEF TypeOK, Staged
  <2> QED BY <1>1, <2>1 DEF Staged, Databases
<1>4. /\ committed \in Seq(Databases) /\ Len(committed) \in Nat
      /\ committed' \in Seq(Databases)
      /\ Len(committed') = Len(committed) + 1 /\ committed' # <<>>
      /\ DOMAIN committed = 1 .. Len(committed)
      /\ DOMAIN committed' = 1 .. Len(committed) + 1
      /\ \A i \in DOMAIN committed : i \in DOMAIN committed' /\ committed'[i] = committed[i]
      /\ committed'[Len(committed) + 1] = candidate[x]
      /\ \A i \in DOMAIN committed' : i \in DOMAIN committed \/ i = Len(committed) + 1
  BY <1>1, <1>3 DEF TypeOK
<1>5. \A d : IsKept(d) => IsKept(d)'
  BY <1>4 DEF IsKept
<1>6. Staged(x)'
  <2>1. IsKept(candidate[x])'
    <3>1. candidate'[x] = candidate[x]
      BY <1>2 DEF locals
    <3>2. Len(committed) + 1 \in DOMAIN committed'
      BY <1>4
    <3> QED BY <1>4, <3>1, <3>2 DEF IsKept
  <2> QED
    BY <1>1, <1>2, <1>3, <2>1 DEF Staged, Committing, CommitLocations, production, locals
<1>7. /\ TypeOK' /\ Counted' /\ ReceiptsTrue'
      /\ \A y \in Operators : Staged(y)'
  <2>1. overlapped' \in BOOLEAN
    BY <1>1, Zenon DEF TypeOK
  <2>2. backups \subseteq Files
    BY <1>1 DEF TypeOK
  <2> QED BY <1>2, <1>3, <1>6, <2>1, <2>2, CommitStep DEF production, locals
<1>8. Recorded'
  <2>1. retained' = IF committed' = <<>> THEN None ELSE committed'[Len(committed')]
    BY <1>4
  <2>2. \A i \in DOMAIN committed' :
          /\ committed'[i].number <= made
          /\ \A j \in DOMAIN committed' :
               committed'[i].number = committed'[j].number => i = j
    BY <1>1, <1>3, <1>4 DEF Recorded
  <2>3. candidate' = candidate /\ backups' = backups /\ clock' = clock /\ made' = made
    BY <1>2 DEF locals
  <2> QED BY <1>1, <2>1, <2>2, <2>3 DEF Recorded
<1>9. FinishedOnly' /\ NamesTrue'
  BY <1>1, <1>3, <1>4 DEF CommitInv, FinishedOnly, NamesTrue
<1>10. ASSUME ~ overlapped
       PROVE  NothingLost' /\ Alone' /\ Ordered' /\ \A y \in Operators : Pruning(y)'
  <2>1. Alone /\ Ordered /\ NothingLost /\ \A y \in Operators : Pruning(y)
    BY <1>10 DEF KeptInv
  <2>2. \A y \in Operators \ {x} : ~ Committing(y)'
    BY <1>1, <1>2, <2>1, NobodyElse
  <2>3. Alone'
    BY <1>2, <2>2 DEF Alone, Committing, CommitLocations
  <2>4. \A y \in Operators : Pruning(y)'
    BY <1>2, <2>2 DEF Pruning, Committing, CommitLocations
  <2>5. Ordered'
    <3>1. \A file \in backups : IsKept(file.content)
      BY <2>1 DEF Ordered
    <3>2. \A file \in backups, i \in DOMAIN committed' :
            file.content = committed'[i] => i \in DOMAIN committed
      BY <1>3, <1>4, <3>1 DEF IsKept
    <3>3. ASSUME NEW file \in backups, NEW other \in backups,
                 NEW i \in DOMAIN committed', NEW j \in DOMAIN committed',
                 file.stamp < other.stamp,
                 file.content = committed'[i], other.content = committed'[j]
          PROVE  i <= j
      BY <1>4, <2>1, <3>2, <3>3 DEF Ordered
    <3> QED BY <1>5, <2>1, <3>1, <3>3 DEF Ordered
  <2>6. NothingLost'
    <3> DEFINE Later(i) == {file \in backups :
                  \E j \in DOMAIN committed : j > i /\ file.content = committed[j]}
               LaterNew(i) == {file \in backups :
                  \E j \in DOMAIN committed' : j > i /\ file.content = committed'[j]}
    <3>1. ASSUME NEW i \in DOMAIN committed, Cardinality(Later(i)) >= RETENTION_COUNT
          PROVE  Cardinality(LaterNew(i)) >= RETENTION_COUNT
      <4>1. Later(i) \subseteq LaterNew(i) /\ IsFiniteSet(LaterNew(i))
        BY <1>1, <1>4, FS_Subset DEF Recorded
      <4> HIDE DEF Later, LaterNew
      <4> QED BY <3>1, <4>1, MoreKept
    <3>2. retained # None => \E file \in backups : file.content = retained
      BY <2>1 DEF Alone
    <3>3. \A i \in DOMAIN committed : committed[i] # None
      BY <1>4, NoneAssumption DEF NoneAssumption
    <3>4. ASSUME NEW i \in DOMAIN committed
          PROVE  \/ \E file \in backups : file.content = committed'[i]
                 \/ Cardinality(LaterNew(i)) >= RETENTION_COUNT
      <4>1. \/ retained = committed[i]
            \/ \E file \in backups : file.content = committed[i]
            \/ Cardinality(Later(i)) >= RETENTION_COUNT
        BY <1>10, <2>1 DEF NothingLost
      <4> QED BY <1>4, <3>1, <3>2, <3>3, <4>1
    <3> QED BY <1>4, <3>4 DEF NothingLost
  <2> QED BY <2>3, <2>4, <2>5, <2>6
<1>11. overlapped => NothingLost'
  BY DEF NothingLost
<1> QED BY <1>7, <1>8, <1>9, <1>10, <1>11 DEF KeptInv, CommitInv

LEMMA PruneKeeps ==
  ASSUME CommitAssumption, NoneAssumption, KeptInv, NEW x \in Operators, Prune(x)
  PROVE  KeptInv'
<1> USE DEF Prune
<1>1. TypeOK /\ Staged(x) /\ CommitInv /\ Recorded /\ Committing(x)
  BY DEF KeptInv, CommitInv, Committing, CommitLocations
<1>2. Obsolete(backups) \subseteq Files
  BY <1>1 DEF Obsolete, TypeOK
<1>3. Frame(x) /\ LocalsTyped' /\ pc'[x] = "unlink" /\ obsolete'[x] = Obsolete(backups)
  BY <1>1, <1>2 DEF TypeOK, Frame, LocalsTyped, Goto, Locations, CommitLocations
<1>4. Staged(x)'
  BY <1>1, <1>3 DEF Staged, Committing, CommitLocations, IsKept, production, history
<1>5. /\ TypeOK' /\ Counted' /\ ReceiptsTrue'
      /\ \A y \in Operators : Staged(y)'
  <2>1. overlapped' \in BOOLEAN
    BY <1>1, Zenon DEF TypeOK, history
  <2>2. retained \in Databases \cup {None} /\ backups \subseteq Files
    BY <1>1 DEF TypeOK
  <2> QED BY <1>3, <1>4, <2>1, <2>2, CommitStep DEF production, history
<1>6. Recorded'
  BY <1>1 DEF Recorded, history
<1>7. FinishedOnly' /\ NamesTrue' /\ NothingLost'
  BY DEF KeptInv, CommitInv, FinishedOnly, NamesTrue, NothingLost, history
<1>8. ASSUME ~ overlapped PROVE Alone' /\ Ordered' /\ \A y \in Operators : Pruning(y)'
  <2>1. Alone /\ Ordered
    BY <1>8 DEF KeptInv
  <2>2. \A y \in Operators \ {x} : ~ Committing(y)'
    BY <1>1, <1>3, <2>1, NobodyElse
  <2>3. Alone'
    BY <1>3, <2>2 DEF Alone, Committing, CommitLocations
  <2>4. Ordered'
    BY <2>1 DEF Ordered, IsKept, history
  <2>5. Pruning(x)'
    <3>1. /\ backups \in SUBSET Files /\ IsFiniteSet(backups)
          /\ \A file, other \in backups : file.stamp = other.stamp => file = other
      BY <1>1, <2>1 DEF TypeOK, Recorded, Ordered
    <3> DEFINE gone == Obsolete(backups)
    <3>2. gone # {} =>
            /\ gone \subseteq backups
            /\ Cardinality(backups \ gone) >= RETENTION_COUNT
            /\ \A f \in gone, g \in backups \ gone : f.stamp < g.stamp
      BY ONLY <3>1, CommitAssumption, ObsoleteLeaves
    <3>3. obsolete'[x] = gone /\ backups' = backups
      BY <1>3
    <3> HIDE DEF gone
    <3> QED BY <3>2, <3>3 DEF Pruning
  <2>6. \A y \in Operators \ {x} : Pruning(y)'
    BY <2>2 DEF Pruning, Committing, CommitLocations
  <2> QED BY <2>3, <2>4, <2>5, <2>6
<1> QED BY <1>5, <1>6, <1>7, <1>8 DEF KeptInv, CommitInv, history

\* A backup is removed while RETENTION_COUNT later ones stay.
LEMMA RemoveKeeps ==
  ASSUME CommitAssumption, NoneAssumption, KeptInv, NEW x \in Operators,
         pc[x] = "unlink", obsolete[x] # {}, NEW file \in backups,
         (\A f, g \in obsolete[x] : f.stamp = g.stamp => f = g) => file \in obsolete[x],
         backups' = backups \ {file},
         obsolete' = [obsolete EXCEPT ![x] = @ \ {file}],
         UNCHANGED <<production, retained, clock, made, pc, before, candidate, stamp, old,
                     saved, history, faults>>
  PROVE  KeptInv'
<1>1. TypeOK /\ Staged(x) /\ CommitInv /\ Recorded /\ Committing(x)
  BY DEF KeptInv, CommitInv, Committing, CommitLocations
<1>2. /\ Frame(x) /\ LocalsTyped' /\ pc'[x] = "unlink"
      /\ obsolete'[x] = obsolete[x] \ {file}
  BY <1>1 DEF TypeOK, Frame, LocalsTyped
<1>3. Staged(x)'
  BY <1>1, <1>2 DEF Staged, Committing, CommitLocations, IsKept, production, history
<1>4. /\ TypeOK' /\ Counted' /\ ReceiptsTrue'
      /\ \A y \in Operators : Staged(y)'
  <2>1. overlapped' \in BOOLEAN
    BY <1>1, Zenon DEF TypeOK, history
  <2>2. retained \in Databases \cup {None} /\ backups' \subseteq Files
    BY <1>1 DEF TypeOK
  <2> QED BY <1>2, <1>3, <2>1, <2>2, CommitStep DEF production, history
<1>5. Recorded'
  <2>1. IsFiniteSet(backups')
    BY <1>1, FS_Subset DEF Recorded
  <2> QED BY <1>1, <2>1 DEF Recorded, history
<1>6. FinishedOnly' /\ NamesTrue'
  BY <1>1 DEF CommitInv, FinishedOnly, NamesTrue, history
<1>7. ASSUME ~ overlapped
      PROVE  NothingLost' /\ Alone' /\ Ordered' /\ \A y \in Operators : Pruning(y)'
  <2>1. Alone /\ Ordered /\ NothingLost /\ Pruning(x)
    BY <1>7 DEF KeptInv
  <2>2. \A y \in Operators \ {x} : ~ Committing(y)'
    BY <1>1, <1>2, <2>1, NobodyElse
  <2>3. Alone'
    BY <1>2, <2>2 DEF Alone, Committing, CommitLocations
  <2>4. Ordered'
    BY <2>1 DEF Ordered, IsKept, history
  <2> DEFINE kept == backups \ obsolete[x]
  <2>5. /\ obsolete[x] \subseteq backups /\ Cardinality(kept) >= RETENTION_COUNT
        /\ \A f \in obsolete[x], g \in kept : f.stamp < g.stamp
    BY <2>1 DEF Pruning
  <2>6. file \in obsolete[x] /\ kept = backups' \ obsolete'[x]
    BY <1>2, <2>1, <2>5 DEF Ordered
  <2>7. Pruning(x)'
    BY <1>2, <2>5, <2>6 DEF Pruning
  <2>8. \A y \in Operators \ {x} : Pruning(y)'
    BY <2>2 DEF Pruning, Committing, CommitLocations
  <2>9. NothingLost'
    <3> DEFINE Later(i) == {f \in backups :
                  \E j \in DOMAIN committed : j > i /\ f.content = committed[j]}
               LaterNew(i) == {f \in backups' :
                  \E j \in DOMAIN committed : j > i /\ f.content = committed[j]}
    <3>1. \A i \in DOMAIN committed : i \in Nat
      BY <1>1 DEF TypeOK
    <3>2. \A i \in DOMAIN committed : IsFiniteSet(LaterNew(i))
      BY <1>5, FS_Subset DEF Recorded
    \* What was kept before the file that goes is in it, or in one that stays.
    <3>3. ASSUME NEW i \in DOMAIN committed, NEW k \in DOMAIN committed, k >= i,
                 file.content = committed[k]
          PROVE  \/ \E f \in backups' : f.content = committed[i]
                 \/ Cardinality(LaterNew(i)) >= RETENTION_COUNT
      <4>1. CASE \E f \in backups' : f.content = committed[i]
        BY <4>1
      <4>2. CASE ~ \E f \in backups' : f.content = committed[i]
        <5>1. kept \subseteq LaterNew(i)
          <6> SUFFICES ASSUME NEW g \in kept PROVE g \in LaterNew(i)
            OBVIOUS
          <6>1. g \in backups' /\ file.stamp < g.stamp
            BY <2>5, <2>6
          <6>2. PICK j \in DOMAIN committed : g.content = committed[j]
            BY <2>1 DEF Ordered, IsKept
          <6>3. k <= j
            BY <2>1, <3>3, <6>1, <6>2 DEF Ordered
          <6>4. j # i
            BY <4>2, <6>1, <6>2
          <6> QED BY <3>1, <3>3, <6>1, <6>2, <6>3, <6>4
        <5> HIDE DEF kept, LaterNew
        <5> QED BY <2>5, <3>2, <5>1, MoreKept
      <4> QED BY <4>1, <4>2
    <3>4. ASSUME NEW i \in DOMAIN committed, retained # committed[i]
          PROVE  \/ \E f \in backups' : f.content = committed[i]
                 \/ Cardinality(LaterNew(i)) >= RETENTION_COUNT
      <4>1. \/ \E f \in backups : f.content = committed[i]
            \/ Cardinality(Later(i)) >= RETENTION_COUNT
        BY <1>7, <2>1, <3>4 DEF NothingLost
      <4>2. CASE file.content = committed[i]
        BY <3>1, <3>3, <4>2
      <4>3. CASE file \in Later(i)
        BY <3>1, <3>3, <4>3
      <4>4. CASE file.content # committed[i] /\ file \notin Later(i)
        <5>1. Later(i) = LaterNew(i)
          BY <4>4
        <5> QED BY <4>1, <4>4, <5>1
      <4> QED BY <4>2, <4>3, <4>4
    <3> QED BY <3>4 DEF NothingLost, history
  <2> QED BY <2>3, <2>4, <2>7, <2>8, <2>9
<1>8. overlapped => NothingLost'
  BY DEF NothingLost, history
<1> QED BY <1>4, <1>5, <1>6, <1>7, <1>8 DEF KeptInv, CommitInv, history

LEMMA UnlinkKeeps ==
  ASSUME CommitAssumption, NoneAssumption, KeptInv, NEW x \in Operators, Unlink(x)
  PROVE  KeptInv'
<1>1. TypeOK /\ ReceiptsTrue
  BY DEF KeptInv, CommitInv
<1>2. CASE obsolete[x] = {}
  BY <1>2, GoesKeeps DEF Unlink, history
<1>3. CASE obsolete[x] # {}
  <2> DEFINE file == CHOOSE f \in obsolete[x] : \A other \in obsolete[x] \ {f} : Newer(f, other)
  <2>1. CASE file \notin backups
    <3>1. /\ Return(x)
          /\ UNCHANGED <<production, retained, backups, clock, made, history, faults>>
      BY <1>3, <2>1 DEF Unlink
    <3>2. /\ faults \in 0 .. MaxFaults
          /\ receipts \subseteq [before : 0 .. MaxVersions, database : Databases]
      BY <1>1 DEF TypeOK
    <3>3. ReceiptsTrue'
      BY <1>1, <3>1 DEF ReceiptsTrue, history
    <3> QED BY <3>1, <3>2, <3>3, ReturnKeeps DEF history
  <2>2. CASE file \in backups
    <3>1. /\ pc[x] = "unlink" /\ backups' = backups \ {file}
          /\ obsolete' = [obsolete EXCEPT ![x] = @ \ {file}]
          /\ UNCHANGED <<production, retained, clock, made, pc, before, candidate, stamp, old,
                         saved, history, faults>>
      BY <1>3, <2>2 DEF Unlink
    <3>2. ASSUME \A f, g \in obsolete[x] : f.stamp = g.stamp => f = g
          PROVE  file \in obsolete[x]
      <4>1. obsolete[x] \in SUBSET Files
        BY <1>1 DEF TypeOK
      <4>2. \E f \in obsolete[x] : \A other \in obsolete[x] \ {f} : Newer(f, other)
        BY <1>3, <3>2, <4>1, FirstFile
      <4> QED BY <4>2
    <3> HIDE DEF file
    <3> QED BY <1>3, <2>2, <3>1, <3>2, RemoveKeeps
  <2> QED BY <2>1, <2>2
<1> QED BY <1>2, <1>3

LEMMA FailKeeps ==
  ASSUME CommitAssumption, NoneAssumption, KeptInv, NEW x \in Operators, Fail(x)
  PROVE  KeptInv'
<1>1. /\ faults' \in 0 .. MaxFaults
      /\ receipts \subseteq [before : 0 .. MaxVersions, database : Databases]
  BY DEF KeptInv, CommitInv, TypeOK, Fail, CommitAssumption
<1>2. ReceiptsTrue'
  BY DEF KeptInv, CommitInv, ReceiptsTrue, Fail, history
<1> QED BY <1>1, <1>2, ReturnKeeps DEF Fail, history

\* The daily collection makes the production database newer, no more.
LEMMA ProductionKeeps ==
  ASSUME CommitAssumption, KeptInv, Claim \/ Store
  PROVE  KeptInv'
<1>1. /\ version < MaxVersions /\ version' = version + 1
      /\ UNCHANGED <<retained, backups, clock, made, pc, locals, history, faults>>
  BY DEF Claim, Store
<1> USE <1>1 DEF locals, history
<1>2. TypeOK /\ CommitInv
  BY DEF KeptInv, CommitInv
<1>3. version \in Nat /\ MaxVersions \in Nat
  BY <1>2 DEF TypeOK, CommitAssumption
<1>4. TypeOK'
  <2>1. unfinished' \in BOOLEAN /\ overlapped' \in BOOLEAN
    BY <1>2, Zenon DEF Claim, Store, TypeOK
  <2>2. version' \in 0 .. MaxVersions
    BY <1>3
  <2> QED BY <1>2, <2>1, <2>2 DEF TypeOK
<1>5. Counted' /\ Recorded' /\ (overlapped' \/ (Alone /\ Ordered /\ \A x \in Operators : Pruning(x))')
  BY DEF KeptInv, Counted, Recorded, Alone, Ordered, Pruning, IsKept, Committing
<1>6. FinishedOnly' /\ ReceiptsTrue' /\ NamesTrue' /\ NothingLost'
  BY DEF KeptInv, CommitInv, FinishedOnly, ReceiptsTrue, NamesTrue, NothingLost
<1>7. ASSUME NEW x \in Operators PROVE Staged(x)'
  <2>1. /\ Staged(x) /\ before[x] \in Nat
        /\ candidate[x] # None => candidate[x].base \in Nat
    <3>1. candidate[x] \in Databases \cup {None}
      BY <1>2 DEF TypeOK
    <3> QED BY <1>2, <3>1 DEF KeptInv, TypeOK, Databases
  <2>2. before'[x] <= version' /\ (candidate[x] # None => candidate[x].base <= version')
    BY <1>3, <2>1 DEF Staged
  <2> QED BY <2>1, <2>2 DEF Staged, IsKept, Committing
<1> QED BY <1>4, <1>5, <1>6, <1>7 DEF KeptInv, CommitInv

LEMMA NextKept ==
  ASSUME CommitAssumption, NoneAssumption, KeptInv, [Next]_vars
  PROVE  KeptInv'
<1>1. CASE Claim \/ Store
  BY <1>1, ProductionKeeps
<1>2. ASSUME NEW x \in Operators, Collection(x) PROVE KeptInv'
  <2>1. CASE Look(x)
    <3>1. /\ faults \in 0 .. MaxFaults
          /\ receipts \subseteq [before : 0 .. MaxVersions, database : Databases]
      BY DEF KeptInv, CommitInv, TypeOK
    <3>2. ReceiptsTrue'
      BY <2>1 DEF KeptInv, CommitInv, ReceiptsTrue, Look, history
    <3> QED BY <2>1, <3>1, <3>2, ReturnKeeps, GoesKeeps DEF Look, history
  <2> QED
    BY <1>2, <2>1, StartKeeps, CopyKeeps, CollectKeeps, CompareKeeps DEF Collection
<1>3. ASSUME NEW x \in Operators, Retention(x) PROVE KeptInv'
  <2>1. CASE Confirm(x)
    <3>1. /\ faults \in 0 .. MaxFaults
          /\ receipts \subseteq [before : 0 .. MaxVersions, database : Databases]
      BY DEF KeptInv, CommitInv, TypeOK
    <3>2. ReceiptsTrue'
      BY <2>1 DEF KeptInv, CommitInv, ReceiptsTrue, Confirm, history
    <3> QED BY <2>1, <3>1, <3>2, ReturnKeeps, GoesKeeps DEF Confirm, history
  <2> QED
    BY <1>3, <2>1, CommitKeeps, HashOldKeeps, BackupKeeps, PublishKeeps, ReplaceKeeps, PruneKeeps,
       UnlinkKeeps DEF Retention
<1>4. ASSUME NEW x \in Operators, Fail(x) PROVE KeptInv'
  BY <1>4, FailKeeps
<1>5. CASE UNCHANGED vars
  <2> USE <1>5 DEF vars, production, locals, history
  <2>1. TypeOK' /\ Counted' /\ Recorded' /\ \A x \in Operators : Staged(x)'
    <3>1. TypeOK'
      BY Zenon DEF KeptInv, CommitInv, TypeOK
    <3> QED BY <3>1 DEF KeptInv, Counted, Recorded, Staged, IsKept, Committing
  <2>2. FinishedOnly' /\ ReceiptsTrue' /\ NamesTrue' /\ NothingLost'
    BY DEF KeptInv, CommitInv, FinishedOnly, ReceiptsTrue, NamesTrue, NothingLost
  <2>3. overlapped' \/ (Alone /\ Ordered /\ \A x \in Operators : Pruning(x))'
    BY DEF KeptInv, Alone, Ordered, Pruning, IsKept, Committing
  <2> QED BY <2>1, <2>2, <2>3 DEF KeptInv, CommitInv
<1> QED BY <1>1, <1>2, <1>3, <1>4, <1>5 DEF Next

\* However collections, commits, backups, rotations and failures interleave:
\* what an operator holds is what its place in commit says, and the files are
\* the commits in their order unless two commits have overlapped.
THEOREM KeptInvariant == Spec => []KeptInv
BY CommitAssumption, NoneAssumption, InitKept, NextKept, PTL DEF Spec

\* commit keeps only what validate_after_clear let through, a receipt says what
\* was kept and from what it was made, and a backup holds what its name says.
THEOREM CommitsSound == Spec => []CommitInv
<1>1. KeptInv => CommitInv
  BY DEF KeptInv
<1> QED BY <1>1, KeptInvariant, PTL

\* While commits do not overlap, neither the rotation nor a failure or death
\* anywhere in commit loses a database that was kept, until RETENTION_COUNT
\* backups are of later ones.
THEOREM NoDatabaseLost == Spec => []NothingLost
<1>1. KeptInv => NothingLost
  BY DEF KeptInv
<1> QED BY <1>1, KeptInvariant, PTL

-----------------------------------------------------------------------------
(* The daily collection and its backups. *)

USE ProcessAssumption, BoundAssumption

\* Rotation keeps some of the backups there were, unchanged.
LEMMA NewestKeeps ==
  ASSUME NEW s \in Seq(Content)
  PROVE  /\ Newest(s) \in Seq(Content)
         /\ \A i \in DOMAIN Newest(s) : \E j \in DOMAIN s : Newest(s)[i] = s[j]
<1>1. CASE Len(s) > RetentionCount
  <2> DEFINE m == Len(s) - RetentionCount + 1
  <2>1. m \in 1 .. Len(s) /\ m \in Int /\ Len(s) \in Int /\ Len(s) \in Nat
    BY <1>1
  <2>2. \A i \in m .. Len(s) : s[i] \in Content
    BY <2>1
  <2>3. Newest(s) = SubSeq(s, m, Len(s))
    BY <1>1 DEF Newest
  <2> HIDE DEF m
  <2>4. /\ Newest(s) \in Seq(Content)
        /\ Len(Newest(s)) = Len(s) - m + 1
        /\ \A i \in 1 .. Len(s) - m + 1 : Newest(s)[i] = s[m + i - 1]
    BY <2>1, <2>2, <2>3, SubSeqProperties
  <2>5. \A i \in 1 .. Len(s) - m + 1 : m + i - 1 \in DOMAIN s
    BY <2>1
  <2>6. DOMAIN Newest(s) = 1 .. Len(s) - m + 1
    BY <2>4
  <2> QED BY <2>4, <2>5, <2>6
<1>2. CASE ~ (Len(s) > RetentionCount)
  BY <1>2 DEF Newest
<1> QED BY <1>1, <1>2

LEMMA InitDaily == DailyInit => CollectorInv
<1> SUFFICES ASSUME DailyInit PROVE CollectorInv
  OBVIOUS
<1> USE DEF DailyInit
<1>1. NothingCopied \in Content
  BY DEF NothingCopied, Content, Status
<1>2. RetentionCount \in Nat /\ MaxErrors \in Nat
  OBVIOUS
<1>3. DailyTypeOK
  BY <1>1, <1>2 DEF DailyTypeOK, Status, Stages
<1>4. Running = {}
  BY DEF Running
<1>5. OneActiveRun /\ StoredWithSuccess /\ StoredEnded
  BY <1>4 DEF OneActiveRun, StoredWithSuccess, StoredEnded
<1>6. RunOwned /\ LockHeld
  BY DEF RunOwned, LockHeld, HasRun, Processes
<1>7. Quiescent(copy) /\ BackupsQuiescent
  BY DEF Quiescent, NothingCopied, BackupsQuiescent
<1> QED BY <1>3, <1>5, <1>6, <1>7 DEF CollectorInv

\* Everybody else stays where it is.
Moves(p) ==
  /\ place' \in [Processes -> Stages]
  /\ \A q \in Processes : q # p => place'[q] = place[q]

LEMMA Moved ==
  ASSUME NEW p \in Processes, NEW location \in Stages,
         place \in [Processes -> Stages], GoesTo(p, location)
  PROVE  Moves(p) /\ place'[p] = location
BY DEF GoesTo, Moves

\* A process that moves where it needs no lock, and changes nothing but its
\* place and the lock it may have held, keeps the invariant.

LEMMA LeavesKeeps ==
  ASSUME CollectorInv, NEW p \in Processes, Moves(p),
         place'[p] \in {"idle", "look", "claim", "validate", "lock", "fail", "store"},
         p \in Collectors /\ place'[p] = "fail" => HasRun(p),
         p \in Collectors /\ place'[p] = "store" => place[p] = "fetch",
         writer' = writer \/ (writer = p /\ writer' = Nobody),
         UNCHANGED <<status, stored, run, copy, published>>,
         errors' \in 0 .. MaxErrors
  PROVE  CollectorInv'
<1> USE DEF CollectorInv, Moves
<1>1. DailyTypeOK'
  BY DEF DailyTypeOK
<1>2. Running' = Running
  BY DEF Running
<1>3. OneActiveRun' /\ StoredWithSuccess' /\ StoredEnded'
  BY <1>2 DEF OneActiveRun, StoredWithSuccess, StoredEnded
<1>4. RunOwned'
  BY DEF RunOwned, HasRun, Processes
<1>5. LockHeld'
  BY <1>2 DEF LockHeld, Processes
<1>6. Quiescent(copy)' /\ BackupsQuiescent'
  BY DEF Quiescent, BackupsQuiescent
<1> QED BY <1>1, <1>3, <1>4, <1>5, <1>6

-----------------------------------------------------------------------------
(* The steps that do change something *)

LEMMA ClaimKeeps ==
  ASSUME CollectorInv, NEW c \in Collectors, Running = {}, writer = Nobody,
         NEW r \in Runs, status[r] = "none",
         status' = [status EXCEPT ![r] = "running"], run' = [run EXCEPT ![c] = r],
         GoesTo(c, "fetch"), UNCHANGED <<stored, writer, copy, published, errors>>
  PROVE  CollectorInv'
<1> USE DEF CollectorInv
<1>1. Moves(c) /\ place'[c] = "fetch"
  BY Moved DEF DailyTypeOK, Processes, Stages
<1>2. /\ status'[r] = "running" /\ \A q \in Runs : q # r => status'[q] = status[q]
      /\ run'[c] = r /\ \A d \in Collectors : d # c => run'[d] = run[d]
  BY DEF DailyTypeOK
<1>3. DailyTypeOK'
  BY <1>1 DEF DailyTypeOK, Moves, Status
<1>4. Running' = {r}
  BY <1>2 DEF Running
<1>5. OneActiveRun' /\ StoredWithSuccess' /\ StoredEnded'
  BY <1>2, <1>4 DEF OneActiveRun, StoredWithSuccess,
     StoredEnded, DailyTypeOK
<1>6. RunOwned'
  <2>1. \A d \in Collectors : d # c /\ HasRun(d)' =>
          HasRun(d) /\ run'[d] = run[d] /\ run[d] \in Runs /\ run[d] # r
    BY <1>1, <1>2 DEF RunOwned, HasRun, Moves, Processes,
       DailyTypeOK
  <2>2. \A d \in Collectors : HasRun(d)' => status'[run'[d]] # "none"
    BY <1>2, <2>1 DEF RunOwned
  <2>3. \A d, e \in Collectors : HasRun(d)' /\ HasRun(e)' /\ run'[d] = run'[e] => d = e
    BY <1>2, <2>1 DEF RunOwned
  <2>4. \A d \in Collectors : place'[d] \in {"fetch", "store", "commit"} =>
          status'[run'[d]] = "running"
    <3>1. \A d \in Collectors : place'[d] \in {"fetch", "store", "commit"} => HasRun(d)'
      BY DEF HasRun
    <3> QED BY <1>1, <1>2, <2>1, <3>1 DEF RunOwned, Moves, Processes
  <2> QED BY <2>2, <2>3, <2>4 DEF RunOwned
<1>7. LockHeld'
  BY <1>1 DEF LockHeld, Moves, Processes
<1>8. Quiescent(copy)' /\ BackupsQuiescent'
  BY DEF Quiescent, BackupsQuiescent
<1> QED BY <1>3, <1>5, <1>6, <1>7, <1>8

LEMMA StoreKeeps ==
  ASSUME CollectorInv, NEW c \in Collectors, StoreRows(c)
  PROVE  CollectorInv'
<1> USE DEF CollectorInv, StoreRows
<1>1. Moves(c) /\ place'[c] = "commit"
  BY Moved DEF DailyTypeOK, Processes, Stages
<1>2. DailyTypeOK'
  BY <1>1 DEF DailyTypeOK, Moves, Processes
<1>3. Running' = Running
  BY DEF Running
<1>4. OneActiveRun' /\ StoredWithSuccess' /\ StoredEnded'
  BY <1>3 DEF OneActiveRun, StoredWithSuccess, StoredEnded
<1>5. RunOwned'
  BY <1>1 DEF RunOwned, HasRun, Moves, Processes
<1>6. LockHeld'
  BY <1>1 DEF LockHeld, Moves, Processes
<1>7. Quiescent(copy)' /\ BackupsQuiescent'
  BY DEF Quiescent, BackupsQuiescent
<1> QED BY <1>2, <1>4, <1>5, <1>6, <1>7

\* The row of a collector's own run ends, with its snapshots or without.
LEMMA EndKeeps ==
  ASSUME CollectorInv, NEW c \in Collectors, HasRun(c), Moves(c),
         NEW outcome \in {"success", "failed"},
         status' = [status EXCEPT ![run[c]] = outcome],
         \/ outcome = "success" /\ stored' = stored \cup {run[c]}
         \/ outcome = "failed" /\ stored' = stored,
         place'[c] \in {"report", "idle"},
         writer' = Nobody, writer \in {c, Nobody},
         UNCHANGED <<run, copy, published, errors>>
  PROVE  CollectorInv'
<1> USE DEF CollectorInv
<1>1. run[c] \in Runs /\ status'[run[c]] = outcome
      /\ \A q \in Runs : q # run[c] => status'[q] = status[q]
  BY DEF DailyTypeOK
<1>2. DailyTypeOK'
  BY <1>1 DEF DailyTypeOK, Moves, Status
<1>3. Running' = Running \ {run[c]}
  BY <1>1 DEF Running
<1>4. OneActiveRun'
  BY <1>3 DEF OneActiveRun
<1>5. StoredWithSuccess' /\ StoredEnded'
  BY <1>1, <1>3 DEF StoredWithSuccess, StoredEnded, DailyTypeOK
<1>6. RunOwned'
  <2>1. \A d \in Collectors : d # c /\ HasRun(d)' =>
          HasRun(d) /\ run[d] \in Runs /\ run[d] # run[c] /\ place'[d] = place[d]
    BY DEF RunOwned, HasRun, Moves, Processes, DailyTypeOK
  <2>2. \A d \in Collectors : HasRun(d)' => status'[run[d]] # "none"
    BY <1>1, <2>1 DEF RunOwned
  <2>3. \A d \in Collectors : place'[d] \in {"fetch", "store", "commit"} =>
          d # c /\ HasRun(d)'
    BY DEF HasRun
  <2>4. \A d \in Collectors : place'[d] \in {"fetch", "store", "commit"} =>
          status'[run[d]] = "running"
    BY <1>1, <2>1, <2>3 DEF RunOwned
  <2>5. \A d, e \in Collectors : HasRun(d)' /\ HasRun(e)' /\ run[d] = run[e] => d = e
    BY <2>1 DEF RunOwned
  <2> QED BY <2>2, <2>4, <2>5 DEF RunOwned
<1>7. LockHeld'
  BY <1>3 DEF LockHeld, Moves, Processes
<1>8. Quiescent(copy)' /\ BackupsQuiescent'
  BY DEF Quiescent, BackupsQuiescent
<1> QED BY <1>2, <1>4, <1>5, <1>6, <1>7, <1>8

LEMMA LockKeeps ==
  ASSUME CollectorInv, Lock, Running = {}
  PROVE  CollectorInv'
<1> USE DEF CollectorInv, Lock
<1>1. Moves(BackupProcess) /\ place'[BackupProcess] = "copy"
  BY Moved DEF DailyTypeOK, Processes, Stages
<1>2. DailyTypeOK'
  BY <1>1 DEF DailyTypeOK, Moves, Processes
<1>3. Running' = Running
  BY DEF Running
<1>4. OneActiveRun' /\ StoredWithSuccess' /\ StoredEnded'
  BY <1>3 DEF OneActiveRun, StoredWithSuccess, StoredEnded
<1>5. RunOwned'
  BY <1>1 DEF RunOwned, HasRun, Moves,
     Processes
<1>6. LockHeld'
  BY <1>1, <1>3 DEF LockHeld, Moves, Processes
<1>7. Quiescent(copy)' /\ BackupsQuiescent'
  BY DEF Quiescent, BackupsQuiescent
<1> QED BY <1>2, <1>4, <1>5, <1>6, <1>7

\* Under the lock no run is running, and what has succeeded is stored.
LEMMA CopyKeepsDaily ==
  ASSUME CollectorInv, CopyDatabase
  PROVE  CollectorInv'
<1> USE DEF CollectorInv, CopyDatabase
<1>1. Moves(BackupProcess) /\ place'[BackupProcess] = "publish"
  BY Moved DEF DailyTypeOK, Processes, Stages
<1>2. Running = {} /\ writer = BackupProcess
  BY DEF LockHeld
<1>3. copy' \in Content
  BY DEF DailyTypeOK, Content
<1>4. DailyTypeOK'
  BY <1>1, <1>3 DEF DailyTypeOK, Moves
<1>5. OneActiveRun' /\ StoredWithSuccess' /\ StoredEnded'
  BY DEF OneActiveRun, StoredWithSuccess, StoredEnded,
     Running
<1>6. RunOwned'
  BY <1>1 DEF RunOwned, HasRun, Moves,
     Processes
<1>7. LockHeld'
  BY <1>1, <1>2 DEF LockHeld, Moves, Processes
<1>8. Quiescent(copy)'
  BY <1>2 DEF Quiescent, Running, StoredWithSuccess
<1>9. BackupsQuiescent'
  BY DEF BackupsQuiescent
<1> QED BY <1>4, <1>5, <1>6, <1>7, <1>8, <1>9

LEMMA PublishKeepsDaily ==
  ASSUME CollectorInv, PublishBackup
  PROVE  CollectorInv'
<1> USE DEF CollectorInv, PublishBackup, database
<1>1. Moves(BackupProcess) /\ place'[BackupProcess] = "idle"
  BY Moved DEF DailyTypeOK, Processes, Stages
<1> DEFINE all == Append(published, copy)
<1>2. all \in Seq(Content) /\ published \in Seq(Content) /\ copy \in Content
  BY DEF DailyTypeOK
<1>3. \A i \in DOMAIN all : Quiescent(all[i])
  <2>1. \A i \in DOMAIN all :
          \/ all[i] = copy
          \/ i \in DOMAIN published /\ all[i] = published[i]
    BY <1>2
  <2> HIDE DEF all
  <2> QED BY <2>1 DEF Quiescent, BackupsQuiescent
<1>4. published' = all \/ published' = Newest(all)
  OBVIOUS
<1> HIDE DEF all
<1>5. /\ published' \in Seq(Content)
      /\ \A i \in DOMAIN published' : \E j \in DOMAIN all : published'[i] = all[j]
  BY ONLY <1>2, <1>4, NewestKeeps
<1>6. BackupsQuiescent'
  BY <1>3, <1>5 DEF BackupsQuiescent, Quiescent
<1>7. DailyTypeOK'
  BY <1>1, <1>5 DEF DailyTypeOK, Moves
<1>8. OneActiveRun' /\ StoredWithSuccess' /\ StoredEnded' /\ Quiescent(copy)'
  BY DEF OneActiveRun, StoredWithSuccess, StoredEnded,
     Running, Quiescent
<1>9. RunOwned'
  BY <1>1 DEF RunOwned, HasRun, Moves,
     Processes
<1>10. LockHeld'
  BY <1>1 DEF LockHeld, Moves, Processes,
     Running
<1> QED BY <1>6, <1>7, <1>8, <1>9, <1>10

-----------------------------------------------------------------------------
(* The theorems *)

LEMMA CollectKeepsDaily ==
  ASSUME CollectorInv, NEW c \in Collectors, CollectorStep(c)
  PROVE  CollectorInv'
<1> USE DEF CollectorInv, database
<1>1. c \in Processes /\ place \in [Processes -> Stages] /\ errors \in 0 .. MaxErrors
  BY DEF DailyTypeOK, Processes
<1>2. CASE ClaimRun(c)
  <2>1. CASE Running = {} /\ GoesTo(c, "fetch")
    BY <1>2, <2>1, ClaimKeeps DEF ClaimRun
  <2>2. CASE Running # {} /\ GoesTo(c, "idle")
    BY <1>1, <1>2, <2>2, Moved, LeavesKeeps DEF ClaimRun, Stages
  <2> QED BY <1>2, <2>1, <2>2 DEF ClaimRun
<1>3. CASE ClaimBusy(c)
  BY <1>1, <1>3, Moved, LeavesKeeps DEF ClaimBusy, Stages
<1>4. CASE Fetch(c)
  <2>1. CASE GoesTo(c, "store")
    BY <1>1, <1>4, <2>1, Moved, LeavesKeeps DEF Fetch, Stages
  <2>2. CASE GoesTo(c, "fail")
    BY <1>1, <1>4, <2>2, Moved, LeavesKeeps DEF Fetch, HasRun,
       Stages
  <2> QED BY <1>4, <2>1, <2>2 DEF Fetch
<1>5. CASE StoreRows(c)
  BY <1>5, StoreKeeps
<1>6. CASE CommitRun(c)
  <2>1. Moves(c) /\ place'[c] = "report"
    BY <1>1, <1>6, Moved DEF CommitRun, Stages
  <2>2. writer = c /\ HasRun(c)
    BY <1>6 DEF CommitRun, LockHeld, HasRun
  <2> QED BY <1>6, <2>1, <2>2, EndKeeps DEF CommitRun
<1>7. CASE Report(c)
  BY <1>1, <1>7, Moved, LeavesKeeps DEF Report, Stages
<1>8. CASE MarkFailed(c)
  <2>1. Moves(c) /\ place'[c] = "idle"
    BY <1>1, <1>8, Moved DEF MarkFailed, Stages
  <2> QED BY <1>8, <2>1, EndKeeps DEF MarkFailed, HasRun
<1>9. CASE MarkFailedBusy(c)
  BY <1>1, <1>9, Moved, LeavesKeeps DEF MarkFailedBusy, Stages
<1>10. CASE Preflight(c)
  <2>1. CASE GoesTo(c, "claim")
    BY <1>1, <1>10, <2>1, Moved, LeavesKeeps DEF Preflight, Stages
  <2>2. CASE GoesTo(c, "idle")
    BY <1>1, <1>10, <2>2, Moved, LeavesKeeps DEF Preflight, Stages
  <2> QED BY <1>10, <2>1, <2>2 DEF Preflight
<1>11. CASE CommitBusy(c)
  <2>1. Moves(c) /\ place'[c] = "fail" /\ HasRun(c)
    BY <1>1, <1>11, Moved DEF CommitBusy, HasRun, Stages
  <2>2. writer = c
    BY <1>11 DEF CommitBusy, LockHeld
  <2> QED BY <1>1, <1>11, <2>1, <2>2, LeavesKeeps DEF CommitBusy
<1> QED
  BY <1>2, <1>3, <1>4, <1>5, <1>6, <1>7, <1>8, <1>9, <1>10, <1>11
  DEF CollectorStep

LEMMA BackUpKeeps ==
  ASSUME CollectorInv, BackUp
  PROVE  CollectorInv'
<1> USE DEF CollectorInv, database
<1>1. /\ BackupProcess \in Processes /\ BackupProcess \notin Collectors
      /\ place \in [Processes -> Stages] /\ errors \in 0 .. MaxErrors
  BY DEF DailyTypeOK, Processes
<1>2. CASE Lock
  <2>1. CASE Running = {}
    BY <1>2, <2>1, LockKeeps
  <2>2. CASE Running # {}
    BY <1>1, <1>2, <2>2, Moved, LeavesKeeps DEF Lock, Stages
  <2> QED BY <2>1, <2>2
<1>3. CASE LockBusy
  BY <1>1, <1>3, Moved, LeavesKeeps DEF LockBusy, Stages
<1>4. CASE CopyDatabase
  BY <1>4, CopyKeepsDaily
<1>5. CASE PublishBackup
  BY <1>5, PublishKeepsDaily
<1>6. CASE Prepare
  <2>1. CASE GoesTo(BackupProcess, "lock")
    BY <1>1, <1>6, <2>1, Moved, LeavesKeeps DEF Prepare, Stages
  <2>2. CASE GoesTo(BackupProcess, "idle")
    BY <1>1, <1>6, <2>2, Moved, LeavesKeeps DEF Prepare, Stages
  <2> QED BY <1>6, <2>1, <2>2 DEF Prepare
<1> QED BY <1>2, <1>3, <1>4, <1>5, <1>6 DEF BackUp

LEMMA NextDaily == CollectorInv /\ [DailyNext]_dailyVars => CollectorInv'
<1> SUFFICES ASSUME CollectorInv, [DailyNext]_dailyVars PROVE CollectorInv'
  OBVIOUS
<1> USE DEF database
<1>1. /\ Collectors \subseteq Processes /\ BackupProcess \in Processes /\ BackupProcess \notin Collectors
      /\ place \in [Processes -> Stages] /\ errors \in 0 .. MaxErrors
  BY DEF CollectorInv, DailyTypeOK, Processes
<1>2. ASSUME NEW c \in Collectors, BeginPreflight(c) PROVE CollectorInv'
  BY <1>1, <1>2, Moved, LeavesKeeps DEF BeginPreflight, Stages
<1>3. ASSUME NEW c \in Collectors, CollectorStep(c) PROVE CollectorInv'
  BY <1>3, CollectKeepsDaily
<1>4. ASSUME NEW c \in Collectors, CollectionFails(c) PROVE CollectorInv'
  <2>1. Moves(c) /\ place'[c] = "fail" /\ HasRun(c) /\ errors' \in 0 .. MaxErrors
    BY <1>1, <1>4, Moved DEF CollectionFails,
       Fault, HasRun, Stages
  <2> QED BY <1>1, <1>4, <2>1, LeavesKeeps DEF CollectionFails
<1>5. CASE BeginBackup
  BY <1>1, <1>5, Moved, LeavesKeeps DEF BeginBackup, Stages
<1>6. CASE BackUp
  BY <1>6, BackUpKeeps
<1>7. ASSUME NEW p \in Processes, Fails(p) PROVE CollectorInv'
  <2>1. Moves(p) /\ place'[p] = "idle" /\ errors' \in 0 .. MaxErrors
    BY <1>1, <1>7, Moved DEF Fails, Fault,
       Stages
  <2> QED BY <1>7, <2>1, LeavesKeeps DEF Fails
<1>8. CASE UNCHANGED dailyVars
  BY <1>8 DEF dailyVars, CollectorInv, DailyTypeOK, OneActiveRun,
     StoredWithSuccess, RunOwned, HasRun, StoredEnded,
     LockHeld, Running, Quiescent, BackupsQuiescent
<1> QED BY <1>2, <1>3, <1>4, <1>5, <1>6, <1>7, <1>8 DEF DailyNext

\* However preflights, claims, stores, backups, errors and deaths interleave: a
\* run is one collector's, the lock is held from the first write of a transaction
\* to its commit, and no copy shows a run under way.
THEOREM CollectorInvariant == DailySpec => []CollectorInv
BY InitDaily, NextDaily, PTL DEF DailySpec

\* The table of runs tells what happened, however preflights, claims, errors
\* and deaths interleave: claim_native_run admits one run at a time, and the
\* snapshots appear with the success of their run.
THEOREM TableOfRunsSound == DailySpec => []RunsSound
<1>1. CollectorInv => RunsSound
  BY DEF CollectorInv, RunsSound
<1> QED BY <1>1, CollectorInvariant, PTL

\* No backup that create_backup published shows a run under way, though runs
\* may start and die at any time after main has looked for one.
THEOREM BackupsShowNoRun == DailySpec => []BackupsQuiescent
<1>1. CollectorInv => BackupsQuiescent
  BY DEF CollectorInv
<1> QED BY <1>1, CollectorInvariant, PTL

\* A run left running by a collector that is gone is never passed: no later
\* collector claims a run or stores anything.
LEMMA OrphanStops ==
  ASSUME CollectorInv, [DailyNext]_dailyVars, NEW r \in Runs, Orphaned(r)
  PROVE  Running' \subseteq Running /\ UNCHANGED stored
<1> USE DEF database
<1>1. Running # {} /\ r \in Running
  BY DEF Orphaned, Running
<1>2. \A q \in Running : q = r
  BY <1>1 DEF CollectorInv, OneActiveRun
<1>3. ASSUME NEW c \in Collectors, HasRun(c), status' = [status EXCEPT ![run[c]] = "failed"]
      PROVE  Running' \subseteq Running
  BY <1>3 DEF CollectorInv, DailyTypeOK, Running
<1>4. ASSUME NEW c \in Collectors, CollectorStep(c)
      PROVE  Running' \subseteq Running /\ UNCHANGED stored
  <2>1. ~ CommitRun(c)
    <3> SUFFICES ASSUME CommitRun(c) PROVE FALSE
      OBVIOUS
    <3>1. HasRun(c) /\ run[c] \in Running
      BY DEF CommitRun, HasRun, CollectorInv, RunOwned,
         DailyTypeOK, Running
    <3> QED BY <1>2, <3>1 DEF Orphaned
  <2>2. CASE MarkFailed(c)
    BY <1>3, <2>2 DEF MarkFailed, HasRun
  <2>3. CASE ClaimRun(c)
    BY <1>1, <2>3 DEF ClaimRun, Running
  <2>4. CASE \/ Preflight(c) \/ ClaimBusy(c) \/ Fetch(c) \/ StoreRows(c)
             \/ CommitBusy(c) \/ Report(c) \/ MarkFailedBusy(c)
    BY <2>4 DEF Preflight, ClaimBusy, Fetch, StoreRows, CommitBusy, Report,
       MarkFailedBusy, Running
  <2> QED BY <1>4, <2>1, <2>2, <2>3, <2>4 DEF CollectorStep
<1>5. CASE BackUp
  BY <1>5 DEF BackUp, Prepare, Lock, LockBusy, CopyDatabase,
     PublishBackup, Running
<1>6. ASSUME NEW c \in Collectors, BeginPreflight(c) \/ CollectionFails(c)
      PROVE  Running' \subseteq Running /\ UNCHANGED stored
  BY <1>6 DEF BeginPreflight, CollectionFails, Running
<1>7. CASE BeginBackup \/ \E p \in Processes : Fails(p)
  BY <1>7 DEF BeginBackup, Fails, Running
<1>8. CASE UNCHANGED dailyVars
  BY <1>8 DEF dailyVars, Running
<1> QED BY <1>4, <1>5, <1>6, <1>7, <1>8 DEF DailyNext

\* After a collector that died, or could not mark its row, no run is claimed and
\* nothing is stored: run_preflight and claim_native_run refuse for good.
THEOREM OrphanBlocks == DailySpec => OrphanStopsAll
<1>1. CollectorInv /\ [DailyNext]_dailyVars =>
        [(\E r \in Runs : Orphaned(r)) =>
           Running' \subseteq Running /\ UNCHANGED stored]_dailyVars
  BY OrphanStops
<1> QED BY <1>1, CollectorInvariant, PTL DEF DailySpec, OrphanStopsAll

-----------------------------------------------------------------------------
(* Runs come to their end *)

\* Who moves elsewhere, with the lock if it had it, leaves LockOwned true.
LEMMA LockLeft ==
  ASSUME LockOwned, NEW p \in Processes, Moves(p),
         writer' = Nobody \/ (writer' = writer /\ writer # p)
  PROVE  LockOwned'
BY ProcessAssumption DEF LockOwned, Moves, Processes

\* No step leaves the lock to anybody else.
LEMMA LockOwnedStep ==
  ASSUME CollectorInv, LockOwned, [DailyNext]_dailyVars
  PROVE  LockOwned'
<1> USE DEF database
<1>1. /\ Collectors \subseteq Processes
      /\ BackupProcess \in Processes /\ BackupProcess \notin Collectors
      /\ place \in [Processes -> Stages]
      /\ Nobody \notin Processes
  BY ProcessAssumption DEF CollectorInv, DailyTypeOK, Processes
<1>2. \A p \in Processes : place[p] \notin {"commit", "copy"} => writer # p
  BY <1>1 DEF LockOwned
<1>3. ASSUME NEW p \in Processes, NEW l \in Stages, GoesTo(p, l),
             writer' = Nobody \/ (writer' = writer /\ writer # p)
      PROVE  LockOwned'
  BY <1>1, <1>3, Moved, LockLeft
<1>4. ASSUME NEW c \in Collectors, StoreRows(c) PROVE LockOwned'
  BY <1>1, <1>4, Moved DEF StoreRows, LockOwned, Stages
<1>5. CASE Lock
  <2>1. CASE Running = {}
    BY <1>1, <1>5, <2>1, Moved DEF Lock, LockOwned, Stages
  <2>2. CASE Running # {}
    BY <1>1, <1>2, <1>3, <1>5, <2>2 DEF Lock, Stages
  <2> QED BY <2>1, <2>2
<1>6. ASSUME NEW c \in Collectors, CollectorStep(c) PROVE LockOwned'
  <2>1. CASE CommitRun(c) \/ CommitBusy(c)
    BY <1>1, <1>3, <2>1 DEF CommitRun, CommitBusy, Stages
  <2>5. CASE Preflight(c)
    BY <1>1, <1>2, <1>3, <2>5 DEF Preflight, Stages
  <2>2. CASE ClaimRun(c) \/ ClaimBusy(c)
    BY <1>1, <1>2, <1>3, <2>2 DEF ClaimRun, ClaimBusy, Stages
  <2>3. CASE Fetch(c) \/ Report(c)
    BY <1>1, <1>2, <1>3, <2>3 DEF Fetch, Report, Stages
  <2>4. CASE MarkFailed(c) \/ MarkFailedBusy(c)
    BY <1>1, <1>2, <1>3, <2>4 DEF MarkFailed, MarkFailedBusy, Stages
  <2> QED BY <1>4, <1>6, <2>1, <2>2, <2>3, <2>4, <2>5 DEF CollectorStep
<1>7. CASE BackUp
  <2>1. CASE Prepare \/ LockBusy \/ PublishBackup
    BY <1>1, <1>2, <1>3, <2>1 DEF Prepare, LockBusy, PublishBackup, Stages
  <2>2. CASE CopyDatabase
    BY <1>1, <1>3, <2>2 DEF CopyDatabase, Stages
  <2> QED BY <1>5, <1>7, <2>1, <2>2 DEF BackUp
<1>8. ASSUME NEW c \in Collectors, BeginPreflight(c) PROVE LockOwned'
  BY <1>1, <1>2, <1>3, <1>8 DEF BeginPreflight, Stages
<1>9. ASSUME NEW c \in Collectors, CollectionFails(c) PROVE LockOwned'
  BY <1>1, <1>3, <1>9 DEF CollectionFails, Stages
<1>10. CASE BeginBackup
  BY <1>1, <1>2, <1>3, <1>10 DEF BeginBackup, Stages
<1>11. ASSUME NEW p \in Processes, Fails(p) PROVE LockOwned'
  BY <1>1, <1>3, <1>11 DEF Fails, Stages
<1>12. CASE UNCHANGED dailyVars
  BY <1>12 DEF dailyVars, LockOwned
<1> QED
  BY <1>6, <1>7, <1>8, <1>9, <1>10, <1>11, <1>12 DEF DailyNext

\* The status of a collector's run changes by its own steps only.
LEMMA OwnStatus ==
  ASSUME CollectorInv, [DailyNext]_dailyVars, NEW c \in Collectors, HasRun(c),
         status'[run[c]] # status[run[c]]
  PROVE  CommitRun(c) \/ MarkFailed(c)
<1> USE DEF database
<1>1. run \in [Collectors -> Runs] /\ status \in [Runs -> Status]
  BY DEF CollectorInv, DailyTypeOK
<1>2. status[run[c]] # "none"
  BY DEF CollectorInv, RunOwned
<1>3. \A d \in Collectors : d # c /\ HasRun(d) => run[d] # run[c]
  BY DEF CollectorInv, RunOwned
<1>4. \A d \in Collectors : ~ ClaimRun(d)
  BY <1>1, <1>2 DEF ClaimRun
<1>5. \A d \in Collectors : d # c => ~ CommitRun(d) /\ ~ MarkFailed(d)
  BY <1>1, <1>3 DEF CommitRun, MarkFailed, HasRun
<1>6. ~ (BeginBackup \/ BackUp \/ \E p \in Processes : Fails(p))
  BY DEF BeginBackup, BackUp, Prepare, Lock, LockBusy, CopyDatabase, PublishBackup, Fails
<1>7. \A d \in Collectors :
        ~ (BeginPreflight(d) \/ Preflight(d) \/ CollectionFails(d) \/ ClaimBusy(d)
           \/ Fetch(d) \/ StoreRows(d) \/ CommitBusy(d) \/ Report(d)
           \/ MarkFailedBusy(d))
  BY DEF BeginPreflight, Preflight, CollectionFails, ClaimBusy, Fetch, StoreRows,
         CommitBusy, Report, MarkFailedBusy
<1>8. ~ UNCHANGED dailyVars
  BY DEF dailyVars
<1> QED
  BY <1>4, <1>5, <1>6, <1>7, <1>8 DEF DailyNext, CollectorStep

\* Somebody else's step leaves a collector where it is, with the run it has.
LEMMA OthersLeave ==
  ASSUME CollectorInv, [DailyNext]_dailyVars, NEW c \in Collectors,
         ~ BeginPreflight(c), ~ CollectorStep(c), ~ CollectionFails(c), ~ Fails(c)
  PROVE  place'[c] = place[c] /\ run'[c] = run[c]
<1> USE DEF database, GoesTo
<1>1. /\ place \in [Processes -> Stages] /\ run \in [Collectors -> Runs]
      /\ c \in Processes /\ c # BackupProcess
  BY ProcessAssumption DEF CollectorInv, DailyTypeOK, Processes
<1>2. ASSUME NEW d \in Collectors, d # c,
             BeginPreflight(d) \/ CollectorStep(d) \/ CollectionFails(d)
      PROVE  place'[c] = place[c] /\ run'[c] = run[c]
  BY <1>1, <1>2 DEF BeginPreflight, CollectorStep, Preflight, ClaimRun, ClaimBusy,
     Fetch, StoreRows, CommitRun, CommitBusy, Report, MarkFailed, MarkFailedBusy,
     CollectionFails
<1>3. CASE BeginBackup \/ BackUp
  BY <1>1, <1>3 DEF BeginBackup, BackUp, Prepare, Lock, LockBusy, CopyDatabase, PublishBackup
<1>4. ASSUME NEW p \in Processes, p # c, Fails(p)
      PROVE  place'[c] = place[c] /\ run'[c] = run[c]
  BY <1>1, <1>4 DEF Fails
<1>5. CASE UNCHANGED dailyVars
  BY <1>5 DEF dailyVars
<1> QED BY <1>2, <1>3, <1>4, <1>5 DEF DailyNext

\* A collector comes to report by its commit, and its run's status is its own.
LEMMA SettledStep ==
  ASSUME CollectorInv, Settled, [DailyNext]_dailyVars
  PROVE  Settled'
<1> USE DEF database, GoesTo
<1> SUFFICES ASSUME NEW c \in Collectors, place'[c] = "report"
             PROVE  status'[run'[c]] # "running"
  BY DEF Settled
<1>1. /\ place \in [Processes -> Stages] /\ run \in [Collectors -> Runs]
      /\ status \in [Runs -> Status] /\ c \in Processes
  BY DEF CollectorInv, DailyTypeOK, Processes
<1>2. CASE CommitRun(c)
  BY <1>1, <1>2 DEF CommitRun
<1>3. CASE ~ CommitRun(c)
  <2>1. ~ (BeginPreflight(c) \/ CollectionFails(c) \/ Fails(c))
    BY <1>1 DEF BeginPreflight, CollectionFails, Fails
  <2>2. ~ CollectorStep(c)
    BY <1>1, <1>3 DEF CollectorStep, Preflight, ClaimRun, ClaimBusy, Fetch,
       StoreRows, CommitBusy, Report, MarkFailed, MarkFailedBusy
  <2>3. place[c] = "report" /\ run'[c] = run[c]
    BY <2>1, <2>2, OthersLeave
  <2>4. status'[run[c]] = status[run[c]]
    BY <1>3, <2>2, <2>3, OwnStatus DEF HasRun, CollectorStep
  <2> QED BY <2>3, <2>4 DEF Settled
<1> QED BY <1>2, <1>3

\* A collector whose run is running finds no other writer when it needs the
\* write lock: another's transaction would be a second run, and a copy is made
\* of none.
LEMMA FreeWhileRunning == CollectorInv /\ LockOwned => WriterFree
<1> SUFFICES ASSUME CollectorInv, LockOwned, NEW c \in Collectors,
                    place[c] \in {"store", "fail"}, status[run[c]] = "running",
                    writer # Nobody
             PROVE  FALSE
  BY DEF WriterFree
<1>1. run \in [Collectors -> Runs]
  BY DEF CollectorInv, DailyTypeOK
<1>2. HasRun(c) /\ run[c] \in Running
  BY <1>1 DEF HasRun, Running
<1>3. CASE writer \in Collectors /\ place[writer] = "commit"
  <2>1. HasRun(writer) /\ run[writer] \in Running
    BY <1>1, <1>3 DEF HasRun, Running, CollectorInv, RunOwned
  <2>2. run[writer] = run[c]
    BY <1>2, <2>1 DEF CollectorInv, OneActiveRun
  <2>3. writer = c
    BY <1>2, <1>3, <2>1, <2>2 DEF CollectorInv, RunOwned
  <2> QED BY <1>3, <2>3
<1>4. CASE writer = BackupProcess /\ place[writer] = "copy"
  BY <1>2, <1>4 DEF CollectorInv, LockHeld
<1> QED BY <1>3, <1>4 DEF LockOwned

\* A lock is held by a collector that commits or by the backup that copies, and
\* what is reported has been recorded.
LEMMA LockIsOwned == DailySpec => [](CollectorInv /\ LockOwned /\ Settled)
<1>1. DailyInit => LockOwned /\ Settled
  BY DEF DailyInit, LockOwned, Settled, Processes
<1> QED
  BY <1>1, LockOwnedStep, SettledStep, CollectorInvariant, PTL DEF DailySpec

\* No backup and no other collector holds the write lock when a collector that
\* has a running run stores its snapshots or records its failure.  This is of
\* writers only: a reader's shared lock may still refuse the commit.
THEOREM NoOtherWriter == DailySpec => []WriterFree
BY FreeWhileRunning, LockIsOwned, PTL

\* Of the ways to leave a run only an error, or a reader that keeps the commit
\* off, does not record how it went.
LEMMA RunConcluded ==
  ASSUME CollectorInv, LockOwned, Settled, [DailyNext]_dailyVars,
         NEW c \in Collectors, HasRun(c), ~ HasRun(c)',
         status'[run[c]] = "running", Scanning = {}
  PROVE  errors' > errors
<1> USE DEF database, GoesTo
<1>1. /\ place \in [Processes -> Stages] /\ run \in [Collectors -> Runs]
      /\ status \in [Runs -> Status] /\ c \in Processes /\ errors \in Nat
  BY BoundAssumption DEF CollectorInv, DailyTypeOK, Processes
<1>2. ~ CommitRun(c) /\ ~ MarkFailed(c)
  BY <1>1 DEF CommitRun, MarkFailed
<1>3. status[run[c]] = "running"
  BY <1>2, OwnStatus
<1>4. ~ Report(c)
  BY <1>3 DEF Report, Settled
<1>5. ~ MarkFailedBusy(c)
  BY <1>3, FreeWhileRunning DEF MarkFailedBusy, WriterFree
<1>6. ~ (BeginPreflight(c) \/ Preflight(c) \/ CollectionFails(c) \/ ClaimRun(c)
         \/ ClaimBusy(c) \/ Fetch(c) \/ StoreRows(c) \/ CommitBusy(c))
  BY <1>1 DEF BeginPreflight, Preflight, CollectionFails, ClaimRun, ClaimBusy,
     Fetch, StoreRows, CommitBusy, HasRun
<1>7. Fails(c)
  BY <1>2, <1>4, <1>5, <1>6, OthersLeave DEF CollectorStep, HasRun
<1> QED BY <1>1, <1>7 DEF Fails, Fault

\* A collector leaves its run running only by an error, its death, or beside a
\* reader: otherwise its transaction or mark_run_failed has recorded how the run
\* went, and no writer, backup or collector, can be the reason that it did not.
THEOREM RunsAlwaysConcluded == DailySpec => RunsConcluded
<1> DEFINE Concludes ==
      \A c \in Collectors :
        HasRun(c) /\ ~ HasRun(c)' /\ status'[run[c]] = "running" =>
          errors' > errors \/ Scanning # {}
<1>1. CollectorInv /\ LockOwned /\ Settled /\ [DailyNext]_dailyVars =>
        [Concludes]_dailyVars
  BY RunConcluded
<1> QED BY <1>1, LockIsOwned, PTL DEF DailySpec, RunsConcluded

\* Every step of a collection, and every error in it, leads nearer to its end.
LEMMA StageShortens ==
  ASSUME place \in [Processes -> Stages], NEW c \in Collectors,
         CollectorStep(c) \/ CollectionFails(c) \/ Fails(c)
  PROVE  \E l \in Stages :
           place'[c] = l /\ StagesLeft[l] < StagesLeft[place[c]]
<1> USE DEF Stages, StagesLeft, GoesTo, Processes
<1>1. CASE Preflight(c) \/ ClaimRun(c) \/ ClaimBusy(c) \/ Fetch(c)
  BY <1>1 DEF Preflight, ClaimRun, ClaimBusy, Fetch
<1>2. CASE StoreRows(c) \/ CommitRun(c) \/ CommitBusy(c) \/ Report(c)
  BY <1>2 DEF StoreRows, CommitRun, CommitBusy, Report
<1>3. CASE MarkFailed(c) \/ MarkFailedBusy(c)
  BY <1>3 DEF MarkFailed, MarkFailedBusy
<1>4. CASE CollectionFails(c)
  BY <1>4 DEF CollectionFails
<1>5. CASE Fails(c)
  <2>1. place'[c] = "idle" /\ place[c] \in Stages \ {"idle"}
    BY <1>5 DEF Fails
  <2> QED BY <2>1
<1> QED BY <1>1, <1>2, <1>3, <1>4, <1>5 DEF CollectorStep

\* A collection is over after seven stages at most, by whatever branches and
\* whatever other collectors, backups, errors and deaths do meanwhile.
THEOREM RunsComeToAnEnd == DailySpec => StagesAdvance
<1> DEFINE Advance ==
      \A c \in Collectors :
        /\ CollectorStep(c) => StagesLeft[place'[c]] < StagesLeft[place[c]]
        /\ place[c] # "idle" => StagesLeft[place'[c]] <= StagesLeft[place[c]]
<1>1. CollectorInv /\ [DailyNext]_dailyVars => [Advance]_dailyVars
  <2> SUFFICES ASSUME CollectorInv, [DailyNext]_dailyVars, NEW c \in Collectors
               PROVE  /\ CollectorStep(c) =>
                           StagesLeft[place'[c]] < StagesLeft[place[c]]
                      /\ place[c] # "idle" =>
                           StagesLeft[place'[c]] <= StagesLeft[place[c]]
    OBVIOUS
  <2> HIDE DEF Advance
  <2>1. place \in [Processes -> Stages] /\ c \in Processes
    BY DEF CollectorInv, DailyTypeOK, Processes
  <2>2. \A l \in Stages : StagesLeft[l] \in Nat
    BY DEF Stages, StagesLeft
  <2>3. ASSUME CollectorStep(c) \/ CollectionFails(c) \/ Fails(c)
        PROVE  /\ place'[c] \in Stages
               /\ StagesLeft[place'[c]] < StagesLeft[place[c]]
    BY <2>1, <2>3, StageShortens
  <2>4. ASSUME place[c] # "idle", place'[c] # place[c]
        PROVE  CollectorStep(c) \/ CollectionFails(c) \/ Fails(c)
    BY <2>4, OthersLeave DEF BeginPreflight
  <2> QED BY <2>1, <2>2, <2>3, <2>4
<1> QED BY <1>1, CollectorInvariant, PTL DEF DailySpec, StagesAdvance

=============================================================================
