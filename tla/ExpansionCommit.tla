--------------------------- MODULE ExpansionCommit ---------------------------
(***************************************************************************)
(* Expansion collections kept beside the production database.  A run       *)
(* (revenue_mvp_expansion_isolated_collection.assess) hashes the           *)
(* production database, copies it to a disposable one, lets the collector  *)
(* make its six requests on the copy and, when asked to retain the result, *)
(* commits it (revenue_mvp_expansion_storage_commit.commit): the kept      *)
(* database is backed up, replaced, and old backups are removed.  Last, a  *)
(* production database that has changed since blocks the run.              *)
(*                                                                         *)
(* Nothing is locked: the daily collection goes on in the production       *)
(* database, and two runs may overlap.  A kept database is a record of its *)
(* number, the version of the production database it was copied from and   *)
(* whether it holds an unfinished run; equal hashes are equal records.     *)
(***************************************************************************)
EXTENDS Naturals, FiniteSets, Sequences

CONSTANTS
  Operators,      \* names for runs of the harness
  None,           \* no database
  RETENTION_COUNT,
  MaxVersions, MaxRuns, MaxFaults \* bounds: writes to the production database,
                                  \* copies of it, failures

ASSUME CommitAssumption ==
  /\ IsFiniteSet(Operators)
  /\ RETENTION_COUNT \in Nat \ {0}
  /\ {MaxVersions, MaxRuns, MaxFaults} \subseteq Nat

Databases == [number : 1 .. MaxRuns, base : 0 .. MaxVersions, unfinished : BOOLEAN]

\* expansion-<stamp>-<hash>.db, named after the hash of what was to be saved.
Files == [stamp : 0 .. MaxRuns, hash : Databases, content : Databases]

ASSUME NoneAssumption == None \notin Databases

VARIABLES
  version,    \* of the production database
  unfinished, \* a native run is running in it
  retained,   \* revenue-mvp-expansion-collection.db
  backups,    \* revenue-mvp-expansion-backups
  clock,      \* in steps of a collection, several seconds each
  made,       \* how many copies have been made
  pc,
  before,     \* the version a run has hashed
  candidate,  \* its disposable database, then the staged one
  stamp,      \* committed_at
  old,        \* the database it has hashed before saving it
  saved,      \* what its temporary backup holds
  obsolete,   \* the backups it is to remove
  committed,  \* history: every database that was retained, in that order
  receipts,   \* history: what VERIFIED receipts with a commit stand for
  overlapped, \* history: two commits were in progress, or began, at one time
  faults

production == <<version, unfinished>>
locals == <<before, candidate, stamp, old, saved, obsolete>>
history == <<committed, receipts, overlapped>>
vars == <<production, retained, backups, clock, made, pc, locals, history, faults>>

CommitLocations ==
  {"gate", "backup", "publish", "replace", "confirm", "prune", "unlink"}

Locations == {"idle", "look", "copy", "collect", "compare", "commit"} \cup CommitLocations

Goto(x, location) == pc' = [pc EXCEPT ![x] = location]

Committing(x) == pc[x] \in CommitLocations

-----------------------------------------------------------------------------
(* The daily collection, which may die between the two: CollectorRuns has it   *)
(* in detail                                                                   *)

Claim ==
  /\ ~ unfinished /\ version < MaxVersions
  /\ version' = version + 1
  /\ unfinished' = TRUE
  /\ UNCHANGED <<retained, backups, clock, made, pc, locals, history, faults>>

Store ==
  /\ unfinished /\ version < MaxVersions
  /\ version' = version + 1
  /\ unfinished' = FALSE
  /\ UNCHANGED <<retained, backups, clock, made, pc, locals, history, faults>>

-----------------------------------------------------------------------------
(* The isolated collection *)

\* BLOCKED or not, the disposable and the staged database are gone.
Return(x) ==
  /\ Goto(x, "idle")
  /\ before' = [before EXCEPT ![x] = 0]
  /\ candidate' = [candidate EXCEPT ![x] = None]
  /\ stamp' = [stamp EXCEPT ![x] = 0]
  /\ old' = [old EXCEPT ![x] = None]
  /\ saved' = [saved EXCEPT ![x] = None]
  /\ obsolete' = [obsolete EXCEPT ![x] = {}]

Start(x) ==
  /\ pc[x] = "idle" /\ made < MaxRuns
  /\ before' = [before EXCEPT ![x] = version]
  /\ Goto(x, "look")
  /\ UNCHANGED <<production, retained, backups, clock, made, candidate, stamp, old,
                 saved, obsolete, history, faults>>

\* ACTIVE_NATIVE_RUN
Look(x) ==
  /\ pc[x] = "look"
  /\ IF unfinished THEN Return(x) ELSE Goto(x, "copy") /\ UNCHANGED locals
  /\ UNCHANGED <<production, retained, backups, clock, made, history, faults>>

\* The copy is one reading, but not the one that looked for a run.
Copy(x) ==
  /\ pc[x] = "copy" /\ made < MaxRuns
  /\ made' = made + 1
  /\ candidate' = [candidate EXCEPT ![x] =
       [number |-> made', base |-> version, unfinished |-> unfinished]]
  /\ Goto(x, "collect")
  /\ UNCHANGED <<production, retained, backups, clock, before, stamp, old, saved,
                 obsolete, history, faults>>

\* Defect: the collector starts beside an unfinished run.
RefusesNever(database) == FALSE

\* The collector's preflight on the copy.
Refuses(database) == database.unfinished

\* Six requests a second apart; where the run, its pages and the coverage are
\* as they must be, the result is retained if the operator asked for it.
Collect(x) ==
  /\ pc[x] = "collect"
  /\ IF Refuses(candidate[x])
     THEN Return(x) /\ UNCHANGED clock
     ELSE /\ clock' = clock + 1
          /\ \/ Goto(x, "commit") /\ UNCHANGED locals
             \/ Goto(x, "compare") /\ candidate' = [candidate EXCEPT ![x] = None]
                /\ UNCHANGED <<before, stamp, old, saved, obsolete>>
             \/ Return(x)
  /\ UNCHANGED <<production, retained, backups, made, history, faults>>

\* SOURCE_IDENTITY_CHANGED, or ISOLATED_COLLECTION_VERIFIED
Compare(x) ==
  /\ pc[x] = "compare"
  /\ receipts' = IF version = before[x] /\ candidate[x] # None
                 THEN receipts \cup {[before |-> before[x], database |-> candidate[x]]}
                 ELSE receipts
  /\ Return(x)
  /\ UNCHANGED <<production, retained, backups, clock, made, committed, overlapped,
                 faults>>

-----------------------------------------------------------------------------
(* The commit *)

\* The commit begins: committed_at is taken before the gate.
Commit(x) ==
  /\ pc[x] = "commit"
  /\ stamp' = [stamp EXCEPT ![x] = clock]
  /\ Goto(x, "gate")
  /\ overlapped' = \/ overlapped
                   \/ \E y \in Operators : Committing(y)
                   \/ \E file \in backups : file.stamp = clock
  /\ UNCHANGED <<production, retained, backups, clock, made, before, candidate, old,
                 saved, obsolete, committed, receipts, faults>>

\* The staged copy has passed the gate; is there a database to save?
HashOld(x) ==
  /\ pc[x] = "gate"
  /\ old' = [old EXCEPT ![x] = retained]
  /\ Goto(x, IF retained = None THEN "replace" ELSE "backup")
  /\ UNCHANGED <<production, retained, backups, clock, made, before, candidate,
                 stamp, saved, obsolete, history, faults>>

Named(x) == {file \in backups : file.stamp = stamp[x] /\ file.hash = old[x]}

\* BACKUP_COLLISION, or whatever is there now is copied to the temporary file.
Backup(x) ==
  /\ pc[x] = "backup"
  /\ IF Named(x) # {}
     THEN Return(x)
     ELSE /\ saved' = [saved EXCEPT ![x] = retained]
          /\ Goto(x, "publish")
          /\ UNCHANGED <<before, candidate, stamp, old, obsolete>>
  /\ UNCHANGED <<production, retained, backups, clock, made, history, faults>>

Publish(x) ==
  /\ pc[x] = "publish"
  /\ backups' = (backups \ Named(x)) \cup
       {[stamp |-> stamp[x], hash |-> old[x], content |-> saved[x]]}
  /\ Goto(x, "replace")
  /\ UNCHANGED <<production, retained, clock, made, locals, history, faults>>

Replace(x) ==
  /\ pc[x] = "replace"
  /\ retained' = candidate[x]
  /\ committed' = Append(committed, candidate[x])
  /\ Goto(x, "confirm")
  /\ UNCHANGED <<production, backups, clock, made, locals, receipts, overlapped,
                 faults>>

\* RETAINED_IDENTITY_MISMATCH unless the database is still this run's.
Confirm(x) ==
  /\ pc[x] = "confirm"
  /\ IF retained = candidate[x] THEN Goto(x, "prune") /\ UNCHANGED locals ELSE Return(x)
  /\ UNCHANGED <<production, retained, backups, clock, made, history, faults>>

\* By name; files of one second, which only overlapping runs make, are in the
\* order of their hashes, here that of their numbers.
Newer(file, other) ==
  \/ file.stamp > other.stamp
  \/ file.stamp = other.stamp /\ file.hash.number > other.hash.number

\* Defect: the oldest are kept.
ObsoleteNewest(files) ==
  {file \in files :
     Cardinality({other \in files : Newer(file, other)}) >= RETENTION_COUNT}

\* All but the RETENTION_COUNT newest.
Obsolete(files) ==
  {file \in files :
     Cardinality({other \in files : Newer(other, file)}) >= RETENTION_COUNT}

Prune(x) ==
  /\ pc[x] = "prune"
  /\ obsolete' = [obsolete EXCEPT ![x] = Obsolete(backups)]
  /\ Goto(x, "unlink")
  /\ UNCHANGED <<production, retained, backups, clock, made, before, candidate,
                 stamp, old, saved, history, faults>>

\* The newest of them first; one that is gone is an error.  COMMITTED after the
\* last.
Unlink(x) ==
  /\ pc[x] = "unlink"
  /\ IF obsolete[x] = {}
     THEN Goto(x, "compare") /\ UNCHANGED <<backups, locals>>
     ELSE LET file == CHOOSE f \in obsolete[x] :
                        \A other \in obsolete[x] \ {f} : Newer(f, other)
          IN IF file \in backups
             THEN /\ backups' = backups \ {file}
                  /\ obsolete' = [obsolete EXCEPT ![x] = @ \ {file}]
                  /\ UNCHANGED <<pc, before, candidate, stamp, old, saved>>
             ELSE Return(x) /\ UNCHANGED backups
  /\ UNCHANGED <<production, retained, clock, made, history, faults>>

\* An error, or the death of the process, at any place.
Fail(x) ==
  /\ pc[x] # "idle" /\ faults < MaxFaults
  /\ faults' = faults + 1
  /\ Return(x)
  /\ UNCHANGED <<production, retained, backups, clock, made, history>>

-----------------------------------------------------------------------------

Init ==
  /\ version = 0 /\ unfinished \in BOOLEAN
  /\ retained = None /\ backups = {}
  /\ clock = 0 /\ made = 0
  /\ pc = [x \in Operators |-> "idle"]
  /\ before = [x \in Operators |-> 0]
  /\ candidate = [x \in Operators |-> None]
  /\ stamp = [x \in Operators |-> 0]
  /\ old = [x \in Operators |-> None]
  /\ saved = [x \in Operators |-> None]
  /\ obsolete = [x \in Operators |-> {}]
  /\ committed = <<>> /\ receipts = {} /\ overlapped = FALSE
  /\ faults = 0

Collection(x) == Start(x) \/ Look(x) \/ Copy(x) \/ Collect(x) \/ Compare(x)

Retention(x) ==
  \/ Commit(x) \/ HashOld(x) \/ Backup(x) \/ Publish(x)
  \/ Replace(x) \/ Confirm(x) \/ Prune(x) \/ Unlink(x)

Next ==
  \/ Claim \/ Store
  \/ \E x \in Operators : Collection(x) \/ Retention(x) \/ Fail(x)

Spec == Init /\ [][Next]_vars

-----------------------------------------------------------------------------
(* Properties *)

TypeOK ==
  /\ version \in 0 .. MaxVersions /\ unfinished \in BOOLEAN
  /\ retained \in Databases \cup {None}
  /\ backups \subseteq Files
  /\ {clock, made} \subseteq 0 .. MaxRuns
  /\ pc \in [Operators -> Locations]
  /\ before \in [Operators -> 0 .. MaxVersions]
  /\ stamp \in [Operators -> 0 .. MaxRuns]
  /\ {candidate, old, saved} \subseteq [Operators -> Databases \cup {None}]
  /\ obsolete \in [Operators -> SUBSET Files]
  /\ committed \in Seq(Databases)
  /\ receipts \subseteq [before : 0 .. MaxVersions, database : Databases]
  /\ overlapped \in BOOLEAN /\ faults \in 0 .. MaxFaults

\* Every database that was ever kept holds finished runs only, though the run
\* that is looked for may start before the copy is made.
FinishedOnly == \A i \in DOMAIN committed : ~ committed[i].unfinished

\* A VERIFIED receipt stands for a database that was retained and copied from
\* exactly the production database that was hashed at first.
ReceiptsTrue ==
  \A receipt \in receipts :
    /\ receipt.database.base = receipt.before
    /\ \E i \in DOMAIN committed : committed[i] = receipt.database

\* Only overlapping commits save another database than a name says.
NamesTrue == overlapped \/ \A file \in backups : file.hash = file.content

CommitInv == TypeOK /\ FinishedOnly /\ ReceiptsTrue /\ NamesTrue

\* As long as commits do not overlap, nor two begin in one second, wherever they
\* fail or die: a database that was kept is the one that is kept, or is in a
\* backup, or RETENTION_COUNT backups are of later ones.
NothingLost ==
  overlapped \/ \A i \in DOMAIN committed :
    \/ retained = committed[i]
    \/ \E file \in backups : file.content = committed[i]
    \/ Cardinality({file \in backups :
         \E j \in DOMAIN committed : j > i /\ file.content = committed[j]}) >= RETENTION_COUNT

-----------------------------------------------------------------------------
(* Why the properties hold *)

\* Every step of the clock is a copy that was made and collected.
Counted == clock + Cardinality({x \in Operators : pc[x] = "collect"}) <= made

IsKept(database) == \E i \in DOMAIN committed : committed[i] = database

\* What a run has at hand: a copy no older than what it has hashed, finished
\* once it is collected, and retained from Replace on.
Staged(x) ==
  /\ before[x] <= version /\ stamp[x] <= clock
  /\ pc[x] \in {"idle", "look", "copy"} => candidate[x] = None
  /\ pc[x] \in {"collect", "commit"} \/ Committing(x) => candidate[x] # None
  /\ candidate[x] # None =>
       /\ before[x] <= candidate[x].base /\ candidate[x].base <= version
       /\ candidate[x].number <= made
       /\ pc[x] # "collect" => ~ candidate[x].unfinished
       /\ IF pc[x] \in {"confirm", "prune", "unlink", "compare"}
          THEN IsKept(candidate[x])
          ELSE \A i \in DOMAIN committed : committed[i].number # candidate[x].number
  /\ pc[x] \in {"backup", "publish"} => old[x] # None /\ retained # None
  /\ pc[x] = "publish" => saved[x] # None

\* The last that was retained is there, and every copy has its own number.
Recorded ==
  /\ retained = IF committed = <<>> THEN None ELSE committed[Len(committed)]
  /\ \A i \in DOMAIN committed :
       /\ committed[i].number <= made
       /\ \A j \in DOMAIN committed : committed[i].number = committed[j].number => i = j
  /\ \A x, y \in Operators :
       /\ candidate[x] # None /\ candidate[y] # None
       /\ candidate[x].number = candidate[y].number
       => x = y
  /\ IsFiniteSet(backups)
  /\ \A file \in backups : file.stamp <= clock

\* Where commits do not overlap one is in progress at a time; what it saves is
\* what it replaces.
Alone ==
  /\ \A x, y \in Operators : Committing(x) /\ Committing(y) => x = y
  /\ \A x \in Operators :
       /\ pc[x] \in {"backup", "publish", "replace"} => old[x] = retained
       /\ pc[x] = "publish" => saved[x] = old[x]
       /\ pc[x] \in {"gate", "backup", "publish"} =>
            \A file \in backups : file.stamp < stamp[x]
       /\ pc[x] = "replace" /\ retained # None =>
            \E file \in backups : file.content = retained

\* The later of two backups is not of an earlier database.
Ordered ==
  /\ \A file, other \in backups : file.stamp = other.stamp => file = other
  /\ \A file \in backups : IsKept(file.content)
  /\ \A file, other \in backups, i, j \in DOMAIN committed :
       /\ file.stamp < other.stamp
       /\ file.content = committed[i] /\ other.content = committed[j]
       => i <= j

\* RETENTION_COUNT backups are later than every one still to be removed.
Pruning(x) ==
  pc[x] = "unlink" /\ obsolete[x] # {} =>
    /\ obsolete[x] \subseteq backups
    /\ Cardinality(backups \ obsolete[x]) >= RETENTION_COUNT
    /\ \A file \in obsolete[x], other \in backups \ obsolete[x] :
         file.stamp < other.stamp

KeptInv ==
  /\ CommitInv
  /\ Counted
  /\ \A x \in Operators : Staged(x)
  /\ Recorded
  /\ overlapped \/ (Alone /\ Ordered /\ \A x \in Operators : Pruning(x))
  /\ NothingLost

=============================================================================
