------------------------- MODULE CheckpointStorage -------------------------
(***************************************************************************)
(* The checkpoint storage of one queue                                     *)
(* (scripts/unattended_checkpoint_storage.py): immutable objects, each in  *)
(* a file named by the digest of its content, saved, loaded and inspected  *)
(* by processes that share no lock.  What stands in for a lock is the      *)
(* temporary file: its name is fixed by the object's and it is created     *)
(* exclusively, so of two savers of one object one is turned away, and so  *)
(* is every later one when the first has died.                             *)
(*                                                                         *)
(* The name fixes the content, so a file is absent, whole or torn.         *)
(***************************************************************************)
EXTENDS Naturals, FiniteSets

CONSTANTS
  Workers,  \* processes saving one checkpoint at a time
  Ids,      \* names of checkpoint objects: the digests of their content
  MaxFaults \* bound: errors of the file system and deaths

ASSUME FaultAssumption == MaxFaults \in Nat

VARIABLES
  objects,  \* the state of each object's file
  temps,    \* the state of each object's temporary file
  refs,     \* the objects the queue refers to
  pc,       \* the access a save makes next
  id,       \* the object it saves
  answered, \* history: objects reported SAVED or NO_CHANGE
  inspection, \* the storage inspection in progress
  faults

disk == <<objects, temps, refs>>
vars == <<objects, temps, refs, pc, id, answered, inspection, faults>>

FileState == {"absent", "torn", "whole"}

Locations ==
  {"idle",
   "look",     \* final.exists()
   "existing", \* an existing object is read and loaded
   "probe",    \* temp.exists()
   "create",   \* temp.open("xb")
   "fill",     \* the content is written and synchronised
   "replace",  \* os.replace
   "readback"} \* the object is loaded

\* Between these locations the temporary file is this saver's.
Writing == {"fill", "replace"}

Goto(w, location) == pc' = [pc EXCEPT ![w] = location]

Answer(w) == answered' = answered \cup {id[w]}

-----------------------------------------------------------------------------
(* save_checkpoint *)

Save(w, i) ==
  /\ pc[w] = "idle"
  /\ id' = [id EXCEPT ![w] = i]
  /\ Goto(w, "look")
  /\ UNCHANGED <<disk, answered, inspection, faults>>

Look(w) ==
  /\ pc[w] = "look"
  /\ Goto(w, IF objects[id[w]] = "absent" THEN "probe" ELSE "existing")
  /\ UNCHANGED <<disk, id, answered, inspection, faults>>

\* NO_CHANGE for the same content, else CHECKPOINT_OBJECT_CONFLICT.
Existing(w) ==
  /\ pc[w] = "existing"
  /\ IF objects[id[w]] = "whole" THEN Answer(w) ELSE UNCHANGED answered
  /\ Goto(w, "idle")
  /\ UNCHANGED <<disk, id, inspection, faults>>

\* Defect: a temporary file that is found is taken to be one's own.
ProbeAdopting(w) ==
  /\ pc[w] = "probe"
  /\ Goto(w, IF temps[id[w]] = "absent" THEN "create" ELSE "replace")
  /\ UNCHANGED <<disk, id, answered, inspection, faults>>

\* CHECKPOINT_TEMP_ARTIFACT_PRESENT: to be reviewed by a person.
Probe(w) ==
  /\ pc[w] = "probe"
  /\ Goto(w, IF temps[id[w]] = "absent" THEN "create" ELSE "idle")
  /\ UNCHANGED <<disk, id, answered, inspection, faults>>

\* Defect: the temporary file is opened, not created exclusively.
CreateShared(w) ==
  /\ pc[w] = "create"
  /\ temps' = [temps EXCEPT ![id[w]] = "torn"]
  /\ Goto(w, "fill")
  /\ UNCHANGED <<objects, refs, id, answered, inspection, faults>>

Create(w) ==
  /\ pc[w] = "create"
  /\ IF temps[id[w]] = "absent"
     THEN temps' = [temps EXCEPT ![id[w]] = "torn"] /\ Goto(w, "fill")
     ELSE Goto(w, "idle") /\ UNCHANGED temps
  /\ UNCHANGED <<objects, refs, id, answered, inspection, faults>>

Fill(w) ==
  /\ pc[w] = "fill"
  /\ temps' = [temps EXCEPT ![id[w]] = "whole"]
  /\ Goto(w, "replace")
  /\ UNCHANGED <<objects, refs, id, answered, inspection, faults>>

Replace(w) ==
  /\ pc[w] = "replace"
  /\ objects' = [objects EXCEPT ![id[w]] = temps[id[w]]]
  /\ temps' = [temps EXCEPT ![id[w]] = "absent"]
  /\ Goto(w, "readback")
  /\ UNCHANGED <<refs, id, answered, inspection, faults>>

\* SAVED, or CHECKPOINT_READ_BACK_FAILED.
ReadBack(w) ==
  /\ pc[w] = "readback"
  /\ IF objects[id[w]] = "whole" THEN Answer(w) ELSE UNCHANGED answered
  /\ Goto(w, "idle")
  /\ UNCHANGED <<disk, id, inspection, faults>>

-----------------------------------------------------------------------------
(* The queue's references and the inspection of the storage *)

\* A save of the queue document takes a reference whose object loads.
Attach(i) ==
  /\ objects[i] = "whole"
  /\ refs' \in {refs \cup {i}, {i}}
  /\ UNCHANGED <<objects, temps, pc, id, answered, inspection, faults>>

\* erred is history: an access of this inspection has met an error.
NoInspection ==
  [step |-> "none", active |-> {}, present |-> {}, corrupt |-> {},
   residue |-> FALSE, verdict |-> "none", erred |-> FALSE]

\* inspect is given the references of the queue's snapshot.
Inspect ==
  /\ inspection.step \in {"none", "done"}
  /\ inspection' = [NoInspection EXCEPT !.step = "temps", !.active = refs]
  /\ UNCHANGED <<disk, pc, id, answered, faults>>

ListTemps ==
  /\ inspection.step = "temps"
  /\ inspection' = [inspection EXCEPT !.step = "objects",
                      !.residue = \E i \in Ids : temps[i] # "absent"]
  /\ UNCHANGED <<disk, pc, id, answered, faults>>

ListObjects ==
  /\ inspection.step = "objects"
  /\ inspection' = [inspection EXCEPT !.step = "contents",
                      !.present = {i \in Ids : objects[i] # "absent"}]
  /\ UNCHANGED <<disk, pc, id, answered, faults>>

Damaged(read) == {i \in read : objects[i] # "whole"}

ReadContents ==
  /\ inspection.step = "contents"
  /\ inspection' = [inspection EXCEPT !.step = "judge",
                      !.corrupt = Damaged(inspection.present)]
  /\ UNCHANGED <<disk, pc, id, answered, faults>>

Verdict(seen) ==
  LET sound == seen.active \subseteq seen.present \ seen.corrupt
      tidy == ~ seen.residue /\ seen.corrupt = {}
  IN CASE ~ sound -> "RECOVERY_BLOCKED"
       [] sound /\ ~ tidy -> "MANUAL_REVIEW_REQUIRED"
       [] sound /\ tidy /\ seen.present # seen.active ->
            "UNREFERENCED_OBJECTS_PRESENT"
       [] OTHER -> "HEALTHY"

Judge ==
  /\ inspection.step = "judge"
  /\ inspection' = [inspection EXCEPT !.step = "done",
                      !.verdict = Verdict(inspection)]
  /\ UNCHANGED <<disk, pc, id, answered, faults>>

-----------------------------------------------------------------------------
(* Faults and the operator *)

Fault ==
  /\ faults < MaxFaults
  /\ faults' = faults + 1

\* An error, or the death of the process, before the object is in place: no
\* path cleans anything up.
Fails(w) ==
  /\ Fault
  /\ pc[w] \notin {"idle", "readback"}
  /\ Goto(w, "idle")
  /\ UNCHANGED <<disk, id, answered, inspection>>

\* Defect: an object that cannot be read back is taken away again.
ReadBackWithdraws(w) ==
  /\ Fault
  /\ pc[w] = "readback"
  /\ objects' = [objects EXCEPT ![id[w]] = "absent"]
  /\ Goto(w, "idle")
  /\ UNCHANGED <<temps, refs, id, answered, inspection>>

\* CHECKPOINT_READ_BACK_FAILED or death: the object stays, unacknowledged.
ReadBackFails(w) ==
  /\ Fault
  /\ pc[w] = "readback"
  /\ Goto(w, "idle")
  /\ UNCHANGED <<disk, id, answered, inspection>>

\* glob passes over a directory it may not read: nothing is listed.
ListingMisses ==
  /\ Fault
  /\ \/ /\ inspection.step = "temps"
        /\ inspection' = [inspection EXCEPT !.step = "objects", !.erred = TRUE]
     \/ /\ inspection.step = "objects"
        /\ inspection' = [inspection EXCEPT !.step = "contents", !.erred = TRUE]
  /\ UNCHANGED <<disk, pc, id, answered>>

\* An object that cannot be read is counted as a corrupt one.
ReadsFail ==
  /\ Fault
  /\ inspection.step = "contents"
  /\ \E unread \in SUBSET inspection.present :
       inspection' = [inspection EXCEPT !.step = "judge", !.erred = TRUE,
                        !.corrupt = Damaged(inspection.present) \cup unread]
  /\ UNCHANGED <<disk, pc, id, answered>>

\* CHECKPOINT_INSPECTION_FAILED: any other exception stops the recovery too.
InspectionFails ==
  /\ Fault
  /\ inspection.step \in {"temps", "objects", "contents", "judge"}
  /\ inspection' = [inspection EXCEPT !.step = "done", !.erred = TRUE,
                      !.verdict = "RECOVERY_BLOCKED"]
  /\ UNCHANGED <<disk, pc, id, answered>>

\* After the review a person removes the temporary file of a dead saver.
Review(i) ==
  /\ temps[i] # "absent"
  /\ \A w \in Workers : pc[w] = "idle"
  /\ temps' = [temps EXCEPT ![i] = "absent"]
  /\ UNCHANGED <<objects, refs, pc, id, answered, inspection, faults>>

-----------------------------------------------------------------------------

Init ==
  /\ objects = [i \in Ids |-> "absent"]
  /\ temps = [i \in Ids |-> "absent"]
  /\ refs = {}
  /\ pc = [w \in Workers |-> "idle"]
  /\ id \in [Workers -> Ids]
  /\ answered = {}
  /\ inspection = NoInspection
  /\ faults = 0

SaveStep(w) ==
  \/ \E i \in Ids : Save(w, i)
  \/ Look(w) \/ Existing(w) \/ Probe(w) \/ Create(w) \/ Fill(w)
  \/ Replace(w) \/ ReadBack(w) \/ Fails(w) \/ ReadBackFails(w)

InspectionStep ==
  \/ Inspect \/ ListTemps \/ ListObjects \/ ReadContents \/ Judge
  \/ ListingMisses \/ ReadsFail \/ InspectionFails

Next ==
  \/ \E w \in Workers : SaveStep(w)
  \/ \E i \in Ids : Attach(i) \/ Review(i)
  \/ InspectionStep

Spec == Init /\ [][Next]_vars

-----------------------------------------------------------------------------
(* Properties *)

TypeOK ==
  /\ objects \in [Ids -> FileState]
  /\ temps \in [Ids -> FileState]
  /\ refs \subseteq Ids
  /\ pc \in [Workers -> Locations]
  /\ id \in [Workers -> Ids]
  /\ answered \subseteq Ids
  /\ faults \in 0 .. MaxFaults

\* The storage is the growing set of objects it promises: no object on disk
\* is ever torn, taken away or answered for before it is there.
Stored == {i \in Ids : objects[i] = "whole"}
Objects == INSTANCE CheckpointObjects WITH stored <- Stored
ImplementsObjects == Objects!Spec

\* The temporary file has one writer, and it is whole once it may be moved:
\* with no lock anywhere, exclusive creation is all this rests on.
OneWriter ==
  /\ \A i \in Ids : objects[i] # "torn"
  /\ \A w \in Workers :
       /\ pc[w] \in Writing => temps[id[w]] # "absent"
       /\ pc[w] = "replace" => temps[id[w]] = "whole"
  /\ \A v, w \in Workers :
       pc[v] \in Writing /\ pc[w] \in Writing /\ v # w => id[v] # id[w]

\* The temporary file of a saver that is gone blocks its object: nobody moves
\* it into place or takes it over before it has been reviewed and removed.
Residue(i) ==
  /\ temps[i] # "absent"
  /\ \A w \in Workers : pc[w] \in Writing => id[w] # i

ResidueBlocks ==
  [][\A i \in Ids : Residue(i) =>
       /\ objects'[i] = objects[i]
       /\ Residue(i)' \/ temps'[i] = "absent"]_vars

\* An inspection stops the recovery only after an error of one of its own
\* accesses: savers, references that change, dead savers' files and the errors
\* of others never make it find an active object missing or corrupt.
NoFalseAlarm == inspection.verdict = "RECOVERY_BLOCKED" => inspection.erred

\* An inspection that met no error has found every object it was told is
\* active, and none of them damaged.
InspectionSound ==
  /\ inspection.active \subseteq Stored
  /\ inspection.step \in {"contents", "judge", "done"} =>
       inspection.erred \/ inspection.active \subseteq inspection.present
  /\ inspection.present \subseteq Stored
  /\ inspection.corrupt # {} => inspection.erred
  /\ refs \subseteq Stored
  /\ NoFalseAlarm

InspectionType ==
  /\ inspection \in
       [step : {"none", "temps", "objects", "contents", "judge", "done"},
        active : SUBSET Ids, present : SUBSET Ids, corrupt : SUBSET Ids,
        residue : BOOLEAN, erred : BOOLEAN,
        verdict : {"none", "RECOVERY_BLOCKED", "MANUAL_REVIEW_REQUIRED",
                   "UNREFERENCED_OBJECTS_PRESENT", "HEALTHY"}]

\* The inductive invariant: types, one writer per temporary file, every object
\* save_checkpoint answered for is there whole, and an inspection that met no
\* error has seen nothing that is not.
StorageInv ==
  /\ TypeOK
  /\ InspectionType
  /\ OneWriter
  /\ answered \subseteq Stored
  /\ InspectionSound

=============================================================================
