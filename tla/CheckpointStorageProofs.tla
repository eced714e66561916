---------------------- MODULE CheckpointStorageProofs ----------------------
(* Proofs about CheckpointStorage, for any number of savers and objects.   *)
EXTENDS CheckpointStorage, TLAPS

LEMMA InitiallySound == Init => StorageInv
BY FaultAssumption
DEF Init, StorageInv, TypeOK, InspectionType, OneWriter, InspectionSound,
    NoInspection, NoFalseAlarm, Stored, FileState, Locations, Writing

LEMMA SaverStepsSound ==
  ASSUME StorageInv, NEW w \in Workers, SaveStep(w)
  PROVE  StorageInv'
<1>1. CASE \E i \in Ids : Save(w, i)
  BY <1>1 DEF Save, StorageInv, TypeOK, InspectionType, OneWriter, InspectionSound,
     NoFalseAlarm, Stored, FileState, Locations, Writing, Goto, Answer, Fault, disk
<1>2. CASE Look(w)
  BY <1>2 DEF Look, StorageInv, TypeOK, InspectionType, OneWriter, InspectionSound,
     NoFalseAlarm, Stored, FileState, Locations, Writing, Goto, Answer, Fault, disk
<1>3. CASE Existing(w)
  BY <1>3 DEF Existing, StorageInv, TypeOK, InspectionType, OneWriter, InspectionSound,
     NoFalseAlarm, Stored, FileState, Locations, Writing, Goto, Answer, Fault, disk
<1>4. CASE Probe(w)
  BY <1>4 DEF Probe, StorageInv, TypeOK, InspectionType, OneWriter, InspectionSound,
     NoFalseAlarm, Stored, FileState, Locations, Writing, Goto, Answer, Fault, disk
<1>5. CASE Create(w)
  <2> USE <1>5 DEF StorageInv, Create, Goto
  <2>1. TypeOK'
    BY DEF TypeOK, FileState, Locations, disk
  <2>2. Stored \subseteq Stored'
    BY DEF Stored, InspectionSound
  <2>3. OneWriter'
    BY DEF TypeOK, OneWriter, FileState, Writing
  <2> QED
    BY <2>1, <2>2, <2>3 DEF InspectionType, InspectionSound, NoFalseAlarm
<1>6. CASE Fill(w)
  <2> USE <1>6 DEF StorageInv, Fill, Goto
  <2>1. TypeOK'
    BY DEF TypeOK, FileState, Locations, disk
  <2>2. Stored \subseteq Stored'
    BY DEF Stored, InspectionSound
  <2>3. OneWriter'
    <3>1. \A i \in Ids : objects'[i] # "torn"
      BY DEF TypeOK, OneWriter, FileState
    <3>2. \A v \in Workers : pc'[v] \in Writing => pc[v] \in Writing
      BY DEF TypeOK, Writing
    <3>3. \A v \in Workers :
            /\ pc'[v] \in Writing => temps'[id'[v]] # "absent"
            /\ pc'[v] = "replace" => temps'[id'[v]] = "whole"
      BY <3>2 DEF TypeOK, OneWriter, Writing
    <3>4. \A u, v \in Workers :
            pc'[u] \in Writing /\ pc'[v] \in Writing /\ u # v => id'[u] # id'[v]
      BY <3>2 DEF OneWriter
    <3> QED
      BY <3>1, <3>3, <3>4 DEF OneWriter
  <2> QED
    BY <2>1, <2>2, <2>3 DEF InspectionType, InspectionSound, NoFalseAlarm
<1>7. CASE Replace(w)
  <2> USE <1>7 DEF StorageInv, Replace, Goto
  <2>1. TypeOK'
    BY DEF TypeOK, FileState, Locations, disk
  <2>2. Stored \subseteq Stored'
    BY DEF Stored, TypeOK, OneWriter, InspectionSound, FileState
  <2>3. OneWriter'
    <3>1. \A i \in Ids : objects'[i] # "torn"
      BY DEF TypeOK, OneWriter, FileState
    <3>2. \A v \in Workers : pc'[v] \in Writing => pc[v] \in Writing
      BY DEF TypeOK, Writing
    <3>3. \A v \in Workers :
            /\ pc'[v] \in Writing => temps'[id'[v]] # "absent"
            /\ pc'[v] = "replace" => temps'[id'[v]] = "whole"
      BY <3>2 DEF TypeOK, OneWriter, Writing
    <3>4. \A u, v \in Workers :
            pc'[u] \in Writing /\ pc'[v] \in Writing /\ u # v => id'[u] # id'[v]
      BY <3>2 DEF OneWriter
    <3> QED
      BY <3>1, <3>3, <3>4 DEF OneWriter
  <2> QED
    BY <2>1, <2>2, <2>3 DEF InspectionType, InspectionSound, NoFalseAlarm
<1>8. CASE ReadBack(w)
  BY <1>8 DEF ReadBack, StorageInv, TypeOK, InspectionType, OneWriter, InspectionSound,
     NoFalseAlarm, Stored, FileState, Locations, Writing, Goto, Answer, Fault, disk
<1>9. CASE Fails(w)
  BY <1>9, FaultAssumption DEF Fails, StorageInv, TypeOK, InspectionType, OneWriter, InspectionSound,
     NoFalseAlarm, Stored, FileState, Locations, Writing, Goto, Answer, Fault, disk
<1>10. CASE ReadBackFails(w)
  BY <1>10, FaultAssumption DEF ReadBackFails, StorageInv, TypeOK, InspectionType, OneWriter, InspectionSound,
     NoFalseAlarm, Stored, FileState, Locations, Writing, Goto, Answer, Fault, disk
<1> QED
  BY <1>1, <1>2, <1>3, <1>4, <1>5, <1>6, <1>7, <1>8, <1>9, <1>10 DEF SaveStep

LEMMA OtherStepsSound ==
  ASSUME StorageInv,
         \/ \E i \in Ids : Attach(i) \/ Review(i)
         \/ InspectionStep
  PROVE  StorageInv'
<1> USE DEF StorageInv, NoInspection
<1>1. CASE \E i \in Ids : Attach(i)
  BY <1>1 DEF Attach, TypeOK, InspectionType, OneWriter, InspectionSound,
     NoFalseAlarm, Stored, Writing
<1>2. CASE \E i \in Ids : Review(i)
  <2> PICK i \in Ids : Review(i)
    BY <1>2
  <2>1. TypeOK' /\ Stored' = Stored
    BY DEF Review, TypeOK, FileState, Stored
  <2>2. OneWriter'
    BY DEF Review, OneWriter, Writing
  <2> QED
    BY <2>1, <2>2 DEF Review, InspectionType, InspectionSound, NoFalseAlarm
<1>3. CASE InspectionStep
  <2>1. /\ UNCHANGED <<objects, temps, refs, pc, id, answered>>
        /\ faults' = faults \/ Fault
    BY <1>3
    DEF InspectionStep, Inspect, ListTemps, ListObjects, ReadContents, Judge,
        ListingMisses, ReadsFail, InspectionFails, disk
  <2>5. faults' \in 0 .. MaxFaults
    BY <2>1, FaultAssumption DEF TypeOK, Fault
  <2>2. TypeOK' /\ OneWriter' /\ Stored' = Stored
    BY <2>1, <2>5 DEF TypeOK, OneWriter, Stored
  <2>3. InspectionType'
    <3>1. CASE Inspect \/ ListTemps \/ ListObjects \/ ReadContents
      BY <3>1 DEF InspectionType, Inspect, ListTemps, ListObjects, ReadContents,
         Damaged, TypeOK
    <3>3. CASE ListingMisses \/ InspectionFails
      BY <3>3 DEF InspectionType, ListingMisses, InspectionFails
    <3>4. CASE ReadsFail
      BY <3>4 DEF InspectionType, ReadsFail, Damaged
    <3>2. CASE Judge
      <4> DEFINE verdict == Verdict(inspection)
      <4>2. inspection' = [inspection EXCEPT !.step = "done", !.verdict = verdict]
        BY <3>2 DEF Judge
      <4>1. verdict \in {"RECOVERY_BLOCKED", "MANUAL_REVIEW_REQUIRED",
                        "UNREFERENCED_OBJECTS_PRESENT", "HEALTHY"}
        BY DEF Verdict
      <4> HIDE DEF verdict
      <4> QED
        BY <4>1, <4>2 DEF InspectionType
    <3> QED
      BY <1>3, <3>1, <3>2, <3>3, <3>4 DEF InspectionStep
  <2>4. InspectionSound'
    <3>1. CASE Inspect
      BY <2>1, <3>1 DEF Inspect, InspectionSound, NoFalseAlarm, Stored
    <3>2. CASE ListTemps
      BY <2>1, <3>2 DEF ListTemps, InspectionType, InspectionSound, NoFalseAlarm, Stored
    <3>3. CASE ListObjects
      <4>1. {i \in Ids : objects[i] # "absent"} = Stored
        BY DEF Stored, OneWriter, TypeOK, FileState
      <4> QED
        BY <2>1, <2>2, <3>3, <4>1
        DEF ListObjects, InspectionType, InspectionSound, NoFalseAlarm
    <3>4. CASE ReadContents
      <4>1. Damaged(inspection.present) = {}
        BY DEF InspectionSound, Damaged, Stored
      <4> QED
        BY <2>1, <2>2, <3>4, <4>1
        DEF ReadContents, InspectionType, InspectionSound, NoFalseAlarm
    <3>5. CASE Judge
      BY <2>1, <3>5 DEF Judge, Verdict, InspectionType, InspectionSound, NoFalseAlarm,
         Stored
    <3>6. CASE ListingMisses
      BY <2>1, <2>2, <3>6
      DEF ListingMisses, InspectionType, InspectionSound, NoFalseAlarm
    <3>7. CASE ReadsFail
      <4> PICK unread \in SUBSET inspection.present :
             inspection' = [inspection EXCEPT !.step = "judge", !.erred = TRUE,
                              !.corrupt = Damaged(inspection.present) \cup unread]
        BY <3>7 DEF ReadsFail
      <4> QED
        BY <2>1, <2>2 DEF InspectionType, InspectionSound, NoFalseAlarm
    <3>8. CASE InspectionFails
      BY <2>1, <2>2, <3>8
      DEF InspectionFails, InspectionType, InspectionSound, NoFalseAlarm
    <3> QED
      BY <1>3, <3>1, <3>2, <3>3, <3>4, <3>5, <3>6, <3>7, <3>8 DEF InspectionStep
  <2> QED
    BY <2>1, <2>2, <2>3, <2>4
<1> QED
  BY <1>1, <1>2, <1>3

\* The inductive invariant holds in every state of the storage.
THEOREM StorageInvariant == Spec => []StorageInv
<1>1. StorageInv /\ [Next]_vars => StorageInv'
  <2> SUFFICES ASSUME StorageInv, [Next]_vars PROVE StorageInv'
    OBVIOUS
  <2>1. CASE \E w \in Workers : SaveStep(w)
    BY <2>1, SaverStepsSound
  <2>2. CASE \E i \in Ids : Attach(i) \/ Review(i)
    BY <2>2, OtherStepsSound
  <2>3. CASE InspectionStep
    BY <2>3, OtherStepsSound
  <2>4. CASE UNCHANGED vars
    BY <2>4 DEF vars, disk, StorageInv, TypeOK, InspectionType, OneWriter,
       InspectionSound, NoFalseAlarm, Stored
  <2> QED
    BY <2>1, <2>2, <2>3, <2>4 DEF Next
<1> QED
  BY <1>1, InitiallySound, PTL DEF Spec

\* TypeOK, OneWriter and NoFalseAlarm hold for any number of savers, objects
\* and faults: exclusive creation of the temporary file gives each object one
\* writer, and an inspection of the storage finds an active object missing or
\* damaged only after an error of its own.
THEOREM OneWriterAlways == Spec => [](TypeOK /\ OneWriter)
BY StorageInvariant, PTL DEF StorageInv

THEOREM AlarmsAreErrors == Spec => []NoFalseAlarm
BY StorageInvariant, PTL DEF StorageInv, InspectionSound

\* A residue stays one, and keeps its object as it is, until it is removed:
\* only the saver that created a temporary file ever moves it into place.
THEOREM ResidueAlwaysBlocks == Spec => ResidueBlocks
<1> DEFINE Blocks(i) ==
      Residue(i) => /\ objects'[i] = objects[i]
                    /\ Residue(i)' \/ temps'[i] = "absent"
<1>1. StorageInv /\ [Next]_vars => [\A i \in Ids : Blocks(i)]_vars
  <2> SUFFICES ASSUME StorageInv, Next, NEW i \in Ids, Residue(i)
               PROVE  /\ objects'[i] = objects[i]
                      /\ Residue(i)' \/ temps'[i] = "absent"
    OBVIOUS
  <2>1. /\ objects \in [Ids -> FileState] /\ temps \in [Ids -> FileState]
        /\ pc \in [Workers -> Locations] /\ id \in [Workers -> Ids]
    BY DEF StorageInv, TypeOK
  <2>2. ASSUME NEW w \in Workers, SaveStep(w)
        PROVE  objects'[i] = objects[i] /\ Residue(i)'
    <3>1. CASE \E k \in Ids : Save(w, k)
      BY <2>1, <3>1 DEF Save, Goto, Residue, Writing, disk
    <3>2. CASE Look(w) \/ Existing(w) \/ Probe(w) \/ ReadBack(w)
      BY <2>1, <3>2
      DEF Look, Existing, Probe, ReadBack, Goto, Residue, Writing, disk
    <3>3. CASE Create(w)
      BY <2>1, <3>3 DEF Create, Goto, Residue, Writing
    <3>4. CASE Fill(w)
      BY <2>1, <3>4 DEF Fill, Goto, Residue, Writing
    <3>5. CASE Replace(w)
      BY <2>1, <3>5 DEF Replace, Goto, Residue, Writing
    <3>6. CASE Fails(w) \/ ReadBackFails(w)
      BY <2>1, <3>6 DEF Fails, ReadBackFails, Goto, Residue, Writing, disk
    <3> QED BY <2>2, <3>1, <3>2, <3>3, <3>4, <3>5, <3>6 DEF SaveStep
  <2>3. ASSUME NEW k \in Ids, Attach(k)
        PROVE  objects'[i] = objects[i] /\ Residue(i)'
    BY <2>3 DEF Attach, Residue
  <2>4. ASSUME NEW k \in Ids, Review(k)
        PROVE  /\ objects'[i] = objects[i]
               /\ Residue(i)' \/ temps'[i] = "absent"
    BY <2>1, <2>4 DEF Review, Residue
  <2>5. CASE InspectionStep
    BY <2>5
    DEF InspectionStep, Inspect, ListTemps, ListObjects, ReadContents, Judge,
        ListingMisses, ReadsFail, InspectionFails, Residue, disk
  <2> QED BY <2>2, <2>3, <2>4, <2>5 DEF Next
<1> QED
  BY <1>1, StorageInvariant, PTL DEF Spec, ResidueBlocks

\* The storage implements the growing set of objects: every step stores one
\* object, answers for one that is stored, or changes neither.
THEOREM StorageImplementsObjects == Spec => ImplementsObjects
<1> USE DEF Objects!objectVars
<1>1. Init => Objects!Init
  BY DEF Init, Objects!Init, Stored
<1>2. StorageInv /\ [Next]_vars => [Objects!Next]_Objects!objectVars
  <2> SUFFICES ASSUME StorageInv, [Next]_vars
               PROVE  [Objects!Next]_Objects!objectVars
    OBVIOUS
  <2>1. CASE \E w \in Workers : Replace(w)
    <3> PICK w \in Workers : Replace(w)
      BY <2>1
    <3>1. objects' = [objects EXCEPT ![id[w]] = "whole"] /\ id[w] \in Ids
      BY DEF Replace, StorageInv, TypeOK, OneWriter
    <3>2. Stored' = Stored \cup {id[w]} /\ UNCHANGED answered
      BY <3>1 DEF Replace, Stored, StorageInv, TypeOK
    <3> QED
      BY <3>1, <3>2 DEF Objects!Next, Objects!Store
  <2>2. CASE \E w \in Workers : Existing(w) \/ ReadBack(w)
    <3> PICK w \in Workers : Existing(w) \/ ReadBack(w)
      BY <2>2
    <3>1. Stored' = Stored /\ id[w] \in Ids
      BY DEF Existing, ReadBack, Stored, StorageInv, TypeOK, disk
    <3>2. answered' = answered \/ (id[w] \in Stored /\ answered' = answered \cup {id[w]})
      BY <3>1 DEF Existing, ReadBack, Answer, Stored
    <3> QED
      BY <3>1, <3>2 DEF Objects!Next, Objects!Answer
  <2>3. CASE ~ \E w \in Workers : Replace(w) \/ Existing(w) \/ ReadBack(w)
    BY <2>3 DEF Next, vars, Stored, SaveStep, InspectionStep, Save, Look, Probe, Create,
       Fill, Fails, ReadBackFails, Attach, Review, Inspect, ListTemps, ListObjects,
       ReadContents, Judge, ListingMisses, ReadsFail, InspectionFails, disk
  <2> QED
    BY <2>1, <2>2, <2>3
<1> QED
  BY <1>1, <1>2, StorageInvariant, PTL DEF Spec, Objects!Spec, ImplementsObjects

=============================================================================
