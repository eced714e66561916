------------------------- MODULE CheckpointObjects -------------------------
(***************************************************************************)
(* What the checkpoint storage promises: a set of objects that only grows, *)
(* and an answer ("stored") given only for an object that is in it.        *)
(***************************************************************************)
CONSTANT Ids \* names of checkpoint objects: the digests of their content

VARIABLES
  stored,  \* the objects on disk
  answered \* history: objects some caller was told are stored

objectVars == <<stored, answered>>

Init ==
  /\ stored = {}
  /\ answered = {}

Store(i) ==
  /\ stored' = stored \cup {i}
  /\ UNCHANGED answered

Answer(i) ==
  /\ i \in stored
  /\ answered' = answered \cup {i}
  /\ UNCHANGED stored

Next == \E i \in Ids : Store(i) \/ Answer(i)

Spec == Init /\ [][Next]_objectVars
=============================================================================
