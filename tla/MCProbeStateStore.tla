------------------------- MODULE MCProbeStateStore -------------------------
(* Permutations of workers and contents for ProbeStateStore, and the store    *)
(* where calls for the name follow one another.                               *)
EXTENDS ProbeStateStore, TLC

WorkersAndContents == Permutations(Workers) \cup Permutations(Contents)

SerialSpec == StoreInit /\ [][StoreNext /\ Serial']_storeVars
=============================================================================
