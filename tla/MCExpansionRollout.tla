------------------------- MODULE MCExpansionRollout -------------------------
(***************************************************************************)
(* Of three rows the first is there and being rechecked; the second and    *)
(* third are in the candidate, and another may import them first, before   *)
(* or after the export the delta is built from.                            *)
(***************************************************************************)
EXTENDS ExpansionRollout, TLC

CONSTANTS x, y

MCRows == 1 .. 3
MCCandidate == {2, 3}
MCOpenings == {<<"active", "absent", "absent">>}
MCExpected == [remote |-> 1, delta |-> 2, final |-> 3]
MCExecutors == {x, y}
MCSymmetry == Permutations(MCExecutors)

=============================================================================
