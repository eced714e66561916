-------------------------- MODULE MCCollectorRuns --------------------------
(* CollectorRuns with the collectors and runs of the .cfg: its liveness      *)
(* property rules out symmetry.                                              *)
EXTENDS CollectorRuns
=============================================================================
