----------------------------- MODULE MCJobBoard -----------------------------
(* Three jobs in a chain: "gate" needs an approval, "fetch" depends on it,    *)
(* reads an external source in a time window and may be retried, "merge"      *)
(* depends on "fetch": two turns of the loop, and roots of both classes.      *)
EXTENDS JobBoard, TLC

CONSTANTS gate, fetch, merge

MCJobs == {gate, fetch, merge}

Plain(rank, deps) ==
  [priority |-> 1, rank |-> rank, risk |-> "LOW_RISK_LOCAL", deps |-> deps,
   hasBlockers |-> FALSE, requiresApproval |-> FALSE, retry |-> "NONE",
   maxAttempts |-> 1, checkpointSupported |-> FALSE, windowed |-> FALSE]

MCContract ==
  gate :> [Plain(1, {}) EXCEPT !.risk = "APPROVAL_REQUIRED",
                               !.requiresApproval = TRUE,
                               !.checkpointSupported = TRUE]
  @@ fetch :> [Plain(2, {gate}) EXCEPT !.risk = "EXTERNAL_READ",
                                   !.retry = "TRANSIENT_ONLY",
                                   !.maxAttempts = 2, !.windowed = TRUE]
  @@ merge :> [Plain(3, {fetch}) EXCEPT !.checkpointSupported = TRUE,
                                              !.maxAttempts = 2]

\* The records of a job that is new, in its first attempt, or has used them up.
MCRecords == [state : JobStates, attempts : 0..2, approved : BOOLEAN]

\* Any valid queue.
MCInit ==
  /\ board \in [Jobs -> MCRecords]
  /\ ValidQueue(board)
  /\ applied = NoResult

MCSpec == MCInit /\ [][BoardNext]_boardVars
=============================================================================
