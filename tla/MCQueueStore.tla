---------------------------- MODULE MCQueueStore ----------------------------
(* A small queue for QueueStore: one job that needs an approval, may be       *)
(* attempted twice and carries checkpoints, so that every order of attempts,  *)
(* approvals, endings and attachments happens.                                *)
EXTENDS QueueStore, TLC

CONSTANTS approved, object

ApprovedContract ==
  [priority |-> 1, rank |-> 1, risk |-> "APPROVAL_REQUIRED", deps |-> {},
   hasBlockers |-> FALSE, requiresApproval |-> TRUE, retry |-> "NONE",
   maxAttempts |-> 2, checkpointSupported |-> TRUE, windowed |-> FALSE]

MCObjects == {object}
MCObjectJob == object :> approved

OneJob == {approved}
OneContract == approved :> ApprovedContract
OneBootstrap ==
  {[revision |-> 0,
    jobs |-> approved :> [state |-> "READY", attempts |-> 0, approved |-> TRUE],
    refs |-> approved :> NoObject]}
=============================================================================
