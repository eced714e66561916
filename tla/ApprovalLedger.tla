--------------------------- MODULE ApprovalLedger ---------------------------
(***************************************************************************)
(* What the durable handling of remote approvals promises: an approval is  *)
(* consumed once, for one target, and is released to the work it was given *)
(* for at most once, never before it is consumed.                          *)
(***************************************************************************)
EXTENDS Naturals

CONSTANTS
  Requests, \* identifiers of approval requests
  Targets   \* what is approved: a gate, a commit and its CI run

VARIABLES
  consumed, \* the approvals consumed: [request, target]
  releases  \* how many times each request's approval was released

Approvals == [request : Requests, target : Targets]

Init ==
  /\ consumed = {}
  /\ releases = [r \in Requests |-> 0]

Consume(approval) ==
  /\ \A other \in consumed :
       other.request # approval.request /\ other.target # approval.target
  /\ consumed' = consumed \cup {approval}
  /\ UNCHANGED releases

Release(approval) ==
  /\ approval \in consumed
  /\ releases[approval.request] = 0
  /\ releases' = [releases EXCEPT ![approval.request] = 1]
  /\ UNCHANGED consumed

Next == \E approval \in Approvals : Consume(approval) \/ Release(approval)

Spec == Init /\ [][Next]_<<consumed, releases>>

=============================================================================
