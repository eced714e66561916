----------------------- MODULE MCNotificationRuntime -----------------------
(* Events for NotificationRuntime: a failure and the same incident again at  *)
(* the end of its reminder window, a completion and its repetition, and a    *)
(* critical stop.                                                            *)
EXTENDS NotificationRuntime, TLC

CONSTANTS failure, reminder, done, again, stop, failing, finished, stopping

MCIncident == failure :> failing @@ reminder :> failing @@ done :> finished
              @@ again :> finished @@ stop :> stopping
MCOccurred == failure :> 0 @@ reminder :> 2 @@ done :> 0 @@ again :> 1
              @@ stop :> 0
MCClass == failure :> "IMMEDIATE" @@ reminder :> "IMMEDIATE"
           @@ done :> "NORMAL" @@ again :> "NORMAL" @@ stop :> "CRITICAL"
MCWindow == failing :> 2 @@ finished :> 1 @@ stopping :> 1

Of(f) == [e \in Events |-> f[e]]
EventIncident == Of(MCIncident)
EventOccurred == Of(MCOccurred)
EventClass == Of(MCClass)
EventWindow == [i \in Range(EventIncident) |-> MCWindow[i]]
=============================================================================
