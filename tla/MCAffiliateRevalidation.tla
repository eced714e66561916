---------------------- MODULE MCAffiliateRevalidation ----------------------
(* Two installations for AffiliateRevalidation: the daily task alone, which  *)
(* can recheck two of three rows, and the worker's trigger beside a cycle    *)
(* started by hand, which both recheck one of two rows at a time.            *)
EXTENDS AffiliateRevalidation

DailyAlone ==
  [rows |-> {1, 2, 3}, daily |-> {"first"}, manual |-> {}, cron |-> {},
   batchSize |-> 2, opening |-> {"listed", "missing"}]

Overlapping ==
  [rows |-> {1, 2}, daily |-> {}, manual |-> {"first"}, cron |-> {"second"},
   batchSize |-> 1, opening |-> {"relisted", "missing"}]

BothInstallations == {DailyAlone, Overlapping}
=============================================================================
