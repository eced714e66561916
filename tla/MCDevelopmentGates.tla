------------------------ MODULE MCDevelopmentGates ------------------------
(* One gate that asks for an approval and one that does not, over two      *)
(* checkpoints: c1 was tested, committed as m1 and run twice with success, *)
(* c2 was tested less, committed as m2, and its run is red.                *)
EXTENDS DevelopmentGates, TLC

CONSTANTS g1, g2, c1, c2, m1, m2, r1, r2, r3

ApprovingGates == {g1}
MadeFromWorld == m1 :> <<c1, "FULL">> @@ m2 :> <<c2, "FULL">>
HeadOfWorld == r1 :> m1 @@ r2 :> m1 @@ r3 :> m2
PassesWorld == {<<c1, "FULL">>, <<c2, "FAST">>, <<c2, "FULL">>}
GreenWorld == {r1, r2}

\* Both sides of each limit.
SnapshotsWorld ==
  [age : {-1, 0, 300, 301}, reserveProtected : BOOLEAN, size : {"SMALL", "LARGE"},
   fiveHour : {10, 11, 16}, weekly : {15, 16, 21}]
=============================================================================
