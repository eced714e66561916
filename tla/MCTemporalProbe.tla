--------------------------- MODULE MCTemporalProbe ---------------------------
(***************************************************************************)
(* Two populations and two identifiers, of which the catalogue answers with *)
(* one, with both or with none.                                            *)
(***************************************************************************)
EXTENDS TemporalProbe

CONSTANTS i1, i2

MCPlan == <<"rank", "review">>
MCItems == {i1, i2}
MCResponses == {{}, {i1}, {i1, i2}}
MCAnchorAges == {2}

=============================================================================
