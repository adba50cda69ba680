----------------------------- MODULE MCPublish -----------------------------
(***************************************************************************)
(* Values of Publish's constants for TLC: a site in two zones, one of them *)
(* reachable from two others, or in two with one reachable from none.      *)
(***************************************************************************)
EXTENDS Publish

MCMySite == <<"me">>
MCZone == {<<"Z1">>, <<"Z2">>, <<"Z3">>}
MCFileRank == [h \in Host |-> IF h = "h1" THEN 1 ELSE 2]

Placed(name, reach, host) == [name |-> name, reach |-> reach, host |-> host]

TwoZones ==
    <<Placed(<<"Z1">>, <<<<"Z2">>, <<"Z3">>>>, "h2"),
      Placed(<<"Z2">>, <<<<"Z1">>>>, "any")>>

\* A zone may be reachable from none.
OneReachable ==
    <<Placed(<<"Z3">>, << >>, "any"), Placed(<<"Z1">>, <<<<"Z2">>>>, "any")>>

MCConfigs == {TwoZones, OneReachable}

=============================================================================
