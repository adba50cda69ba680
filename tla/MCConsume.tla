----------------------------- MODULE MCConsume -----------------------------
(***************************************************************************)
(* Values of Consume's constants for TLC.  One other site, p, publishes    *)
(* from zone PZ to the zones Z1 and Z2; it has two endpoint groups and so  *)
(* two Links with one Secret.  This site publishes to Z1 itself.           *)
(***************************************************************************)
EXTENDS Consume

MCSite == {<<"p">>, <<"me">>}
MCMySite == <<"me">>
MCZone == {<<"PZ">>, <<"Z1">>, <<"Z2">>}
MCEnds == {"g1", "g2"}
MCData == {1, 2}

Offered(target, group, d) ==
    KubeToken(<<"p">>, <<"PZ">>, target, <<group>>, group, d)

OwnToken == KubeToken(<<"me">>, <<"Z2">>, <<"Z1">>, <<"g1">>, "g1", 1)

\* Both groups are seen in both zones, and p renews its certificate.
SharedTokens ==
    {Offered(<<"Z1">>, "g1", 1), Offered(<<"Z1">>, "g1", 2),
     Offered(<<"Z2">>, "g2", 1), Offered(<<"Z2">>, "g2", 2),
     Offered(<<"Z2">>, "g1", 1), OwnToken}

MCName ==
    {t.link : t \in SharedTokens} \cup {t.secret : t \in SharedTokens}

ZoneOf(name) == [name |-> name, reach |-> << >>]

BothZones == <<ZoneOf(<<"Z1">>), ZoneOf(<<"Z2">>)>>
OneZone == <<ZoneOf(<<"Z1">>)>>
MCConfigs == {BothZones, OneZone}

\* Vault lists keys in alphabetical order: those of PZ before those of Z2.
MCKeyRank == [p \in {PathOf(t) : t \in SharedTokens} |->
                  IF p[2] = LinkKey(<<"p">>, <<"PZ">>) THEN 1 ELSE 2]

=============================================================================
