---------------------------- MODULE MCDeployment ----------------------------
(* A small deployment: two Routes, or one object of another kind.           *)
EXTENDS Deployment

MCObjects == {"a", "b"}
MCKinds == {"route", "oauthclient", "certificate"}
MCNamespace == [o \in Objects |-> <<"ns1">>]
v1 == <<"v1">>

TwoRoutes == [o \in Objects |-> "route"]
OneObject(k) == [o \in Objects |-> IF o = "a" THEN k ELSE "unused"]
MCKindChoices == {TwoRoutes, OneObject("oauthclient"), OneObject("certificate")}
MCConfigurations == {{}, {"route"}, {"certificate"}, {"route", "oauthclient"}}
MCScenarios ==
    { <<TwoRoutes, {"route"}>>, <<TwoRoutes, {}>>,
      <<OneObject("oauthclient"), {"route", "oauthclient"}>>,
      <<OneObject("certificate"), {"certificate"}>>, <<OneObject("certificate"), {"route"}>> }

Rotated == [n \in 1..MaxDeploys |-> IF n = 1 THEN "ca1" ELSE "ca2"]

backend(k, n) == [kind |-> k, name |-> <<n>>]
route(backends, tls, ca) == [backends |-> backends, tls |-> tls, ca |-> ca]
MCContents ==
    [unused      |-> {},
     route       |-> {route({backend("", "web")}, "reencrypt", ""),
                      route({backend("Service", "web")}, "reencrypt", "own")},
     oauthclient |-> {[secret |-> "s1", grantMethod |-> Absent]},
     certificate |-> {[spec |-> "p1", data |-> "d1"], [spec |-> Absent, data |-> "d1"]}]
=============================================================================
