-------------------------- MODULE MCConfigUpdater ---------------------------
(* A history of two revisions for ConfigUpdater: routes by name and by   *)
(* wildcard, an incomplete route, a plan cap that comes and goes, blocks   *)
(* of an endpoint and of an identity.                                      *)
EXTENDS ConfigUpdater, TLC

CONSTANTS get, api, health

MCMethod == {get}
MCUrl    == {api, health}

App(white, monitored, cap, disabled) ==
    [whitelistEndpoints |-> white, monitoringPaths |-> monitored,
     accountReachLimit |-> cap, discoveryDisabled |-> disabled]

MCAppAt ==
    0 :> App({}, {}, FALSE, "unset") @@
    1 :> App({<<Star, health>>}, {<<get, Star>>}, TRUE, "no") @@
    2 :> App({<<Blank, api>>}, {<<get, api>>, <<Blank, health>>}, FALSE, "yes")

MCBlocksAt ==
    0 :> {} @@
    1 :> {[route |-> <<get, api>>, identity |-> TRUE],
          [route |-> <<get, health>>, identity |-> FALSE]} @@
    2 :> {}

MCNamesIdentity == 0 :> FALSE @@ 1 :> TRUE @@ 2 :> TRUE

MCOwn == {<<get, health>>}
=============================================================================
