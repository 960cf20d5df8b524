---------------------------- MODULE ConfigUpdater ---------------------------
(***************************************************************************)
(* The polls that bring the configuration to the middleware                *)
(* (StartConfigUpdater in src/pkg/middleware/utils.go and the Fetch*       *)
(* functions of middleware.go), and a request that reads it on the way.    *)
(*                                                                         *)
(* What the server would answer is a history of revisions; a piece of the  *)
(* configuration held by the middleware is the revision it was taken from, *)
(* and revision 0 is the empty configuration, with which the middleware    *)
(* starts and to which a reply without the expected fields takes it back.  *)
(* A poll is a call of SendAsync (module AsyncSend): it brings its own     *)
(* reply or an error, never the reply of another call.                     *)
(*                                                                         *)
(* A step is one critical section of u.mu, or one message.                 *)
(***************************************************************************)
EXTENDS Integers

CONSTANTS
    Method, Url,    \* of the requests
    Star,           \* "*" in a route
    Blank,          \* a field of a route that is not given
    MaxRev,         \* bound: revisions the server publishes
    AppAt,          \* application configuration of each revision
    BlocksAt,       \* blocked endpoints of each revision
    NamesIdentity,  \* whether the policies of a revision say where the identity is
    Own             \* bound: routes the application whitelists itself

Route   == Method \X Url
Pattern == (Method \cup {Star, Blank}) \X (Url \cup {Star, Blank})
Rev     == 0 .. MaxRev

\* The unset pointers of ApplicationConfigResponse are "unset".
AppConfig == [whitelistEndpoints : SUBSET Pattern,
              monitoringPaths    : SUBSET Pattern,
              accountReachLimit  : BOOLEAN,
              discoveryDisabled  : {"unset", "yes", "no"}]
Block     == [route : Route, identity : BOOLEAN]

ASSUME RevAssumption == MaxRev \in Nat
ASSUME HistoryAssumption ==
    /\ AppAt \in [Rev -> AppConfig]
    /\ BlocksAt \in [Rev -> SUBSET Block]
    /\ NamesIdentity \in [Rev -> BOOLEAN]
    /\ Own \subseteq Pattern
ASSUME EmptyAssumption ==
    /\ AppAt[0] = [whitelistEndpoints |-> {}, monitoringPaths |-> {},
                   accountReachLimit |-> FALSE, discoveryDisabled |-> "unset"]
    /\ BlocksAt[0] = {}
    /\ NamesIdentity[0] = FALSE

VARIABLES
    server,         \* the revision the server has now
    settled,        \* publications and faults have come to an end
    at,             \* where the updater goroutine is
    reply,          \* the reply in the channel of the poll under way
    late,           \* the reply to a poll the updater has given up
    apiRev,         \* u.ApiConfig
    fnRev,          \* u.functionPolicies
    blocksRev,      \* u.BlockedEndpoints
    routesRev,      \* u.monitoringPathsMap, u.accountReachLimit
    discRev,        \* the discovery switch of the tracker
    localWhitelist, \* u.localWhitelist
    whitelist,      \* u.whitelistEndpointsMap
    forceAll,       \* u.forceMonitorAll
    pc,             \* where the request is
    route,          \* its method and URL
    carries,        \* the client sent an identity with it
    identified,     \* its ledger id ends with that identity
    exempt          \* its route was whitelisted by the application before it came

serverVars  == <<server, settled>>
updaterVars == <<at, reply, late>>
heldVars    == <<apiRev, fnRev, blocksRev, routesRev, discRev>>
routeVars   == <<localWhitelist, whitelist, forceAll>>
requestVars == <<pc, route, carries, identified, exempt>>
vars == <<serverVars, updaterVars, heldVars, routeVars, requestVars>>

NoReply  == -1      \* the channel is empty
Unusable == -2      \* a payload that is no object, or of the wrong types

Asked == {"policiesAsked", "blocksAsked", "appAsked"}

TypeOK ==
    /\ server \in Rev
    /\ settled \in BOOLEAN
    /\ at \in Asked \cup {"policies", "functionPolicies", "blocks", "app", "discovery", "sleeping"}
    /\ reply \in Rev \cup {NoReply, Unusable}
    /\ late \in Rev \cup {NoReply}
    /\ apiRev \in Rev
    /\ fnRev \in Rev
    /\ blocksRev \in Rev
    /\ routesRev \in Rev
    /\ discRev \in Rev
    /\ localWhitelist \subseteq Pattern
    /\ whitelist \subseteq Pattern
    /\ forceAll \in BOOLEAN
    /\ pc \in {"idle", "arrived", "monitored", "identified",
               "bypassed", "refused", "announced"}
    /\ route \in Route
    /\ carries \in BOOLEAN
    /\ identified \in BOOLEAN
    /\ exempt \in BOOLEAN

-----------------------------------------------------------------------------
(* Route maps *)

\* Routes without a method or a URL are left out.
RoutesToMap(routes) == {p \in routes : p[1] # Blank /\ p[2] # Blank}

\* A route is found under its own names and under the wildcards.
Matches(r, map) ==
    \E m \in {r[1], Star}, u \in {r[2], Star} : <<m, u>> \in map

IsRouteMonitored(r, map) == map = {} \/ Matches(r, map)

\* What FetchApplicationConfig makes of the discovery switch.
Discovery(app) ==
    ~app.accountReachLimit /\ app.discoveryDisabled \in {"unset", "no"}

-----------------------------------------------------------------------------
(* Nothing fetched, nothing whitelisted, no request. *)
Init ==
    /\ server = 0 /\ settled = FALSE
    /\ at = "policies" /\ reply = NoReply /\ late = NoReply
    /\ apiRev = 0 /\ fnRev = 0 /\ blocksRev = 0 /\ routesRev = 0 /\ discRev = 0
    /\ localWhitelist = {} /\ whitelist = {} /\ forceAll = FALSE
    /\ pc = "idle" /\ route \in Route
    /\ carries = FALSE /\ identified = FALSE /\ exempt = FALSE

(* The server's configuration is edited. *)
Publish ==
    /\ ~settled /\ server < MaxRev
    /\ server' = server + 1
    /\ UNCHANGED <<settled, updaterVars, heldVars, routeVars, requestVars>>

(* From some moment on nothing is edited and every poll is answered. *)
Settle ==
    /\ ~settled
    /\ settled' = TRUE
    /\ UNCHANGED <<server, updaterVars, heldVars, routeVars, requestVars>>

-----------------------------------------------------------------------------
(* The updater *)

AskStep   == [policies |-> "policiesAsked", blocks |-> "blocksAsked", app |-> "appAsked"]
AfterPoll == [policiesAsked |-> "blocks", blocksAsked |-> "app", appAsked |-> "sleeping"]

(* A poll is sent; its response channel is its own and goes with it. *)
Ask ==
    /\ at \in DOMAIN AskStep
    /\ at' = AskStep[at]
    /\ UNCHANGED <<serverVars, reply, late, heldVars, routeVars, requestVars>>

(* The server answers with what it has, with an error that carries an      *)
(* object, or with something that is not what was asked for.               *)
Answer ==
    /\ at \in Asked /\ reply = NoReply
    /\ \/ reply' = server
       \/ ~settled /\ reply' \in {0, Unusable}
    /\ UNCHANGED <<serverVars, at, late, heldVars, routeVars, requestVars>>

(* Not connected, not written, or not answered within two seconds: then    *)
(* the server may have answered all the same.                              *)
Unanswered ==
    /\ ~settled /\ at \in Asked
    /\ at' = AfterPoll[at]
    /\ reply' = NoReply
    /\ late' \in {late, server}
    /\ UNCHANGED <<serverVars, heldVars, routeVars, requestVars>>

\* Mutant: replies are matched by their type alone.
LateReplyAccepted ==
    /\ late # NoReply /\ at \in Asked
    /\ reply' = late /\ late' = NoReply
    /\ UNCHANGED <<serverVars, at, heldVars, routeVars, requestVars>>

(* The reader finds no handler for a late reply and drops it. *)
LateReply ==
    /\ late # NoReply
    /\ late' = NoReply
    /\ UNCHANGED <<serverVars, at, reply, heldVars, routeVars, requestVars>>

(* Conversion fails before anything is written. *)
Discard ==
    /\ at \in Asked /\ reply = Unusable
    /\ at' = AfterPoll[at]
    /\ reply' = NoReply
    /\ UNCHANGED <<serverVars, late, heldVars, routeVars, requestVars>>

(* FetchApiConfig writes the policies... *)
ApplyPolicies ==
    /\ at = "policiesAsked" /\ reply \in Rev
    /\ apiRev' = reply
    /\ at' = "functionPolicies"
    /\ UNCHANGED <<serverVars, reply, late, fnRev, blocksRev, routesRev, discRev,
                   routeVars, requestVars>>

\* Mutant: a poll without policies leaves the function policies alone.
SyncUnlessEmpty ==
    /\ at = "functionPolicies"
    /\ fnRev' = IF reply = 0 THEN fnRev ELSE reply
    /\ at' = "blocks"
    /\ reply' = NoReply
    /\ UNCHANGED <<serverVars, late, apiRev, blocksRev, routesRev, discRev,
                   routeVars, requestVars>>

(* ... and in a second critical section those of functions. *)
SyncFunctionPolicies ==
    /\ at = "functionPolicies"
    /\ fnRev' = reply
    /\ at' = "blocks"
    /\ reply' = NoReply
    /\ UNCHANGED <<serverVars, late, apiRev, blocksRev, routesRev, discRev,
                   routeVars, requestVars>>

\* Mutant: an empty list of blocked endpoints is not applied.
ApplyBlocksUnlessEmpty ==
    /\ at = "blocksAsked" /\ reply \in Rev
    /\ blocksRev' = IF BlocksAt[reply] = {} THEN blocksRev ELSE reply
    /\ at' = "app"
    /\ reply' = NoReply
    /\ UNCHANGED <<serverVars, late, apiRev, fnRev, routesRev, discRev,
                   routeVars, requestVars>>

(* FetchBlockedEndpoints replaces the blocked endpoints. *)
ApplyBlocks ==
    /\ at = "blocksAsked" /\ reply \in Rev
    /\ blocksRev' = reply
    /\ at' = "app"
    /\ reply' = NoReply
    /\ UNCHANGED <<serverVars, late, apiRev, fnRev, routesRev, discRev,
                   routeVars, requestVars>>

\* Mutant: the server's whitelist replaces the application's.
ApplyRemoteRoutesOnly ==
    /\ at = "appAsked" /\ reply \in Rev
    /\ whitelist' = RoutesToMap(AppAt[reply].whitelistEndpoints)
    /\ routesRev' = reply
    /\ at' = "discovery"
    /\ UNCHANGED <<serverVars, reply, late, apiRev, fnRev, blocksRev, discRev,
                   localWhitelist, forceAll, requestVars>>

(* applyRouteConfig: the route maps and the cap, in one critical section... *)
ApplyRouteConfig ==
    /\ at = "appAsked" /\ reply \in Rev
    /\ whitelist' = RoutesToMap(AppAt[reply].whitelistEndpoints \cup localWhitelist)
    /\ routesRev' = reply
    /\ at' = "discovery"
    /\ UNCHANGED <<serverVars, reply, late, apiRev, fnRev, blocksRev, discRev,
                   localWhitelist, forceAll, requestVars>>

(* ... and after it the discovery switch. *)
SetDiscovery ==
    /\ at = "discovery"
    /\ discRev' = reply
    /\ at' = "sleeping"
    /\ reply' = NoReply
    /\ UNCHANGED <<serverVars, late, apiRev, fnRev, blocksRev, routesRev,
                   routeVars, requestVars>>

(* The ticker starts the next round. *)
Tick ==
    /\ at = "sleeping"
    /\ at' = "policies"
    /\ UNCHANGED <<serverVars, reply, late, heldVars, routeVars, requestVars>>

Updater ==
    \/ Ask \/ Unanswered \/ Discard
    \/ ApplyPolicies \/ SyncFunctionPolicies \/ ApplyBlocks
    \/ ApplyRouteConfig \/ SetDiscovery \/ Tick

-----------------------------------------------------------------------------
(* The application *)

(* Whitelist keeps the route for the next polls and enters it at once; to  *)
(* whitelist a route again changes nothing.                                *)
Whitelist(p) ==
    /\ p \notin localWhitelist
    /\ localWhitelist' = localWhitelist \cup {p}
    /\ whitelist' = whitelist \cup RoutesToMap({p})
    /\ UNCHANGED <<serverVars, updaterVars, heldVars, forceAll, requestVars>>

ForceMonitorAll ==
    /\ ~forceAll
    /\ forceAll' = TRUE
    /\ UNCHANGED <<serverVars, updaterVars, heldVars, localWhitelist, whitelist,
                   requestVars>>

-----------------------------------------------------------------------------
(* A request *)

UnchangedButRequest == UNCHANGED <<serverVars, updaterVars, heldVars, routeVars>>

Arrive(r, id) ==
    /\ pc = "idle"
    /\ pc' = "arrived"
    /\ route' = r /\ carries' = id
    /\ identified' = FALSE
    /\ exempt' = Matches(r, RoutesToMap(localWhitelist))
    /\ UnchangedButRequest

\* The decision RequestInterceptor takes under one read lock.
Metered(r) ==
    /\ ~Matches(r, whitelist)
    /\ ~AppAt[routesRev].accountReachLimit
    /\ forceAll \/ IsRouteMonitored(r, RoutesToMap(AppAt[routesRev].monitoringPaths))

Decide ==
    /\ pc = "arrived"
    /\ pc' = IF Metered(route) THEN "monitored" ELSE "bypassed"
    /\ UNCHANGED <<route, carries, identified, exempt>>
    /\ UnchangedButRequest

(* GetUserPrefix finds the identity where the policies say it is. *)
Identify ==
    /\ pc = "monitored"
    /\ identified' = (carries /\ NamesIdentity[apiRev])
    /\ pc' = "identified"
    /\ UNCHANGED <<route, carries, exempt>>
    /\ UnchangedButRequest

(* allocateRequest without a connection: served, unmetered and unchecked. *)
AllocateOffline ==
    /\ pc = "identified"
    /\ pc' = "bypassed"
    /\ UNCHANGED <<route, carries, identified, exempt>>
    /\ UnchangedButRequest

\* The key of a blocked endpoint is a ledger id: it has to be equal.
LedgerBlocked == [route |-> route, identity |-> identified] \in BlocksAt[blocksRev]

Allocate ==
    /\ pc = "identified"
    /\ pc' = IF LedgerBlocked THEN "refused" ELSE "announced"
    /\ UNCHANGED <<route, carries, identified, exempt>>
    /\ UnchangedButRequest

Leave ==
    /\ pc \in {"bypassed", "refused", "announced"}
    /\ pc' = "idle"
    /\ carries' = FALSE /\ identified' = FALSE /\ exempt' = FALSE
    /\ UNCHANGED route
    /\ UnchangedButRequest

Request ==
    \/ \E r \in Route, id \in BOOLEAN : Arrive(r, id)
    \/ Decide \/ Identify \/ AllocateOffline \/ Allocate \/ Leave

Next ==
    \/ Publish \/ Settle \/ Answer \/ LateReply
    \/ Updater
    \/ \E p \in Own : Whitelist(p)
    \/ ForceMonitorAll
    \/ Request

Spec == Init /\ [][Next]_vars

(* The updater's goroutine and its ticker run on, and the server answers   *)
(* the polls that reach it.                                                *)
FairSpec == Spec /\ WF_vars(Updater) /\ WF_vars(Answer)

-----------------------------------------------------------------------------
(* Properties *)

(* The policies of requests and those of functions are written under two   *)
(* locks (middleware.go:310 and functions.go:273); except between the two  *)
(* they come from the same poll.                                           *)
PoliciesTogether == at # "functionPolicies" => apiRev = fnRev

(* The plan cap that stops metering and the switch that stops discovery    *)
(* are set in two steps (middleware.go:342 and 347); except between them   *)
(* they come from the same poll, so the cap never stops only one of both.  *)
CapStopsDiscovery == at # "discovery" => routesRev = discRev

(* What is held of one reply is never half of one poll and half of         *)
(* another, although no lock spans the two steps that write it.            *)
NoReplySplit == PoliciesTogether /\ CapStopsDiscovery

(* A piece of the configuration never goes back to an older one: polls are *)
(* sequential and a reply reaches its own poll only (release note of       *)
(* v2.5.1).  The one exception is a reply without the expected fields,     *)
(* such as an error with an object as payload, which empties the piece     *)
(* (middleware.go:330, 410).                                               *)
NeverGoesBack ==
    [][ /\ apiRev' >= apiRev \/ apiRev' = 0
        /\ fnRev' >= fnRev \/ fnRev' = 0
        /\ blocksRev' >= blocksRev \/ blocksRev' = 0
        /\ routesRev' >= routesRev \/ routesRev' = 0
        /\ discRev' >= discRev \/ discRev' = 0 ]_vars

(* A request whose route the application had whitelisted before it came is *)
(* not metered, whatever polls were applied since (middleware.go:71).      *)
WhitelistedBypasses ==
    exempt => pc \notin {"monitored", "identified", "refused", "announced"}

(* Once polls are answered again, everything held is what the server has,  *)
(* and stays so: errors that emptied a piece and polls that were lost are  *)
(* made up for by the next round (utils.go:16-32).                         *)
Converges ==
    settled ~> [](/\ apiRev = server /\ fnRev = server /\ blocksRev = server
                  /\ routesRev = server /\ discRev = server)

-----------------------------------------------------------------------------
(* What the documentation says of blocked endpoints and the code does not  *)
(* do.                                                                     *)

(* "A configured blocked-endpoint policy returns HTTP 403" (README.md:108):*)
(* no request on a blocked endpoint is announced to the server and goes on *)
(* to its handler.  The whole ledger id is compared (middleware.go:469),   *)
(* so a request whose identity was appended to it passes the block.        *)
BlocksHonoured ==
    [][ pc = "identified" /\ pc' = "announced"
        => [route |-> route, identity |-> FALSE] \notin BlocksAt[blocksRev] ]_vars

=============================================================================
