------------------------ MODULE ConfigUpdaterProofs -------------------------
(***************************************************************************)
(* What module ConfigUpdater claims, proved for every history of           *)
(* revisions.  A reply is never older than the piece it will replace,      *)
(* because the server's revision only grows and the updater waits for one  *)
(* reply before it asks for the next.                                      *)
(***************************************************************************)
EXTENDS ConfigUpdater, TLAPS

\* Revisions held are the server's, or older.
Held ==
    /\ apiRev <= server
    /\ fnRev <= server
    /\ blocksRev <= server
    /\ routesRev <= server
    /\ discRev <= server

\* The reply in hand is empty, or no older than what it is about to replace.
ReplyFresh ==
    reply \in Rev /\ reply # 0 =>
        /\ reply <= server
        /\ at = "policiesAsked" => apiRev <= reply /\ fnRev <= reply
        /\ at = "functionPolicies" => fnRev <= reply
        /\ at = "blocksAsked" => blocksRev <= reply
        /\ at = "appAsked" => routesRev <= reply /\ discRev <= reply
        /\ at = "discovery" => discRev <= reply

\* Between the two writes of a poll the first piece is the reply's, and
\* between two polls there is no reply.
HalfApplied ==
    /\ at \in {"policies", "blocks", "app", "sleeping"} => reply = NoReply
    /\ at = "functionPolicies" => reply \in Rev /\ apiRev = reply
    /\ at = "discovery" => reply \in Rev /\ routesRev = reply

\* The application's routes are in the map the requests look at.
OwnRoutesKept == RoutesToMap(localWhitelist) \subseteq whitelist

Exempted ==
    exempt => /\ Matches(route, RoutesToMap(localWhitelist))
              /\ pc \in {"arrived", "bypassed"}

IInv ==
    /\ TypeOK
    /\ Held
    /\ ReplyFresh
    /\ HalfApplied
    /\ PoliciesTogether
    /\ CapStopsDiscovery
    /\ OwnRoutesKept
    /\ Exempted

-----------------------------------------------------------------------------
(* A map with more routes matches more requests. *)
LEMMA MatchesMonotone ==
    ASSUME NEW r, NEW small, NEW big, small \subseteq big, Matches(r, small)
    PROVE  Matches(r, big)
BY DEF Matches

LEMMA RoutesMonotone ==
    ASSUME NEW small, NEW big, small \subseteq big
    PROVE  RoutesToMap(small) \subseteq RoutesToMap(big)
BY DEF RoutesToMap

LEMMA RoutesArePatterns ==
    ASSUME NEW routes, routes \subseteq Pattern
    PROVE  RoutesToMap(routes) \subseteq Pattern
BY DEF RoutesToMap

-----------------------------------------------------------------------------
LEMMA InitInv == Init => IInv
<1> SUFFICES ASSUME Init PROVE IInv
  OBVIOUS
<1>1. 0 \in Rev
  BY RevAssumption DEF Rev
<1>2. TypeOK
  BY <1>1 DEF Init, TypeOK, NoReply
<1>3. Held /\ ReplyFresh /\ HalfApplied
  BY DEF Init, Held, ReplyFresh, HalfApplied, NoReply, Rev
<1>4. PoliciesTogether /\ CapStopsDiscovery
  BY DEF Init, PoliciesTogether, CapStopsDiscovery
<1>5. OwnRoutesKept /\ Exempted
  BY DEF Init, OwnRoutesKept, Exempted, RoutesToMap
<1> QED
  BY <1>2, <1>3, <1>4, <1>5 DEF IInv

(* The server and the transport leave everything held alone. *)
LEMMA ServerStep ==
    ASSUME IInv, Publish \/ Settle \/ Answer \/ LateReply
    PROVE  IInv'
<1> USE DEF IInv
<1>1. CASE Publish
  <2>1. server + 1 \in Rev /\ server \in Int
    BY <1>1, RevAssumption DEF Publish, TypeOK, Rev
  <2>2. TypeOK'
    BY <1>1, <2>1 DEF Publish, TypeOK, updaterVars, heldVars, routeVars, requestVars
  <2>3. Held' /\ ReplyFresh' /\ HalfApplied'
    BY <1>1, <2>1 DEF Publish, TypeOK, Held, ReplyFresh, HalfApplied, Rev,
                      updaterVars, heldVars
  <2> QED
    BY <1>1, <2>2, <2>3 DEF Publish, PoliciesTogether, CapStopsDiscovery,
       OwnRoutesKept, Exempted, updaterVars, heldVars, routeVars, requestVars
<1>2. CASE Settle
  BY <1>2 DEF Settle, TypeOK, Held, ReplyFresh, HalfApplied, PoliciesTogether,
     CapStopsDiscovery, OwnRoutesKept, Exempted,
     updaterVars, heldVars, routeVars, requestVars
<1>3. CASE Answer
  <2>1. reply' \in Rev \cup {Unusable} /\ (reply' # 0 => reply' = server \/ reply' = Unusable)
    BY <1>3, RevAssumption DEF Answer, TypeOK, Rev
  <2>2. TypeOK'
    BY <1>3, <2>1 DEF Answer, TypeOK, serverVars, heldVars, routeVars, requestVars
  <2>3. Held' /\ ReplyFresh' /\ HalfApplied'
    BY <1>3, <2>1 DEF Answer, TypeOK, Held, ReplyFresh, HalfApplied, Asked, Rev,
                      Unusable, serverVars, heldVars
  <2> QED
    BY <1>3, <2>2, <2>3 DEF Answer, PoliciesTogether, CapStopsDiscovery,
       OwnRoutesKept, Exempted, serverVars, heldVars, routeVars, requestVars
<1>4. CASE LateReply
  BY <1>4 DEF LateReply, TypeOK, Held, ReplyFresh, HalfApplied, PoliciesTogether,
     CapStopsDiscovery, OwnRoutesKept, Exempted,
     serverVars, heldVars, routeVars, requestVars
<1> QED
  BY <1>1, <1>2, <1>3, <1>4

(* What a step of the updater has to keep once the request and, but for    *)
(* one step, the route maps are left alone.                                *)
LEMMA RequestAlone ==
    ASSUME IInv, UNCHANGED <<routeVars, requestVars>>
    PROVE  OwnRoutesKept' /\ Exempted'
BY DEF IInv, OwnRoutesKept, Exempted, routeVars, requestVars

LEMMA UpdaterStep ==
    ASSUME IInv, Updater
    PROVE  IInv'
<1> USE DEF IInv
<1>1. CASE Ask
  <2>1. /\ at \in {"policies", "blocks", "app"}
        /\ at' \in Asked
        /\ UNCHANGED <<serverVars, reply, late, heldVars, routeVars, requestVars>>
    BY <1>1 DEF Ask, AskStep, Asked
  <2>2. reply = NoReply
    BY <2>1 DEF HalfApplied
  <2>3. TypeOK'
    BY <2>1 DEF TypeOK, serverVars, heldVars, routeVars, requestVars
  <2>4. Held' /\ HalfApplied' /\ ReplyFresh'
    BY <2>1, <2>2 DEF TypeOK, Held, HalfApplied, ReplyFresh, Asked, NoReply, Rev,
                      serverVars, heldVars
  <2>5. PoliciesTogether' /\ CapStopsDiscovery'
    BY <2>1 DEF PoliciesTogether, CapStopsDiscovery, Asked, heldVars
  <2> QED
    BY <2>1, <2>3, <2>4, <2>5, RequestAlone
<1>2. CASE Unanswered \/ Discard
  <2>1. /\ at \in Asked
        /\ at' \in {"blocks", "app", "sleeping"}
        /\ reply' = NoReply
        /\ late' \in Rev \cup {NoReply}
        /\ UNCHANGED <<serverVars, heldVars, routeVars, requestVars>>
    BY <1>2 DEF Unanswered, Discard, AfterPoll, Asked, TypeOK
  <2>2. TypeOK'
    BY <2>1 DEF TypeOK, serverVars, heldVars, routeVars, requestVars
  <2>3. Held' /\ HalfApplied' /\ ReplyFresh'
    BY <2>1 DEF TypeOK, Held, HalfApplied, ReplyFresh, NoReply, Rev,
                serverVars, heldVars
  <2>4. PoliciesTogether' /\ CapStopsDiscovery'
    BY <2>1 DEF PoliciesTogether, CapStopsDiscovery, Asked, heldVars
  <2> QED
    BY <2>1, <2>2, <2>3, <2>4, RequestAlone
<1>3. CASE ApplyPolicies
  <2>1. TypeOK'
    BY <1>3 DEF ApplyPolicies, TypeOK, serverVars, routeVars, requestVars
  <2>2. Held' /\ HalfApplied' /\ ReplyFresh'
    BY <1>3, RevAssumption DEF ApplyPolicies, TypeOK, Held, HalfApplied, ReplyFresh,
       Rev, serverVars
  <2>3. PoliciesTogether' /\ CapStopsDiscovery'
    BY <1>3 DEF ApplyPolicies, PoliciesTogether, CapStopsDiscovery
  <2> QED
    BY <1>3, <2>1, <2>2, <2>3, RequestAlone DEF ApplyPolicies
<1>4. CASE SyncFunctionPolicies
  <2>1. reply \in Rev /\ apiRev = reply
    BY <1>4 DEF SyncFunctionPolicies, HalfApplied
  <2>2. TypeOK'
    BY <1>4, <2>1 DEF SyncFunctionPolicies, TypeOK, serverVars, routeVars, requestVars
  <2>3. Held' /\ HalfApplied' /\ ReplyFresh'
    BY <1>4, <2>1 DEF SyncFunctionPolicies, TypeOK, Held, HalfApplied, ReplyFresh,
       NoReply, Rev, serverVars
  <2>4. PoliciesTogether' /\ CapStopsDiscovery'
    BY <1>4, <2>1 DEF SyncFunctionPolicies, PoliciesTogether, CapStopsDiscovery
  <2> QED
    BY <1>4, <2>2, <2>3, <2>4, RequestAlone DEF SyncFunctionPolicies
<1>5. CASE ApplyBlocks
  <2>1. TypeOK'
    BY <1>5 DEF ApplyBlocks, TypeOK, serverVars, routeVars, requestVars
  <2>2. Held' /\ HalfApplied' /\ ReplyFresh'
    BY <1>5, RevAssumption DEF ApplyBlocks, TypeOK, Held, HalfApplied, ReplyFresh,
       NoReply, Rev, serverVars
  <2>3. PoliciesTogether' /\ CapStopsDiscovery'
    BY <1>5 DEF ApplyBlocks, PoliciesTogether, CapStopsDiscovery
  <2> QED
    BY <1>5, <2>1, <2>2, <2>3, RequestAlone DEF ApplyBlocks
<1>6. CASE ApplyRouteConfig
  <2> DEFINE all == AppAt[reply].whitelistEndpoints \cup localWhitelist
  <2>1. AppAt[reply] \in AppConfig
    BY <1>6, HistoryAssumption DEF ApplyRouteConfig
  <2>2. all \subseteq Pattern /\ localWhitelist \subseteq all
    BY <2>1 DEF AppConfig, TypeOK
  <2>3. RoutesToMap(all) \subseteq Pattern
    BY <2>2, RoutesArePatterns
  <2>4. RoutesToMap(localWhitelist) \subseteq RoutesToMap(all)
    BY <2>2, RoutesMonotone
  <2>5. whitelist' = RoutesToMap(all) /\ localWhitelist' = localWhitelist
    BY <1>6 DEF ApplyRouteConfig
  <2>6. TypeOK'
    BY <1>6, <2>3, <2>5 DEF ApplyRouteConfig, TypeOK, serverVars, requestVars
  <2>7. Held' /\ HalfApplied' /\ ReplyFresh'
    BY <1>6, RevAssumption DEF ApplyRouteConfig, TypeOK, Held, HalfApplied, ReplyFresh,
       Rev, serverVars
  <2>8. PoliciesTogether' /\ CapStopsDiscovery'
    BY <1>6 DEF ApplyRouteConfig, PoliciesTogether, CapStopsDiscovery
  <2>9. OwnRoutesKept'
    BY <2>4, <2>5 DEF OwnRoutesKept
  <2>10. Exempted'
    BY <1>6 DEF ApplyRouteConfig, Exempted, requestVars
  <2> QED
    BY <2>6, <2>7, <2>8, <2>9, <2>10
<1>7. CASE SetDiscovery
  <2>1. reply \in Rev /\ routesRev = reply
    BY <1>7 DEF SetDiscovery, HalfApplied
  <2>2. TypeOK'
    BY <1>7, <2>1 DEF SetDiscovery, TypeOK, serverVars, routeVars, requestVars
  <2>3. Held' /\ HalfApplied' /\ ReplyFresh'
    BY <1>7, <2>1 DEF SetDiscovery, TypeOK, Held, HalfApplied, ReplyFresh,
       NoReply, Rev, serverVars
  <2>4. PoliciesTogether' /\ CapStopsDiscovery'
    BY <1>7, <2>1 DEF SetDiscovery, PoliciesTogether, CapStopsDiscovery
  <2> QED
    BY <1>7, <2>2, <2>3, <2>4, RequestAlone DEF SetDiscovery
<1>8. CASE Tick
  <2>1. TypeOK'
    BY <1>8 DEF Tick, TypeOK, serverVars, heldVars, routeVars, requestVars
  <2>2. Held' /\ HalfApplied' /\ ReplyFresh'
    BY <1>8 DEF Tick, TypeOK, Held, HalfApplied, ReplyFresh, NoReply, Rev,
                serverVars, heldVars
  <2>3. PoliciesTogether' /\ CapStopsDiscovery'
    BY <1>8 DEF Tick, PoliciesTogether, CapStopsDiscovery, heldVars
  <2> QED
    BY <1>8, <2>1, <2>2, <2>3, RequestAlone DEF Tick
<1> QED
  BY <1>1, <1>2, <1>3, <1>4, <1>5, <1>6, <1>7, <1>8 DEF Updater

(* The application only adds routes. *)
LEMMA ApplicationStep ==
    ASSUME IInv, (\E p \in Own : Whitelist(p)) \/ ForceMonitorAll
    PROVE  IInv'
<1> USE DEF IInv
<1>1. CASE \E p \in Own : Whitelist(p)
  <2>1. PICK p \in Own : Whitelist(p)
    BY <1>1
  <2>2. p \in Pattern
    BY HistoryAssumption
  <2>3. RoutesToMap({p}) \subseteq Pattern
    BY <2>2, RoutesArePatterns
  <2>4. RoutesToMap(localWhitelist') = RoutesToMap(localWhitelist) \cup RoutesToMap({p})
    BY <2>1 DEF Whitelist, RoutesToMap
  <2>5. TypeOK'
    BY <2>1, <2>2, <2>3 DEF Whitelist, TypeOK, serverVars, updaterVars, heldVars, requestVars
  <2>6. /\ Held' /\ HalfApplied' /\ ReplyFresh'
        /\ PoliciesTogether' /\ CapStopsDiscovery'
    BY <2>1 DEF Whitelist, Held, HalfApplied, ReplyFresh, PoliciesTogether,
       CapStopsDiscovery, serverVars, updaterVars, heldVars
  <2>7. OwnRoutesKept'
    BY <2>1, <2>4 DEF Whitelist, OwnRoutesKept
  <2>8. Exempted'
    <3>1. exempt => Matches(route, RoutesToMap(localWhitelist'))
      BY <2>4, MatchesMonotone DEF Exempted
    <3> QED
      BY <2>1, <3>1 DEF Whitelist, Exempted, RoutesToMap, Matches, requestVars
  <2> QED
    BY <2>5, <2>6, <2>7, <2>8
<1>2. CASE ForceMonitorAll
  BY <1>2 DEF ForceMonitorAll, TypeOK, Held, ReplyFresh, HalfApplied, PoliciesTogether,
     CapStopsDiscovery, OwnRoutesKept, Exempted,
     serverVars, updaterVars, heldVars, requestVars
<1> QED
  BY <1>1, <1>2

(* A request changes nothing that is held. *)
LEMMA RequestStep ==
    ASSUME IInv, Request
    PROVE  IInv'
<1> USE DEF IInv
<1>1. UNCHANGED <<serverVars, updaterVars, heldVars, routeVars>>
  BY DEF Request, Arrive, Decide, Identify, AllocateOffline, Allocate, Leave,
         UnchangedButRequest
<1>2. /\ Held' /\ HalfApplied' /\ ReplyFresh'
      /\ PoliciesTogether' /\ CapStopsDiscovery' /\ OwnRoutesKept'
  BY <1>1 DEF Held, HalfApplied, ReplyFresh, PoliciesTogether, CapStopsDiscovery,
     OwnRoutesKept, serverVars, updaterVars, heldVars, routeVars
<1>3. localWhitelist' = localWhitelist /\ whitelist' = whitelist
  BY <1>1 DEF routeVars
<1>4. CASE \E r \in Route, id \in BOOLEAN : Arrive(r, id)
  <2>1. TypeOK'
    <3>1. \A r : Matches(r, RoutesToMap(localWhitelist)) \in BOOLEAN
      BY DEF Matches
    <3>2. exempt' \in BOOLEAN
      BY <1>4, <3>1 DEF Arrive
    <3> QED
      BY <1>1, <1>4, <3>2 DEF Arrive, TypeOK, serverVars, updaterVars, heldVars, routeVars
  <2>2. Exempted'
    <3>1. PICK r \in Route, id \in BOOLEAN : Arrive(r, id)
      BY <1>4
    <3>2. exempt' = Matches(route', RoutesToMap(localWhitelist)) /\ pc' = "arrived"
      BY <3>1 DEF Arrive
    <3> QED
      BY <1>3, <3>2 DEF Exempted, Matches, RoutesToMap
  <2> QED
    BY <1>2, <2>1, <2>2
<1>5. CASE Decide
  <2>1. TypeOK'
    BY <1>1, <1>5 DEF Decide, TypeOK, serverVars, updaterVars, heldVars, routeVars
  <2>2. exempt => ~Metered(route)
    BY MatchesMonotone DEF Exempted, OwnRoutesKept, Metered
  <2>3. Exempted'
    BY <1>3, <1>5, <2>2 DEF Decide, Exempted
  <2> QED
    BY <1>2, <2>1, <2>3
<1>6. CASE Identify
  <2>1. TypeOK'
    BY <1>1, <1>6, HistoryAssumption
       DEF Identify, TypeOK, serverVars, updaterVars, heldVars, routeVars
  <2>2. Exempted'
    BY <1>3, <1>6 DEF Identify, Exempted
  <2> QED
    BY <1>2, <2>1, <2>2
<1>7. CASE AllocateOffline \/ Allocate
  <2>1. TypeOK'
    BY <1>1, <1>7 DEF AllocateOffline, Allocate, TypeOK, serverVars, updaterVars,
       heldVars, routeVars
  <2>2. Exempted'
    BY <1>3, <1>7 DEF AllocateOffline, Allocate, Exempted
  <2> QED
    BY <1>2, <2>1, <2>2
<1>8. CASE Leave
  <2>1. TypeOK'
    BY <1>1, <1>8 DEF Leave, TypeOK, serverVars, updaterVars, heldVars, routeVars
  <2>2. Exempted'
    BY <1>8 DEF Leave, Exempted
  <2> QED
    BY <1>2, <2>1, <2>2
<1> QED
  BY <1>4, <1>5, <1>6, <1>7, <1>8 DEF Request

LEMMA StepInv == IInv /\ [Next]_vars => IInv'
<1> SUFFICES ASSUME IInv, [Next]_vars PROVE IInv'
  OBVIOUS
<1>1. CASE UNCHANGED vars
  BY <1>1 DEF IInv, TypeOK, Held, ReplyFresh, HalfApplied, PoliciesTogether,
     CapStopsDiscovery, OwnRoutesKept, Exempted, vars,
     serverVars, updaterVars, heldVars, routeVars, requestVars
<1> QED
  BY <1>1, ServerStep, UpdaterStep, ApplicationStep, RequestStep DEF Next

THEOREM Invariance == Spec => []IInv
BY InitInv, StepInv, PTL DEF Spec

-----------------------------------------------------------------------------
(* Every variable keeps its type. *)
THEOREM TypeCorrect == Spec => []TypeOK
BY Invariance, PTL DEF IInv

(* Policies of requests and of functions come from the same poll. *)
THEOREM PoliciesAgree == Spec => []PoliciesTogether
BY Invariance, PTL DEF IInv

(* The plan cap and the discovery switch come from the same poll. *)
THEOREM CapAgrees == Spec => []CapStopsDiscovery
BY Invariance, PTL DEF IInv

(* Nothing held of a reply is half of one poll and half of another. *)
THEOREM RepliesWhole == Spec => []NoReplySplit
BY PoliciesAgree, CapAgrees, PTL DEF NoReplySplit

(* No poll ends the exemption of a route the application whitelisted. *)
THEOREM Bypassed == Spec => []WhitelistedBypasses
<1>1. IInv => WhitelistedBypasses
  BY DEF IInv, Exempted, WhitelistedBypasses
<1> QED
  BY <1>1, Invariance, PTL

(* Nothing held is replaced by something older, but for the empty          *)
(* configuration.                                                          *)
THEOREM Forward == Spec => NeverGoesBack
<1> DEFINE Onward ==
      /\ apiRev' >= apiRev \/ apiRev' = 0
      /\ fnRev' >= fnRev \/ fnRev' = 0
      /\ blocksRev' >= blocksRev \/ blocksRev' = 0
      /\ routesRev' >= routesRev \/ routesRev' = 0
      /\ discRev' >= discRev \/ discRev' = 0
<1>1. IInv /\ [Next]_vars => [Onward]_vars
  <2> SUFFICES ASSUME IInv, Next PROVE Onward
    OBVIOUS
  <2> USE DEF IInv
  <2>1. /\ apiRev \in Int /\ fnRev \in Int /\ blocksRev \in Int
        /\ routesRev \in Int /\ discRev \in Int
    BY DEF TypeOK, Rev
  <2>2. CASE UNCHANGED heldVars
    BY <2>1, <2>2 DEF heldVars
  <2>3. CASE ApplyPolicies
    BY <2>1, <2>3 DEF ApplyPolicies, ReplyFresh
  <2>4. CASE SyncFunctionPolicies
    BY <2>1, <2>4 DEF SyncFunctionPolicies, ReplyFresh, HalfApplied
  <2>5. CASE ApplyBlocks
    BY <2>1, <2>5 DEF ApplyBlocks, ReplyFresh
  <2>6. CASE ApplyRouteConfig
    BY <2>1, <2>6 DEF ApplyRouteConfig, ReplyFresh
  <2>7. CASE SetDiscovery
    BY <2>1, <2>7 DEF SetDiscovery, ReplyFresh, HalfApplied
  <2> QED
    BY <2>2, <2>3, <2>4, <2>5, <2>6, <2>7
       DEF Next, Publish, Settle, Answer, LateReply, Updater, Ask, Unanswered, Discard,
           Tick, Whitelist, ForceMonitorAll, Request, Arrive, Decide, Identify,
           AllocateOffline, Allocate, Leave, UnchangedButRequest
<1> QED
  BY <1>1, Invariance, PTL DEF Spec, NeverGoesBack
=============================================================================
