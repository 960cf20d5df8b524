-------------------------- MODULE FunctionMetering --------------------------
(***************************************************************************)
(* The metering of one call of an instrumented function, made while an     *)
(* HTTP request is handled or by a goroutine the handler left behind:      *)
(* src/pkg/middleware/functions.go, called by BeginCall and End of         *)
(* src/pkg/tracker/call.go.  The calls of a request do not touch one       *)
(* another's state, so one call is enough; the chain they build is in      *)
(* CallChain.                                                              *)
(*                                                                         *)
(* The config updater replaces the policies and the switches between any   *)
(* two steps, and the connection comes and goes.                           *)
(***************************************************************************)
EXTENDS Naturals, FiniteSets

VARIABLES
    \* shared by all requests
    up,         \* socketManager.IsConnected()
    reportAll,  \* reportAllFunctionAllocations
    policies,   \* the functionPolicies that match the function
    \* the request
    stage,      \* how far the interceptor is
    bypassed,   \* its route is not metered
    ledger,     \* what the TrackingContext knows of the ledger id
    \* the call
    pc,
    refusable,  \* the function can return an error or abort the request
    policy,     \* the policy found when the call started
    reserved,   \* what request_for_allocation asked for
    alias,      \* the base of the ledger id it was asked under
    held,       \* the Call has an allocation id
    settled,    \* what use_allocation said
    \* history
    granted,    \* at the server: it has a reservation for the call
    denied,     \* the server denied one
    stale       \* the policies changed since the call looked at them

shared  == <<up, reportAll, policies>>
request == <<stage, bypassed, ledger>>
call    == <<refusable, policy, reserved, alias, held, settled>>
vars    == <<shared, request, pc, call, granted, denied, stale>>

Limited  == {"limited", "limitedMeasured"}
Measured == {"measured", "limitedMeasured"}
Policy   == {"plain"} \cup Limited \cup Measured

TypeOK ==
    /\ up \in BOOLEAN /\ reportAll \in BOOLEAN /\ policies \subseteq Policy
    /\ stage \in {"routing", "allocating", "handling", "answered"}
    /\ bypassed \in BOOLEAN
    /\ ledger \in {"unknown", "requestId", "ledgerId"}
    /\ pc \in {"idle", "deciding", "checking", "asking", "running", "settling",
               "measuring", "blocked", "done"}
    /\ refusable \in BOOLEAN
    /\ policy \in Policy \cup {"none"}
    /\ reserved \in {"none", "unit", "large"}
    /\ alias \in {"none", "unknown", "requestId", "ledgerId"}
    /\ held \in BOOLEAN
    /\ settled \in {"none", "unit", "measured"}
    /\ granted \in BOOLEAN /\ denied \in BOOLEAN /\ stale \in BOOLEAN
    /\ held => reserved # "none"

-----------------------------------------------------------------------------
(* New: nothing fetched yet. *)
Init ==
    /\ up \in BOOLEAN
    /\ reportAll = TRUE /\ policies = {}
    /\ stage = "routing" /\ bypassed = FALSE /\ ledger = "unknown"
    /\ pc = "idle"
    /\ refusable \in BOOLEAN
    /\ policy = "none" /\ reserved = "none" /\ alias = "none"
    /\ held = FALSE /\ settled = "none"
    /\ granted = FALSE /\ denied = FALSE /\ stale = FALSE

-----------------------------------------------------------------------------
(* The request, which carries a TrackingContext *)

(* A whitelisted, capped or unmonitored route goes straight to its handler. *)
Bypass ==
    /\ stage = "routing"
    /\ bypassed' = TRUE
    /\ stage' = "handling"
    /\ UNCHANGED <<shared, ledger, pc, call, granted, denied, stale>>

\* Mutant: the request id is not stored.
MonitorAnonymously ==
    /\ stage = "routing"
    /\ stage' = "allocating"
    /\ UNCHANGED <<shared, bypassed, ledger, pc, call, granted, denied, stale>>

Monitor ==
    /\ stage = "routing"
    /\ ledger' = "requestId"
    /\ stage' = "allocating"
    /\ UNCHANGED <<shared, bypassed, pc, call, granted, denied, stale>>

(* The allocation succeeds and the store learns the ledger id; then the    *)
(* settlement may be refused, and the request is answered.                 *)
Allocate ==
    /\ stage = "allocating"
    /\ ledger' = "ledgerId"
    /\ stage' \in {"handling", "answered"}
    /\ UNCHANGED <<shared, bypassed, pc, call, granted, denied, stale>>

(* It fails: answered, or served like an outage. *)
AllocateFails ==
    /\ stage = "allocating"
    /\ stage' \in {"handling", "answered"}
    /\ UNCHANGED <<shared, bypassed, ledger, pc, call, granted, denied, stale>>

-----------------------------------------------------------------------------
(* onDiscoveredFunctionStart *)

(* BeginCall of a tracked call, by the handler or later by a goroutine. *)
Begin ==
    /\ stage = "handling"
    /\ pc = "idle"
    /\ pc' = "deciding"
    /\ UNCHANGED <<shared, request, call, granted, denied, stale>>

(* There is nothing to meter, ... *)
StartSkipped ==
    /\ pc = "deciding"
    /\ ~reportAll /\ policies = {}
    /\ pc' = "running"
    /\ UNCHANGED <<shared, request, call, granted, denied, stale>>

(* ... or a policy is looked up.  When several match by the end of their   *)
(* key, the order of the map decides.                                      *)
StartMetered ==
    /\ pc = "deciding"
    /\ reportAll \/ policies # {}
    /\ policy' \in IF policies = {} THEN {"none"} ELSE policies
    /\ stale' = (Cardinality(policies) > 1)
    /\ pc' = "checking"
    /\ UNCHANGED <<shared, request, refusable, reserved, alias, held, settled,
                   granted, denied>>

StartOffline ==
    /\ pc = "checking"
    /\ ~up
    /\ pc' = "running"
    /\ UNCHANGED <<shared, request, call, granted, denied, stale>>

\* What is asked for: a policy that measures results reserves plenty.
Ask ==
    /\ pc = "checking"
    /\ up
    /\ reserved' = IF policy \in Measured THEN "large" ELSE "unit"
    /\ alias' = ledger

\* Mutant: one unit is reserved whatever the policy says.
AnnounceUnit ==
    /\ pc = "checking" /\ up
    /\ policy \notin Limited
    /\ reserved' = "unit" /\ alias' = ledger
    /\ held' = TRUE
    /\ granted' \in BOOLEAN
    /\ pc' = "running"
    /\ UNCHANGED <<shared, request, refusable, policy, settled, denied, stale>>

(* Without a rate limit: announced under an id of its own, by a Send whose *)
(* error is ignored.                                                       *)
Announce ==
    /\ Ask
    /\ policy \notin Limited
    /\ held' = TRUE
    /\ granted' \in BOOLEAN
    /\ pc' = "running"
    /\ UNCHANGED <<shared, request, refusable, policy, settled, denied, stale>>

AskFirst ==
    /\ Ask
    /\ policy \in Limited
    /\ pc' = "asking"
    /\ UNCHANGED <<shared, request, refusable, policy, held, settled, granted,
                   denied, stale>>

(* The answer: an allocation id, ... *)
Granted ==
    /\ pc = "asking"
    /\ up
    /\ granted' = TRUE
    /\ held' = TRUE
    /\ pc' = "running"
    /\ UNCHANGED <<shared, request, refusable, policy, reserved, alias, settled,
                   denied, stale>>

\* Mutant: a call without an answer goes on under an id of its own.
UnansweredKeepsId ==
    /\ pc = "asking"
    /\ held' = TRUE
    /\ pc' = "running"
    /\ UNCHANGED <<shared, request, refusable, policy, reserved, alias, settled,
                   granted, denied, stale>>

\* Mutant: a call waits for its answer for ever.
UnansweredWaits == FALSE /\ UnansweredKeepsId

(* ... none, or one without an id, or a denial that reads like a transport *)
(* failure: the call goes on without an id; ...                            *)
Unanswered ==
    /\ pc = "asking"
    /\ granted' \in BOOLEAN
    /\ pc' = "running"
    /\ UNCHANGED <<shared, request, call, denied, stale>>

\* Mutant: a denial is taken for an unanswered request.
DeniedGoesOn ==
    /\ pc = "asking"
    /\ up
    /\ denied' = TRUE
    /\ pc' = "running"
    /\ UNCHANGED <<shared, request, call, granted, stale>>

(* ... a denial: the injected code returns the error or aborts the HTTP    *)
(* request instead of running the function, where it can.                  *)
Denied ==
    /\ pc = "asking"
    /\ up
    /\ denied' = TRUE
    /\ pc' = IF refusable THEN "blocked" ELSE "running"
    /\ UNCHANGED <<shared, request, call, granted, stale>>

-----------------------------------------------------------------------------
(* onDiscoveredFunctionEnd *)

(* The function returns or panics: with an allocation id, End settles. *)
End ==
    /\ pc = "running"
    /\ pc' = IF held THEN "settling" ELSE "done"
    /\ UNCHANGED <<shared, request, call, granted, denied, stale>>

SettleOffline ==
    /\ pc = "settling"
    /\ ~up
    /\ pc' = "done"
    /\ UNCHANGED <<shared, request, call, granted, denied, stale>>

SettleOnline ==
    /\ pc = "settling"
    /\ up
    /\ pc' = "measuring"
    /\ UNCHANGED <<shared, request, call, granted, denied, stale>>

(* The policy is looked up again; use_allocation is a Send whose error is  *)
(* ignored.  Errors and results without the tracked field count one unit.  *)
Settle ==
    /\ pc = "measuring"
    /\ settled' \in {settled, "unit"} \cup
                    (IF policies \cap Measured # {} THEN {"measured"} ELSE {})
    /\ pc' = "done"
    /\ UNCHANGED <<shared, request, refusable, policy, reserved, alias, held,
                   granted, denied, stale>>

-----------------------------------------------------------------------------
(* The config updater and the connection *)

PoliciesChange ==
    /\ policies' \in SUBSET Policy
    /\ stale' = (stale \/ policies' # policies)
    /\ UNCHANGED <<up, reportAll, request, pc, call, granted, denied>>

AppConfigChanges ==
    /\ reportAll' = ~reportAll
    /\ UNCHANGED <<up, policies, request, pc, call, granted, denied, stale>>

ConnectionChanges ==
    /\ up' = ~up
    /\ UNCHANGED <<reportAll, policies, request, pc, call, granted, denied, stale>>

RequestStep == Bypass \/ Monitor \/ Allocate \/ AllocateFails

CallStep ==
    \/ StartSkipped \/ StartMetered \/ StartOffline \/ Announce \/ AskFirst
    \/ Granted \/ Unanswered \/ Denied
    \/ End \/ SettleOffline \/ SettleOnline \/ Settle

Next ==
    \/ RequestStep \/ Begin \/ CallStep
    \/ PoliciesChange \/ AppConfigChanges \/ ConnectionChanges

Spec == Init /\ [][Next]_vars

(* SendAsync returns, the function returns, goroutines run. *)
FairSpec == Spec /\ WF_vars(CallStep)

-----------------------------------------------------------------------------
(* Properties *)

(* A function that can refuse does not run once a denial of its allocation *)
(* is recognised, and nothing is ever settled for a denied call.           *)
DeniedNeverRuns ==
    denied => settled = "none" /\ (refusable => pc = "blocked")

(* What was settled under a rate limit had been granted by the server,     *)
(* although answers get lost, calls go on without an id and the connection *)
(* changes between the two messages.                                       *)
SettledWasGranted == settled # "none" /\ policy \in Limited => granted

(* A measured amount settles a large reservation, unless the policies      *)
(* changed during the call or several matched it: onDiscoveredFunctionEnd  *)
(* looks the policy up again.                                              *)
MeasuredWasReserved == settled = "measured" => reserved = "large" \/ stale

(* The ledger id a call is charged to is the one its request ends up with, *)
(* and it is "unknown" only on routes that are not metered.                *)
ChargedToRequest ==
    alias # "none" => alias = ledger /\ (alias = "unknown" => bypassed)

(* Every call comes to its end, whatever the server answers and however    *)
(* often the connection and the configuration change.                      *)
CallEnds == pc = "deciding" ~> pc \in {"blocked", "done"}

=============================================================================
