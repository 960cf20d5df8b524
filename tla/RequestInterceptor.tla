------------------------- MODULE RequestInterceptor -------------------------
(***************************************************************************)
(* The path of HTTP requests through RequestInterceptor                    *)
(* (src/pkg/middleware/middleware.go): the routing decision, the rate      *)
(* limit found for the caller, the allocation, the settlement before the   *)
(* handler of a rate-limited request, the handler, and the fulfilment      *)
(* after the handler of the others.                                        *)
(*                                                                         *)
(* Requests run concurrently with each other, with the config updater and  *)
(* with the loss and return of the connection; each read of shared state   *)
(* is a step of its own.  A SendAsync is one step whose outcome is one of  *)
(* those module AsyncSend allows.  The UsageFlow server is external: it    *)
(* grants at most Quota reservations to rate-limited requests, may deny    *)
(* for any other reason, and may have acted on a request whose answer      *)
(* never arrived.                                                          *)
(***************************************************************************)
EXTENDS Integers, FiniteSets

CONSTANTS
    Req,        \* HTTP requests
    Quota       \* reservations the server grants to rate-limited requests

ASSUME RequestAssumption == IsFiniteSet(Req) /\ Quota \in Nat

VARIABLES
    \* shared
    up,         \* socketManager.IsConnected()
    route,      \* how the route maps, the cap and ForceMonitorAll decide
    limited,    \* a RATE_LIMIT policy identifies the caller
    blocked,    \* BlockedEndpoints holds the ledger id
    connected,  \* u.connected: what the last look at the connection found
    \* of each request
    pc,
    rl,         \* rateLimited
    alloc,      \* the allocation id under "eventId"
    err,        \* the error of ExecuteRequestWithMetadata
    metered,    \* the handler is followed by the fulfilment
    settled,    \* "usageflowSettledBeforeHandler"
    reply,      \* what the client gets
    excused,    \* history: UsageFlow was, or seemed, unavailable
    \* at the server
    quota,      \* reservations it still grants
    granted,    \* requests it made a reservation for
    used,       \* requests whose reservation was settled
    uses        \* use_allocation messages sent for a request

config  == <<up, route, limited, blocked>>
shared  == <<config, connected>>
local   == <<rl, alloc, err, metered, settled, reply, excused>>
server  == <<quota, granted, used, uses>>
vars    == <<shared, pc, local, server>>

TypeOK ==
    /\ up \in BOOLEAN
    /\ route \in {"bypass", "meter"}
    /\ limited \in BOOLEAN
    /\ blocked \in BOOLEAN
    /\ connected \in BOOLEAN
    /\ pc \in [Req -> {"arrived", "identify", "allocate", "blockCheck", "reserve",
                       "settle", "confirm", "respond", "handler", "fulfil", "use",
                       "report", "done"}]
    /\ rl \in [Req -> BOOLEAN]
    /\ alloc \in [Req -> {"unset", "empty", "id"}]
    /\ err \in [Req -> {"none", "blocked", "denied", "deniedAsOutage", "malformed"}]
    /\ metered \in [Req -> BOOLEAN]
    /\ settled \in [Req -> BOOLEAN]
    /\ reply \in [Req -> {"none", "served", "400", "403", "429"}]
    /\ excused \in [Req -> BOOLEAN]
    /\ quota \in 0 .. Quota
    /\ granted \subseteq Req
    /\ used \subseteq Req
    /\ uses \in [Req -> Nat]

-----------------------------------------------------------------------------
Init ==
    /\ up \in BOOLEAN
    /\ route = "meter"          \* empty route maps: everything is monitored
    /\ limited = FALSE
    /\ blocked = FALSE
    /\ connected = up
    /\ pc = [r \in Req |-> "arrived"]
    /\ rl = [r \in Req |-> FALSE]
    /\ alloc = [r \in Req |-> "unset"]
    /\ err = [r \in Req |-> "none"]
    /\ metered = [r \in Req |-> FALSE]
    /\ settled = [r \in Req |-> FALSE]
    /\ reply = [r \in Req |-> "none"]
    /\ excused = [r \in Req |-> FALSE]
    /\ quota = Quota
    /\ granted = {}
    /\ used = {}
    /\ uses = [r \in Req |-> 0]

Goto(r, l) == pc' = [pc EXCEPT ![r] = l]
Fails(r, e) == err' = [err EXCEPT ![r] = e] /\ Goto(r, "respond")
Excuse(r) == excused' = [excused EXCEPT ![r] = TRUE]
LooksUp == connected' = up
SendUse(r) == uses' = [uses EXCEPT ![r] = @ + 1]

\* What follows a successful allocateRequest.
Allocated(r, id) ==
    /\ alloc' = [alloc EXCEPT ![r] = id]
    /\ metered' = [metered EXCEPT ![r] = TRUE]
    /\ Goto(r, IF rl[r] THEN "settle" ELSE "handler")

\* The server reserves a unit for a rate-limited request.
Reserve(r) ==
    /\ quota > 0
    /\ quota' = quota - 1
    /\ granted' = granted \cup {r}

\* The server may have reserved a unit before things went wrong.
PerhapsReserved(r) == Reserve(r) \/ UNCHANGED <<quota, granted>>

-----------------------------------------------------------------------------
(* Before the handler *)

(* Whitelisted, capped and unmonitored requests go straight to the handler. *)
Route(r) ==
    /\ pc[r] = "arrived"
    /\ Goto(r, IF route = "bypass" THEN "handler" ELSE "identify")
    /\ UNCHANGED <<shared, local, server>>

(* GetUserPrefix: the policies say whether a rate limit applies. *)
Identify(r) ==
    /\ pc[r] = "identify"
    /\ rl' = [rl EXCEPT ![r] = limited]
    /\ Goto(r, "allocate")
    /\ UNCHANGED <<shared, alloc, err, metered, settled, reply, excused, server>>

\* Mutant: a request waits until there is a connection.
AllocateOfflineWaits(r) == pc[r] = "allocate" /\ ~up /\ UNCHANGED vars

(* allocateRequest without a connection: an empty allocation id. *)
AllocateOffline(r) ==
    /\ pc[r] = "allocate"
    /\ ~up
    /\ Allocated(r, "empty")
    /\ Excuse(r)
    /\ LooksUp
    /\ UNCHANGED <<config, rl, err, settled, reply, server>>

AllocateOnline(r) ==
    /\ pc[r] = "allocate"
    /\ up
    /\ Goto(r, "blockCheck")
    /\ LooksUp
    /\ UNCHANGED <<config, local, server>>

\* Mutant: the allocation is requested before the block is looked up.
BlockCheckTooLate(r) ==
    /\ pc[r] = "blockCheck"
    /\ \/ blocked /\ Fails(r, "blocked")
       \/ ~blocked /\ Goto(r, "reserve") /\ UNCHANGED err
    /\ granted' = granted \cup {r}
    /\ UNCHANGED <<shared, rl, alloc, metered, settled, reply, excused,
                   quota, used, uses>>

(* BlockedEndpoints is looked up, without a lock. *)
BlockCheck(r) ==
    /\ pc[r] = "blockCheck"
    /\ \/ blocked /\ Fails(r, "blocked")
       \/ ~blocked /\ Goto(r, "reserve") /\ UNCHANGED err
    /\ UNCHANGED <<shared, rl, alloc, metered, settled, reply, excused, server>>

(* Without a rate limit: an id of its own, announced by a Send whose error *)
(* is ignored.                                                             *)
Announce(r) ==
    /\ pc[r] = "reserve" /\ ~rl[r]
    /\ Allocated(r, "id")
    /\ \/ up /\ granted' = granted \cup {r}
       \/ UNCHANGED granted
    /\ UNCHANGED <<shared, rl, err, settled, reply, excused, quota, used, uses>>

(* With a rate limit the answer is awaited: an allocation id, ... *)
ReserveGranted(r) ==
    /\ pc[r] = "reserve" /\ rl[r] /\ up
    /\ Reserve(r)
    /\ Allocated(r, "id")
    /\ UNCHANGED <<shared, rl, err, settled, reply, excused, used, uses>>

(* ... no answer (not connected, write error, timeout): fail open, ... *)
ReserveUnanswered(r) ==
    /\ pc[r] = "reserve" /\ rl[r]
    /\ PerhapsReserved(r)
    /\ Allocated(r, "empty")
    /\ Excuse(r)
    /\ connected' = FALSE
    /\ UNCHANGED <<config, rl, err, settled, reply, used, uses>>

(* ... a denial, whose text may contain one of the phrases that            *)
(* isUsageFlowAvailabilityError looks for, ...                             *)
ReserveDenied(r) ==
    /\ pc[r] = "reserve" /\ rl[r] /\ up
    /\ \E e \in {"denied", "deniedAsOutage"} : Fails(r, e)
    /\ UNCHANGED <<shared, rl, alloc, metered, settled, reply, excused, server>>

(* ... or a response without an allocation id. *)
ReserveMalformed(r) ==
    /\ pc[r] = "reserve" /\ rl[r] /\ up
    /\ PerhapsReserved(r)
    /\ Fails(r, "malformed")
    /\ UNCHANGED <<shared, rl, alloc, metered, settled, reply, excused, used, uses>>

(* useAllocationRequest before the handler: nothing to settle with. *)
SettleSkipped(r) ==
    /\ pc[r] = "settle"
    /\ ~up \/ alloc[r] = "empty"
    /\ settled' = [settled EXCEPT ![r] = TRUE]
    /\ Excuse(r)
    /\ Goto(r, "handler")
    /\ LooksUp
    /\ UNCHANGED <<config, rl, alloc, err, metered, reply, server>>

\* Mutant: the settlement is not recorded in the request.
ConfirmedUnrecorded(r) ==
    /\ pc[r] = "confirm" /\ up
    /\ SendUse(r)
    /\ used' = used \cup {r}
    /\ Goto(r, "handler")
    /\ UNCHANGED <<shared, rl, alloc, err, metered, settled, reply, excused,
                   quota, granted>>

\* Mutant: the handler runs while the settlement is under way.
SettleLater(r) ==
    /\ pc[r] = "settle"
    /\ up /\ alloc[r] = "id"
    /\ Goto(r, "handler")
    /\ LooksUp
    /\ UNCHANGED <<config, local, server>>

SettleOnline(r) ==
    /\ pc[r] = "settle"
    /\ up /\ alloc[r] = "id"
    /\ Goto(r, "confirm")
    /\ LooksUp
    /\ UNCHANGED <<config, local, server>>

(* The settlement is confirmed, ... *)
Confirmed(r) ==
    /\ pc[r] = "confirm" /\ up
    /\ SendUse(r)
    /\ used' = used \cup {r}
    /\ settled' = [settled EXCEPT ![r] = TRUE]
    /\ Goto(r, "handler")
    /\ UNCHANGED <<shared, rl, alloc, err, metered, reply, excused, quota, granted>>

(* ... not answered, ... *)
Unconfirmed(r) ==
    /\ pc[r] = "confirm"
    /\ \/ SendUse(r) /\ used' \in {used, used \cup {r}}
       \/ UNCHANGED <<uses, used>>
    /\ settled' = [settled EXCEPT ![r] = TRUE]
    /\ Excuse(r)
    /\ Goto(r, "handler")
    /\ connected' = FALSE
    /\ UNCHANGED <<config, rl, alloc, err, metered, reply, quota, granted>>

(* ... or denied. *)
ConfirmDenied(r) ==
    /\ pc[r] = "confirm" /\ up
    /\ SendUse(r)
    /\ \E e \in {"denied", "deniedAsOutage"} : Fails(r, e)
    /\ UNCHANGED <<shared, rl, alloc, metered, settled, reply, excused,
                   quota, granted, used>>

\* Mutant: the branch of a denial does not return.
RespondFallsThrough(r) ==
    /\ pc[r] = "respond"
    /\ \/ /\ err[r] = "blocked"
          /\ reply' = [reply EXCEPT ![r] = "403"]
          /\ Goto(r, "done")
       \/ /\ err[r] # "blocked"
          /\ Goto(r, "handler")
          /\ UNCHANGED reply
    /\ UNCHANGED <<shared, rl, alloc, err, metered, settled, excused, server>>

\* What the interceptor does with a failed allocation.  Denials of rate-limited
\* requests are told from outages by their text, all other failures by the flag.
Answer(r) ==
    CASE err[r] = "blocked"  -> "403"
      [] err[r] = "none"     -> IF connected THEN "400" ELSE "pass"
      [] err[r] \notin {"blocked", "none"} ->
           IF IF rl[r] THEN err[r] # "deniedAsOutage" ELSE connected
           THEN "429" ELSE "pass"

(* The request is answered with an error, or goes on to its handler        *)
(* without any fulfilment.                                                 *)
Respond(r) ==
    /\ pc[r] = "respond"
    /\ \/ /\ Answer(r) # "pass"
          /\ reply' = [reply EXCEPT ![r] = Answer(r)]
          /\ Goto(r, "done")
          /\ UNCHANGED <<metered, excused>>
       \/ /\ Answer(r) = "pass"
          /\ metered' = [metered EXCEPT ![r] = FALSE]
          /\ Excuse(r)
          /\ Goto(r, "handler")
          /\ UNCHANGED reply
    /\ UNCHANGED <<shared, rl, alloc, err, settled, server>>

-----------------------------------------------------------------------------
(* The handler and what follows *)

Handle(r) ==
    /\ pc[r] = "handler"
    /\ reply' = [reply EXCEPT ![r] = "served"]
    /\ Goto(r, IF metered[r] THEN "fulfil" ELSE "done")
    /\ UNCHANGED <<shared, rl, alloc, err, metered, settled, excused, server>>

(* A panic of the handler passes through the interceptor: no fulfilment. *)
HandlerPanics(r) ==
    /\ pc[r] = "handler"
    /\ reply' = [reply EXCEPT ![r] = "served"]
    /\ Goto(r, "done")
    /\ UNCHANGED <<shared, rl, alloc, err, metered, settled, excused, server>>

(* ExecuteFulfillRequestWithMetadata: settled already, or not connected. *)
Fulfil(r) ==
    /\ pc[r] = "fulfil"
    /\ Goto(r, IF settled[r] \/ ~up THEN "done" ELSE "use")
    /\ connected' = IF settled[r] THEN connected ELSE up
    /\ UNCHANGED <<config, local, server>>

(* useAllocationRequest after the handler looks at the connection again. *)
Use(r) ==
    /\ pc[r] = "use"
    /\ Goto(r, IF ~up \/ alloc[r] = "empty" THEN "done" ELSE "report")
    /\ LooksUp
    /\ UNCHANGED <<config, local, server>>

(* A Send whose error is ignored. *)
Report(r) ==
    /\ pc[r] = "report"
    /\ \/ up /\ SendUse(r) /\ used' = used \cup {r}
       \/ UNCHANGED <<uses, used>>
    /\ Goto(r, "done")
    /\ UNCHANGED <<shared, local, quota, granted>>

-----------------------------------------------------------------------------
(* The rest of the program, and the network *)

\* FetchApplicationConfig, Whitelist and ForceMonitorAll replace the route maps.
RoutesChange ==
    /\ route' \in {"bypass", "meter"} \ {route}
    /\ UNCHANGED <<up, limited, blocked, connected, pc, local, server>>

\* FetchApiConfig replaces the policies.
PoliciesChange ==
    /\ limited' = ~limited
    /\ UNCHANGED <<up, route, blocked, connected, pc, local, server>>

\* FetchBlockedEndpoints replaces the blocked endpoints.
BlocksChange ==
    /\ blocked' = ~blocked
    /\ UNCHANGED <<up, route, limited, connected, pc, local, server>>

\* The last usable connection goes, or the first one comes.
ConnectionChanges ==
    /\ up' = ~up
    /\ UNCHANGED <<route, limited, blocked, connected, pc, local, server>>

\* Another goroutine asks whether there is a connection, which renews the flag.
FlagRenewed ==
    /\ LooksUp
    /\ UNCHANGED <<config, pc, local, server>>

Step(r) ==
    \/ Route(r) \/ Identify(r)
    \/ AllocateOffline(r) \/ AllocateOnline(r) \/ BlockCheck(r)
    \/ Announce(r)
    \/ ReserveGranted(r) \/ ReserveUnanswered(r) \/ ReserveDenied(r) \/ ReserveMalformed(r)
    \/ SettleSkipped(r) \/ SettleOnline(r)
    \/ Confirmed(r) \/ Unconfirmed(r) \/ ConfirmDenied(r)
    \/ Respond(r)
    \/ Handle(r) \/ HandlerPanics(r)
    \/ Fulfil(r) \/ Use(r) \/ Report(r)

Next ==
    \/ \E r \in Req : Step(r)
    \/ RoutesChange \/ PoliciesChange \/ BlocksChange \/ ConnectionChanges \/ FlagRenewed

(* The goroutine of a request runs, SendAsync returns, handlers return. *)
Fairness == \A r \in Req : WF_vars(Step(r))

Spec == Init /\ [][Next]_vars
FairSpec == Spec /\ Fairness

-----------------------------------------------------------------------------
(* Safety *)

(* The handler of a rate-limited request runs only after its unit was      *)
(* settled at the server, unless UsageFlow could not be asked at some step *)
(* of this very request: no order of configuration changes, connection     *)
(* losses and other requests opens the gate otherwise.                     *)
PaidOrExcused ==
    \A r \in Req : reply[r] = "served" /\ rl[r] => r \in used \/ excused[r]

(* A request that was refused never reaches its handler, not even after    *)
(* the block is lifted or the connection is lost before the answer is      *)
(* written.                                                                *)
RefusedNotServed ==
    \A r \in Req :
        err[r] \in {"blocked", "denied", "malformed"} => reply[r] # "served"

(* An allocation is settled at most once: a request settled before its     *)
(* handler is not settled again by the fulfilment (middleware.go:681-685). *)
SettledOnce == \A r \in Req : uses[r] <= 1

(* A blocked request leaves no trace at the server. *)
BlockedIsSilent ==
    \A r \in Req : err[r] = "blocked" => r \notin granted \cup used /\ uses[r] = 0

-----------------------------------------------------------------------------
(* The interceptor implements the gate *)

Decision(r) ==
    IF err[r] \in {"blocked", "denied", "malformed"} THEN "refused"
    ELSE IF pc[r] \notin {"handler", "fulfil", "use", "report", "done"} THEN "open"
    ELSE IF ~rl[r] THEN "exempt"
    ELSE IF excused[r] THEN "excused"
    ELSE "paid"

Result(r) ==
    CASE reply[r] = "served" -> "served"
      [] reply[r] \in {"400", "403", "429"} -> "rejected"
      [] reply[r] = "none" -> "none"

Gate == INSTANCE MeteringGate WITH
            decision <- [r \in Req |-> Decision(r)],
            result <- [r \in Req |-> Result(r)]

(* Every request is decided once and before its handler; the refused are   *)
(* not served, whatever changes after the refusal; no more than Quota      *)
(* requests are paid for.                                                  *)
ImplementsGate == Gate!Safety

(* Every request is decided and ends, under the fairness of goroutines     *)
(* alone: with ImplementsGate this is all of Gate!Spec.                    *)
GateProgresses == Gate!Progress

=============================================================================
