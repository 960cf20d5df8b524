------------------------- MODULE IdentityExtraction -------------------------
(***************************************************************************)
(* Whom a request is charged to: collectRequestMetadata and GetUserPrefix  *)
(* of src/pkg/middleware/middleware.go with their helpers in utils.go.     *)
(*                                                                         *)
(* The policies of the route are tried in the order of ApiConfig until one *)
(* names a place where the request carries a text.  A place is described   *)
(* by what the request holds there, so a policy is both what is configured *)
(* and what the client sent.  The body of the request is a stream: who     *)
(* reads it and does not put it back leaves nothing to the handler.        *)
(***************************************************************************)
EXTENDS Naturals, Sequences

CONSTANTS
    Places,         \* the places policies name, with what is found there
    MaxPolicies     \* bound: policies that match the route

\* The places there are.  "request" stands for headers, query and path
\* parameters, which need no decoding.
Place ==
    [location : {"unset"}]
    \cup [location : {"request"}, value : {"text", "empty"}]
    \cup [location : {"body"}, field : {"text", "number", "absent"}]
    \cup [location : {"token"}, header : {"bearer", "malformed", "missing"},
          jwt : {"textClaim", "otherClaims", "undecodable"}]
    \cup [location : {"cookie"}, name : {"jwt", "prefixed", "plain"},
          cookie : {"text", "textClaim", "otherClaims", "missing"}]

Policy == [function : BOOLEAN, hasRateLimit : BOOLEAN, place : Places]

VARIABLES
    policies,       \* u.ApiConfig, the entries of this method and URL
    sent,           \* whether the body the client sent is a JSON object
    stream,         \* what c.Request.Body still yields
    requestBody,    \* the body is in the metadata
    next,           \* the policy the loop looks at
    matched,        \* a policy of the route was seen
    identity,       \* the policy that gave the identifier, 0 if none did
    rateLimited,
    step            \* where RequestInterceptor is

vars == <<policies, sent, stream, requestBody, next, matched, identity, rateLimited, step>>

TypeOK ==
    /\ policies \in Seq(Policy)
    /\ sent \in {"object", "other"}
    /\ stream \in {"full", "drained"}
    /\ requestBody \in BOOLEAN
    /\ next \in 1 .. Len(policies) + 1
    /\ matched \in BOOLEAN
    /\ identity \in 0 .. Len(policies)
    /\ rateLimited \in BOOLEAN
    /\ step \in {"metadata", "policies", "handler"}

-----------------------------------------------------------------------------
(* A request on a route with some policies. *)
Init ==
    /\ \E n \in 0 .. MaxPolicies : policies \in [1 .. n -> Policy]
    /\ sent \in {"object", "other"}
    /\ stream = "full" /\ requestBody = FALSE
    /\ next = 1 /\ matched = FALSE /\ identity = 0 /\ rateLimited = FALSE
    /\ step = "metadata"

\* Mutant: the body read for the metadata is not put back.
CollectMetadataDrains ==
    /\ step = "metadata"
    /\ requestBody' = TRUE
    /\ stream' = "drained"
    /\ step' = "policies"
    /\ UNCHANGED <<policies, sent, next, matched, identity, rateLimited>>

(* collectRequestMetadata reads the body and puts a copy in its place. *)
CollectMetadata ==
    /\ step = "metadata"
    /\ requestBody' = TRUE
    /\ step' = "policies"
    /\ UNCHANGED <<policies, sent, stream, next, matched, identity, rateLimited>>

-----------------------------------------------------------------------------
(* What the helpers find *)

\* ExtractBearerToken and DecodeJWTUnverified.
TokenText(p) == p.header = "bearer" /\ p.jwt = "textClaim"

\* A field [technique=jwt]name[pick=claim] takes the claim or nothing; a
\* cookie named otherwise is taken whole, whatever it holds.
CookieText(p) ==
    IF p.name = "jwt" THEN p.cookie = "textClaim" ELSE p.cookie # "missing"

HasText(p) ==
    \/ p.location = "request" /\ p.value = "text"
    \/ p.location = "token" /\ TokenText(p)
    \/ p.location = "cookie" /\ CookieText(p)
    \/ p.location = "body" /\ stream = "full" /\ sent = "object" /\ p.field = "text"

-----------------------------------------------------------------------------
(* The loop of GetUserPrefix *)

Looking == step = "policies" /\ identity = 0 /\ next <= Len(policies)
Current == policies[next]

(* Policies of functions do not speak for requests. *)
SkipFunction ==
    /\ Looking /\ Current.function
    /\ next' = next + 1
    /\ UNCHANGED <<policies, sent, stream, requestBody, matched, identity, rateLimited, step>>

\* Mutant: only the last policy looked at says whether there is a limit.
TryLastLimit ==
    /\ Looking /\ ~Current.function
    /\ matched' = TRUE
    /\ rateLimited' = Current.hasRateLimit
    /\ identity' = IF HasText(Current.place) THEN next ELSE 0
    /\ stream' = IF Current.place.location = "body" THEN "drained" ELSE stream
    /\ next' = next + 1
    /\ UNCHANGED <<policies, sent, requestBody, step>>

(* A policy of the route: its limit counts, and its place is searched.  To *)
(* bind the body consumes it, and what GetRequestBody puts back is what is *)
(* left then: nothing, or the rest of a long body that is no JSON.         *)
Try ==
    /\ Looking /\ ~Current.function
    /\ matched' = TRUE
    /\ rateLimited' = (rateLimited \/ Current.hasRateLimit)
    /\ identity' = IF HasText(Current.place) THEN next ELSE 0
    /\ stream' = IF Current.place.location = "body" THEN "drained" ELSE stream
    /\ next' = next + 1
    /\ UNCHANGED <<policies, sent, requestBody, step>>

(* An identifier was found, or the policies are exhausted. *)
Found ==
    /\ step = "policies"
    /\ identity # 0 \/ next > Len(policies)
    /\ step' = "handler"
    /\ UNCHANGED <<policies, sent, stream, requestBody, next, matched, identity, rateLimited>>

Next == CollectMetadata \/ SkipFunction \/ Try \/ Found

Spec == Init /\ [][Next]_vars

-----------------------------------------------------------------------------
(* Properties *)

\* The policies that speak for the request, and those of them that bind the body.
Speaks(i) == ~policies[i].function
Binds(i)  == Speaks(i) /\ policies[i].place.location = "body"

(* The handler reads what the client sent, although the middleware has     *)
(* read it ("Restore the body for further processing", middleware.go:925). *)
BodyReachesHandler == step = "handler" => stream = "full"

(* The handler finds the body gone only if a policy binds it and no policy *)
(* before that one names a place with a text; and then the metadata still  *)
(* has a copy (middleware.go:795-812, 917-928).                            *)
BodyLostToBinding ==
    step = "handler" /\ stream = "drained" =>
        /\ requestBody
        /\ \E i \in DOMAIN policies : Binds(i) /\ (identity = 0 \/ i <= identity)

\* A policy that would find a text; one that binds the body does not after
\* another one did.
Able(i) ==
    LET p == policies[i].place
    IN  /\ Speaks(i)
        /\ \/ p.location = "request" /\ p.value = "text"
           \/ p.location = "token" /\ TokenText(p)
           \/ p.location = "cookie" /\ CookieText(p)
           \/ /\ p.location = "body" /\ p.field = "text" /\ sent = "object"
              /\ \A j \in 1 .. i - 1 : ~Binds(j)

\* The policies up to the one that identified the client.
Read(i) == Speaks(i) /\ (identity = 0 \/ i <= identity)

(* Whom the request is charged to: the first policy whose place holds a    *)
(* text.  A limit after the policy that identifies goes unseen, and with   *)
(* no identity every limit is seen (middleware.go:892-992).                *)
FirstTextIdentifies ==
    step = "handler" =>
        /\ identity = 0 => \A i \in DOMAIN policies : ~Able(i)
        /\ identity # 0 => Able(identity) /\ \A i \in 1 .. identity - 1 : ~Able(i)
        /\ matched <=> \E i \in DOMAIN policies : Read(i)
        /\ rateLimited <=> \E i \in DOMAIN policies : Read(i) /\ policies[i].hasRateLimit
=============================================================================
