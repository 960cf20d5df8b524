---------------------------- MODULE MeteringGate ----------------------------
(***************************************************************************)
(* What the request interceptor promises to the application it protects.   *)
(* Every request is decided once, before its handler runs.  It may be      *)
(* exempt (no rate limit applies), paid for, excused (UsageFlow could not  *)
(* be asked), or refused.  All but the refused are served, at most Quota   *)
(* requests are paid for, and every request ends.                          *)
(***************************************************************************)
EXTENDS Integers, FiniteSets

CONSTANTS Req, Quota

VARIABLES decision, result

gateVars == <<decision, result>>

Admitted == {"exempt", "paid", "excused"}

Init ==
    /\ decision = [r \in Req |-> "open"]
    /\ result = [r \in Req |-> "none"]

Paid == {r \in Req : decision[r] = "paid"}

Decide(r, d) ==
    /\ decision[r] = "open"
    /\ decision' = [decision EXCEPT ![r] = d]
    /\ UNCHANGED result

Exempt(r) == Decide(r, "exempt")
Excuse(r) == Decide(r, "excused")
Refuse(r) == Decide(r, "refused")
Pay(r) == Cardinality(Paid) < Quota /\ Decide(r, "paid")

Serve(r) ==
    /\ decision[r] \in Admitted
    /\ result[r] = "none"
    /\ result' = [result EXCEPT ![r] = "served"]
    /\ UNCHANGED decision

Reject(r) ==
    /\ decision[r] = "refused"
    /\ result[r] = "none"
    /\ result' = [result EXCEPT ![r] = "rejected"]
    /\ UNCHANGED decision

Step(r) ==
    Exempt(r) \/ Excuse(r) \/ Refuse(r) \/ Pay(r) \/ Serve(r) \/ Reject(r)

Next == \E r \in Req : Step(r)

Safety == Init /\ [][Next]_gateVars

\* A request is decided and ends, whatever the others do.
Progress == \A r \in Req : WF_gateVars(Step(r))

Spec == Safety /\ Progress

=============================================================================
