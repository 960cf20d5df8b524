---------------------------- MODULE MeteredData -----------------------------
(***************************************************************************)
(* The data of one metered request, on the goroutine that serves it: whom  *)
(* it is charged to (IdentityExtraction), what a function its handler      *)
(* calls is charged (FunctionAmount), and what its response is charged     *)
(* (ResponseCapture).  The three come one after the other, and what one    *)
(* needs is out of scope for the next; only the body of the request, which *)
(* the first reads, is still there for the handler.                        *)
(***************************************************************************)
EXTENDS IdentityExtraction, ValuePaths

CONSTANTS
    Functions, MaxCaptured, MaxText, MaxWrites, Responses, TrackedFields,
    ResultValues,   \* what functions return, with all that is inside
    BodyValues      \* what bodies hold and what is recorded of them, likewise

VARIABLES fn, results, tracked, charge, calls,
          writes, written, captured, truncated, emptyWrite, content, body, field, amount, phase

Function == INSTANCE FunctionAmount
Response == INSTANCE ResponseCapture

\* A response in JSON is not null, nor what stands for one that is not kept.
ASSUME ResponseAssumption ==
    /\ MaxCaptured \in Nat \ {0}
    /\ Nil \notin Responses
    /\ \A n \in 1 .. MaxCaptured : Response!Placeholder(n) \notin Responses

\* Go values are finite trees; json.Unmarshal makes maps and float64 numbers.
ASSUME ValuesAssumption ==
    /\ Closed(ResultValues) /\ Nil \in ResultValues
    /\ \A f \in Functions : f \subseteq Seq(ResultValues)
    /\ Closed(BodyValues) /\ Responses \cup {Text} \subseteq BodyValues
    /\ \A n \in 1 .. MaxCaptured : Response!Placeholder(n) \in BodyValues
    /\ \A v \in BodyValues : v.t # "struct" /\ (v.t = "num" => v.known)
    /\ TrackedFields \subseteq Seq(STRING)

functionVars == <<fn, results, tracked, charge, calls>>
responseVars ==
    <<writes, written, captured, truncated, emptyWrite, content, body, field, amount, phase>>
dataVars == <<vars, functionVars, responseVars>>

DataInit == Init /\ Function!Init /\ Response!Init

(* The interceptor replaces the writer and calls c.Next(). *)
HandlerStarts ==
    /\ step = "handler"
    /\ \E f \in TrackedFields : Response!Attach(f)
    /\ step' = "running"
    /\ policies' = <<>> /\ next' = 1 /\ matched' = FALSE /\ identity' = 0
    /\ rateLimited' = FALSE /\ requestBody' = FALSE
    /\ UNCHANGED <<sent, stream, functionVars>>

(* The handler calls functions, and then writes its response. *)
FunctionStep ==
    /\ step = "running"
    /\ Function!Next
    /\ UNCHANGED <<vars, responseVars>>

FunctionDone ==
    /\ calls = "settled"
    /\ fn' = {} /\ results' = <<>> /\ tracked' = <<>> /\ charge' = 1 /\ calls' = "none"
    /\ step' = "responding"
    /\ UNCHANGED <<policies, sent, stream, requestBody, next, matched, identity,
                   rateLimited, responseVars>>

ResponseStep ==
    /\ step \in {"running", "responding"} /\ calls = "none"
    /\ step' = "responding"
    /\ Response!Next
    /\ UNCHANGED <<policies, sent, stream, requestBody, next, matched, identity,
                   rateLimited, functionVars>>

DataNext ==
    \/ Next /\ UNCHANGED <<functionVars, responseVars>>
    \/ HandlerStarts
    \/ FunctionStep \/ FunctionDone
    \/ ResponseStep

DataSpec == DataInit /\ [][DataNext]_dataVars

-----------------------------------------------------------------------------
(* Of whom is charged, the properties are those of IdentityExtraction. *)

(* A function call is charged the number it returned at the tracked path. *)
ChargedAsReturned == Function!ChargedAsReturned

(* A response body that is kept is complete. *)
KeptIsComplete == Response!KeptIsComplete

(* A response is charged the number it holds at the tracked path. *)
ChargedAsSent == Response!ChargedAsSent
=============================================================================
