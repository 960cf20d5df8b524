--------------------------- MODULE FunctionAmount ---------------------------
(***************************************************************************)
(* What a call of an instrumented function is charged.  One call reports   *)
(* the schema of its result (Call.End in src/pkg/tracker/call.go); in the  *)
(* Console one of the numeric paths is chosen to be tracked; and a later   *)
(* call of the same function, whose results may look different, is settled *)
(* with what it has at this path (onDiscoveredFunctionEnd in               *)
(* src/pkg/middleware/functions.go).  When calls are allocated and settled *)
(* at all is the matter of module FunctionMetering.                        *)
(***************************************************************************)
EXTENDS Integers, Sequences, ValuePaths

CONSTANT Functions  \* a function is the set of the results it may return

VARIABLES
    fn,         \* the function
    results,    \* what the call that ended last returned
    tracked,    \* responseTrackingField of its policy
    charge,     \* the amount settled
    calls       \* what has happened

vars == <<fn, results, tracked, charge, calls>>

Init ==
    /\ fn = {} /\ results = <<>> /\ tracked = <<>> /\ charge = 1
    /\ calls = "none"

(* A call ends, and its result schema goes into the report. *)
Report ==
    /\ calls = "none"
    /\ fn' \in Functions
    /\ results' \in fn'
    /\ calls' = "reported"
    /\ UNCHANGED <<tracked, charge>>

\* The paths the Console offers; a call that ended in an error offers none.
Offered(rs) ==
    IF IsError(rs) THEN {} ELSE {l.path : l \in Advertised(PrimaryResult(rs))}

(* One of them is tracked from now on. *)
Configure ==
    /\ calls = "reported"
    /\ tracked' \in Offered(results)
    /\ calls' = "configured"
    /\ UNCHANGED <<fn, results, charge>>

\* Mutant: the result is looked at even if the call failed.
SettleIgnoringErrors ==
    /\ calls = "configured"
    /\ results' \in fn
    /\ charge' = Amount(PrimaryResult(results'), tracked)
    /\ calls' = "settled"
    /\ UNCHANGED <<fn, tracked>>

(* The next call ends and is settled. *)
Settle ==
    /\ calls = "configured"
    /\ results' \in fn
    /\ charge' = IF IsError(results') THEN 1 ELSE Amount(PrimaryResult(results'), tracked)
    /\ calls' = "settled"
    /\ UNCHANGED <<fn, tracked>>

Next == Report \/ Configure \/ Settle

Spec == Init /\ [][Next]_vars

-----------------------------------------------------------------------------
(* Properties *)

\* Numbers that getValueByPath or toFloat64 cannot reach.
Unreachable(l) ==
    \/ l.via \cap {"array", "dot", "lost"} # {}
    \/ IF "json" \in l.via THEN l.value.json # "same" ELSE ~l.value.known

(* A call is charged the number its own result has at the path that was    *)
(* chosen from an earlier result, and one unit if there is none or it      *)
(* failed (functions.go:295-353 against schema.go:34-237).  Embedded       *)
(* structs are advertised at a path that JSON does not have, so a number   *)
(* in one is charged as one unit.  So are numbers inside arrays and under  *)
(* keys with a dot; what JSON leaves out or turns into text; all numbers   *)
(* of a struct that cannot be encoded, for one func, channel or NaN in it; *)
(* and numbers of a Go type toFloat64 does not know unless JSON converts   *)
(* them.  This last holds of a bare number too, although the code has it   *)
(* that "scalar function returns are advertised as path return" and path   *)
(* return "is treated as the scalar itself when metering"                  *)
(* (functions.go:299, schema.go:153): a func() uint is charged one unit.   *)
ChargedAsReturned ==
    LET result  == PrimaryResult(results)
        numbers == {l.value.n : l \in {m \in Numbers(result, Len(tracked)) :
                                         m.at = tracked /\ ~Unreachable(m)}}
    IN  calls = "settled" =>
          charge \in IF IsError(results) \/ numbers = {} THEN {1} ELSE numbers
=============================================================================
