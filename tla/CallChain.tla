------------------------------ MODULE CallChain ------------------------------
(***************************************************************************)
(* The call chain of one HTTP request: src/pkg/tracker/tracker.go,         *)
(* call.go and track.go, with beginTracking and finishTracking of          *)
(* src/pkg/middleware/middleware.go around the handler.                    *)
(*                                                                         *)
(* A call is made by the goroutine of the handler, nested in the calls     *)
(* that goroutine has in progress, or by a goroutine the handler started,  *)
(* which may outlive the request.  End writes the record of its call       *)
(* without the lock Snapshot holds, so a snapshot taken meanwhile may see  *)
(* the old, a torn or the new record.  What a call reserves and settles is *)
(* in FunctionMetering: here its allocation is denied or not.              *)
(***************************************************************************)
EXTENDS Integers, Sequences, FiniteSets

CONSTANT Fn     \* the calls made for the request

ASSUME FnAssumption == IsFiniteSet(Fn)

VARIABLES
    enabled,    \* tracker.IsEnabled()
    stage,      \* how far the middleware is with the request
    store,      \* the context carries a TrackingContext
    chain,      \* CallChain: each call and the state of its record
    live,       \* liveRecords: an index of the chain, and whose pointer it has
    report,     \* the snapshot handed to reportCallChain
    stack,      \* calls in progress on the handler's goroutine, innermost first
    pc,         \* how far each call is
    kind,       \* how it is instrumented: "bare" functions cannot refuse to run
    own,        \* made by the handler's goroutine
    rec,        \* the record that End or Track writes
    refused     \* its allocation was denied

request == <<enabled, stage, store, report>>
call    == <<kind, own, refused>>
vars    == <<request, chain, live, stack, pc, rec, call>>

Kind == {"hook", "bare", "track"}
RecordState == {"open", "torn", "final"}
Entry == [fn : Fn, st : RecordState]

TypeOK ==
    /\ enabled \in BOOLEAN /\ store \in BOOLEAN
    /\ stage \in {"arrived", "handling", "finishing", "done"}
    /\ chain \in Seq(Entry) /\ report \in Seq(Entry) /\ stack \in Seq(Fn)
    /\ live \subseteq [idx : 1 .. Len(chain), fn : Fn]
    /\ pc \in [Fn -> {"idle", "deciding", "running", "writing", "blocked", "done"}]
    /\ kind \in [Fn -> Kind] /\ own \in [Fn -> BOOLEAN]
    /\ rec \in [Fn -> {"none", "open", "final"}]
    /\ refused \in [Fn -> BOOLEAN]

-----------------------------------------------------------------------------
Init ==
    /\ enabled \in BOOLEAN
    /\ stage = "arrived" /\ store = FALSE
    /\ chain = <<>> /\ live = {} /\ report = <<>> /\ stack = <<>>
    /\ pc = [f \in Fn |-> "idle"]
    /\ kind = [f \in Fn |-> "hook"] /\ own = [f \in Fn |-> FALSE]
    /\ rec = [f \in Fn |-> "none"]
    /\ refused = [f \in Fn |-> FALSE]

Goto(f, l) == pc' = [pc EXCEPT ![f] = l]

\* The goroutine of f executes f itself, not a call nested in it.
Runs(f) == own[f] => stack # <<>> /\ Head(stack) = f

\* f returns to its caller.
Return(f) == stack' = IF own[f] THEN Tail(stack) ELSE stack

\* What the pointers in liveRecords show: a record being written may be torn.
Views == {v \in [Fn -> RecordState] :
            \A f \in Fn : v[f] = rec[f] \/ pc[f] = "writing" \/ rec[f] = "none"}

\* syncLiveRecordsLocked: every live record is copied to its place.
Synced(v) ==
    [i \in DOMAIN chain |->
        IF \E l \in live : l.idx = i
        THEN LET l == CHOOSE l \in live : l.idx = i IN [fn |-> l.fn, st |-> v[l.fn]]
        ELSE chain[i]]

-----------------------------------------------------------------------------
(* The request *)

BeginTracking ==
    /\ stage = "arrived"
    /\ store' = enabled
    /\ stage' = "handling"
    /\ UNCHANGED <<enabled, chain, live, report, stack, pc, rec, call>>

(* The handler returns or panics, or the request never reached it. *)
HandlerEnds ==
    /\ stage = "handling"
    /\ stack = <<>>
    /\ stage' = "finishing"
    /\ UNCHANGED <<enabled, store, chain, live, report, stack, pc, rec, call>>

\* Mutant: the snapshot copies the chain as it is.
FinishUnsynced ==
    /\ stage = "finishing"
    /\ report' = IF store /\ enabled THEN chain ELSE report
    /\ stage' = "done"
    /\ UNCHANGED <<enabled, store, chain, live, stack, pc, rec, call>>

(* finishTracking: a snapshot of the chain is sent, if discovery is on. *)
Finish ==
    /\ stage = "finishing"
    /\ \/ ~(store /\ enabled) /\ UNCHANGED <<chain, report>>
       \/ /\ store /\ enabled
          /\ \E v \in Views : chain' = Synced(v)
          /\ report' = chain'
    /\ stage' = "done"
    /\ UNCHANGED <<enabled, store, live, stack, pc, rec, call>>

(* The application looks at the chain itself. *)
GetCallChain ==
    /\ stage # "arrived"
    /\ store
    /\ \E v \in Views : chain' = Synced(v)
    /\ UNCHANGED <<request, live, stack, pc, rec, call>>

(* The server switches discovery on and off between any two steps. *)
DiscoveryChanges ==
    /\ enabled' = ~enabled
    /\ UNCHANGED <<stage, store, report, chain, live, stack, pc, rec, call>>

-----------------------------------------------------------------------------
(* A call begins *)

\* Who may call f now: the innermost call of the handler, which is running,
\* or a goroutine of the handler, at any time from then on.
Called(f, mine) ==
    /\ pc[f] = "idle"
    /\ own' = [own EXCEPT ![f] = mine]
    /\ IF mine THEN /\ stage = "handling"
                    /\ stack # <<>> => pc[Head(stack)] = "running"
                    /\ stack' = <<f>> \o stack
               ELSE stage # "arrived" /\ UNCHANGED stack

(* No store or switched off: BeginCall and Track pass the call through. *)
BeginUntracked(f, mine) ==
    /\ Called(f, mine)
    /\ ~(enabled /\ store)
    /\ \E k \in Kind : kind' = [kind EXCEPT ![f] = k]
    /\ Goto(f, "running")
    /\ UNCHANGED <<request, chain, live, rec, refused>>

(* BeginCall: the record joins the chain, and its pointer the live ones. *)
BeginCall(f, mine) ==
    /\ Called(f, mine)
    /\ enabled /\ store
    /\ \E k \in {"hook", "bare"} : kind' = [kind EXCEPT ![f] = k]
    /\ rec' = [rec EXCEPT ![f] = "open"]
    /\ chain' = Append(chain, [fn |-> f, st |-> "open"])
    /\ live' = live \cup {[idx |-> Len(chain) + 1, fn |-> f]}
    /\ Goto(f, "deciding")
    /\ UNCHANGED <<request, refused>>

(* Track: the record is made when the function has returned. *)
TrackBegins(f, mine) ==
    /\ Called(f, mine)
    /\ enabled /\ store
    /\ kind' = [kind EXCEPT ![f] = "track"]
    /\ rec' = [rec EXCEPT ![f] = "open"]
    /\ Goto(f, "running")
    /\ UNCHANGED <<request, chain, live, refused>>

(* onFunctionStart lets the call run ... *)
Proceeds(f) ==
    /\ pc[f] = "deciding" /\ Runs(f)
    /\ Goto(f, "running")
    /\ UNCHANGED <<request, chain, live, stack, rec, call>>

(* ... or denies it, and BeginCall returns no Call: the injected code      *)
(* returns the error or aborts the HTTP request, where it can.             *)
Denied(f) ==
    /\ pc[f] = "deciding" /\ Runs(f)
    /\ refused' = [refused EXCEPT ![f] = TRUE]
    /\ \/ kind[f] = "hook" /\ Goto(f, "blocked") /\ Return(f)
       \/ kind[f] = "bare" /\ Goto(f, "running") /\ UNCHANGED stack
    /\ UNCHANGED <<request, chain, live, rec, kind, own>>

-----------------------------------------------------------------------------
(* A call ends *)

\* End has a record to write: the call is tracked and was not denied.
HasRecord(f) == kind[f] # "track" /\ rec[f] = "open" /\ ~refused[f]

(* The function returns or panics: the deferred End begins to write ... *)
EndBegins(f) ==
    /\ pc[f] = "running" /\ Runs(f)
    /\ HasRecord(f)
    /\ Goto(f, "writing")
    /\ UNCHANGED <<request, chain, live, stack, rec, call>>

(* ... and has written, without a lock. *)
EndWrites(f) ==
    /\ pc[f] = "writing" /\ Runs(f)
    /\ rec' = [rec EXCEPT ![f] = "final"]
    /\ Goto(f, "done") /\ Return(f)
    /\ UNCHANGED <<request, chain, live, call>>

(* Nothing to record, or a tracked function that panics. *)
EndsUnrecorded(f) ==
    /\ pc[f] = "running" /\ Runs(f)
    /\ ~HasRecord(f)
    /\ Goto(f, "done") /\ Return(f)
    /\ UNCHANGED <<request, chain, live, rec, call>>

\* Mutant: the record goes to the front of the chain.
TrackAppendsInFront(f) ==
    /\ pc[f] = "running" /\ Runs(f)
    /\ kind[f] = "track" /\ rec[f] = "open"
    /\ rec' = [rec EXCEPT ![f] = "final"]
    /\ chain' = <<[fn |-> f, st |-> "final"]>> \o chain
    /\ Goto(f, "done") /\ Return(f)
    /\ UNCHANGED <<request, live, call>>

(* Track appends its record. *)
TrackAppends(f) ==
    /\ pc[f] = "running" /\ Runs(f)
    /\ kind[f] = "track" /\ rec[f] = "open"
    /\ rec' = [rec EXCEPT ![f] = "final"]
    /\ chain' = Append(chain, [fn |-> f, st |-> "final"])
    /\ Goto(f, "done") /\ Return(f)
    /\ UNCHANGED <<request, live, call>>

-----------------------------------------------------------------------------
CallBegins(f) ==
    \E mine \in BOOLEAN :
        BeginUntracked(f, mine) \/ BeginCall(f, mine) \/ TrackBegins(f, mine)

CallStep(f) ==
    \/ Proceeds(f) \/ Denied(f)
    \/ EndBegins(f) \/ EndWrites(f) \/ EndsUnrecorded(f) \/ TrackAppends(f)

Next ==
    \/ BeginTracking \/ HandlerEnds \/ Finish \/ GetCallChain \/ DiscoveryChanges
    \/ \E f \in Fn : CallBegins(f) \/ CallStep(f)

Spec == Init /\ [][Next]_vars

-----------------------------------------------------------------------------
(* Properties *)

(* Every live record points at the entry of its own call, however many     *)
(* goroutines append, and no call has two entries (AppendPtr, Append).     *)
LiveIndexed ==
    /\ \A l \in live : chain[l.idx].fn = l.fn
    /\ \A i, j \in DOMAIN chain : chain[i].fn = chain[j].fn => i = j

\* f has no record: it was not tracked, or is a tracked function that panicked.
Unrecorded(f) == rec[f] = "none" \/ (kind[f] = "track" /\ rec[f] = "open")

(* The report has every tracked call of the handler's goroutine exactly    *)
(* once, with its outcome and never half written, however calls nest,      *)
(* panic, are denied, and overlap with calls of other goroutines or with   *)
(* earlier snapshots (Snapshot and syncLiveRecordsLocked).                 *)
ReportFaithful ==
    [][stage = "finishing" /\ stage' = "done" /\ store /\ enabled =>
         \A f \in Fn : own[f] =>
           LET listed == {i \in DOMAIN report' : report'[i].fn = f} IN
           IF Unrecorded(f) THEN listed = {}
           ELSE \E i \in listed : listed = {i} /\ report'[i].st = rec[f]]_vars

=============================================================================
