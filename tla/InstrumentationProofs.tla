---------------------- MODULE InstrumentationProofs -------------------------
(***************************************************************************)
(* Proofs about instrumented functions: how their calls are metered        *)
(* (FunctionMetering), and how they get their hooks (RewriteFile).  The    *)
(* invariants of the runs are not inductive.  Of the metering, IInv adds   *)
(* what the control state says about the locals of the call, and that the  *)
(* policies are those it looked up unless they changed; of the rewriter,   *)
(* RewriteInv says which functions have been found and which have a hook,  *)
(* and ShapeInv what each function of the file has become.  Whether it     *)
(* compiles then is a question about the names of that one function.       *)
(***************************************************************************)
EXTENDS FunctionMetering, RewriteFile, FiniteSetTheorems, SequenceTheorems, TLAPS

-----------------------------------------------------------------------------
(* The metering of calls *)

Before(l) == pc \in {"idle", "deciding", "checking"} \cup l

\* The ledger id is settled before the handler runs.
LedgerInv ==
    /\ stage = "routing" => ledger = "unknown"
    /\ stage = "allocating" => ledger = "requestId"
    /\ stage = "handling" /\ ledger = "unknown" => bypassed
    /\ pc # "idle" => stage = "handling"

\* What the call has asked for and got.
AskInv ==
    /\ Before({}) => reserved = "none" /\ alias = "none" /\ ~denied
    /\ Before({"asking"}) => ~held /\ ~denied /\ settled = "none"
    /\ reserved # "none" /\ policy \in Measured => reserved = "large"
    /\ pc = "asking" => policy \in Limited /\ reserved # "none"
    /\ held /\ policy \in Limited => granted

\* Only a call with an allocation id comes to settle.
EndInv ==
    /\ pc \in {"settling", "measuring"} => held
    /\ settled # "none" => held /\ pc = "done"
    /\ denied => ~held

\* The policies are those the call found.
FreshInv ==
    ~stale /\ pc \notin {"idle", "deciding"} =>
        policies \subseteq {policy}

IInv ==
    /\ TypeOK /\ LedgerInv /\ AskInv /\ EndInv /\ FreshInv
    /\ DeniedNeverRuns /\ SettledWasGranted /\ MeasuredWasReserved /\ ChargedToRequest

-----------------------------------------------------------------------------
(* At most one element: the choice of the map is no choice. *)
LEMMA FewPolicies ==
    ASSUME NEW S \in SUBSET Policy, ~(Cardinality(S) > 1), NEW p \in S
    PROVE  S \subseteq {p}
<1>1. IsFiniteSet(Policy)
  <2>1. Policy = {"plain"} \cup ({"limited", "limitedMeasured"} \cup {"measured", "limitedMeasured"})
    BY DEF Policy, Limited, Measured
  <2>2. IsFiniteSet({"plain"}) /\ IsFiniteSet({"limited"}) /\ IsFiniteSet({"limitedMeasured"}) /\ IsFiniteSet({"measured"})
    BY FS_Singleton
  <2>3. IsFiniteSet({"limited"} \cup {"limitedMeasured"}) /\ IsFiniteSet({"measured"} \cup {"limitedMeasured"})
    BY <2>2, FS_Union
  <2>4. IsFiniteSet(({"limited"} \cup {"limitedMeasured"}) \cup ({"measured"} \cup {"limitedMeasured"}))
    BY <2>3, FS_Union
  <2>5. IsFiniteSet({"plain"} \cup (({"limited"} \cup {"limitedMeasured"}) \cup ({"measured"} \cup {"limitedMeasured"})))
    BY <2>2, <2>4, FS_Union
  <2>6. Policy = {"plain"} \cup (({"limited"} \cup {"limitedMeasured"}) \cup ({"measured"} \cup {"limitedMeasured"}))
    BY <2>1
  <2> QED BY <2>5, <2>6
<1>2. IsFiniteSet(S) BY <1>1, FS_Subset
<1>3. SUFFICES ASSUME NEW q \in S, q # p PROVE FALSE OBVIOUS
<1>4. IsFiniteSet({p, q}) /\ Cardinality({p, q}) = 2
  <2>1. IsFiniteSet({p}) /\ Cardinality({p}) = 1 BY FS_Singleton
  <2>2. IsFiniteSet({p} \cup {q}) /\ Cardinality({p} \cup {q}) = Cardinality({p}) + 1
    BY <1>3, <2>1, FS_AddElement
  <2>3. {p, q} = {p} \cup {q} OBVIOUS
  <2> QED BY <2>1, <2>2, <2>3
<1>5. {p, q} \subseteq S OBVIOUS
<1>6. Cardinality({p, q}) <= Cardinality(S) BY <1>2, <1>5, FS_Subset
<1>7. Cardinality(S) \in Nat BY <1>2, FS_CardinalityType
<1> QED BY <1>4, <1>6, <1>7

LEMMA Initially == Init => IInv
BY DEF Init, IInv, TypeOK, LedgerInv, AskInv, EndInv, FreshInv, Before, DeniedNeverRuns,
       SettledWasGranted, MeasuredWasReserved, ChargedToRequest, Policy, Limited, Measured

LEMMA Inductive == IInv /\ [Next]_vars => IInv'
<1> SUFFICES ASSUME IInv, [Next]_vars PROVE IInv' OBVIOUS
<1> USE DEF IInv, TypeOK, LedgerInv, AskInv, EndInv, FreshInv, Before, DeniedNeverRuns,
            SettledWasGranted, MeasuredWasReserved, ChargedToRequest
<1>1. CASE Bypass
  BY <1>1 DEF Bypass, shared, request, call, Policy, Limited, Measured
<1>2. CASE Monitor
  BY <1>2 DEF Monitor, shared, request, call, Policy, Limited, Measured
<1>3. CASE Allocate
  BY <1>3 DEF Allocate, shared, request, call, Policy, Limited, Measured
<1>4. CASE AllocateFails
  BY <1>4 DEF AllocateFails, shared, request, call, Policy, Limited, Measured
<1>5. CASE Begin
  BY <1>5 DEF Begin, shared, request, call, Policy, Limited, Measured
<1>6. CASE StartSkipped
  BY <1>6 DEF StartSkipped, shared, request, call, Policy, Limited, Measured
<1>7. CASE StartMetered
  <2>1. policies' \subseteq {policy'} \/ stale'
    <3>1. CASE policies = {}
      BY <1>7, <3>1 DEF StartMetered, shared
    <3>2. CASE policies # {}
      <4>1. policy' \in policies /\ policies' = policies
        BY <1>7, <3>2 DEF StartMetered, shared
      <4>2. CASE Cardinality(policies) > 1
        BY <1>7, <4>2 DEF StartMetered
      <4>3. CASE ~(Cardinality(policies) > 1)
        BY <4>1, <4>3, FewPolicies
      <4> QED BY <4>2, <4>3
    <3> QED BY <3>1, <3>2
  <2>2. policy' \in Policy \cup {"none"}
    BY <1>7 DEF StartMetered
  <2>3. stale' \in BOOLEAN
    BY <1>7 DEF StartMetered
  <2> HIDE DEF Policy, Limited, Measured
  <2> QED BY <1>7, <2>1, <2>2, <2>3 DEF StartMetered, shared, request
<1>8. CASE StartOffline
  BY <1>8 DEF StartOffline, shared, request, call, Policy, Limited, Measured
<1>9. CASE Announce
  BY <1>9 DEF Announce, Ask, shared, request, call, Policy, Limited, Measured
<1>10. CASE AskFirst
  BY <1>10 DEF AskFirst, Ask, shared, request, call, Policy, Limited, Measured
<1>11. CASE Granted
  BY <1>11 DEF Granted, shared, request, call, Policy, Limited, Measured
<1>12. CASE Unanswered
  BY <1>12 DEF Unanswered, shared, request, call, Policy, Limited, Measured
<1>13. CASE Denied
  BY <1>13 DEF Denied, shared, request, call, Policy, Limited, Measured
<1>14. CASE End
  BY <1>14 DEF End, shared, request, call, Policy, Limited, Measured
<1>15. CASE SettleOffline
  BY <1>15 DEF SettleOffline, shared, request, call, Policy, Limited, Measured
<1>16. CASE SettleOnline
  BY <1>16 DEF SettleOnline, shared, request, call, Policy, Limited, Measured
<1>17. CASE Settle
  BY <1>17 DEF Settle, shared, request, call, Policy, Limited, Measured
<1>18. CASE PoliciesChange
  <2>1. stale' \in BOOLEAN
    BY <1>18, Zenon DEF PoliciesChange
  <2>2. ~stale' => ~stale /\ policies' = policies
    BY <1>18, Zenon DEF PoliciesChange
  <2>3. stale => stale'
    BY <1>18, Zenon DEF PoliciesChange
  <2>4. /\ policies' \in SUBSET Policy
        /\ UNCHANGED <<up, reportAll, request, pc, call, granted, denied>>
    BY <1>18 DEF PoliciesChange
  <2> HIDE DEF Policy
  <2> QED BY <2>1, <2>2, <2>3, <2>4 DEF request, call, Limited, Measured
<1>19. CASE AppConfigChanges
  BY <1>19 DEF AppConfigChanges, shared, request, call, Policy, Limited, Measured
<1>20. CASE ConnectionChanges
  BY <1>20 DEF ConnectionChanges, shared, request, call, Policy, Limited, Measured
<1>21. CASE UNCHANGED vars
  BY <1>21 DEF vars, shared, request, call
<1> QED
  BY <1>1, <1>2, <1>3, <1>4, <1>5, <1>6, <1>7, <1>8, <1>9, <1>10, <1>11, <1>12, <1>13, <1>14, <1>15, <1>16, <1>17, <1>18, <1>19, <1>20, <1>21 DEF Next, RequestStep, CallStep

LEMMA Invariance == Spec => []IInv
BY Initially, Inductive, PTL DEF Spec

-----------------------------------------------------------------------------
(* Every variable keeps its type, and an allocation id is only held once   *)
(* something was asked for.                                                *)
THEOREM TypeCorrect == Spec => []TypeOK
BY Invariance, PTL DEF IInv

(* A denied call is neither run, where it can refuse, nor settled.         *)
THEOREM DenialHolds == Spec => []DeniedNeverRuns
BY Invariance, PTL DEF IInv

(* No rate-limited call is settled without a reservation at the server.    *)
THEOREM SettlementBacked == Spec => []SettledWasGranted
BY Invariance, PTL DEF IInv

(* A measured amount has a large reservation behind it unless the policies *)
(* changed or were ambiguous.                                              *)
THEOREM MeasureBacked == Spec => []MeasuredWasReserved
BY Invariance, PTL DEF IInv

(* A call is charged to the ledger id its request ends up with.            *)
THEOREM ChargeFollowsRequest == Spec => []ChargedToRequest
BY Invariance, PTL DEF IInv

-----------------------------------------------------------------------------
(* The rewriting of files *)

\* What a function stays through all of it.
IsFunction(fn) ==
    /\ fn = [params |-> fn.params, results |-> fn.results, bound |-> fn.bound,
             locals |-> fn.locals, free |-> fn.free,
             own |-> fn.own, body |-> fn.body, hooks |-> fn.hooks]
    /\ \E S : fn.params \in Seq(S)
    /\ fn.params # <<>> =>
         fn.params[1] = [type |-> fn.params[1].type, name |-> fn.params[1].name]
    /\ fn.own \in BOOLEAN /\ fn.body \in BOOLEAN

IsFile(fs) == (\E T : fs \in Seq(T)) /\ \A i \in 1 .. Len(fs) : IsFunction(fs[i])

\* A function that ought to have a hook.
Wants(fn) == fn.body /\ TakesContext(fn) /\ ~fn.own

Unhooked(fn) == fn.hooks = <<>>
OneHook(fn)  == \E h : fn.hooks = <<h>>

\* A file as somebody wrote it, and as it is when the rewriter is done.
Fresh(fs)    == \A i \in 1 .. Len(fs) : Unhooked(fs[i])
Finished(fs) ==
    \A i \in 1 .. Len(fs) :
        IF ~skipped /\ Wants(fs[i]) THEN OneHook(fs[i]) ELSE Unhooked(fs[i])

SourceInv == IsFile(source) /\ (Fresh(source) \/ Finished(source))

\* The rewriter does not change what a function wants.
FileInv ==
    /\ IsFile(file) /\ Len(file) = Len(source)
    /\ \A i \in 1 .. Len(file) : Wants(file[i]) <=> Wants(source[i])

Due(i) == Wants(source[i]) /\ Unhooked(source[i])

\* The targets are the functions up to some position that still want a hook.
TargetsInv(last) ==
    /\ targets \in Seq(1 .. Len(source))
    /\ \A j \in 1 .. Len(targets) : targets[j] <= last /\ Due(targets[j])
    /\ \A j, k \in 1 .. Len(targets) : targets[j] = targets[k] => j = k
    /\ \A i \in 1 .. Len(source) :
         i <= last /\ Due(i) => \E j \in 1 .. Len(targets) : targets[j] = i

ScanInv ==
    /\ next \in 1 .. Len(source) + 1
    /\ TargetsInv(next - 1)
    /\ skipped => targets = <<>>
    /\ \A i \in 1 .. Len(file) : file[i].hooks = source[i].hooks

\* The first of the targets have their hooks, the other functions what they had.
InjectInv ==
    /\ ~skipped
    /\ next \in 1 .. Len(targets) + 1
    /\ TargetsInv(Len(source))
    /\ \A j \in 1 .. next - 1 : OneHook(file[targets[j]])
    /\ \A i \in 1 .. Len(file) :
         (\A j \in 1 .. next - 1 : targets[j] # i) => file[i].hooks = source[i].hooks

RewriteInv ==
    /\ SourceInv /\ FileInv
    /\ phase \in {"scan", "inject", "done"}
    /\ phase = "scan" => ScanInv
    /\ phase = "inject" => InjectInv
    /\ phase = "done" => Finished(file)

\* A file with one function replaced is a file.
LEMMA Replaced ==
    ASSUME NEW fs, IsFile(fs), NEW k \in 1 .. Len(fs), NEW fn, IsFunction(fn)
    PROVE  /\ IsFile([fs EXCEPT ![k] = fn])
           /\ Len([fs EXCEPT ![k] = fn]) = Len(fs)
           /\ [fs EXCEPT ![k] = fn][k] = fn
           /\ \A i \in 1 .. Len(fs) : i # k => [fs EXCEPT ![k] = fn][i] = fs[i]
<1> DEFINE new == [fs EXCEPT ![k] = fn]
<1>1. PICK T : fs \in Seq(T)
  BY DEF IsFile
<1>2. fs \in Seq(T \cup {fn})
  BY <1>1, SeqMonotonic
<1>3. /\ Len(fs) \in Nat /\ DOMAIN fs = 1 .. Len(fs)
  BY <1>1, LenProperties
<1>4. new \in Seq(T \cup {fn}) /\ Len(new) = Len(fs) /\ new[k] = fn
      /\ \A i \in 1 .. Len(fs) : i # k => new[i] = fs[i]
  BY <1>2, <1>3, ExceptSeq
<1>5. \A i \in 1 .. Len(new) : IsFunction(new[i])
  BY <1>3, <1>4 DEF IsFile
<1> QED
  BY <1>4, <1>5 DEF IsFile

\* A sequence with another first element.
LEMMA FirstReplaced ==
    ASSUME NEW S, NEW s \in Seq(S), s # <<>>, NEW e \in S
    PROVE  /\ s[1] \in S /\ [s EXCEPT ![1] = e] \in Seq(S)
           /\ [s EXCEPT ![1] = e] # <<>> /\ [s EXCEPT ![1] = e][1] = e
<1>1. Len(s) \in Nat \ {0}
  BY EmptySeq
<1>2. 1 \in 1 .. Len(s)
  BY <1>1
<1>3. /\ [s EXCEPT ![1] = e] \in Seq(S)
      /\ Len([s EXCEPT ![1] = e]) = Len(s)
      /\ [s EXCEPT ![1] = e][1] = e
  BY <1>2, ExceptSeq
<1>4. s[1] \in S
  BY <1>2, ElementOfSeq
<1>5. [s EXCEPT ![1] = e] # <<>>
  BY <1>1, <1>3, EmptySeq
<1> QED
  BY <1>3, <1>4, <1>5

\* To name the first parameter changes nothing that counts.
LEMMA FirstNamedKeeps ==
    ASSUME NEW fn, IsFunction(fn)
    PROVE  /\ IsFunction(FirstNamed(fn))
           /\ FirstNamed(fn).hooks = fn.hooks
           /\ Wants(FirstNamed(fn)) <=> Wants(fn)
<1>1. CASE fn.params = <<>> \/ fn.params[1].name \notin {"", "_"}
  BY <1>1 DEF FirstNamed
<1>2. CASE fn.params # <<>> /\ fn.params[1].name \in {"", "_"}
  <2> DEFINE first == fn.params[1]
             given == IF first.name = "" THEN "ctx" ELSE "__ufCtx"
             other == [first EXCEPT !.name = given]
             ps    == [fn.params EXCEPT ![1] = other]
  <2>1. PICK S : fn.params \in Seq(S)
    BY DEF IsFunction
  <2>2. fn.params \in Seq(S \cup {other}) /\ fn.params # <<>>
    BY <1>2, <2>1, SeqMonotonic
  <2>3. first = [type |-> first.type, name |-> first.name]
    BY <1>2 DEF IsFunction
  <2>4. other = [type |-> first.type, name |-> given]
    <3> HIDE DEF given, first
    <3> QED BY <2>3
  <2>5. ps \in Seq(S \cup {other}) /\ ps # <<>> /\ ps[1] = other
    <3> HIDE DEF other
    <3> QED BY <2>2, FirstReplaced
  <2>6. FirstNamed(fn) = [fn EXCEPT !.params = ps]
    BY <1>2 DEF FirstNamed
  <2> HIDE DEF ps, other, given
  <2>7. FirstNamed(fn) =
          [params |-> ps, results |-> fn.results, bound |-> fn.bound,
           locals |-> fn.locals, free |-> fn.free,
           own |-> fn.own, body |-> fn.body, hooks |-> fn.hooks]
    BY <2>6 DEF IsFunction
  <2> DEFINE g == FirstNamed(fn)
  <2>8. /\ g.params = ps /\ g.results = fn.results
        /\ g.bound = fn.bound /\ g.locals = fn.locals /\ g.free = fn.free
        /\ g.own = fn.own /\ g.body = fn.body /\ g.hooks = fn.hooks
    BY <2>7
  <2>9. g = [params |-> g.params, results |-> g.results, bound |-> g.bound,
             locals |-> g.locals, free |-> g.free,
             own |-> g.own, body |-> g.body, hooks |-> g.hooks]
    BY <2>7, <2>8
  <2> HIDE DEF g, first
  <2>10. TakesContext(g) <=> TakesContext(fn)
    BY <2>2, <2>4, <2>5, <2>8 DEF TakesContext, first
  <2>11. /\ \E U : g.params \in Seq(U)
         /\ g.params[1] = [type |-> g.params[1].type, name |-> g.params[1].name]
    BY <2>4, <2>5, <2>8
  <2>12. IsFunction(g)
    BY <2>8, <2>9, <2>11 DEF IsFunction
  <2> QED
    BY <2>8, <2>10, <2>12 DEF Wants, g
<1> QED
  BY <1>1, <1>2

\* A hook is put before those a function has, and its results are given names.
LEMMA HookAdded ==
    ASSUME NEW fn, IsFunction(fn), NEW hook, NEW g,
           g = [params |-> g.params, results |-> g.results, bound |-> g.bound,
                locals |-> g.locals, free |-> g.free,
                own |-> g.own, body |-> g.body, hooks |-> g.hooks],
           g.params = fn.params, g.own = fn.own, g.body = fn.body,
           g.hooks = <<hook>> \o fn.hooks
    PROVE  /\ IsFunction(g)
           /\ Wants(g) <=> Wants(fn)
           /\ Unhooked(fn) => OneHook(g)
<1>1. IsFunction(g)
  BY DEF IsFunction
<1>2. Wants(g) <=> Wants(fn)
  BY DEF Wants, TakesContext
<1>3. ASSUME Unhooked(fn) PROVE OneHook(g)
  <2>1. <<hook>> \in Seq({hook})
    OBVIOUS
  <2>2. g.hooks = <<hook>>
    BY <1>3, <2>1, ConcatEmptySeq DEF Unhooked
  <2> QED BY <2>2 DEF OneHook
<1> QED
  BY <1>1, <1>2, <1>3

\* What somebody wrote is a function without a hook.
LEMMA WrittenFunction ==
    ASSUME NEW fn \in Written
    PROVE  IsFunction(fn) /\ Unhooked(fn)
<1>1. fn = [params |-> fn.params, results |-> fn.results, bound |-> fn.bound,
            locals |-> fn.locals, free |-> fn.free,
            own |-> fn.own, body |-> fn.body, hooks |-> fn.hooks]
  BY DEF Written
<1>2. fn.params \in Fields /\ fn.own \in BOOLEAN /\ fn.body \in BOOLEAN /\ fn.hooks = <<>>
  BY DEF Written
<1>3. ASSUME fn.params # <<>>
      PROVE  fn.params[1] = [type |-> fn.params[1].type, name |-> fn.params[1].name]
  <2> DEFINE F == [type : STRING, name : STRING]
  <2>1. fn.params \in Seq(F)
    BY <1>2 DEF Fields
  <2>2. fn.params[1] \in F
    <3> HIDE DEF F
    <3>1. Len(fn.params) \in Nat \ {0}
      BY <1>3, <2>1, EmptySeq
    <3> QED BY <2>1, <3>1, ElementOfSeq
  <2> QED BY <2>2
<1> QED
  BY <1>1, <1>2, <1>3 DEF IsFunction, Unhooked, Fields

LEMMA InitRewrite == RewriteInit => RewriteInv
<1> SUFFICES ASSUME RewriteInit PROVE RewriteInv
  OBVIOUS
<1>1. source \in Seq(Written) /\ file = source
  BY FilesAssumption DEF RewriteInit
<1>2. Len(source) \in Nat
  BY <1>1, LenProperties
<1>3. \A i \in 1 .. Len(source) : IsFunction(source[i]) /\ Unhooked(source[i])
  BY <1>1, ElementOfSeq, WrittenFunction
<1>4. IsFile(source) /\ Fresh(source)
  BY <1>1, <1>3 DEF IsFile, Fresh
<1>5. SourceInv /\ FileInv
  BY <1>1, <1>4 DEF SourceInv, FileInv
<1>6. next = 1 /\ targets = <<>> /\ phase = "scan"
  BY DEF RewriteInit
<1>7. TargetsInv(0)
  <2>1. targets \in Seq(1 .. Len(source)) /\ Len(targets) = 0
    BY <1>6, EmptySeq
  <2> QED BY <1>2, <2>1 DEF TargetsInv
<1>8. ScanInv
  BY <1>1, <1>2, <1>6, <1>7 DEF ScanInv
<1> QED
  BY <1>5, <1>6, <1>8 DEF RewriteInv

LEMMA SourceLength == ASSUME SourceInv PROVE Len(source) \in Nat
BY LenProperties DEF SourceInv, IsFile

\* A function that keeps its hooks has as many as it wants, unless it is due one.
LEMMA Content ==
    ASSUME SourceInv, NEW i \in 1 .. Len(source), skipped \/ ~Due(i),
           NEW fn, Wants(fn) <=> Wants(source[i]), fn.hooks = source[i].hooks
    PROVE  IF ~skipped /\ Wants(fn) THEN OneHook(fn) ELSE Unhooked(fn)
BY DEF SourceInv, Fresh, Finished, Due, OneHook, Unhooked

LEMMA SourceStays ==
    ASSUME SourceInv, source' = source, skipped' = skipped
    PROVE  SourceInv'
BY DEF SourceInv, Fresh, Finished

LEMMA PassesOver == ASSUME RewriteInv, PassOver PROVE RewriteInv'
<1>1. /\ SourceInv /\ FileInv /\ ScanInv
      /\ next \in 1 .. Len(source) /\ ~file[next].body /\ next' = next + 1
      /\ UNCHANGED <<source, file, skipped, targets, phase>> /\ phase = "scan"
  BY DEF RewriteInv, PassOver, Scanning, Current, ScanInv, FileInv
<1>2. Len(source) \in Nat
  BY <1>1, SourceLength
<1>3. ~Due(next)
  BY <1>1 DEF FileInv, Due, Wants
<1>4. TargetsInv(next - 1)'
  BY <1>1, <1>2, <1>3 DEF ScanInv, TargetsInv, Due
<1>5. ScanInv'
  BY <1>1, <1>2, <1>4 DEF ScanInv
<1>6. SourceInv' /\ FileInv'
  BY <1>1, SourceStays DEF FileInv
<1> QED
  BY <1>1, <1>5, <1>6 DEF RewriteInv

LEMMA Visits == ASSUME RewriteInv, Visit PROVE RewriteInv'
<1> DEFINE fn == file[next]
<1>1. /\ SourceInv /\ FileInv /\ ScanInv
      /\ next \in 1 .. Len(source) /\ Len(file) = Len(source) /\ fn.body /\ next' = next + 1
      /\ UNCHANGED <<source, skipped, phase>> /\ phase = "scan" /\ ~skipped
  BY DEF RewriteInv, Visit, Scanning, Current, ScanInv, FileInv
<1>2. Len(source) \in Nat
  BY <1>1, SourceLength
<1>3. /\ IsFunction(FirstNamed(fn)) /\ FirstNamed(fn).hooks = fn.hooks
      /\ Wants(FirstNamed(fn)) <=> Wants(fn)
  BY <1>1, FirstNamedKeeps DEF FileInv, IsFile
<1>4. file' = [file EXCEPT ![next] = FirstNamed(fn)]
  BY DEF Visit
<1>5. /\ IsFile(file') /\ Len(file') = Len(file) /\ file'[next] = FirstNamed(fn)
      /\ \A i \in 1 .. Len(file) : i # next => file'[i] = file[i]
  <2>1. IsFile(file) /\ next \in 1 .. Len(file)
    BY <1>1 DEF FileInv
  <2>2. PICK f : f = FirstNamed(fn)
    OBVIOUS
  <2>3. IsFunction(f) /\ file' = [file EXCEPT ![next] = f]
    BY <1>3, <1>4, <2>2
  <2>4. IsFile(file') /\ Len(file') = Len(file)
    BY <2>1, <2>3, Replaced
  <2>5. file'[next] = f
    BY <2>1, <2>3, Replaced
  <2>6. \A i \in 1 .. Len(file) : i # next => file'[i] = file[i]
    BY <2>1, <2>3, Replaced
  <2> QED BY <2>2, <2>4, <2>5, <2>6
<1>6. \A i \in 1 .. Len(file) :
        file'[i].hooks = file[i].hooks /\ (Wants(file'[i]) <=> Wants(file[i]))
  BY <1>3, <1>5
<1>7. SourceInv' /\ FileInv'
  <2>1. SourceInv'
    BY <1>1, SourceStays
  <2>2. \A i \in 1 .. Len(file') : Wants(file'[i]) <=> Wants(source'[i])
    BY <1>1, <1>5, <1>6 DEF FileInv
  <2> QED BY <1>1, <1>5, <2>1, <2>2 DEF FileInv
<1>8. (TakesContext(fn) /\ ~Instrumented(fn)) <=> Due(next)
  BY <1>1 DEF Due, Wants, Unhooked, Instrumented, FileInv, ScanInv
<1>9. targets' = IF Due(next) THEN Append(targets, next) ELSE targets
  BY <1>8 DEF Visit, Current
<1>10. targets \in Seq(1 .. Len(source)) /\ Len(targets) \in Nat
  BY <1>1, LenProperties DEF ScanInv, TargetsInv
<1>11. TargetsInv(next - 1)'
  <2>1. CASE Due(next)
    <3>1. /\ targets' \in Seq(1 .. Len(source)) /\ Len(targets') = Len(targets) + 1
          /\ targets'[Len(targets) + 1] = next
          /\ \A j \in 1 .. Len(targets) : targets'[j] = targets[j]
      BY <1>1, <1>9, <1>10, <2>1, AppendProperties
    <3>2. /\ \A j \in 1 .. Len(targets) : targets[j] <= next - 1 /\ Due(targets[j])
          /\ \A j, k \in 1 .. Len(targets) : targets[j] = targets[k] => j = k
          /\ \A i \in 1 .. Len(source) :
               i <= next - 1 /\ Due(i) => \E j \in 1 .. Len(targets) : targets[j] = i
      BY <1>1 DEF ScanInv, TargetsInv
    <3>3. \A j \in 1 .. Len(targets) : targets[j] \in 1 .. Len(source)
      BY <1>10, ElementOfSeq
    <3>4. \A j \in 1 .. Len(targets') : j \in 1 .. Len(targets) \/ j = Len(targets) + 1
      BY <1>10, <3>1
    <3>5. ASSUME NEW j \in 1 .. Len(targets')
          PROVE  targets'[j] <= next /\ Due(targets'[j])
      <4>1. CASE j \in 1 .. Len(targets)
        <5>1. targets'[j] = targets[j] /\ targets[j] <= next - 1 /\ Due(targets[j])
          BY <3>1, <3>2, <4>1
        <5>2. targets[j] \in Nat /\ next \in Nat
          BY <1>1, <1>2, <3>3, <4>1
        <5> QED BY <5>1, <5>2
      <4>2. CASE j = Len(targets) + 1
        BY <1>1, <2>1, <3>1, <4>2
      <4> QED BY <3>4, <4>1, <4>2
    <3>6. ASSUME NEW j \in 1 .. Len(targets'), NEW k \in 1 .. Len(targets'),
                 targets'[j] = targets'[k]
          PROVE  j = k
      <4>1. \A m \in 1 .. Len(targets) : targets'[m] # next
        BY <1>1, <1>2, <3>1, <3>2, <3>3
      <4> QED BY <3>1, <3>2, <3>6, <3>4, <4>1
    <3>7. ASSUME NEW i \in 1 .. Len(source), i <= next, Due(i)
          PROVE  \E j \in 1 .. Len(targets') : targets'[j] = i
      <4>1. CASE i = next
        BY <1>10, <3>1, <4>1
      <4>2. CASE i # next
        <5> i <= next - 1
          BY <1>1, <1>2, <3>7, <4>2
        <5>1. PICK j \in 1 .. Len(targets) : targets[j] = i
          BY <3>2, <3>7
        <5> QED BY <1>10, <3>1, <5>1
      <4> QED BY <4>1, <4>2
    <3>8. next' - 1 = next /\ source' = source
      BY <1>1, <1>2
    <3> QED BY <3>1, <3>5, <3>6, <3>7, <3>8 DEF TargetsInv, Due
  <2>2. CASE ~Due(next)
    <3>1. targets' = targets /\ source' = source /\ next' - 1 = next
      BY <1>1, <1>2, <1>9, <2>2
    <3>2. /\ \A j \in 1 .. Len(targets) : targets[j] <= next - 1 /\ Due(targets[j])
          /\ \A j, k \in 1 .. Len(targets) : targets[j] = targets[k] => j = k
          /\ \A i \in 1 .. Len(source) :
               i <= next - 1 /\ Due(i) => \E j \in 1 .. Len(targets) : targets[j] = i
      BY <1>1 DEF ScanInv, TargetsInv
    <3>3. \A i \in 1 .. Len(source) : i <= next /\ Due(i) => i <= next - 1
      BY <1>1, <1>2, <2>2
    <3>4. \A j \in 1 .. Len(targets) : targets[j] <= next
      BY <1>1, <1>2, <1>10, <3>2, ElementOfSeq
    <3> QED BY <1>10, <3>1, <3>2, <3>3, <3>4 DEF TargetsInv, Due
  <2> QED BY <2>1, <2>2
<1>12. ScanInv'
  BY <1>1, <1>2, <1>5, <1>6, <1>11 DEF ScanInv
<1> QED
  BY <1>1, <1>7, <1>12 DEF RewriteInv

LEMMA LeavesAlone == ASSUME RewriteInv, LeaveAlone PROVE RewriteInv'
<1>1. /\ SourceInv /\ FileInv /\ ScanInv
      /\ skipped \/ (next > Len(file) /\ targets = <<>>)
      /\ file' = source /\ phase' = "done"
      /\ UNCHANGED <<source, skipped>>
  BY DEF RewriteInv, LeaveAlone
<1>2. Len(source) \in Nat
  BY <1>1, SourceLength
<1>3. ASSUME NEW i \in 1 .. Len(source) PROVE skipped \/ ~Due(i)
  <2>1. CASE skipped
    BY <2>1
  <2>2. CASE next > Len(file) /\ targets = <<>>
    <3>1. Len(targets) = 0
      BY <2>2, EmptySeq
    <3>2. next = Len(source) + 1
      BY <1>1, <1>2, <2>2 DEF ScanInv, FileInv
    <3> QED BY <1>1, <1>2, <3>1, <3>2 DEF ScanInv, TargetsInv
  <2> QED BY <1>1, <2>1, <2>2
<1>4. Finished(source)
  BY <1>1, <1>3, Content DEF Finished
<1>5. Finished(file)'
  BY <1>1, <1>4 DEF Finished
<1>6. SourceInv' /\ FileInv'
  BY <1>1, SourceStays DEF SourceInv, FileInv
<1> QED
  BY <1>1, <1>5, <1>6 DEF RewriteInv

LEMMA Imported == ASSUME RewriteInv, Import PROVE RewriteInv'
<1>1. /\ SourceInv /\ FileInv /\ ScanInv /\ ~skipped /\ next > Len(file)
      /\ UNCHANGED <<source, file, skipped, targets>> /\ next' = 1 /\ phase' = "inject"
  BY DEF RewriteInv, Import
<1>2. Len(source) \in Nat /\ Len(targets) \in Nat
  BY <1>1, SourceLength, LenProperties DEF ScanInv, TargetsInv
<1>3. next - 1 = Len(source)
  BY <1>1, <1>2 DEF ScanInv, FileInv
<1>4. TargetsInv(Len(source))'
  BY <1>1, <1>2, <1>3 DEF ScanInv, TargetsInv, Due
<1>5. InjectInv'
  BY <1>1, <1>2, <1>4 DEF ScanInv, InjectInv
<1>6. SourceInv' /\ FileInv'
  BY <1>1, SourceStays DEF FileInv
<1> QED
  BY <1>1, <1>5, <1>6 DEF RewriteInv

LEMMA Injects == ASSUME RewriteInv, Inject PROVE RewriteInv'
<1> DEFINE t     == targets[next]
           fn    == file[t]
           named == [fn EXCEPT !.results = Named(@)]
           hook  == Hook(named, next, imports)
<1>1. /\ SourceInv /\ FileInv /\ InjectInv
      /\ next \in 1 .. Len(targets) /\ next' = next + 1 /\ phase' = "inject"
      /\ UNCHANGED <<source, skipped, targets>>
      /\ file' = [file EXCEPT ![t] = [named EXCEPT !.hooks = <<hook>> \o @]]
  BY DEF RewriteInv, Inject, InjectInv
<1>2. /\ Len(source) \in Nat /\ targets \in Seq(1 .. Len(source)) /\ Len(targets) \in Nat
  BY <1>1, SourceLength, LenProperties DEF InjectInv, TargetsInv
<1>3. t \in 1 .. Len(source) /\ Due(t) /\ IsFile(file) /\ Len(file) = Len(source)
  BY <1>1, <1>2, ElementOfSeq DEF InjectInv, TargetsInv, FileInv
<1>4. \A j \in 1 .. Len(targets) : j # next => targets[j] # t
  BY <1>1 DEF InjectInv, TargetsInv
<1>5. Unhooked(fn)
  <2>1. \A j \in 1 .. next - 1 : j \in 1 .. Len(targets) /\ j # next
    <3> next \in 1 .. Len(targets) /\ Len(targets) \in Nat
      BY <1>1, <1>2
    <3> QED OBVIOUS
  <2>2. fn.hooks = source[t].hooks
    BY <1>1, <1>3, <1>4, <2>1 DEF InjectInv
  <2> QED BY <1>3, <2>2 DEF Due, Unhooked
<1>6. PICK g : g = [named EXCEPT !.hooks = <<hook>> \o @]
  OBVIOUS
<1>7. IsFunction(fn)
  BY <1>3 DEF IsFile
<1>8. IsFunction(g) /\ (Wants(g) <=> Wants(fn)) /\ OneHook(g)
  <2> HIDE DEF fn, hook
  <2>1. PICK results : results = Named(fn.results)
    OBVIOUS
  <2>2. g = [params |-> fn.params, results |-> results, bound |-> fn.bound,
             locals |-> fn.locals, free |-> fn.free,
             own |-> fn.own, body |-> fn.body, hooks |-> <<hook>> \o fn.hooks]
    BY <1>6, <1>7, <2>1 DEF IsFunction
  <2>3. /\ g.params = fn.params /\ g.results = results
        /\ g.bound = fn.bound /\ g.locals = fn.locals /\ g.free = fn.free
        /\ g.own = fn.own /\ g.body = fn.body /\ g.hooks = <<hook>> \o fn.hooks
    BY <2>2
  <2>4. g = [params |-> g.params, results |-> g.results, bound |-> g.bound,
             locals |-> g.locals, free |-> g.free,
             own |-> g.own, body |-> g.body, hooks |-> g.hooks]
    BY <2>2, <2>3
  <2> QED BY <1>5, <1>7, <2>3, <2>4, HookAdded
<1>9. file' = [file EXCEPT ![t] = g]
  BY <1>1, <1>6
<1> HIDE DEF t, fn, named, hook
<1>10. IsFile(file') /\ Len(file') = Len(file)
  <2>1. IsFile(file) /\ t \in 1 .. Len(file) /\ IsFunction(g)
    BY <1>3, <1>8
  <2>2. IsFile([file EXCEPT ![t] = g])
    BY <2>1, Replaced
  <2>3. Len([file EXCEPT ![t] = g]) = Len(file)
    BY <2>1, Replaced
  <2> QED BY <1>9, <2>2, <2>3
<1>11. file'[t] = g
  BY <1>3, <1>8, <1>9, Replaced
<1>12. \A i \in 1 .. Len(file) : i # t => file'[i] = file[i]
  BY <1>3, <1>8, <1>9, Replaced
<1>13. SourceInv' /\ FileInv'
  <2>1. SourceInv'
    BY <1>1, SourceStays
  <2>2. \A i \in 1 .. Len(file') : Wants(file'[i]) <=> Wants(file[i])
    BY <1>8, <1>10, <1>11, <1>12 DEF fn
  <2>3. \A i \in 1 .. Len(file') : Wants(file'[i]) <=> Wants(source'[i])
    BY <1>1, <1>10, <2>2 DEF FileInv
  <2> QED BY <1>1, <1>3, <1>10, <2>1, <2>3 DEF FileInv
<1>14. InjectInv'
  <2>1. TargetsInv(Len(source))'
    BY <1>1 DEF InjectInv, TargetsInv, Due
  <2>2. ASSUME NEW j \in 1 .. next PROVE OneHook(file'[targets[j]])
    <3>1. CASE j = next
      BY <1>8, <1>11, <3>1 DEF t
    <3>2. CASE j # next
      <4>1. j \in 1 .. next - 1 /\ j \in 1 .. Len(targets)
        BY <1>1, <1>2, <3>2
      <4>2. targets[j] \in 1 .. Len(file) /\ targets[j] # t
        BY <1>2, <1>3, <1>4, <3>2, <4>1, ElementOfSeq
      <4> QED BY <1>1, <1>12, <4>1, <4>2 DEF InjectInv
    <3> QED BY <3>1, <3>2
  <2>3. ASSUME NEW i \in 1 .. Len(file), \A j \in 1 .. next : targets[j] # i
        PROVE  file'[i].hooks = source[i].hooks
    <3>1. i # t
      BY <1>1, <1>2, <2>3 DEF t
    <3>2. \A j \in 1 .. next - 1 : targets[j] # i
      BY <1>1, <1>2, <2>3
    <3> QED BY <1>1, <1>12, <3>1, <3>2 DEF InjectInv
  <2>4. next' \in 1 .. Len(targets') + 1 /\ next' - 1 = next
    <3> next \in 1 .. Len(targets) /\ Len(targets) \in Nat /\ next' = next + 1
      BY <1>1, <1>2
    <3> targets' = targets
      BY <1>1
    <3> QED OBVIOUS
  <2> QED BY <1>1, <1>10, <2>1, <2>2, <2>3, <2>4 DEF InjectInv
<1> QED
  BY <1>1, <1>13, <1>14 DEF RewriteInv

LEMMA Formats == ASSUME RewriteInv, Format PROVE RewriteInv'
<1>1. /\ SourceInv /\ FileInv /\ InjectInv /\ ~skipped /\ next > Len(targets)
      /\ UNCHANGED <<source, file, skipped>> /\ phase' = "done"
  BY DEF RewriteInv, Format, InjectInv
<1>2. /\ Len(source) \in Nat /\ Len(targets) \in Nat /\ Len(file) = Len(source)
  BY <1>1, SourceLength, LenProperties DEF InjectInv, TargetsInv, FileInv
<1>3. next - 1 = Len(targets)
  BY <1>1, <1>2 DEF InjectInv
<1>4. ASSUME NEW i \in 1 .. Len(file)
      PROVE  IF ~skipped /\ Wants(file[i]) THEN OneHook(file[i]) ELSE Unhooked(file[i])
  <2>1. CASE \E j \in 1 .. Len(targets) : targets[j] = i
    <3>1. OneHook(file[i]) /\ Due(i)
      BY <1>1, <1>3, <2>1 DEF InjectInv, TargetsInv
    <3> QED BY <1>1, <3>1 DEF FileInv, Due
  <2>2. CASE \A j \in 1 .. Len(targets) : targets[j] # i
    <3>1. file[i].hooks = source[i].hooks
      BY <1>1, <1>3, <2>2 DEF InjectInv
    <3>2. ~Due(i)
      BY <1>1, <1>2, <2>2 DEF InjectInv, TargetsInv
    <3>3. Wants(file[i]) <=> Wants(source[i])
      BY <1>1 DEF FileInv
    <3> QED BY <1>1, <1>2, <3>1, <3>2, <3>3, Content
  <2> QED BY <2>1, <2>2
<1>5. Finished(file)'
  BY <1>1, <1>4 DEF Finished
<1>6. SourceInv' /\ FileInv'
  BY <1>1, SourceStays DEF FileInv
<1> QED
  BY <1>1, <1>5, <1>6 DEF RewriteInv

\* What the rewriter gets a second time is a file that needs no more hooks.
LEMMA BeginsAgain == ASSUME RewriteInv, Again PROVE RewriteInv'
<1>1. /\ IsFile(file) /\ Finished(file)
      /\ source' = file /\ file' = file /\ skipped' = skipped
      /\ next' = 1 /\ targets' = <<>> /\ phase' = "scan"
  BY DEF RewriteInv, Again, FileInv
<1>2. Len(file) \in Nat
  BY <1>1, LenProperties DEF IsFile
<1>3. SourceInv' /\ FileInv'
  BY <1>1 DEF SourceInv, FileInv, Finished
<1>4. TargetsInv(0)'
  <2>1. targets' \in Seq(1 .. Len(source')) /\ Len(targets') = 0
    BY <1>1, EmptySeq
  <2> QED BY <1>1, <1>2, <2>1 DEF TargetsInv
<1>5. ScanInv'
  BY <1>1, <1>2, <1>4 DEF ScanInv, TargetsInv, Due
<1> QED
  BY <1>1, <1>3, <1>5 DEF RewriteInv

LEMMA NextRewrite == RewriteInv /\ [RewriteNext]_rewriteVars => RewriteInv'
<1> SUFFICES ASSUME RewriteInv, [RewriteNext]_rewriteVars PROVE RewriteInv'
  OBVIOUS
<1>1. CASE UNCHANGED rewriteVars
  <2>1. UNCHANGED <<source, file, skipped, next, targets, phase>>
    BY <1>1 DEF rewriteVars
  <2>2. SourceInv' /\ FileInv'
    BY <2>1, SourceStays DEF RewriteInv, FileInv
  <2>3. ASSUME ScanInv PROVE ScanInv'
    <3>1. TargetsInv(next - 1)'
      BY <2>1, <2>3 DEF ScanInv, TargetsInv, Due
    <3> QED BY <2>1, <2>3, <3>1 DEF ScanInv
  <2>4. InjectInv => InjectInv'
    BY <2>1 DEF InjectInv, TargetsInv, Due
  <2>5. Finished(file) => Finished(file)'
    BY <2>1 DEF Finished
  <2> QED BY <2>1, <2>2, <2>3, <2>4, <2>5 DEF RewriteInv
<1> QED
  BY <1>1, PassesOver, Visits, LeavesAlone, Imported, Injects, Formats, BeginsAgain
  DEF RewriteNext

(* However often a file is rewritten, and whatever it is, a function that  *)
(* wants a hook has one and no other function has any.                     *)
THEOREM Hooked == RewriteSpec => []HookedOnce
<1>1. RewriteInv => HookedOnce
  <2> SUFFICES ASSUME RewriteInv, phase = "done" PROVE HookedOnce
    BY DEF HookedOnce
  <2>1. IsFile(file) /\ Finished(file)
    BY DEF RewriteInv, FileInv
  <2>2. DOMAIN file = 1 .. Len(file)
    BY <2>1, LenProperties DEF IsFile
  <2>3. ASSUME NEW fn PROVE /\ OneHook(fn) => Len(fn.hooks) = 1
                            /\ Unhooked(fn) => Len(fn.hooks) = 0
    <3>1. \A h : Len(<<h>>) = 1
      OBVIOUS
    <3> QED BY <3>1, EmptySeq DEF OneHook, Unhooked
  <2> QED
    BY <2>1, <2>2, <2>3 DEF HookedOnce, Finished, Wants
<1> QED
  BY <1>1, InitRewrite, NextRewrite, PTL DEF RewriteSpec

-----------------------------------------------------------------------------
(* What rewriting makes of the names of a function *)

Good(name) == name \notin {"", "_"}

\* The names of a function that has been visited, and of one with a hook.
ParamName(fn, j) ==
    IF fn.body /\ j = 1 /\ ~Good(fn.params[j].name)
    THEN IF fn.params[j].name = "" THEN "ctx" ELSE "__ufCtx"
    ELSE fn.params[j].name

ResultOf(fn, j) ==
    IF Good(fn.results[j].name) THEN fn.results[j].name
    ELSE IF fn.results[j].name = "" /\ fn.results[j].type = "error" THEN "__ufErr"
    ELSE ResultName(j)

\* g is what becomes of fn; a target has a hook, which uses its names.
Rewritten(fn, g, target) ==
    /\ \E S : g.params \in Seq(S) /\ g.results \in Seq(S)
    /\ Len(g.params) = Len(fn.params) /\ Len(g.results) = Len(fn.results)
    /\ g.bound = fn.bound /\ g.locals = fn.locals /\ g.free = fn.free
    /\ \A j \in 1 .. Len(fn.params) : g.params[j].name = ParamName(fn, j)
    /\ \A j \in 1 .. Len(fn.results) :
         g.results[j].name = IF target THEN ResultOf(fn, j) ELSE fn.results[j].name
    /\ ~target => g.hooks = <<>>
    /\ target => \E h : /\ g.hooks = <<h>>
                        /\ h.outer = Outer(fn, imports)
                        /\ h.uses = {g.params[1].name}
                              \cup {g.params[j].name : j \in {i \in 2 .. Len(g.params) :
                                                               Good(g.params[i].name)}}
                              \cup {g.results[j].name : j \in DOMAIN g.results}

\* What else the scope of the parameters and results holds.
Beside(fn) == fn.bound \cup fn.locals

\* Names that can be told apart in one scope.
Separate(fn) ==
    /\ \A j, k \in 1 .. Len(fn.params) :
         Good(fn.params[j].name) /\ fn.params[k].name = fn.params[j].name => k = j
    /\ \A j, k \in 1 .. Len(fn.results) :
         Good(fn.results[j].name) /\ fn.results[k].name = fn.results[j].name => k = j
    /\ \A j \in 1 .. Len(fn.params), k \in 1 .. Len(fn.results) :
         Good(fn.params[j].name) => fn.results[k].name # fn.params[j].name
    /\ \A j \in 1 .. Len(fn.params) :
         Good(fn.params[j].name) => fn.params[j].name \notin Beside(fn)
    /\ \A j \in 1 .. Len(fn.results) :
         Good(fn.results[j].name) => fn.results[j].name \notin Beside(fn)

LEMMA Scope ==
    ASSUME NEW fn, NEW S, fn.params \in Seq(S), fn.results \in Seq(S)
    PROVE  Distinct(fn) <=> Separate(fn)
<1> DEFINE ps == fn.params
           rs == fn.results
           fs == ps \o rs
           n  == Len(ps)
           m  == Len(rs)
<1>1. n \in Nat /\ m \in Nat
  BY LenProperties
<1> HIDE DEF n, m
<1>2. /\ fs \in Seq(S) /\ Len(fs) = n + m
      /\ \A i \in 1 .. n + m : fs[i] = IF i <= n THEN ps[i] ELSE rs[i - n]
  BY ConcatProperties DEF n, m
<1>3. DOMAIN fs = 1 .. n + m
  BY <1>2, LenProperties
<1>4. \A j \in 1 .. n : j \in 1 .. n + m /\ fs[j] = ps[j]
  <2> TAKE j \in 1 .. n
  <2>1. j \in 1 .. n + m /\ j <= n
    BY <1>1
  <2> QED BY <1>2, <2>1
<1>5. \A k \in 1 .. m : n + k \in 1 .. n + m /\ fs[n + k] = rs[k]
  <2> TAKE k \in 1 .. m
  <2>1. PICK i : i = n + k
    OBVIOUS
  <2>2. i \in 1 .. n + m /\ ~(i <= n) /\ i - n = k
    BY <1>1, <2>1
  <2>3. fs[i] = rs[i - n]
    BY <1>2, <2>2
  <2> QED BY <2>1, <2>2, <2>3
<1>6. \A i \in 1 .. n + m : i \in 1 .. n \/ \E k \in 1 .. m : i = n + k
  <2> TAKE i \in 1 .. n + m
  <2>1. CASE i <= n
    BY <1>1, <2>1
  <2>2. CASE ~(i <= n)
    <3>1. i - n \in 1 .. m /\ i = n + (i - n)
      BY <1>1, <2>2
    <3> QED BY <3>1
  <2> QED BY <2>1, <2>2
<1>7. Distinct(fn) <=> \A j \in 1 .. n + m : Good(fs[j].name) =>
                         /\ \A k \in 1 .. n + m : fs[k].name = fs[j].name => k = j
                         /\ fs[j].name \notin Beside(fn)
  BY <1>3 DEF Distinct, Good, Beside
<1> HIDE DEF fs, ps, rs
<1>8. ASSUME Distinct(fn) PROVE Separate(fn)
  <2>1. \A j, k \in 1 .. n : Good(ps[j].name) /\ ps[k].name = ps[j].name => k = j
    BY <1>4, <1>7, <1>8
  <2>2. \A j, k \in 1 .. m : Good(rs[j].name) /\ rs[k].name = rs[j].name => k = j
    <3> TAKE j, k \in 1 .. m
    <3> HAVE Good(rs[j].name) /\ rs[k].name = rs[j].name
    <3>1. n + k = n + j
      BY <1>5, <1>7, <1>8
    <3> QED BY <1>1, <3>1
  <2>3. \A j \in 1 .. n, k \in 1 .. m : Good(ps[j].name) => rs[k].name # ps[j].name
    <3> TAKE j \in 1 .. n, k \in 1 .. m
    <3> SUFFICES ASSUME Good(ps[j].name), rs[k].name = ps[j].name PROVE FALSE
      OBVIOUS
    <3>1. n + k = j
      BY <1>4, <1>5, <1>7, <1>8
    <3> QED BY <1>1, <3>1
  <2>4. \A j \in 1 .. n : Good(ps[j].name) => ps[j].name \notin Beside(fn)
    BY <1>4, <1>7, <1>8
  <2>5. \A j \in 1 .. m : Good(rs[j].name) => rs[j].name \notin Beside(fn)
    BY <1>5, <1>7, <1>8
  <2> QED BY <2>1, <2>2, <2>3, <2>4, <2>5 DEF Separate, ps, rs, n, m
<1>9. ASSUME Separate(fn) PROVE Distinct(fn)
  <2>1. /\ \A j, k \in 1 .. n : Good(ps[j].name) /\ ps[k].name = ps[j].name => k = j
        /\ \A j, k \in 1 .. m : Good(rs[j].name) /\ rs[k].name = rs[j].name => k = j
        /\ \A j \in 1 .. n, k \in 1 .. m : Good(ps[j].name) => rs[k].name # ps[j].name
        /\ \A j \in 1 .. n : Good(ps[j].name) => ps[j].name \notin Beside(fn)
        /\ \A j \in 1 .. m : Good(rs[j].name) => rs[j].name \notin Beside(fn)
    BY <1>9 DEF Separate, ps, rs, n, m
  <2>2. ASSUME NEW j \in 1 .. n, Good(ps[j].name)
        PROVE  /\ \A k \in 1 .. n + m : fs[k].name = ps[j].name => k = j
               /\ ps[j].name \notin Beside(fn)
    <3>1. \A k \in 1 .. n : fs[k].name = ps[j].name => k = j
      BY <1>4, <2>1, <2>2
    <3>2. \A k \in 1 .. m : fs[n + k].name # ps[j].name
      BY <1>5, <2>1, <2>2
    <3> QED BY <1>6, <2>1, <2>2, <3>1, <3>2
  <2>3. ASSUME NEW j \in 1 .. m, Good(rs[j].name)
        PROVE  /\ \A k \in 1 .. n + m : fs[k].name = rs[j].name => k = n + j
               /\ rs[j].name \notin Beside(fn)
    <3>1. \A k \in 1 .. n : fs[k].name # rs[j].name
      BY <1>4, <2>1, <2>3
    <3>2. \A k \in 1 .. m : fs[n + k].name = rs[j].name => n + k = n + j
      BY <1>5, <2>1, <2>3
    <3> QED BY <1>6, <2>1, <2>3, <3>1, <3>2
  <2>4. ASSUME NEW i \in 1 .. n + m, Good(fs[i].name)
        PROVE  /\ \A k \in 1 .. n + m : fs[k].name = fs[i].name => k = i
               /\ fs[i].name \notin Beside(fn)
    <3>1. CASE i \in 1 .. n
      BY <1>4, <2>2, <2>4, <3>1
    <3>2. CASE \E k \in 1 .. m : i = n + k
      <4>1. PICK k \in 1 .. m : i = n + k
        BY <3>2
      <4> QED BY <1>5, <2>3, <2>4, <4>1
    <3> QED BY <1>6, <3>1, <3>2
  <2> QED BY <1>7, <2>4
<1> QED
  BY <1>8, <1>9

LEMMA SequenceOf ==
    ASSUME NEW n \in Nat, NEW S, NEW f \in [1 .. n -> S]
    PROVE  f \in Seq(S) /\ Len(f) = n
<1>1. f \in Seq(S)
  BY SeqDef
<1>2. Len(f) \in Nat /\ DOMAIN f = 1 .. Len(f)
  BY <1>1, LenProperties
<1> QED
  BY <1>1, <1>2

\* The fields of a function that somebody wrote.
LEMMA WrittenFields ==
    ASSUME NEW fn \in Written
    PROVE  /\ fn.params \in Fields /\ fn.results \in Fields
           /\ fn.body \in BOOLEAN /\ fn.hooks = <<>>
           /\ fn = [params |-> fn.params, results |-> fn.results, bound |-> fn.bound,
                    locals |-> fn.locals, free |-> fn.free,
                    own |-> fn.own, body |-> fn.body, hooks |-> fn.hooks]
           /\ Len(fn.params) \in Nat /\ DOMAIN fn.params = 1 .. Len(fn.params)
           /\ Len(fn.results) \in Nat /\ DOMAIN fn.results = 1 .. Len(fn.results)
<1>1. /\ fn.params \in Fields /\ fn.results \in Fields
      /\ fn.body \in BOOLEAN /\ fn.hooks = <<>>
      /\ fn = [params |-> fn.params, results |-> fn.results, bound |-> fn.bound,
               locals |-> fn.locals, free |-> fn.free,
               own |-> fn.own, body |-> fn.body, hooks |-> fn.hooks]
  BY DEF Written
<1> QED
  BY <1>1, LenProperties DEF Fields

LEMMA FieldOf ==
    ASSUME NEW fs \in Fields, NEW j \in 1 .. Len(fs)
    PROVE  fs[j] = [type |-> fs[j].type, name |-> fs[j].name]
<1>1. fs[j] \in [type : STRING, name : STRING]
  <2> DEFINE F == [type : STRING, name : STRING]
  <2> SUFFICES fs[j] \in F
    OBVIOUS
  <2>1. fs \in Seq(F)
    BY DEF Fields
  <2> HIDE DEF F
  <2> QED BY <2>1, ElementOfSeq
<1> QED
  BY <1>1

\* The parameters of a function that was visited.
LEMMA VisitedParams ==
    ASSUME NEW fn \in Written, fn.body
    PROVE  LET g == FirstNamed(fn)
           IN  /\ \E S : g.params \in Seq(S)
               /\ Len(g.params) = Len(fn.params)
               /\ \A j \in 1 .. Len(fn.params) : g.params[j].name = ParamName(fn, j)
               /\ g = [params |-> g.params, results |-> fn.results, bound |-> fn.bound,
                       locals |-> fn.locals, free |-> fn.free,
                       own |-> fn.own, body |-> fn.body, hooks |-> <<>>]
<1> DEFINE n == Len(fn.params)
<1>1. /\ fn.params \in Fields /\ n \in Nat /\ DOMAIN fn.params = 1 .. n /\ fn.hooks = <<>>
      /\ fn = [params |-> fn.params, results |-> fn.results, bound |-> fn.bound,
               locals |-> fn.locals, free |-> fn.free,
               own |-> fn.own, body |-> fn.body, hooks |-> fn.hooks]
  BY WrittenFields
<1>2. CASE fn.params = <<>> \/ Good(fn.params[1].name)
  <2>1. FirstNamed(fn) = fn
    BY <1>2 DEF FirstNamed, Good
  <2>2. ASSUME NEW j \in 1 .. n PROVE ParamName(fn, j) = fn.params[j].name
    <3>1. fn.params # <<>>
      <4> SUFFICES ASSUME fn.params = <<>> PROVE FALSE
        OBVIOUS
      <4>1. n = 0
        BY EmptySeq
      <4> HIDE DEF n
      <4> QED BY <4>1
    <3>2. j = 1 => Good(fn.params[j].name)
      BY <1>2, <3>1
    <3> QED BY <3>2 DEF ParamName
  <2> QED BY <1>1, <2>1, <2>2 DEF Fields
<1>3. CASE fn.params # <<>> /\ ~Good(fn.params[1].name)
  <2> DEFINE first == fn.params[1]
             given == IF first.name = "" THEN "ctx" ELSE "__ufCtx"
             other == [first EXCEPT !.name = given]
             ps    == [fn.params EXCEPT ![1] = other]
  <2>1. 1 \in 1 .. n
    <3>1. n \in Nat \ {0}
      BY <1>1, <1>3, EmptySeq DEF Fields
    <3> QED BY <3>1
  <2>2. first = [type |-> first.type, name |-> first.name]
    BY <1>1, <2>1, FieldOf
  <2>3. other.name = given
    <3> HIDE DEF given, first
    <3> QED BY <2>2
  <2>4. FirstNamed(fn) = [fn EXCEPT !.params = ps]
    BY <1>3 DEF FirstNamed, Good
  <2>5. PICK S : fn.params \in Seq(S)
    BY <1>1 DEF Fields
  <2> HIDE DEF other, given
  <2>6. fn.params \in Seq(S \cup {other})
    BY <2>5, SeqMonotonic
  <2>7. /\ ps \in Seq(S \cup {other}) /\ Len(ps) = n
        /\ \A j \in 1 .. n : ps[j] = IF j = 1 THEN other ELSE fn.params[j]
    BY <2>1, <2>6, ExceptSeq
  <2> HIDE DEF ps
  <2>8. FirstNamed(fn) = [params |-> ps, results |-> fn.results, bound |-> fn.bound,
                          locals |-> fn.locals, free |-> fn.free,
                          own |-> fn.own, body |-> fn.body, hooks |-> <<>>]
    BY <1>1, <2>4
  <2>9. ASSUME NEW j \in 1 .. n PROVE ps[j].name = ParamName(fn, j)
    <3>1. CASE j = 1
      BY <1>3, <2>3, <2>7, <3>1 DEF ParamName, given
    <3>2. CASE j # 1
      BY <2>7, <3>2 DEF ParamName
    <3> QED BY <3>1, <3>2
  <2>10. PICK g : g = FirstNamed(fn)
    OBVIOUS
  <2>11. g.params = ps
    BY <2>8, <2>10
  <2> QED BY <2>7, <2>8, <2>9, <2>10, <2>11
<1> QED
  BY <1>2, <1>3

\* The results of a function that is given a hook.
LEMMA NamedResults ==
    ASSUME NEW rs \in Fields
    PROVE  /\ \E S : Named(rs) \in Seq(S)
           /\ Len(Named(rs)) = Len(rs)
           /\ \A fn : fn.results = rs =>
                \A j \in 1 .. Len(rs) : Named(rs)[j].name = ResultOf(fn, j)
<1> DEFINE n == Len(rs)
<1>1. n \in Nat /\ DOMAIN rs = 1 .. n
  BY LenProperties DEF Fields
<1>2. DOMAIN Named(rs) = 1 .. n
  BY <1>1 DEF Named
<1>3. PICK S : Named(rs) \in [1 .. n -> S]
  <2> DEFINE S == {Named(rs)[j] : j \in 1 .. n}
  <2>1. \A j \in 1 .. n : Named(rs)[j] \in S
    OBVIOUS
  <2>2. Named(rs) = [j \in 1 .. n |-> Named(rs)[j]]
    BY <1>1 DEF Named
  <2> HIDE DEF S
  <2> QED BY <2>1, <2>2
<1>4. Named(rs) \in Seq(S) /\ Len(Named(rs)) = n
  BY <1>1, <1>3, SequenceOf
<1>5. ASSUME NEW fn, fn.results = rs, NEW j \in 1 .. n
      PROVE  Named(rs)[j].name = ResultOf(fn, j)
  <2>1. rs[j] = [type |-> rs[j].type, name |-> rs[j].name]
    BY FieldOf
  <2> DEFINE given == IF rs[j].name = "" /\ rs[j].type = "error" THEN "__ufErr" ELSE ResultName(j)
  <2>2. Named(rs)[j] = IF Good(rs[j].name) THEN rs[j] ELSE [rs[j] EXCEPT !.name = given]
    BY <1>1 DEF Named, Good
  <2>3. ~Good(rs[j].name) => Named(rs)[j].name = given
    <3> HIDE DEF given
    <3> QED BY <2>1, <2>2
  <2> QED BY <1>5, <2>2, <2>3 DEF ResultOf
<1> QED
  BY <1>4, <1>5

-----------------------------------------------------------------------------
(* When a rewritten function is sound *)

\* All parameters, or results, have names or none has.
Uniform(fn) ==
    /\ \A j, k \in 1 .. Len(fn.params) : fn.params[j].name = "" => fn.params[k].name = ""
    /\ \A j, k \in 1 .. Len(fn.results) : fn.results[j].name = "" => fn.results[k].name = ""

LEMMA Uniformity ==
    ASSUME NEW fn, NEW S, fn.params \in Seq(S), fn.results \in Seq(S)
    PROVE  Parses(fn) <=> Uniform(fn)
<1>1. DOMAIN fn.params = 1 .. Len(fn.params) /\ DOMAIN fn.results = 1 .. Len(fn.results)
  BY LenProperties
<1>2. \A fs : ("" \in Names(fs) => Names(fs) = {""})
              <=> \A j, k \in DOMAIN fs : fs[j].name = "" => fs[k].name = ""
  <2> TAKE fs
  <2>1. ASSUME "" \in Names(fs) => Names(fs) = {""}, NEW j \in DOMAIN fs, NEW k \in DOMAIN fs,
               fs[j].name = ""
        PROVE  fs[k].name = ""
    <3>1. fs[j].name \in Names(fs) /\ fs[k].name \in Names(fs)
      BY DEF Names
    <3>2. "" \in Names(fs)
      BY <2>1, <3>1
    <3>3. Names(fs) = {""}
      BY <2>1, <3>2
    <3>4. fs[k].name \in {""}
      BY <3>1, <3>3
    <3> QED BY <3>4
  <2>2. ASSUME \A j, k \in DOMAIN fs : fs[j].name = "" => fs[k].name = "", "" \in Names(fs)
        PROVE  Names(fs) = {""}
    BY <2>2 DEF Names
  <2> QED BY <2>1, <2>2
<1> QED
  BY <1>1, <1>2 DEF Parses, Uniform

\* The names the rewriter gives, and those that are there.
GivenName(fn, target, x) ==
    \/ /\ fn.body /\ 1 \in 1 .. Len(fn.params)
       /\ ~Good(fn.params[1].name) /\ x = ParamName(fn, 1)
    \/ /\ target
       /\ \E j \in 1 .. Len(fn.results) : ~Good(fn.results[j].name) /\ x = ResultOf(fn, j)

HasName(fn, x) ==
    \/ \E j \in 1 .. Len(fn.params) : x = fn.params[j].name
    \/ \E j \in 1 .. Len(fn.results) : x = fn.results[j].name

LEMMA GivenIs ==
    ASSUME NEW fn \in Written, NEW target \in BOOLEAN, NEW x
    PROVE  x \in Given(fn, target) <=> GivenName(fn, target, x)
<1> DEFINE ps == {j \in Blank(fn.params) : fn.body /\ j = 1}
           rs == {j \in Blank(fn.results) : target}
<1>1. /\ DOMAIN fn.params = 1 .. Len(fn.params) /\ DOMAIN fn.results = 1 .. Len(fn.results)
      /\ fn.results \in Fields
  BY WrittenFields
<1>2. \A j \in ps : /\ j = 1 /\ fn.body /\ j \in 1 .. Len(fn.params)
                    /\ ~Good(fn.params[j].name) /\ FirstNamed(fn).params[j].name = ParamName(fn, j)
  <2> TAKE j \in ps
  <2>1. j = 1 /\ fn.body /\ j \in 1 .. Len(fn.params) /\ ~Good(fn.params[j].name)
    BY <1>1 DEF Blank, Good
  <2> QED BY <2>1, VisitedParams
<1>3. fn.body /\ 1 \in 1 .. Len(fn.params) /\ ~Good(fn.params[1].name) => 1 \in ps
  BY <1>1 DEF Blank, Good
<1>4. \A j \in rs : /\ target /\ j \in 1 .. Len(fn.results) /\ ~Good(fn.results[j].name)
                    /\ Named(fn.results)[j].name = ResultOf(fn, j)
  <2> TAKE j \in rs
  <2>1. target /\ j \in 1 .. Len(fn.results) /\ ~Good(fn.results[j].name)
    BY <1>1 DEF Blank, Good
  <2> QED BY <1>1, <2>1, NamedResults
<1>5. \A j \in 1 .. Len(fn.results) : target /\ ~Good(fn.results[j].name) => j \in rs
  BY <1>1 DEF Blank, Good
<1>6. x \in Given(fn, target)
        <=> (\E j \in ps : x = FirstNamed(fn).params[j].name)
            \/ (\E j \in rs : x = Named(fn.results)[j].name)
  BY DEF Given
<1> HIDE DEF ps, rs
<1> QED
  BY <1>2, <1>3, <1>4, <1>5, <1>6 DEF GivenName

\* A name that is given must be none of these.
There(fn) == Beside(fn) \cup fn.free

LEMMA SpoiltIs ==
    ASSUME NEW fn \in Written, NEW target \in BOOLEAN
    PROVE  Spoilt(fn, target) <=>
             \/ fn.body /\ Len(fn.params) > 1 /\ fn.params[1].name = ""
             \/ \E x : /\ GivenName(fn, target, x) /\ Good(x)
                       /\ HasName(fn, x) \/ x \in There(fn)
             \/ /\ target
                /\ \E j, k \in 1 .. Len(fn.results) :
                     /\ j # k
                     /\ fn.results[j].type = "error" /\ fn.results[j].name = ""
                     /\ fn.results[k].type = "error" /\ fn.results[k].name = ""
             \/ /\ target
                /\ \E x \in Outer(fn, imports) :
                     HasName(fn, x) \/ x \in fn.bound \/ GivenName(fn, target, x)
<1>1. /\ DOMAIN fn.params = 1 .. Len(fn.params) /\ DOMAIN fn.results = 1 .. Len(fn.results)
      /\ fn.results \in Fields
  BY WrittenFields
<1>2. \A x : x \in Names(fn.params) \cup Names(fn.results) <=> HasName(fn, x)
  BY <1>1 DEF Names, HasName
<1>3. \A x : x \in Taken(fn) <=> Good(x) /\ (HasName(fn, x) \/ x \in There(fn))
  BY <1>2 DEF Taken, Signature, There, Beside, Good
<1>4. Given(fn, target) \cap Taken(fn) # {}
        <=> \E x : GivenName(fn, target, x) /\ Good(x) /\ (HasName(fn, x) \/ x \in There(fn))
  BY <1>3, GivenIs
<1>5. \A j \in DOMAIN fn.results :
        fn.results[j] = UnnamedError <=> fn.results[j].type = "error" /\ fn.results[j].name = ""
  <2> TAKE j \in DOMAIN fn.results
  <2>1. fn.results[j] = [type |-> fn.results[j].type, name |-> fn.results[j].name]
    BY <1>1, FieldOf
  <2>2. PICK r : r = fn.results[j]
    OBVIOUS
  <2>3. r = UnnamedError => r.type = "error" /\ r.name = ""
    <3>1. UnnamedError.type = "error" /\ UnnamedError.name = ""
      BY DEF UnnamedError
    <3> HIDE DEF UnnamedError
    <3> QED BY <3>1
  <2>4. r.type = "error" /\ r.name = "" => r = UnnamedError
    BY <2>1, <2>2 DEF UnnamedError
  <2> QED BY <2>2, <2>3, <2>4
<1>6. (\E j, k \in DOMAIN fn.results :
          j # k /\ fn.results[j] = UnnamedError /\ fn.results[k] = UnnamedError)
        <=> \E j, k \in 1 .. Len(fn.results) :
              /\ j # k
              /\ fn.results[j].type = "error" /\ fn.results[j].name = ""
              /\ fn.results[k].type = "error" /\ fn.results[k].name = ""
  <2> DEFINE Unnamed(j) == fn.results[j].type = "error" /\ fn.results[j].name = ""
             Is(j)      == fn.results[j] = UnnamedError
  <2>1. \A j \in 1 .. Len(fn.results) : Is(j) <=> Unnamed(j)
    BY <1>1, <1>5
  <2> HIDE DEF Unnamed, Is
  <2>2. (\E j, k \in 1 .. Len(fn.results) : j # k /\ Is(j) /\ Is(k))
          <=> \E j, k \in 1 .. Len(fn.results) : j # k /\ Unnamed(j) /\ Unnamed(k)
    BY <2>1
  <2> QED BY <1>1, <2>2 DEF Unnamed, Is
<1>7. Outer(fn, imports) \cap (Signature(fn) \cup Given(fn, target)) # {}
        <=> \E x \in Outer(fn, imports) :
              HasName(fn, x) \/ x \in fn.bound \/ GivenName(fn, target, x)
  <2> DEFINE O == Outer(fn, imports)
  <2> HIDE DEF O
  <2>1. \A x : x \in Signature(fn) \cup Given(fn, target)
                <=> HasName(fn, x) \/ x \in fn.bound \/ GivenName(fn, target, x)
    BY <1>2, GivenIs DEF Signature
  <2>2. O \cap (Signature(fn) \cup Given(fn, target)) # {}
          <=> \E x \in O : HasName(fn, x) \/ x \in fn.bound \/ GivenName(fn, target, x)
    BY <2>1
  <2> QED BY <2>2 DEF O
<1> QED
  BY <1>4, <1>6, <1>7, Zenon DEF Spoilt

\* The hook of a function can use its names, and reach what it needs.
LEMMA UsableIs ==
    ASSUME NEW fn, NEW g, NEW target \in BOOLEAN, Rewritten(fn, g, target),
           target => 1 \in 1 .. Len(fn.params)
    PROVE  Usable(g) <=>
             (target => /\ Good(g.params[1].name)
                        /\ \A j \in 1 .. Len(g.results) : Good(g.results[j].name)
                        /\ \A x \in Outer(fn, imports) : ~HasName(g, x) /\ x \notin fn.bound)
<1>1. PICK S : g.params \in Seq(S) /\ g.results \in Seq(S)
  BY DEF Rewritten
<1>2. /\ DOMAIN g.params = 1 .. Len(g.params)
      /\ DOMAIN g.results = 1 .. Len(g.results)
      /\ g.bound = fn.bound
  BY <1>1, LenProperties DEF Rewritten
<1>3. \A x : x \in Signature(g) <=> HasName(g, x) \/ x \in fn.bound
  BY <1>2 DEF Names, HasName, Signature
<1>4. CASE ~target
  <2>1. g.hooks = <<>> /\ DOMAIN g.hooks = {}
    BY <1>4 DEF Rewritten
  <2> QED BY <1>4, <2>1 DEF Usable
<1>5. CASE target
  <2>1. PICK h : /\ g.hooks = <<h>>
                 /\ h.outer = Outer(fn, imports)
                 /\ h.uses = {g.params[1].name}
                      \cup {g.params[j].name : j \in {i \in 2 .. Len(g.params) :
                                                       Good(g.params[i].name)}}
                      \cup {g.results[j].name : j \in DOMAIN g.results}
    BY <1>5 DEF Rewritten
  <2>2. DOMAIN g.hooks = {1} /\ g.hooks[1] = h /\ g.hooks # <<>>
    BY <2>1
  <2>3. h.uses \cap {"", "_"} = {} <=> /\ Good(g.params[1].name)
                                     /\ \A j \in 1 .. Len(g.results) : Good(g.results[j].name)
    BY <1>2, <2>1 DEF Good
  <2>4. h.outer \cap Signature(g) = {}
          <=> \A x \in Outer(fn, imports) : ~HasName(g, x) /\ x \notin fn.bound
    BY <1>3, <2>1
  <2>5. Usable(g) <=> h.uses \cap {"", "_"} = {} /\ h.outer \cap Signature(g) = {}
    BY <2>2 DEF Usable
  <2> QED BY <1>5, <2>3, <2>4, <2>5
<1> QED
  BY <1>4, <1>5

\* The names made for results are none of the others, and no two are the same.
OwnNames(fn) ==
    \A j \in 1 .. Len(fn.results) :
        /\ ResultName(j) \notin {"", "_", "ctx", "__ufCtx", "__ufErr"}
        /\ \A k \in 1 .. Len(fn.results) : ResultName(j) = ResultName(k) => j = k

LEMMA Positions ==
    ASSUME NEW n \in Nat, NEW j \in 1 .. n
    PROVE  1 \in 1 .. n /\ \A k \in 1 .. n : ~(n > 1) => k = j
OBVIOUS

(* A sound function is sound with a hook and new names, unless they spoil  *)
(* it; what they spoil is not.                                             *)
THEOREM SoundUnlessSpoilt ==
    ASSUME NEW fn \in Written, Parses(fn), Distinct(fn), Resolves(fn), OwnNames(fn),
           Good(imports), NEW target \in BOOLEAN, target => fn.body /\ fn.params # <<>>,
           NEW g, Rewritten(fn, g, target)
    PROVE  Sound(g) <=> ~Spoilt(fn, target)
<1> DEFINE n    == Len(fn.params)
           m    == Len(fn.results)
           p(j) == fn.params[j].name
           r(j) == fn.results[j].name
           e(j) == fn.results[j].type = "error"
           P(j) == g.params[j].name
           R(j) == g.results[j].name
           Own(j) == ResultName(j)
<1>1. /\ n \in Nat /\ m \in Nat /\ Len(g.params) = n /\ Len(g.results) = m
     
      /\ g.bound = fn.bound /\ g.locals = fn.locals /\ g.free = fn.free /\ fn.body \in BOOLEAN
  BY WrittenFields DEF Rewritten
<1>2. target => 1 \in 1 .. n /\ fn.body
  <2>1. fn.params # <<>> => n \in Nat \ {0}
    BY WrittenFields, EmptySeq DEF Fields
  <2> HIDE DEF n
  <2> QED BY <2>1
<1>3. Uniform(fn) /\ Separate(fn)
  <2>1. fn.params \in Fields /\ fn.results \in Fields
    BY WrittenFields
  <2> QED BY <2>1, Uniformity, Scope DEF Fields
<1>4. Parses(g) /\ Distinct(g) <=> Uniform(g) /\ Separate(g)
  <2>1. PICK S : g.params \in Seq(S) /\ g.results \in Seq(S)
    BY DEF Rewritten
  <2> QED BY <2>1, Uniformity, Scope
<1>5. Usable(g) <=>
        (target => /\ Good(g.params[1].name)
                   /\ \A j \in 1 .. Len(g.results) : Good(g.results[j].name)
                   /\ \A x \in Outer(fn, imports) : ~HasName(g, x) /\ x \notin fn.bound)
  BY <1>2, UsableIs
\* The names before and after.
<1>6. \A j \in 1 .. n : P(j) = IF fn.body /\ j = 1 /\ ~Good(p(j))
                               THEN IF p(j) = "" THEN "ctx" ELSE "__ufCtx" ELSE p(j)
  BY DEF Rewritten, ParamName
<1>7. \A j \in 1 .. m : R(j) = IF target /\ ~Good(r(j))
                               THEN IF r(j) = "" /\ e(j) THEN "__ufErr" ELSE Own(j) ELSE r(j)
  BY DEF Rewritten, ResultOf
<1>8. \A j \in 1 .. m : /\ Own(j) \notin {"", "_", "ctx", "__ufCtx", "__ufErr"}
                        /\ \A k \in 1 .. m : Own(j) = Own(k) => j = k
  BY DEF OwnNames
<1>9. /\ \A j, k \in 1 .. n : p(j) = "" => p(k) = ""
      /\ \A j, k \in 1 .. m : r(j) = "" => r(k) = ""
      /\ \A j, k \in 1 .. n : Good(p(j)) /\ p(k) = p(j) => k = j
      /\ \A j, k \in 1 .. m : Good(r(j)) /\ r(k) = r(j) => k = j
      /\ \A j \in 1 .. n, k \in 1 .. m : Good(p(j)) => r(k) # p(j)
      /\ \A j \in 1 .. n : Good(p(j)) => p(j) \notin Beside(fn)
      /\ \A j \in 1 .. m : Good(r(j)) => r(j) \notin Beside(fn)
  BY <1>3 DEF Uniform, Separate
<1>9a. /\ \A j \in 1 .. n : p(j) \notin fn.free
       /\ \A j \in 1 .. m : r(j) \notin fn.free
  <2>1. DOMAIN fn.params = 1 .. n /\ DOMAIN fn.results = 1 .. m
    BY WrittenFields
  <2> QED BY <2>1 DEF Resolves, Names
<1>9b. Resolves(g) <=> /\ \A j \in 1 .. n : P(j) \notin fn.free
                       /\ \A j \in 1 .. m : R(j) \notin fn.free
  <2>1. DOMAIN g.params = 1 .. n /\ DOMAIN g.results = 1 .. m /\ g.free = fn.free
    <3>1. PICK S : g.params \in Seq(S) /\ g.results \in Seq(S)
      BY DEF Rewritten
    <3> QED BY <1>1, <3>1, LenProperties
  <2> QED BY <2>1 DEF Resolves, Names
<1>9c. There(fn) = Beside(fn) \cup fn.free /\ Beside(g) = Beside(fn)
  BY <1>1 DEF There, Beside
<1>10. Uniform(g) <=> /\ \A j, k \in 1 .. n : P(j) = "" => P(k) = ""
                      /\ \A j, k \in 1 .. m : R(j) = "" => R(k) = ""
  BY <1>1 DEF Uniform
<1>11. Separate(g) <=>
         /\ \A j, k \in 1 .. n : Good(P(j)) /\ P(k) = P(j) => k = j
         /\ \A j, k \in 1 .. m : Good(R(j)) /\ R(k) = R(j) => k = j
         /\ \A j \in 1 .. n, k \in 1 .. m : Good(P(j)) => R(k) # P(j)
         /\ \A j \in 1 .. n : Good(P(j)) => P(j) \notin Beside(fn)
         /\ \A j \in 1 .. m : Good(R(j)) => R(j) \notin Beside(fn)
  BY <1>1, <1>9c DEF Separate
<1> DEFINE GivenTo(x) == \/ fn.body /\ 1 \in 1 .. n /\ ~Good(p(1)) /\ x = P(1)
                         \/ target /\ \E j \in 1 .. m : ~Good(r(j)) /\ x = R(j)
           Has(x)  == (\E j \in 1 .. n : x = p(j)) \/ (\E j \in 1 .. m : x = r(j))
           Twice   == target /\ \E j, k \in 1 .. m : /\ j # k /\ e(j) /\ r(j) = ""
                                                     /\ e(k) /\ r(k) = ""
           Hides   == /\ target
                      /\ \E x \in Outer(fn, imports) : Has(x) \/ x \in fn.bound \/ GivenTo(x)
<1>12. \A x : GivenName(fn, target, x) <=> GivenTo(x)
  BY DEF GivenName, Rewritten
<1>13. \A x : HasName(fn, x) <=> Has(x)
  BY DEF HasName
<1>14. \A x : HasName(g, x) <=> (\E j \in 1 .. n : x = P(j)) \/ (\E j \in 1 .. m : x = R(j))
  BY <1>1 DEF HasName
<1>15. Spoilt(fn, target) <=>
         \/ fn.body /\ n > 1 /\ p(1) = ""
         \/ \E x : GivenTo(x) /\ Good(x) /\ (Has(x) \/ x \in There(fn))
         \/ Twice
         \/ Hides
  <2> DEFINE A == fn.body /\ n > 1 /\ p(1) = ""
             B == \E x : GivenName(fn, target, x) /\ Good(x) /\ (HasName(fn, x) \/ x \in There(fn))
             C == /\ target
                  /\ \E x \in Outer(fn, imports) :
                       HasName(fn, x) \/ x \in fn.bound \/ GivenName(fn, target, x)
  <2>1. Spoilt(fn, target) <=> A \/ B \/ Twice \/ C
    BY SpoiltIs, Zenon
  <2>2. B <=> \E x : GivenTo(x) /\ Good(x) /\ (Has(x) \/ x \in There(fn))
    BY <1>12, <1>13
  <2>3. C <=> Hides
    <3> HIDE DEF Has, GivenTo
    <3> QED BY <1>12, <1>13
  <2> HIDE DEF B, C, Twice, Hides, Has, GivenTo
  <2> QED BY <2>1, <2>2, <2>3
<1> HIDE DEF n, m, p, r, e, P, R, Own
<1>16. /\ \A j \in 1 .. n : Good(p(j)) => P(j) = p(j)
       /\ \A j \in 1 .. m : Good(r(j)) => R(j) = r(j)
  BY <1>6, <1>7
<1>17. \A x \in Outer(fn, imports) : Good(x)
  BY DEF Outer, Good
\* What is spoilt does not compile.
<1>18. ASSUME fn.body, n > 1, p(1) = "" PROVE ~Uniform(g)
  <2>1. 1 \in 1 .. n /\ 2 \in 1 .. n
    <3>1. n \in Nat /\ n > 1
      BY <1>1, <1>18
    <3> QED BY <3>1
  <2>2. P(1) = "ctx" /\ P(2) = ""
    <3>1. p(2) = ""
      BY <1>9, <1>18, <2>1
    <3>2. P(1) = "ctx"
      BY <1>6, <1>18, <2>1 DEF Good
    <3>3. \A j \in 1 .. n : j # 1 => P(j) = p(j)
      BY <1>6
    <3>4. P(2) = p(2)
      BY <2>1, <3>3
    <3> QED BY <3>1, <3>2, <3>4
  <2> QED BY <1>10, <2>1, <2>2
<1>19. ASSUME NEW x, GivenTo(x), Good(x), Has(x) \/ x \in There(fn)
      PROVE  ~(Separate(g) /\ Resolves(g))
  <2>1. CASE fn.body /\ 1 \in 1 .. n /\ ~Good(p(1)) /\ x = P(1)
    <3>1. ASSUME NEW j \in 1 .. n, x = p(j) PROVE P(j) = P(1) /\ j # 1
      BY <1>16, <1>19, <2>1, <3>1
    <3>2. ASSUME NEW j \in 1 .. m, x = r(j) PROVE R(j) = P(1)
      BY <1>16, <1>19, <2>1, <3>2
    <3> QED BY <1>9b, <1>9c, <1>11, <1>19, <2>1, <3>1, <3>2
  <2>2. CASE target /\ \E j \in 1 .. m : ~Good(r(j)) /\ x = R(j)
    <3>1. PICK k \in 1 .. m : ~Good(r(k)) /\ x = R(k)
      BY <2>2
    <3>2. ASSUME NEW j \in 1 .. n, x = p(j) PROVE Good(P(j)) /\ R(k) = P(j)
      BY <1>16, <1>19, <3>1, <3>2
    <3>3. ASSUME NEW j \in 1 .. m, x = r(j) PROVE R(j) = R(k) /\ j # k
      BY <1>16, <1>19, <3>1, <3>3
    <3> QED BY <1>9b, <1>9c, <1>11, <1>19, <3>1, <3>2, <3>3
  <2> QED BY <1>19, <2>1, <2>2
<1>20. ASSUME Twice PROVE ~Separate(g)
  <2>1. PICK j \in 1 .. m, k \in 1 .. m : /\ j # k /\ e(j) /\ r(j) = ""
                                          /\ e(k) /\ r(k) = ""
    BY <1>20
  <2>2. R(j) = "__ufErr" /\ R(k) = "__ufErr"
    BY <1>7, <1>20, <2>1 DEF Good
  <2> QED BY <1>11, <2>1, <2>2 DEF Good
<1>21. ASSUME Hides PROVE ~Usable(g)
  <2>1. PICK x \in Outer(fn, imports) : Has(x) \/ x \in fn.bound \/ GivenTo(x)
    BY <1>21
  <2>2. Good(x)
    BY <1>17
  <2>3. Has(x) => HasName(g, x)
    BY <1>14, <1>16, <2>2
  <2>4. GivenTo(x) => HasName(g, x)
    BY <1>14
  <2> QED BY <1>5, <1>21, <2>1, <2>3, <2>4
<1>22. ASSUME Spoilt(fn, target) PROVE ~Sound(g)
  <2> HIDE DEF GivenTo, Has, Twice, Hides
  <2> QED BY <1>4, <1>15, <1>18, <1>19, <1>20, <1>21, <1>22 DEF Sound
\* What is not spoilt does.
<1>23. ASSUME ~Spoilt(fn, target) PROVE Sound(g)
  <2>1. /\ ~(fn.body /\ n > 1 /\ p(1) = "")
        /\ \A x : GivenTo(x) /\ Good(x) => ~Has(x) /\ x \notin There(fn)
        /\ ~Twice
        /\ ~Hides
    BY <1>15, <1>23
  \* What is new is good, and clashes with nothing.
  <2>2. ASSUME fn.body, 1 \in 1 .. n, ~Good(p(1))
        PROVE  /\ P(1) \in {"ctx", "__ufCtx"}
               /\ ~Has(P(1)) /\ P(1) \notin There(fn)
    <3>1. P(1) \in {"ctx", "__ufCtx"}
      BY <1>6, <2>2
    <3>2. Good(P(1)) /\ GivenTo(P(1))
      BY <2>2, <3>1 DEF Good
    <3> QED BY <2>1, <3>1, <3>2
  <2>3. ASSUME target, NEW j \in 1 .. m, ~Good(r(j))
        PROVE  /\ R(j) = IF r(j) = "" /\ e(j) THEN "__ufErr" ELSE Own(j)
               /\ Good(R(j)) /\ R(j) \notin {"ctx", "__ufCtx"}
               /\ ~Has(R(j)) /\ R(j) \notin There(fn)
    <3>1. R(j) = IF r(j) = "" /\ e(j) THEN "__ufErr" ELSE Own(j)
      BY <1>7, <2>3
    <3>2. Good(R(j)) /\ R(j) \notin {"ctx", "__ufCtx"}
      BY <1>8, <3>1 DEF Good
    <3>3. GivenTo(R(j))
      BY <2>3
    <3> QED BY <2>1, <3>1, <3>2, <3>3
  <2>4. \A j \in 1 .. n : \/ P(j) = p(j)
                          \/ fn.body /\ j = 1 /\ 1 \in 1 .. n /\ ~Good(p(1))
    BY <1>6
  <2>5. \A j \in 1 .. m : R(j) = r(j) \/ (target /\ ~Good(r(j)))
    BY <1>7
  <2>6. Uniform(g)
    <3>1. \A j, k \in 1 .. n : P(j) = "" => P(k) = ""
      <4> SUFFICES ASSUME NEW j \in 1 .. n, NEW k \in 1 .. n, P(j) = "" PROVE P(k) = ""
        OBVIOUS
      <4>1. p(j) = ""
        BY <2>2, <2>4
      <4>2. p(1) = "" /\ p(k) = ""
        <5>1. n \in Nat
          BY <1>1
        <5>2. 1 \in 1 .. n
          BY <5>1, Positions
        <5> QED BY <1>9, <4>1, <5>2
      <4>3. CASE fn.body
        <5>1. n \in Nat /\ ~(n > 1)
          BY <1>1, <2>1, <4>2, <4>3
        <5>2. k = j
          BY <5>1, Positions
        <5> QED BY <5>2
      <4>4. CASE ~fn.body
        BY <2>4, <4>2, <4>4
      <4> QED BY <4>3, <4>4
    <3>2. \A j, k \in 1 .. m : R(j) = "" => R(k) = ""
      <4> TAKE j, k \in 1 .. m
      <4> HAVE R(j) = ""
      <4>1. ~target
        BY <2>3, <2>5 DEF Good
      <4> QED BY <1>9, <2>5, <4>1
    <3> QED BY <1>10, <3>1, <3>2
  <2>7. Separate(g)
    <3>1. \A j, k \in 1 .. n : Good(P(j)) /\ P(k) = P(j) => k = j
      <4> TAKE j, k \in 1 .. n
      <4> HAVE Good(P(j)) /\ P(k) = P(j)
      <4>1. CASE P(j) = p(j) /\ P(k) = p(k)
        BY <1>9, <4>1
      <4>2. CASE P(j) # p(j)
        <5>1. j = 1 /\ ~Has(P(j))
          BY <2>2, <2>4, <4>2
        <5> QED BY <2>4, <5>1
      <4>3. CASE P(k) # p(k)
        <5>1. k = 1 /\ ~Has(P(k))
          BY <2>2, <2>4, <4>3
        <5> QED BY <2>4, <5>1
      <4> QED BY <4>1, <4>2, <4>3
    <3>2. \A j, k \in 1 .. m : Good(R(j)) /\ R(k) = R(j) => k = j
      <4> TAKE j, k \in 1 .. m
      <4> HAVE Good(R(j)) /\ R(k) = R(j)
      <4>1. CASE R(j) = r(j) /\ R(k) = r(k)
        BY <1>9, <4>1
      <4>2. CASE R(j) = r(j) /\ R(k) # r(k)
        BY <2>3, <2>5, <4>2
      <4>3. CASE R(j) # r(j) /\ R(k) = r(k)
        BY <2>3, <2>5, <4>3
      <4>4. CASE R(j) # r(j) /\ R(k) # r(k)
        <5>1. target /\ ~Good(r(j)) /\ ~Good(r(k))
          BY <2>5, <4>4
        <5>2. /\ R(j) = IF r(j) = "" /\ e(j) THEN "__ufErr" ELSE Own(j)
              /\ R(k) = IF r(k) = "" /\ e(k) THEN "__ufErr" ELSE Own(k)
          BY <2>3, <5>1
        <5> QED BY <1>8, <2>1, <5>1, <5>2
      <4> QED BY <4>1, <4>2, <4>3, <4>4
    <3>3. \A j \in 1 .. n, k \in 1 .. m : Good(P(j)) => R(k) # P(j)
      <4> TAKE j \in 1 .. n, k \in 1 .. m
      <4> SUFFICES ASSUME Good(P(j)), R(k) = P(j) PROVE FALSE
        OBVIOUS
      <4>1. CASE P(j) = p(j) /\ R(k) = r(k)
        BY <1>9, <4>1
      <4>2. CASE R(k) # r(k)
        <5>1. ~Has(R(k)) /\ R(k) \notin {"ctx", "__ufCtx"}
          BY <2>3, <2>5, <4>2
        <5> QED BY <2>2, <2>4, <5>1
      <4>3. CASE P(j) # p(j) /\ R(k) = r(k)
        <5>1. j = 1 /\ ~Has(P(j))
          BY <2>2, <2>4, <4>3
        <5> QED BY <4>3, <5>1
      <4> QED BY <4>1, <4>2, <4>3
    <3>4. \A j \in 1 .. n : Good(P(j)) => P(j) \notin Beside(fn)
      BY <1>9, <1>9c, <2>2, <2>4
    <3>5. \A j \in 1 .. m : Good(R(j)) => R(j) \notin Beside(fn)
      BY <1>9, <1>9c, <2>3, <2>5
    <3> QED BY <1>11, <3>1, <3>2, <3>3, <3>4, <3>5
  <2>8. Usable(g)
    <3> SUFFICES ASSUME target
                 PROVE  /\ Good(P(1))
                        /\ \A j \in 1 .. m : Good(R(j))
                        /\ \A x \in Outer(fn, imports) : ~HasName(g, x) /\ x \notin fn.bound
      BY <1>1, <1>5 DEF P, R, m
    <3>1. Good(P(1))
      BY <1>2, <1>16, <2>2 DEF Good
    <3>2. \A j \in 1 .. m : Good(R(j))
      BY <1>16, <2>3
    <3>3. ASSUME NEW x \in Outer(fn, imports) PROVE ~HasName(g, x) /\ x \notin fn.bound
      <4>1. ~Has(x) /\ x \notin fn.bound /\ ~GivenTo(x)
        BY <2>1, <3>3
      <4>2. \A j \in 1 .. n : P(j) # x
        BY <2>4, <4>1
      <4>3. \A j \in 1 .. m : R(j) # x
        BY <2>5, <4>1
      <4> QED BY <1>14, <4>1, <4>2, <4>3
    <3> QED BY <3>1, <3>2, <3>3
  <2>9. Resolves(g)
    BY <1>9a, <1>9b, <1>9c, <2>2, <2>3, <2>4, <2>5
  <2> QED BY <1>4, <2>6, <2>7, <2>8, <2>9 DEF Sound
<1> QED
  BY <1>22, <1>23

\* A function when it has been looked at, and a target with its hook.
Visited(fn) == IF fn.body THEN FirstNamed(fn) ELSE fn

WithHook(fn, k, tracker) ==
    LET named == [fn EXCEPT !.results = Named(@)]
    IN  [named EXCEPT !.hooks = <<Hook(named, k, tracker)>> \o @]

LEMMA VisitedIs ==
    ASSUME NEW fn \in Written
    PROVE  Rewritten(fn, Visited(fn), FALSE)
<1>1. /\ fn.params \in Fields /\ fn.results \in Fields /\ fn.hooks = <<>>
      /\ fn.body \in BOOLEAN
  BY WrittenFields
<1>2. CASE fn.body
  <2>1. PICK g : g = FirstNamed(fn)
    OBVIOUS
  <2>2. /\ \E S : g.params \in Seq(S)
        /\ Len(g.params) = Len(fn.params)
        /\ \A j \in 1 .. Len(fn.params) : g.params[j].name = ParamName(fn, j)
        /\ g = [params |-> g.params, results |-> fn.results, bound |-> fn.bound,
                locals |-> fn.locals, free |-> fn.free,
                own |-> fn.own, body |-> fn.body, hooks |-> <<>>]
    BY <1>2, <2>1, VisitedParams
  <2>3. g.results = fn.results
                               /\ g.bound = fn.bound /\ g.locals = fn.locals /\ g.free = fn.free /\ g.hooks = <<>>
    BY <2>2
  <2>4. \E S : g.params \in Seq(S) /\ g.results \in Seq(S)
    <3>1. PICK S : g.params \in Seq(S)
      BY <2>2
    <3>2. PICK T : fn.results \in Seq(T)
      BY <1>1 DEF Fields
    <3>3. g.params \in Seq(S \cup T) /\ g.results \in Seq(S \cup T)
      BY <2>3, <3>1, <3>2, SeqMonotonic
    <3> QED BY <3>3
  <2> QED BY <1>2, <2>1, <2>2, <2>3, <2>4 DEF Rewritten, Visited
<1>3. CASE ~fn.body
  <2>1. \A j \in 1 .. Len(fn.params) : fn.params[j].name = ParamName(fn, j)
    BY <1>3 DEF ParamName
  <2> QED BY <1>1, <1>3, <2>1 DEF Rewritten, Visited, Fields
<1> QED
  BY <1>1, <1>2, <1>3

\* What is named keeps its type.
LEMMA FirstKeepsType ==
    ASSUME NEW fn \in Written, fn.params # <<>>
    PROVE  FirstNamed(fn).params[1].type = fn.params[1].type
<1> DEFINE n     == Len(fn.params)
           first == fn.params[1]
           given == IF first.name = "" THEN "ctx" ELSE "__ufCtx"
           other == [first EXCEPT !.name = given]
<1>1. /\ fn.params \in Fields /\ DOMAIN fn.params = 1 .. n /\ n \in Nat
      /\ fn = [params |-> fn.params, results |-> fn.results, bound |-> fn.bound,
               locals |-> fn.locals, free |-> fn.free,
               own |-> fn.own, body |-> fn.body, hooks |-> fn.hooks]
  BY WrittenFields
<1>2. 1 \in 1 .. n
  <2>1. n \in Nat \ {0}
    BY <1>1, EmptySeq DEF Fields
  <2> QED BY <2>1
<1>3. first = [type |-> first.type, name |-> first.name]
  BY <1>1, <1>2, FieldOf
<1>4. other.type = first.type
  <2> HIDE DEF given, first
  <2> QED BY <1>3
<1>5. CASE Good(first.name)
  BY <1>5 DEF FirstNamed, Good
<1>6. CASE ~Good(first.name)
  <2>1. FirstNamed(fn) = [fn EXCEPT !.params = [fn.params EXCEPT ![1] = other]]
    BY <1>6 DEF FirstNamed, Good
  <2> HIDE DEF other, n
  <2>2. PICK ps : ps = [fn.params EXCEPT ![1] = other]
    OBVIOUS
  <2>3. ps[1] = other
    BY <1>1, <1>2, <2>2
  <2>4. FirstNamed(fn).params = ps
    BY <1>1, <2>1, <2>2
  <2> QED BY <1>4, <2>3, <2>4
<1> QED
  BY <1>5, <1>6

LEMMA NamedKeepsTypes ==
    ASSUME NEW rs \in Fields
    PROVE  /\ DOMAIN Named(rs) = DOMAIN rs
           /\ \A j \in DOMAIN rs : Named(rs)[j].type = rs[j].type
<1>1. DOMAIN Named(rs) = DOMAIN rs
  BY DEF Named
<1>2. ASSUME NEW j \in DOMAIN rs PROVE Named(rs)[j].type = rs[j].type
  <2>1. DOMAIN rs = 1 .. Len(rs)
    BY LenProperties DEF Fields
  <2>2. rs[j] = [type |-> rs[j].type, name |-> rs[j].name]
    BY <2>1, FieldOf
  <2> DEFINE given == IF rs[j].name = "" /\ rs[j].type = "error" THEN "__ufErr" ELSE ResultName(j)
  <2>3. Named(rs)[j] = IF Good(rs[j].name) THEN rs[j] ELSE [rs[j] EXCEPT !.name = given]
    BY DEF Named, Good
  <2> HIDE DEF given
  <2> QED BY <2>2, <2>3
<1> QED
  BY <1>1, <1>2

LEMMA HookedIs ==
    ASSUME NEW fn \in Written, fn.body, fn.params # <<>>, NEW k
    PROVE  Rewritten(fn, WithHook(Visited(fn), k, imports), TRUE)
<1>1. /\ fn.results \in Fields /\ Len(fn.results) \in Nat
  BY WrittenFields
<1>2. PICK v : v = Visited(fn)
  OBVIOUS
<1>3. /\ \E S : v.params \in Seq(S)
      /\ Len(v.params) = Len(fn.params)
      /\ \A j \in 1 .. Len(fn.params) : v.params[j].name = ParamName(fn, j)
      /\ v = [params |-> v.params, results |-> fn.results, bound |-> fn.bound,
              locals |-> fn.locals, free |-> fn.free,
              own |-> fn.own, body |-> fn.body, hooks |-> <<>>]
  BY <1>2, VisitedParams DEF Visited
<1>4. PICK rs : rs = Named(fn.results)
  OBVIOUS
<1>5. /\ \E S : rs \in Seq(S)
      /\ Len(rs) = Len(fn.results)
      /\ \A j \in 1 .. Len(fn.results) : rs[j].name = ResultOf(fn, j)
  BY <1>1, <1>4, NamedResults
<1>6. PICK named : named = [v EXCEPT !.results = Named(@)]
  OBVIOUS
<1>7. named = [params |-> v.params, results |-> rs, bound |-> fn.bound,
               locals |-> fn.locals, free |-> fn.free,
               own |-> fn.own, body |-> fn.body, hooks |-> <<>>]
  <2>1. v.results = fn.results
    BY <1>3
  <2>2. named = [v EXCEPT !.results = rs]
    BY <1>4, <1>6, <2>1
  <2>3. PICK ps : ps = v.params
    OBVIOUS
  <2>4. v = [params |-> ps, results |-> fn.results, bound |-> fn.bound,
             locals |-> fn.locals, free |-> fn.free,
             own |-> fn.own, body |-> fn.body, hooks |-> <<>>]
    BY <1>3, <2>3
  <2>5. named = [params |-> ps, results |-> rs, bound |-> fn.bound,
                 locals |-> fn.locals, free |-> fn.free,
                 own |-> fn.own, body |-> fn.body, hooks |-> <<>>]
    BY <2>2, <2>4
  <2> QED BY <2>3, <2>5
<1>8. PICK h : h = Hook(named, k, imports)
  OBVIOUS
<1>9. PICK g : g = [named EXCEPT !.hooks = <<h>> \o @]
  OBVIOUS
<1>10. g = WithHook(Visited(fn), k, imports)
  BY <1>2, <1>6, <1>8, <1>9 DEF WithHook
<1>11. <<h>> \o <<>> = <<h>>
  <2>1. <<h>> \in Seq({h})
    OBVIOUS
  <2> QED BY <2>1, ConcatEmptySeq
<1>12. /\ g.params = v.params /\ g.results = rs
       /\ g.bound = fn.bound /\ g.locals = fn.locals /\ g.free = fn.free /\ g.hooks = <<h>>
  <2>1. g = [params |-> v.params, results |-> rs, bound |-> fn.bound,
             locals |-> fn.locals, free |-> fn.free,
             own |-> fn.own, body |-> fn.body, hooks |-> <<h>>]
    BY <1>7, <1>9, <1>11
  <2> QED BY <2>1
<1>13. h.uses = {g.params[1].name}
                 \cup {g.params[j].name : j \in {i \in 2 .. Len(g.params) :
                                                  Good(g.params[i].name)}}
                 \cup {g.results[j].name : j \in DOMAIN g.results}
  <2>1. named.params = g.params /\ named.results = g.results
    BY <1>7, <1>12
  <2>2. h.uses = {named.params[1].name}
                 \cup {named.params[j].name : j \in {i \in 2 .. Len(named.params) :
                                                      named.params[i].name \notin {"", "_"}}}
                 \cup {named.results[j].name : j \in DOMAIN named.results}
    BY <1>8 DEF Hook
  <2> QED BY <2>1, <2>2 DEF Good
<1>13a. h.outer = Outer(fn, imports)
  <2>1. h.outer = Outer(named, imports)
    BY <1>8 DEF Hook
  <2>2. (ReturnsError(named) <=> ReturnsError(fn)) /\ named.params[1].type = fn.params[1].type
    <3>1. named.params[1].type = fn.params[1].type
      BY <1>2, <1>7, FirstKeepsType DEF Visited
    <3>2. ReturnsError(named) <=> ReturnsError(fn)
      BY <1>1, <1>4, <1>7, NamedKeepsTypes DEF ReturnsError
    <3> QED BY <3>1, <3>2
  <2> QED BY <2>1, <2>2 DEF Outer, Refusal
<1>14. \E S : g.params \in Seq(S) /\ g.results \in Seq(S)
  <2>1. PICK S : v.params \in Seq(S)
    BY <1>3
  <2>2. PICK T : rs \in Seq(T)
    BY <1>5
  <2>3. v.params \in Seq(S \cup T) /\ rs \in Seq(S \cup T)
    BY <2>1, <2>2, SeqMonotonic
  <2> QED BY <1>12, <2>3
<1>15. Rewritten(fn, g, TRUE)
  BY <1>3, <1>5, <1>12, <1>13, <1>13a, <1>14 DEF Rewritten
<1> QED
  BY <1>10, <1>15

-----------------------------------------------------------------------------
(* What the file is made of *)

\* The first targets have their hooks, all other functions have been visited.
Injected(count) ==
    /\ \A j \in 1 .. count : file[targets[j]] = WithHook(Visited(source[targets[j]]), j, imports)
    /\ \A i \in 1 .. Len(source) :
         (\A j \in 1 .. count : targets[j] # i) => file[i] = Visited(source[i])

\* Only what somebody wrote gets hooks, and how far this has come.
ShapeInv ==
    /\ source \in Files \/ Finished(source)
    /\ phase = "scan" =>
         \A i \in 1 .. Len(source) :
            file[i] = IF i < next THEN Visited(source[i]) ELSE source[i]
    /\ phase = "inject" => targets # <<>> /\ Good(imports) /\ Injected(next - 1)
    /\ phase = "done" =>
         \/ targets = <<>> /\ file = source
         \/ /\ targets # <<>> /\ ~skipped /\ Good(imports)
            /\ TargetsInv(Len(source)) /\ Injected(Len(targets))

LEMMA InitShape == ASSUME RewriteInit PROVE ShapeInv
<1>1. source \in Files /\ file = source /\ next = 1 /\ phase = "scan" /\ source \in Seq(Written)
  BY FilesAssumption DEF RewriteInit
<1>2. \A i \in 1 .. Len(source) : ~(i < 1)
  BY <1>1, LenProperties
<1> QED
  BY <1>1, <1>2 DEF ShapeInv

\* What the invariant says of the file that is read stays as it is.
LEMMA OriginStays ==
    ASSUME ShapeInv, UNCHANGED <<source, skipped>>
    PROVE  (source \in Files \/ Finished(source))'
BY DEF ShapeInv, Finished

LEMMA ShapeVisits == ASSUME RewriteInv, ShapeInv, PassOver \/ Visit PROVE ShapeInv'
<1>1. /\ SourceInv /\ FileInv /\ ScanInv /\ phase = "scan" /\ phase' = "scan"
      /\ next \in 1 .. Len(file) /\ next' = next + 1 /\ Len(file) = Len(source)
      /\ UNCHANGED <<source, skipped>>
  BY DEF RewriteInv, PassOver, Visit, Scanning, ScanInv, FileInv
<1>2. Len(source) \in Nat
  BY <1>1, SourceLength
<1>3. \A i \in 1 .. Len(source) :
        file[i] = IF i < next THEN Visited(source[i]) ELSE source[i]
  BY <1>1 DEF ShapeInv
<1>4. file[next] = source[next]
  BY <1>1, <1>2, <1>3
<1>5. /\ file'[next] = Visited(source[next])
      /\ \A i \in 1 .. Len(file) : i # next => file'[i] = file[i]
  <2>1. CASE PassOver
    BY <1>4, <2>1 DEF PassOver, Current, Visited
  <2>2. CASE Visit
    <3>1. PICK f : f = FirstNamed(file[next])
      OBVIOUS
    <3>2. file' = [file EXCEPT ![next] = f] /\ file[next].body
      BY <2>2, <3>1 DEF Visit, Current
    <3>3. IsFile(file) /\ IsFunction(f)
      BY <1>1, <3>1, FirstNamedKeeps DEF FileInv, IsFile
    <3>4. file'[next] = f
      BY <1>1, <3>2, <3>3, Replaced
    <3>5. \A i \in 1 .. Len(file) : i # next => file'[i] = file[i]
      BY <1>1, <3>2, <3>3, Replaced
    <3> QED BY <1>4, <3>1, <3>2, <3>4, <3>5 DEF Visited
  <2> QED BY <2>1, <2>2
<1>6. ASSUME NEW i \in 1 .. Len(source)
      PROVE  file'[i] = IF i < next + 1 THEN Visited(source[i]) ELSE source[i]
  <2>1. CASE i = next
    BY <1>1, <1>5, <2>1
  <2>2. CASE i # next
    <3>1. i < next + 1 <=> i < next
      BY <1>1, <1>2, <2>2
    <3> QED BY <1>1, <1>3, <1>5, <2>2, <3>1
  <2> QED BY <2>1, <2>2
<1> QED
  BY <1>1, <1>6, OriginStays DEF ShapeInv

LEMMA ShapeLeft == ASSUME RewriteInv, ShapeInv, LeaveAlone PROVE ShapeInv'
<1>1. targets = <<>> /\ UNCHANGED <<source, skipped, targets>> /\ file' = source /\ phase' = "done"
  BY DEF RewriteInv, ScanInv, LeaveAlone
<1> QED
  BY <1>1, OriginStays DEF ShapeInv

LEMMA ShapeImports == ASSUME RewriteInv, ShapeInv, Import PROVE ShapeInv'
<1>1. /\ SourceInv /\ FileInv /\ ScanInv /\ phase = "scan" /\ phase' = "inject"
      /\ next > Len(file) /\ next' = 1 /\ Len(file) = Len(source) /\ targets # <<>>
      /\ UNCHANGED <<source, file, skipped, targets>> /\ Good(imports')
  <2>1. Good(imports')
    BY DEF Import, Unusable, Good
  <2> QED BY <2>1 DEF RewriteInv, Import, FileInv
<1>2. Len(source) \in Nat /\ next \in Nat
  BY <1>1, SourceLength DEF ScanInv
<1>3. \A i \in 1 .. Len(source) : i < next
  BY <1>1, <1>2
<1>4. \A i \in 1 .. Len(source) : file[i] = Visited(source[i])
  BY <1>1, <1>3 DEF ShapeInv
<1>5. \A j \in 1 .. next' - 1 : FALSE
  BY <1>1
<1>6. Injected(next - 1)'
  BY <1>1, <1>4, <1>5 DEF Injected
<1> QED
  BY <1>1, <1>6, OriginStays DEF ShapeInv

LEMMA ShapeInjects == ASSUME RewriteInv, ShapeInv, Inject PROVE ShapeInv'
<1> DEFINE t == targets[next]
<1>1. /\ SourceInv /\ FileInv /\ InjectInv
      /\ phase = "inject" /\ phase' = "inject"
      /\ next \in 1 .. Len(targets) /\ next' = next + 1 /\ Len(file) = Len(source)
      /\ UNCHANGED <<source, imports, skipped, targets>> /\ targets # <<>> /\ Good(imports)
  BY DEF RewriteInv, Inject, InjectInv, FileInv, ShapeInv
<1>2. /\ Len(source) \in Nat /\ targets \in Seq(1 .. Len(source)) /\ Len(targets) \in Nat
      /\ DOMAIN file = 1 .. Len(source)
  BY <1>1, SourceLength, LenProperties DEF InjectInv, TargetsInv, FileInv, IsFile
<1>3. t \in 1 .. Len(source)
  BY <1>1, <1>2, ElementOfSeq
<1>4. \A j \in 1 .. Len(targets) : j # next => targets[j] # t
  BY <1>1 DEF InjectInv, TargetsInv
<1>5. \A j \in 1 .. next - 1 : j \in 1 .. Len(targets) /\ j # next
  <2> next \in 1 .. Len(targets) /\ Len(targets) \in Nat
    BY <1>1, <1>2
  <2> QED OBVIOUS
<1>6. Injected(next - 1)
  BY <1>1 DEF ShapeInv
<1>7. file[t] = Visited(source[t])
  BY <1>3, <1>4, <1>5, <1>6 DEF Injected
<1>8. file' = [file EXCEPT ![t] = WithHook(file[t], next, imports)]
  BY DEF Inject, WithHook
<1> HIDE DEF t
<1>9. PICK g : g = WithHook(file[t], next, imports)
  OBVIOUS
<1>10. /\ file'[t] = g
       /\ \A i \in 1 .. Len(source) : i # t => file'[i] = file[i]
  BY <1>2, <1>3, <1>8, <1>9
<1>11. ASSUME NEW j \in 1 .. next
       PROVE  file'[targets[j]] = WithHook(Visited(source[targets[j]]), j, imports)
  <2>1. CASE j = next
    BY <1>7, <1>9, <1>10, <2>1 DEF t
  <2>2. CASE j # next
    <3>1. j \in 1 .. next - 1
      BY <1>1, <1>2, <2>2
    <3>2. j \in 1 .. Len(targets) /\ targets[j] # t
      BY <1>4, <1>5, <3>1
    <3>3. targets[j] \in 1 .. Len(source)
      BY <1>2, <3>2, ElementOfSeq
    <3>4. file[targets[j]] = WithHook(Visited(source[targets[j]]), j, imports)
      BY <1>6, <3>1 DEF Injected
    <3> QED BY <1>10, <3>2, <3>3, <3>4
  <2> QED BY <2>1, <2>2
<1>12. ASSUME NEW i \in 1 .. Len(source), \A j \in 1 .. next : targets[j] # i
       PROVE  file'[i] = Visited(source[i])
  <2>1. next \in 1 .. next /\ \A j \in 1 .. next - 1 : j \in 1 .. next
    BY <1>1, <1>2
  <2>2. i # t /\ \A j \in 1 .. next - 1 : targets[j] # i
    BY <1>12, <2>1 DEF t
  <2> QED BY <1>6, <1>10, <2>2 DEF Injected
<1>13. next' - 1 = next
  BY <1>1, <1>2
<1>14. Injected(next - 1)'
  BY <1>1, <1>11, <1>12, <1>13 DEF Injected
<1> QED
  BY <1>1, <1>14, OriginStays DEF ShapeInv

LEMMA ShapeFormats == ASSUME RewriteInv, ShapeInv, Format PROVE ShapeInv'
<1>1. /\ InjectInv /\ phase = "inject" /\ phase' = "done" /\ next > Len(targets)
      /\ UNCHANGED <<source, file, imports, skipped, next, targets>>
  BY DEF RewriteInv, Format
<1>2. targets # <<>> /\ ~skipped /\ Good(imports) /\ TargetsInv(Len(source)) /\ Injected(next - 1)
  BY <1>1 DEF ShapeInv, InjectInv
<1>3. next - 1 = Len(targets)
  <2>1. Len(targets) \in Nat /\ next \in 1 .. Len(targets) + 1
    BY <1>1, LenProperties DEF InjectInv, TargetsInv
  <2> QED BY <1>1, <2>1
<1>4. Injected(Len(targets))' /\ TargetsInv(Len(source))'
  BY <1>1, <1>2, <1>3 DEF Injected, TargetsInv, Due
<1> QED
  BY <1>1, <1>2, <1>4, OriginStays DEF ShapeInv

LEMMA ShapeAgain == ASSUME RewriteInv, ShapeInv, Again PROVE ShapeInv'
<1>1. /\ Finished(file) /\ IsFile(file) /\ source' = file /\ file' = file /\ skipped' = skipped
      /\ next' = 1 /\ phase' = "scan"
  BY DEF RewriteInv, FileInv, Again
<1>2. Finished(source)'
  BY <1>1 DEF Finished
<1>3. \A i \in 1 .. Len(file) : ~(i < 1)
  BY <1>1, LenProperties DEF IsFile
<1> QED
  BY <1>1, <1>2, <1>3 DEF ShapeInv

LEMMA NextShape == RewriteInv /\ ShapeInv /\ [RewriteNext]_rewriteVars => ShapeInv'
<1> SUFFICES ASSUME RewriteInv, ShapeInv, [RewriteNext]_rewriteVars PROVE ShapeInv'
  OBVIOUS
<1>1. CASE UNCHANGED rewriteVars
  <2>1. UNCHANGED <<source, file, imports, skipped, next, targets, phase>>
    BY <1>1 DEF rewriteVars
  <2>2. Injected(next - 1) => Injected(next - 1)'
    BY <2>1 DEF Injected
  <2>3. Injected(Len(targets)) /\ TargetsInv(Len(source))
          => Injected(Len(targets))' /\ TargetsInv(Len(source))'
    BY <2>1 DEF Injected, TargetsInv, Due
  <2> QED BY <2>1, <2>2, <2>3, OriginStays DEF ShapeInv
<1> QED
  BY <1>1, ShapeVisits, ShapeLeft, ShapeImports, ShapeInjects, ShapeFormats, ShapeAgain
  DEF RewriteNext

LEMMA SoundWhenDone == RewriteInv /\ ShapeInv => RewriteSound
<1> SUFFICES ASSUME RewriteInv, ShapeInv, phase = "done",
                    \A i \in DOMAIN source : Sound(source[i])
             PROVE  \/ targets = <<>> /\ file = source
                    \/ \A i \in DOMAIN source :
                          Sound(file[i]) <=>
                            ~Spoilt(source[i], \E j \in DOMAIN targets : targets[j] = i)
  BY DEF RewriteSound
<1>1. CASE targets = <<>>
  BY <1>1 DEF ShapeInv
<1>2. CASE targets # <<>>
  <2>1. ~skipped /\ Good(imports) /\ TargetsInv(Len(source)) /\ Injected(Len(targets))
    BY <1>2 DEF ShapeInv
  <2>2. /\ targets \in Seq(1 .. Len(source)) /\ DOMAIN targets = 1 .. Len(targets)
        /\ Len(targets) \in Nat \ {0}
    BY <1>2, <2>1, LenProperties, EmptySeq DEF TargetsInv
  <2>3. source \in Files
    <3>1. 1 \in 1 .. Len(targets)
      BY <2>2
    <3>2. targets[1] \in 1 .. Len(source) /\ Due(targets[1])
      BY <2>1, <2>2, <3>1, ElementOfSeq DEF TargetsInv
    <3>3. \A h : <<h>> # <<>>
      OBVIOUS
    <3>4. ~Finished(source)
      BY <2>1, <3>2, <3>3 DEF Finished, Due, OneHook, Unhooked
    <3> QED BY <3>4 DEF ShapeInv
  <2>4. /\ source \in Seq(Written) /\ DOMAIN source = 1 .. Len(source)
        /\ DOMAIN file = 1 .. Len(source)
    BY <2>3, FilesAssumption, LenProperties DEF RewriteInv, FileInv, IsFile
  <2>5. ASSUME NEW i \in 1 .. Len(source)
        PROVE  Sound(file[i])
                 <=> ~Spoilt(source[i], \E j \in DOMAIN targets : targets[j] = i)
    <3> DEFINE fn     == source[i]
               target == \E j \in DOMAIN targets : targets[j] = i
    <3>1. fn \in Written /\ Parses(fn) /\ Distinct(fn) /\ Resolves(fn)
      BY <2>4, ElementOfSeq DEF Sound
    <3>2. OwnNames(fn)
      <4>1. DOMAIN fn.results = 1 .. Len(fn.results)
        BY <3>1, WrittenFields
      <4> QED BY <2>3, <2>4, <4>1, NamesAssumption DEF OwnNames
    <3>3. CASE target
      <4>1. PICK j \in 1 .. Len(targets) : targets[j] = i
        BY <2>2, <3>3
      <4>2. fn.body /\ fn.params # <<>>
        BY <2>1, <4>1 DEF TargetsInv, Due, Wants, TakesContext
      <4>3. file[i] = WithHook(Visited(fn), j, imports)
        BY <2>1, <4>1 DEF Injected
      <4>4. Rewritten(fn, file[i], TRUE)
        BY <3>1, <4>2, <4>3, HookedIs
      <4>5. target = TRUE
        BY <3>3
      <4> HIDE DEF fn, target
      <4>6. Sound(file[i]) <=> ~Spoilt(fn, TRUE)
        BY <2>1, <3>1, <3>2, <4>2, <4>4, SoundUnlessSpoilt
      <4> QED BY <4>5, <4>6 DEF fn, target
    <3>4. CASE ~target
      <4>1. file[i] = Visited(fn)
        BY <2>1, <2>2, <3>4 DEF Injected
      <4>2. Rewritten(fn, file[i], FALSE)
        BY <3>1, <4>1, VisitedIs
      <4>3. target = FALSE
        BY <3>4
      <4> HIDE DEF fn, target
      <4>4. Sound(file[i]) <=> ~Spoilt(fn, FALSE)
        BY <2>1, <3>1, <3>2, <4>2, SoundUnlessSpoilt
      <4> QED BY <4>3, <4>4 DEF fn, target
    <3> QED BY <3>3, <3>4
  <2> QED BY <2>4, <2>5
<1> QED
  BY <1>1, <1>2

(* When a file is rewritten, however often, the functions that the names   *)
(* and hooks do not spoil compile as they did and use what they used; the  *)
(* others do not.                                                          *)
THEOREM SoundRewritten == RewriteSpec => []RewriteSound
BY InitRewrite, InitShape, NextRewrite, NextShape, SoundWhenDone, PTL DEF RewriteSpec

=============================================================================
