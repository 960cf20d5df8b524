--------------------------- MODULE CallChainProofs ---------------------------
(***************************************************************************)
(* Proofs about CallChain.  What the report holds depends on where the     *)
(* records of the calls are: IInv says that a tracked call has its entry   *)
(* through a live record, a call of Track through the chain alone, and     *)
(* that the calls of the handler in progress are on its stack.             *)
(***************************************************************************)
EXTENDS CallChain, TLAPS

Ended == {"done", "blocked"}

\* The calls of the handler that are in progress are on the stack.
StackInv ==
    /\ \A f \in Fn : pc[f] = "idle" => ~own[f] /\ rec[f] = "none"
    /\ \A f \in Fn : own[f] /\ pc[f] \notin Ended =>
         \E i \in 1 .. Len(stack) : stack[i] = f
    /\ stage \in {"finishing", "done"} => \A f \in Fn : own[f] => pc[f] \in Ended

\* Where the record of a call is.
RecordInv ==
    /\ \A i \in 1 .. Len(chain) : ~Unrecorded(chain[i].fn)
    /\ \A f \in Fn : kind[f] # "track" /\ rec[f] # "none" => \E l \in live : l.fn = f
    /\ \A l \in live : kind[l.fn] # "track"
    /\ \A f \in Fn : kind[f] = "track" /\ rec[f] = "final" =>
         \E i \in 1 .. Len(chain) : chain[i].fn = f /\ chain[i].st = "final"

IndexInv ==
    /\ \A l \in live : chain[l.idx].fn = l.fn
    /\ \A i, j \in 1 .. Len(chain) : chain[i].fn = chain[j].fn => i = j

\* A record is written for a tracked call only.
WritingInv == \A f \in Fn : pc[f] = "writing" => kind[f] # "track" /\ rec[f] = "open"

IInv == TypeOK /\ StackInv /\ RecordInv /\ IndexInv /\ WritingInv

-----------------------------------------------------------------------------
(* A snapshot refreshes entries and moves none. *)
LEMMA SyncedKeeps ==
    ASSUME IInv, NEW v \in Views
    PROVE  /\ Synced(v) \in Seq(Entry)
           /\ Len(Synced(v)) = Len(chain)
           /\ \A i \in 1 .. Len(chain) : Synced(v)[i].fn = chain[i].fn
           /\ \A l \in live : Synced(v)[l.idx].st = v[l.fn]
           /\ \A i \in 1 .. Len(chain) :
                (\A l \in live : l.idx # i) => Synced(v)[i] = chain[i]
<1> DEFINE n == Len(chain)
           e(i) == IF \E l \in live : l.idx = i
                   THEN LET l == CHOOSE l \in live : l.idx = i IN [fn |-> l.fn, st |-> v[l.fn]]
                   ELSE chain[i]
<1>1. chain \in Seq(Entry) /\ n \in Nat /\ DOMAIN chain = 1 .. n
  BY DEF IInv, TypeOK
<1>2. Synced(v) = [i \in 1 .. n |-> e(i)]
  BY <1>1 DEF Synced
<1>3. v \in [Fn -> RecordState]
  BY DEF Views
<1>4. live \subseteq [idx : 1 .. n, fn : Fn]
  BY DEF IInv, TypeOK
<1>5. ASSUME NEW i \in 1 .. n
      PROVE  /\ e(i) \in Entry /\ e(i).fn = chain[i].fn
             /\ \A l \in live : l.idx = i => e(i).st = v[l.fn]
             /\ (\A l \in live : l.idx # i) => e(i) = chain[i]
  <2>1. CASE \E l \in live : l.idx = i
    <3>1. PICK l \in live : l = CHOOSE m \in live : m.idx = i
      BY <2>1
    <3>2. l.idx = i /\ l.fn \in Fn
      BY <2>1, <3>1, <1>4
    <3>3. e(i) = [fn |-> l.fn, st |-> v[l.fn]]
      BY <2>1, <3>1
    <3>4. chain[i].fn = l.fn
      BY <3>2 DEF IInv, IndexInv
    <3>5. \A m \in live : m.idx = i => m.fn = l.fn
      BY <3>4 DEF IInv, IndexInv
    <3>6. e(i) \in Entry
      BY <3>2, <3>3, <1>3 DEF Entry
    <3> QED BY <2>1, <3>3, <3>4, <3>5, <3>6
  <2>2. CASE ~\E l \in live : l.idx = i
    <3>1. e(i) = chain[i]
      BY <2>2
    <3>2. chain[i] \in Entry
      BY <1>1
    <3> QED BY <2>2, <3>1, <3>2
  <2> QED BY <2>1, <2>2
<1> HIDE DEF e
<1>6. Synced(v) \in [1 .. n -> Entry]
  BY <1>2, <1>5
<1>7. Synced(v) \in Seq(Entry) /\ Len(Synced(v)) = n
  BY <1>1, <1>6
<1>8. \A i \in 1 .. n : Synced(v)[i] = e(i)
  BY <1>2
<1>9. \A l \in live : l.idx \in 1 .. n
  BY <1>4
<1> QED BY <1>5, <1>7, <1>8, <1>9

LEMMA Initially == Init => IInv
<1> SUFFICES ASSUME Init PROVE IInv OBVIOUS
<1>1. TypeOK
  <2>1. <<>> \in Seq(Entry) /\ <<>> \in Seq(Fn) OBVIOUS
  <2> QED BY <2>1 DEF Init, TypeOK, Kind
<1>2. StackInv BY DEF Init, StackInv
<1>3. RecordInv BY DEF Init, RecordInv
<1>4. IndexInv BY DEF Init, IndexInv
<1>5. WritingInv BY DEF Init, WritingInv
<1> QED BY <1>1, <1>2, <1>3, <1>4, <1>5 DEF IInv

(* The stack when a call begins ... *)
LEMMA CalledStack ==
    ASSUME IInv, NEW f \in Fn, NEW mine \in BOOLEAN, Called(f, mine),
           \A g \in Fn \ {f} : pc'[g] = pc[g], pc'[f] \notin Ended \cup {"idle"},
           \A g \in Fn \ {f} : rec'[g] = rec[g],
           UNCHANGED stage
    PROVE  StackInv' /\ stack' \in Seq(Fn) /\ own' \in [Fn -> BOOLEAN]
<1>1. stack \in Seq(Fn) /\ own \in [Fn -> BOOLEAN]
  BY DEF IInv, TypeOK
<1>2. own' = [own EXCEPT ![f] = mine]
  BY DEF Called
<1>3. stack' \in Seq(Fn)
  <2>1. CASE mine
    <3>1. stack' = <<f>> \o stack /\ <<f>> \in Seq(Fn)
      BY <2>1 DEF Called
    <3> QED BY <1>1, <3>1
  <2>2. CASE ~mine
    BY <1>1, <2>2 DEF Called
  <2> QED BY <2>1, <2>2
<1>4. \A g \in Fn : (\E i \in 1 .. Len(stack) : stack[i] = g)
                       => \E i \in 1 .. Len(stack') : stack'[i] = g
  <2>1. CASE mine
    <3>1. stack' = <<f>> \o stack
      BY <2>1 DEF Called
    <3>2. Len(stack') = Len(stack) + 1 /\ \A i \in 1 .. Len(stack) : stack'[i + 1] = stack[i]
      BY <1>1, <3>1
    <3>3. \A i \in 1 .. Len(stack) : i + 1 \in 1 .. Len(stack')
      BY <1>1, <3>2
    <3> QED BY <3>2, <3>3
  <2>2. CASE ~mine
    BY <2>2 DEF Called
  <2> QED BY <2>1, <2>2
<1>5. mine => \E i \in 1 .. Len(stack') : stack'[i] = f
  <2>1. SUFFICES ASSUME mine PROVE \E i \in 1 .. Len(stack') : stack'[i] = f OBVIOUS
  <2>2. stack' = <<f>> \o stack
    BY <2>1 DEF Called
  <2>3. stack'[1] = f /\ Len(stack') >= 1 /\ Len(stack') \in Nat
    BY <1>1, <2>2
  <2> QED BY <2>3
<1>6. mine => stage = "handling"
  BY DEF Called
<1>7. \A g \in Fn : pc'[g] = "idle" => ~own'[g] /\ rec'[g] = "none"
  BY <1>1, <1>2 DEF IInv, StackInv
<1>8. \A g \in Fn : own'[g] /\ pc'[g] \notin Ended => \E i \in 1 .. Len(stack') : stack'[i] = g
  BY <1>1, <1>2, <1>4, <1>5 DEF IInv, StackInv
<1>9. stage' \in {"finishing", "done"} => \A g \in Fn : own'[g] => pc'[g] \in Ended
  BY <1>1, <1>2, <1>6 DEF IInv, StackInv
<1>10. own' \in [Fn -> BOOLEAN]
  BY <1>1, <1>2
<1> QED BY <1>3, <1>7, <1>8, <1>9, <1>10 DEF StackInv

(* ... when it goes on, ... *)
LEMMA GoneOnStack ==
    ASSUME IInv, NEW f \in Fn, pc[f] \notin Ended \cup {"idle"},
           NEW l \in {"running", "writing"}, Goto(f, l), UNCHANGED <<stage, stack, own, rec>>
    PROVE  StackInv'
<1>1. pc' = [pc EXCEPT ![f] = l] /\ pc \in [Fn -> {"idle", "deciding", "running", "writing", "blocked", "done"}]
  BY DEF Goto, IInv, TypeOK
<1> QED BY <1>1 DEF IInv, StackInv, Ended

(* ... and when it returns. *)
LEMMA ReturnedStack ==
    ASSUME IInv, NEW f \in Fn, pc[f] \notin Ended \cup {"idle"}, Runs(f), Return(f),
           NEW l \in Ended, Goto(f, l), UNCHANGED <<stage, own>>,
           \A g \in Fn \ {f} : rec'[g] = rec[g]
    PROVE  StackInv' /\ stack' \in Seq(Fn)
<1>1. pc' = [pc EXCEPT ![f] = l] /\ pc \in [Fn -> {"idle", "deciding", "running", "writing", "blocked", "done"}]
  BY DEF Goto, IInv, TypeOK
<1>2. stack \in Seq(Fn)
  BY DEF IInv, TypeOK
<1>3. own[f] => stack # <<>> /\ stack[1] = f
  BY <1>2 DEF Runs
<1>4. stack' \in Seq(Fn)
  BY <1>2, <1>3 DEF Return
<1>5. \A g \in Fn \ {f} : (\E i \in 1 .. Len(stack) : stack[i] = g)
                             => \E i \in 1 .. Len(stack') : stack'[i] = g
  <2>1. CASE own[f]
    <3>1. stack' = Tail(stack)
      BY <2>1 DEF Return
    <3>2. SUFFICES ASSUME NEW g \in Fn \ {f}, NEW i \in 1 .. Len(stack), stack[i] = g
                   PROVE  \E j \in 1 .. Len(stack') : stack'[j] = g
      OBVIOUS
    <3>3. i # 1
      BY <2>1, <1>3, <3>2
    <3>4. Len(stack') = Len(stack) - 1 /\ \A j \in 1 .. Len(stack) - 1 : stack'[j] = stack[j + 1]
      BY <1>2, <1>3, <2>1, <3>1
    <3>5. i - 1 \in 1 .. Len(stack') /\ (i - 1) + 1 = i
      BY <1>2, <3>3, <3>4
    <3> QED BY <3>2, <3>4, <3>5
  <2>2. CASE ~own[f]
    BY <2>2 DEF Return
  <2> QED BY <2>1, <2>2
<1> QED BY <1>1, <1>4, <1>5 DEF IInv, StackInv, Ended

LEMMA EntriesTyped == TypeOK => \A i \in 1 .. Len(chain) : chain[i].fn \in Fn
<1> SUFFICES ASSUME TypeOK, NEW i \in 1 .. Len(chain) PROVE chain[i].fn \in Fn OBVIOUS
<1>1. chain \in Seq(Entry) BY DEF TypeOK
<1>2. chain[i] \in Entry BY <1>1
<1> QED BY <1>2 DEF Entry

(* One call at a time reaches the chain: what Append keeps. *)
LEMMA Appended ==
    ASSUME chain \in Seq(Entry), NEW e \in Entry, chain' = Append(chain, e)
    PROVE  /\ chain' \in Seq(Entry) /\ Len(chain') = Len(chain) + 1 /\ Len(chain) \in Nat
           /\ \A i \in 1 .. Len(chain) : i \in 1 .. Len(chain') /\ chain'[i] = chain[i]
           /\ \A i \in 1 .. Len(chain') : i \in 1 .. Len(chain) \/ i = Len(chain) + 1
           /\ Len(chain) + 1 \in 1 .. Len(chain')
           /\ chain'[Len(chain) + 1] = e
OBVIOUS

LEMMA SnapshotInv ==
    ASSUME IInv, NEW v \in Views, chain' = Synced(v), UNCHANGED <<live, pc, rec, call>>
    PROVE  RecordInv' /\ IndexInv' /\ chain' \in Seq(Entry) /\ Len(chain') = Len(chain)
<1>1. /\ chain' \in Seq(Entry) /\ Len(chain') = Len(chain)
      /\ \A i \in 1 .. Len(chain) : chain'[i].fn = chain[i].fn
      /\ \A i \in 1 .. Len(chain) : (\A l \in live : l.idx # i) => chain'[i] = chain[i]
  BY SyncedKeeps
<1>2. live \subseteq [idx : 1 .. Len(chain), fn : Fn]
  BY DEF IInv, TypeOK
<1>3. IndexInv'
  BY <1>1, <1>2 DEF IInv, IndexInv
<1>4. \A i \in 1 .. Len(chain') : ~Unrecorded(chain[i].fn)
  BY <1>1 DEF IInv, RecordInv
<1>5. \A i \in 1 .. Len(chain') : ~Unrecorded(chain'[i].fn)
  BY <1>1, <1>4
<1>6. ASSUME NEW f \in Fn, kind[f] = "track", rec[f] = "final"
      PROVE  \E i \in 1 .. Len(chain') : chain'[i].fn = f /\ chain'[i].st = "final"
  <2>1. PICK i \in 1 .. Len(chain) : chain[i].fn = f /\ chain[i].st = "final"
    BY <1>6 DEF IInv, RecordInv
  <2>2. \A l \in live : l.idx # i
    BY <1>6, <2>1 DEF IInv, IndexInv, RecordInv
  <2> QED BY <1>1, <2>1, <2>2
<1>7. RecordInv'
  BY <1>5, <1>6 DEF IInv, RecordInv, Unrecorded, call
<1> QED BY <1>1, <1>3, <1>7

LEMMA Inductive == IInv /\ [Next]_vars => IInv'
<1> SUFFICES ASSUME IInv, [Next]_vars PROVE IInv' OBVIOUS
<1>t. TypeOK /\ StackInv /\ RecordInv /\ IndexInv /\ WritingInv
  BY DEF IInv
<1>1. CASE BeginTracking
  <2> USE <1>1 DEF BeginTracking
  <2>1. TypeOK' BY <1>t DEF TypeOK, request, call
  <2>2. StackInv' BY <1>t DEF TypeOK, StackInv, request, call
  <2>3. RecordInv' /\ IndexInv' BY <1>t DEF RecordInv, IndexInv, Unrecorded, request, call
  <2>w. WritingInv'
    BY <1>t DEF TypeOK, WritingInv, Called, Goto, HasRecord, request, call
  <2> QED BY <2>1, <2>2, <2>3, <2>w DEF IInv
<1>2. CASE HandlerEnds
  <2> USE <1>2 DEF HandlerEnds
  <2>1. TypeOK' BY <1>t DEF TypeOK, call
  <2>2. \A f \in Fn : own[f] => pc[f] \in Ended
    <3>1. Len(stack) = 0 OBVIOUS
    <3>2. 1 .. Len(stack) = {} BY <3>1
    <3> QED BY <1>t, <3>2 DEF StackInv
  <2>3. StackInv' BY <1>t, <2>2 DEF StackInv, call
  <2>4. RecordInv' /\ IndexInv' BY <1>t DEF RecordInv, IndexInv, Unrecorded, call
  <2>w. WritingInv'
    BY <1>t DEF TypeOK, WritingInv, Called, Goto, HasRecord, request, call
  <2> QED BY <2>1, <2>3, <2>4, <2>w DEF IInv
<1>3. CASE Finish
  <2>1. CASE ~(store /\ enabled)
    <3> USE <1>3, <2>1 DEF Finish
    <3>1. TypeOK' BY <1>t DEF TypeOK, call
    <3>2. StackInv' BY <1>t DEF StackInv, call
    <3>3. RecordInv' /\ IndexInv' BY <1>t DEF RecordInv, IndexInv, Unrecorded, call
    <3>w. WritingInv'
      BY <1>t DEF TypeOK, WritingInv, Called, Goto, HasRecord, request, call
    <3> QED BY <3>1, <3>2, <3>3, <3>w DEF IInv
  <2>2. CASE store /\ enabled
    <3>1. PICK v \in Views : chain' = Synced(v) BY <1>3, <2>2 DEF Finish
    <3>2. /\ report' = chain' /\ stage = "finishing" /\ stage' = "done"
          /\ UNCHANGED <<enabled, store, live, stack, pc, rec, call>>
      BY <1>3, <2>2 DEF Finish
    <3>3. RecordInv' /\ IndexInv' /\ chain' \in Seq(Entry) /\ Len(chain') = Len(chain)
      BY <3>1, <3>2, SnapshotInv
    <3>4. TypeOK' BY <1>t, <3>2, <3>3 DEF TypeOK, call
    <3>5. StackInv' BY <1>t, <3>2 DEF StackInv, call
    <3>w. WritingInv'
      BY <1>t, <3>2 DEF TypeOK, WritingInv, Called, Goto, HasRecord, request, call
    <3> QED BY <3>3, <3>4, <3>5, <3>w DEF IInv
  <2> QED BY <2>1, <2>2
<1>4. CASE GetCallChain
  <2>1. PICK v \in Views : chain' = Synced(v) BY <1>4 DEF GetCallChain
  <2>2. UNCHANGED <<request, live, stack, pc, rec, call>> BY <1>4 DEF GetCallChain
  <2>3. RecordInv' /\ IndexInv' /\ chain' \in Seq(Entry) /\ Len(chain') = Len(chain)
    BY <2>1, <2>2, SnapshotInv
  <2>4. TypeOK' BY <1>t, <2>2, <2>3 DEF TypeOK, request, call
  <2>5. StackInv' BY <1>t, <2>2 DEF StackInv, request, call
  <2>w. WritingInv'
    BY <1>t, <2>2 DEF TypeOK, WritingInv, Called, Goto, HasRecord, request, call
  <2> QED BY <2>3, <2>4, <2>5, <2>w DEF IInv
<1>5. CASE DiscoveryChanges
  <2> USE <1>5 DEF DiscoveryChanges
  <2>1. TypeOK' BY <1>t DEF TypeOK, request, call
  <2>2. StackInv' BY <1>t DEF TypeOK, StackInv, request, call
  <2>3. RecordInv' /\ IndexInv' BY <1>t DEF RecordInv, IndexInv, Unrecorded, request, call
  <2>w. WritingInv'
    BY <1>t DEF TypeOK, WritingInv, Called, Goto, HasRecord, request, call
  <2> QED BY <2>1, <2>2, <2>3, <2>w DEF IInv
<1>6. ASSUME NEW f \in Fn, NEW mine \in BOOLEAN, BeginUntracked(f, mine) PROVE IInv'
  <2> USE <1>6 DEF BeginUntracked
  <2>1. TypeOK /\ pc[f] = "idle" /\ rec[f] = "none" BY <1>t DEF Called, TypeOK, StackInv
  <2>2. /\ pc' \in [Fn -> {"idle", "deciding", "running", "writing", "blocked", "done"}]
        /\ \A g \in Fn \ {f} : pc'[g] = pc[g] /\ kind'[g] = kind[g] /\ rec'[g] = rec[g]
        /\ pc'[f] \in {"deciding", "running"}
        /\ kind' \in [Fn -> Kind]
        /\ rec' \in [Fn -> {"none", "open", "final"}]
    BY <2>1 DEF Goto, TypeOK, Kind
  <2>3. StackInv' /\ stack' \in Seq(Fn) /\ own' \in [Fn -> BOOLEAN]
    BY <2>2, CalledStack DEF request, Ended
  <2>4. UNCHANGED <<chain, live>> OBVIOUS
  <2>5. TypeOK'
    BY <2>1, <2>2, <2>3, <2>4 DEF TypeOK, request
  <2>6. \A i \in 1 .. Len(chain) : chain[i].fn # f /\ chain[i].fn \in Fn
    BY <1>t, <2>1, EntriesTyped DEF RecordInv, Unrecorded
  <2>7. \A l \in live : l.fn # f /\ l.fn \in Fn
    <3>1. live \subseteq [idx : 1 .. Len(chain), fn : Fn] BY <2>1 DEF TypeOK
    <3>2. \A l \in live : chain[l.idx].fn = l.fn BY <1>t DEF IndexInv
    <3> QED BY <2>6, <3>1, <3>2
  <2>8. rec'[f] = "none" \/ (kind'[f] = "track" /\ rec'[f] = "open")
    BY <2>1 DEF TypeOK
  <2>9. RecordInv'
    <3>1. \A i \in 1 .. Len(chain) : rec'[chain[i].fn] # "none" /\ ~(kind'[chain[i].fn] = "track" /\ rec'[chain[i].fn] = "open")
      BY <1>t, <2>2, <2>6 DEF RecordInv, Unrecorded
    <3>2. \A g \in Fn : kind'[g] # "track" /\ rec'[g] # "none" => \E l \in live : l.fn = g
      BY <1>t, <2>2, <2>8 DEF RecordInv
    <3>3. \A l \in live : kind'[l.fn] # "track"
      BY <1>t, <2>2, <2>7 DEF RecordInv
    <3>4. \A g \in Fn : kind'[g] = "track" /\ rec'[g] = "final" =>
            \E i \in 1 .. Len(chain) : chain[i].fn = g /\ chain[i].st = "final"
      BY <1>t, <2>2, <2>8 DEF RecordInv
    <3> QED BY <2>4, <3>1, <3>2, <3>3, <3>4 DEF RecordInv, Unrecorded
  <2>10. IndexInv' BY <1>t, <2>4 DEF IndexInv
  <2>w. WritingInv'
    BY <1>t DEF TypeOK, WritingInv, Called, Goto, HasRecord, request, call
  <2> QED BY <2>3, <2>5, <2>9, <2>10, <2>w DEF IInv
<1>7. ASSUME NEW f \in Fn, NEW mine \in BOOLEAN, BeginCall(f, mine) PROVE IInv'
  <2> USE <1>7 DEF BeginCall
  <2>1. TypeOK /\ pc[f] = "idle" /\ rec[f] = "none" BY <1>t DEF Called, TypeOK, StackInv
  <2>2. /\ pc' \in [Fn -> {"idle", "deciding", "running", "writing", "blocked", "done"}]
        /\ \A g \in Fn \ {f} : pc'[g] = pc[g] /\ kind'[g] = kind[g] /\ rec'[g] = rec[g]
        /\ pc'[f] \in {"deciding", "running"}
        /\ kind' \in [Fn -> Kind]
        /\ rec' \in [Fn -> {"none", "open", "final"}]
    BY <2>1 DEF Goto, TypeOK, Kind
  <2>3. StackInv' /\ stack' \in Seq(Fn) /\ own' \in [Fn -> BOOLEAN]
    BY <2>2, CalledStack DEF request, Ended
  <2>4. kind'[f] # "track" /\ rec'[f] = "open"
    BY <2>1 DEF TypeOK
  <2> DEFINE e == [fn |-> f, st |-> "open"]
             m == [idx |-> Len(chain) + 1, fn |-> f]
  <2>5. e \in Entry /\ chain \in Seq(Entry) /\ chain' = Append(chain, e) BY <2>1 DEF Entry, RecordState, TypeOK
  <2>6. /\ chain' \in Seq(Entry) /\ Len(chain') = Len(chain) + 1 /\ Len(chain) \in Nat
        /\ \A i \in 1 .. Len(chain) : i \in 1 .. Len(chain') /\ chain'[i] = chain[i]
        /\ \A i \in 1 .. Len(chain') : i \in 1 .. Len(chain) \/ i = Len(chain) + 1
        /\ Len(chain) + 1 \in 1 .. Len(chain')
        /\ chain'[Len(chain) + 1] = e
    BY <2>5, Appended
  <2> HIDE DEF e
  <2>7. e.fn = f BY DEF e
  <2>8. live' = live \cup {m} /\ m.fn = f /\ m.idx = Len(chain) + 1 OBVIOUS
  <2>9. live' \subseteq [idx : 1 .. Len(chain'), fn : Fn]
    <3>1. live \subseteq [idx : 1 .. Len(chain), fn : Fn] BY <2>1 DEF TypeOK
    <3>2. [idx : 1 .. Len(chain), fn : Fn] \subseteq [idx : 1 .. Len(chain'), fn : Fn] BY <2>6
    <3>3. m \in [idx : 1 .. Len(chain'), fn : Fn] BY <2>6
    <3> QED BY <2>8, <3>1, <3>2, <3>3
  <2> HIDE DEF m
  <2>10. TypeOK'
    BY <2>1, <2>2, <2>3, <2>6, <2>9 DEF TypeOK, request
  <2>11. \A i \in 1 .. Len(chain) : chain[i].fn # f /\ chain[i].fn \in Fn
    BY <1>t, <2>1, <2>5, EntriesTyped DEF RecordInv, Unrecorded
  <2>12. \A l \in live : l.fn # f /\ l.idx \in 1 .. Len(chain) /\ l.fn \in Fn
    <3>1. live \subseteq [idx : 1 .. Len(chain), fn : Fn] BY <2>1 DEF TypeOK
    <3>2. \A l \in live : chain[l.idx].fn = l.fn BY <1>t DEF IndexInv
    <3> QED BY <2>11, <3>1, <3>2
  <2>13. IndexInv'
    <3>1. \A l \in live' : chain'[l.idx].fn = l.fn
      BY <1>t, <2>6, <2>7, <2>8, <2>12 DEF IndexInv
    <3>2. \A i, j \in 1 .. Len(chain') : chain'[i].fn = chain'[j].fn => i = j
      BY <1>t, <2>6, <2>7, <2>11 DEF IndexInv
    <3> QED BY <3>1, <3>2 DEF IndexInv
  <2>14. RecordInv'
    <3>1. \A i \in 1 .. Len(chain') : rec'[chain'[i].fn] # "none" /\ ~(kind'[chain'[i].fn] = "track" /\ rec'[chain'[i].fn] = "open")
      BY <1>t, <2>2, <2>4, <2>6, <2>7, <2>11 DEF RecordInv, Unrecorded
    <3>2. \A g \in Fn : kind'[g] # "track" /\ rec'[g] # "none" => \E l \in live' : l.fn = g
      BY <1>t, <2>2, <2>8 DEF RecordInv
    <3>3. \A l \in live' : kind'[l.fn] # "track"
      BY <1>t, <2>2, <2>4, <2>8, <2>12 DEF RecordInv
    <3>4. \A g \in Fn : kind'[g] = "track" /\ rec'[g] = "final" =>
            \E i \in 1 .. Len(chain') : chain'[i].fn = g /\ chain'[i].st = "final"
      <4>1. SUFFICES ASSUME NEW g \in Fn, kind'[g] = "track", rec'[g] = "final"
                     PROVE  \E i \in 1 .. Len(chain') : chain'[i].fn = g /\ chain'[i].st = "final"
        OBVIOUS
      <4>2. g # f BY <2>4, <4>1
      <4>3. PICK i \in 1 .. Len(chain) : chain[i].fn = g /\ chain[i].st = "final"
        BY <1>t, <2>2, <4>1, <4>2 DEF RecordInv
      <4> QED BY <2>6, <4>3
    <3> QED BY <3>1, <3>2, <3>3, <3>4 DEF RecordInv, Unrecorded
  <2>w. WritingInv'
    BY <1>t DEF TypeOK, WritingInv, Called, Goto, HasRecord, request, call
  <2> QED BY <2>3, <2>10, <2>13, <2>14, <2>w DEF IInv
<1>8. ASSUME NEW f \in Fn, NEW mine \in BOOLEAN, TrackBegins(f, mine) PROVE IInv'
  <2> USE <1>8 DEF TrackBegins
  <2>1. TypeOK /\ pc[f] = "idle" /\ rec[f] = "none" BY <1>t DEF Called, TypeOK, StackInv
  <2>2. /\ pc' \in [Fn -> {"idle", "deciding", "running", "writing", "blocked", "done"}]
        /\ \A g \in Fn \ {f} : pc'[g] = pc[g] /\ kind'[g] = kind[g] /\ rec'[g] = rec[g]
        /\ pc'[f] \in {"deciding", "running"}
        /\ kind' \in [Fn -> Kind]
        /\ rec' \in [Fn -> {"none", "open", "final"}]
    BY <2>1 DEF Goto, TypeOK, Kind
  <2>3. StackInv' /\ stack' \in Seq(Fn) /\ own' \in [Fn -> BOOLEAN]
    BY <2>2, CalledStack DEF request, Ended
  <2>4. UNCHANGED <<chain, live>> OBVIOUS
  <2>5. TypeOK'
    BY <2>1, <2>2, <2>3, <2>4 DEF TypeOK, request
  <2>6. \A i \in 1 .. Len(chain) : chain[i].fn # f /\ chain[i].fn \in Fn
    BY <1>t, <2>1, EntriesTyped DEF RecordInv, Unrecorded
  <2>7. \A l \in live : l.fn # f /\ l.fn \in Fn
    <3>1. live \subseteq [idx : 1 .. Len(chain), fn : Fn] BY <2>1 DEF TypeOK
    <3>2. \A l \in live : chain[l.idx].fn = l.fn BY <1>t DEF IndexInv
    <3> QED BY <2>6, <3>1, <3>2
  <2>8. rec'[f] = "none" \/ (kind'[f] = "track" /\ rec'[f] = "open")
    BY <2>1 DEF TypeOK
  <2>9. RecordInv'
    <3>1. \A i \in 1 .. Len(chain) : rec'[chain[i].fn] # "none" /\ ~(kind'[chain[i].fn] = "track" /\ rec'[chain[i].fn] = "open")
      BY <1>t, <2>2, <2>6 DEF RecordInv, Unrecorded
    <3>2. \A g \in Fn : kind'[g] # "track" /\ rec'[g] # "none" => \E l \in live : l.fn = g
      BY <1>t, <2>2, <2>8 DEF RecordInv
    <3>3. \A l \in live : kind'[l.fn] # "track"
      BY <1>t, <2>2, <2>7 DEF RecordInv
    <3>4. \A g \in Fn : kind'[g] = "track" /\ rec'[g] = "final" =>
            \E i \in 1 .. Len(chain) : chain[i].fn = g /\ chain[i].st = "final"
      BY <1>t, <2>2, <2>8 DEF RecordInv
    <3> QED BY <2>4, <3>1, <3>2, <3>3, <3>4 DEF RecordInv, Unrecorded
  <2>10. IndexInv' BY <1>t, <2>4 DEF IndexInv
  <2>w. WritingInv'
    BY <1>t DEF TypeOK, WritingInv, Called, Goto, HasRecord, request, call
  <2> QED BY <2>3, <2>5, <2>9, <2>10, <2>w DEF IInv
<1>9. ASSUME NEW f \in Fn, Proceeds(f) PROVE IInv'
  <2> USE <1>9 DEF Proceeds
  <2>1. StackInv' BY GoneOnStack DEF request, call, Ended
  <2>2. TypeOK' BY <1>t DEF TypeOK, Goto, request, call
  <2>3. RecordInv' /\ IndexInv' BY <1>t DEF RecordInv, IndexInv, Unrecorded, request, call
  <2>w. WritingInv'
    BY <1>t DEF TypeOK, WritingInv, Called, Goto, HasRecord, request, call
  <2> QED BY <2>1, <2>2, <2>3, <2>w DEF IInv
<1>10. ASSUME NEW f \in Fn, Denied(f) PROVE IInv'
  <2> USE <1>10 DEF Denied
  <2>1. RecordInv' /\ IndexInv' BY <1>t DEF RecordInv, IndexInv, Unrecorded
  <2>2. StackInv' /\ stack' \in Seq(Fn)
    <3>1. CASE Goto(f, "blocked") /\ Return(f)
      BY <3>1, ReturnedStack DEF request, Ended
    <3>2. CASE Goto(f, "running") /\ UNCHANGED stack
      <4>1. StackInv' BY <3>2, GoneOnStack DEF request, Ended
      <4> QED BY <1>t, <3>2, <4>1 DEF TypeOK
    <3> QED BY <3>1, <3>2
  <2>3. TypeOK' BY <1>t, <2>2 DEF TypeOK, Goto, request
  <2>w. WritingInv'
    BY <1>t DEF TypeOK, WritingInv, Called, Goto, HasRecord, request, call
  <2> QED BY <2>1, <2>2, <2>3, <2>w DEF IInv
<1>11. ASSUME NEW f \in Fn, EndBegins(f) PROVE IInv'
  <2> USE <1>11 DEF EndBegins
  <2>1. StackInv' BY GoneOnStack DEF request, call, Ended
  <2>2. TypeOK' BY <1>t DEF TypeOK, Goto, request, call
  <2>3. RecordInv' /\ IndexInv' BY <1>t DEF RecordInv, IndexInv, Unrecorded, request, call
  <2>w. WritingInv'
    BY <1>t DEF TypeOK, WritingInv, Called, Goto, HasRecord, request, call
  <2> QED BY <2>1, <2>2, <2>3, <2>w DEF IInv
<1>12. ASSUME NEW f \in Fn, EndWrites(f) PROVE IInv'
  <2> USE <1>12 DEF EndWrites
  <2>1. StackInv' /\ stack' \in Seq(Fn)
    BY <1>t, ReturnedStack DEF TypeOK, request, call, Ended
  <2>2. TypeOK' BY <1>t, <2>1 DEF TypeOK, Goto, request, call
  <2>4. RecordInv' BY <1>t DEF TypeOK, RecordInv, Unrecorded, WritingInv, call
  <2>5. IndexInv' BY <1>t DEF IndexInv
  <2>w. WritingInv'
    BY <1>t DEF TypeOK, WritingInv, Called, Goto, HasRecord, request, call
  <2> QED BY <2>1, <2>2, <2>4, <2>5, <2>w DEF IInv
<1>13. ASSUME NEW f \in Fn, EndsUnrecorded(f) PROVE IInv'
  <2> USE <1>13 DEF EndsUnrecorded
  <2>1. StackInv' /\ stack' \in Seq(Fn)
    BY ReturnedStack DEF request, call, Ended
  <2>2. TypeOK' BY <1>t, <2>1 DEF TypeOK, Goto, request, call
  <2>3. RecordInv' /\ IndexInv' BY <1>t DEF RecordInv, IndexInv, Unrecorded, request, call
  <2>w. WritingInv'
    BY <1>t DEF TypeOK, WritingInv, Called, Goto, HasRecord, request, call
  <2> QED BY <2>1, <2>2, <2>3, <2>w DEF IInv
<1>14. ASSUME NEW f \in Fn, TrackAppends(f) PROVE IInv'
  <2> USE <1>14 DEF TrackAppends
  <2> DEFINE e == [fn |-> f, st |-> "final"]
  <2>1. StackInv' /\ stack' \in Seq(Fn)
    BY <1>t, ReturnedStack DEF TypeOK, request, call, Ended
  <2>2. e \in Entry /\ chain \in Seq(Entry) /\ chain' = Append(chain, e) BY <1>t DEF Entry, RecordState, TypeOK
  <2>3. /\ chain' \in Seq(Entry) /\ Len(chain') = Len(chain) + 1 /\ Len(chain) \in Nat
        /\ \A i \in 1 .. Len(chain) : i \in 1 .. Len(chain') /\ chain'[i] = chain[i]
        /\ \A i \in 1 .. Len(chain') : i \in 1 .. Len(chain) \/ i = Len(chain) + 1
        /\ Len(chain) + 1 \in 1 .. Len(chain')
        /\ chain'[Len(chain) + 1] = e
    BY <2>2, Appended
  <2>4. e.fn = f /\ e.st = "final" OBVIOUS
  <2> HIDE DEF e
  <2>5. live' \subseteq [idx : 1 .. Len(chain'), fn : Fn]
    <3>1. live \subseteq [idx : 1 .. Len(chain), fn : Fn] BY <1>t DEF TypeOK
    <3>2. [idx : 1 .. Len(chain), fn : Fn] \subseteq [idx : 1 .. Len(chain'), fn : Fn] BY <2>3
    <3> QED BY <3>1, <3>2
  <2>6. rec' \in [Fn -> {"none", "open", "final"}] /\ rec'[f] = "final" /\ \A g \in Fn \ {f} : rec'[g] = rec[g]
    BY <1>t DEF TypeOK
  <2>7. TypeOK' BY <1>t, <2>1, <2>3, <2>5, <2>6 DEF TypeOK, Goto, request, call
  <2>8. \A i \in 1 .. Len(chain) : chain[i].fn # f /\ chain[i].fn \in Fn
    BY <1>t, <2>2, EntriesTyped DEF RecordInv, Unrecorded
  <2>9. \A l \in live : l.fn \in Fn /\ l.idx \in 1 .. Len(chain)
    BY <1>t DEF TypeOK
  <2>10. IndexInv'
    <3>1. \A l \in live : chain'[l.idx].fn = l.fn
      BY <1>t, <2>3, <2>9 DEF IndexInv
    <3>2. \A i, j \in 1 .. Len(chain') : chain'[i].fn = chain'[j].fn => i = j
      BY <1>t, <2>3, <2>4, <2>8 DEF IndexInv
    <3> QED BY <3>1, <3>2 DEF IndexInv
  <2>11. RecordInv'
    <3>1. \A i \in 1 .. Len(chain') : rec'[chain'[i].fn] # "none" /\ ~(kind[chain'[i].fn] = "track" /\ rec'[chain'[i].fn] = "open")
      BY <1>t, <2>3, <2>4, <2>6, <2>8 DEF RecordInv, Unrecorded
    <3>2. \A g \in Fn : kind[g] # "track" /\ rec'[g] # "none" => \E l \in live : l.fn = g
      BY <1>t, <2>6 DEF RecordInv
    <3>3. \A g \in Fn : kind[g] = "track" /\ rec'[g] = "final" =>
            \E i \in 1 .. Len(chain') : chain'[i].fn = g /\ chain'[i].st = "final"
      <4>1. SUFFICES ASSUME NEW g \in Fn, kind[g] = "track", rec'[g] = "final"
                     PROVE  \E i \in 1 .. Len(chain') : chain'[i].fn = g /\ chain'[i].st = "final"
        OBVIOUS
      <4>2. CASE g = f BY <2>3, <2>4, <4>2
      <4>3. CASE g # f
        <5>1. PICK i \in 1 .. Len(chain) : chain[i].fn = g /\ chain[i].st = "final"
          BY <1>t, <2>6, <4>1, <4>3 DEF RecordInv
        <5> QED BY <2>3, <5>1
      <4> QED BY <4>2, <4>3
    <3> QED BY <1>t, <3>1, <3>2, <3>3 DEF RecordInv, Unrecorded, call
  <2>w. WritingInv'
    BY <1>t DEF TypeOK, WritingInv, Called, Goto, HasRecord, request, call
  <2> QED BY <2>1, <2>7, <2>10, <2>11, <2>w DEF IInv
<1>15. CASE UNCHANGED vars
  <2> USE <1>15 DEF vars, request, call
  <2>1. TypeOK' BY <1>t DEF TypeOK
  <2>2. StackInv' BY <1>t DEF StackInv
  <2>3. RecordInv' /\ IndexInv' BY <1>t DEF RecordInv, IndexInv, Unrecorded
  <2>w. WritingInv'
    BY <1>t DEF TypeOK, WritingInv, Called, Goto, HasRecord, request, call
  <2> QED BY <2>1, <2>2, <2>3, <2>w DEF IInv
<1> QED
  BY <1>1, <1>2, <1>3, <1>4, <1>5, <1>6, <1>7, <1>8, <1>9, <1>10, <1>11, <1>12, <1>13, <1>14, <1>15 DEF Next, CallBegins, CallStep

LEMMA Invariance == Spec => []IInv
BY Initially, Inductive, PTL DEF Spec

-----------------------------------------------------------------------------
(* Every variable keeps its type: in particular live records point into    *)
(* the chain.                                                              *)
THEOREM TypeCorrect == Spec => []TypeOK
BY Invariance, PTL DEF IInv

(* Every live record points at the entry of its own call, and no call has  *)
(* two entries.                                                            *)
THEOREM EntriesFound == Spec => []LiveIndexed
<1>1. IInv => LiveIndexed
  <2> SUFFICES ASSUME IInv PROVE LiveIndexed OBVIOUS
  <2>1. DOMAIN chain = 1 .. Len(chain) BY DEF IInv, TypeOK
  <2> QED BY <2>1 DEF IInv, IndexInv, LiveIndexed
<1> QED BY <1>1, Invariance, PTL

(* The step that reports: every entry of a call of the handler is its      *)
(* outcome.                                                                *)
LEMMA ReportStep ==
    ASSUME IInv, Next, stage = "finishing", stage' = "done", store, enabled,
           NEW f \in Fn, own[f]
    PROVE  LET listed == {i \in DOMAIN report' : report'[i].fn = f} IN
           IF Unrecorded(f) THEN listed = {}
           ELSE \E i \in listed : listed = {i} /\ report'[i].st = rec[f]
<1> DEFINE listed == {i \in DOMAIN report' : report'[i].fn = f}
<1>1. Finish
  BY DEF Next, BeginTracking, HandlerEnds, GetCallChain, DiscoveryChanges, CallBegins, CallStep,
         BeginUntracked, BeginCall, TrackBegins, Proceeds, Denied, EndBegins, EndWrites,
         EndsUnrecorded, TrackAppends, request
<1>2. PICK v \in Views : chain' = Synced(v) /\ report' = chain'
  BY <1>1 DEF Finish
<1>3. /\ report' \in Seq(Entry) /\ Len(report') = Len(chain)
      /\ \A i \in 1 .. Len(chain) : report'[i].fn = chain[i].fn
      /\ \A l \in live : report'[l.idx].st = v[l.fn]
      /\ \A i \in 1 .. Len(chain) : (\A l \in live : l.idx # i) => report'[i] = chain[i]
  BY <1>2, SyncedKeeps
<1>4. DOMAIN report' = 1 .. Len(chain)
  BY <1>3
<1>5. pc[f] \in Ended
  BY DEF IInv, StackInv
<1>6. CASE Unrecorded(f)
  <2>1. listed = {}
    BY <1>3, <1>4, <1>6 DEF IInv, RecordInv
  <2> QED BY <1>6, <2>1
<1>7. CASE ~Unrecorded(f)
  <2>1. \A i, j \in listed : i = j
    BY <1>3, <1>4 DEF IInv, IndexInv
  <2>2. \E i \in listed : report'[i].st = rec[f]
    <3>1. CASE kind[f] # "track"
      <4>1. PICK l \in live : l.fn = f
        BY <1>7, <3>1 DEF IInv, RecordInv, Unrecorded
      <4>2. l.idx \in 1 .. Len(chain) /\ chain[l.idx].fn = f
        BY <4>1 DEF IInv, TypeOK, IndexInv
      <4>3. v[f] = rec[f]
        BY <1>5, <1>7 DEF Views, Unrecorded, Ended
      <4> QED BY <1>3, <1>4, <4>1, <4>2, <4>3
    <3>2. CASE kind[f] = "track"
      <4>1. rec[f] = "final"
        BY <1>7, <3>2 DEF Unrecorded, IInv, TypeOK
      <4>2. PICK i \in 1 .. Len(chain) : chain[i].fn = f /\ chain[i].st = "final"
        BY <3>2, <4>1 DEF IInv, RecordInv
      <4>3. \A l \in live : l.idx # i
        BY <3>2, <4>2 DEF IInv, RecordInv, IndexInv
      <4> QED BY <1>3, <1>4, <4>1, <4>2, <4>3
    <3> QED BY <3>1, <3>2
  <2>3. PICK i \in listed : report'[i].st = rec[f] BY <2>2
  <2>4. listed = {i} BY <2>1, <2>3
  <2> QED BY <1>7, <2>3, <2>4
<1> QED BY <1>6, <1>7

(* The report lists every tracked call of the handler's goroutine exactly  *)
(* once, with its outcome.                                                 *)
THEOREM ReportComplete == Spec => ReportFaithful
<1> DEFINE A == stage = "finishing" /\ stage' = "done" /\ store /\ enabled =>
                 \A f \in Fn : own[f] =>
                   LET listed == {i \in DOMAIN report' : report'[i].fn = f} IN
                   IF Unrecorded(f) THEN listed = {}
                   ELSE \E i \in listed : listed = {i} /\ report'[i].st = rec[f]
<1>1. IInv /\ [Next]_vars => [A]_vars
  BY ReportStep
<1> QED BY <1>1, Invariance, PTL DEF Spec, ReportFaithful

=============================================================================
