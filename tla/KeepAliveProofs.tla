-------------------------- MODULE KeepAliveProofs ---------------------------
(***************************************************************************)
(* The timing properties of module KeepAlive, for all periods with         *)
(* pingPeriod < pongWait.  Each history clock and the deadline it competes *)
(* with move in opposite directions, so their sum is bounded: that is the  *)
(* inductive invariant.                                                    *)
(***************************************************************************)
EXTENDS KeepAlive, TLAPS

\* The part of the invariant that adds clocks and deadlines.
Balance ==
    /\ connected => reading /\ markedFor = 0
    /\ peer => silentFor = 0
    /\ ~broken => brokenFor = 0
    /\ reading => silentFor + readLeft <= PongWait
    /\ connected => brokenFor <= sincePing
    /\ connected /\ writeLeft # NoDeadline => writeLeft + sincePing >= WriteWait
    /\ connected /\ broken => brokenFor + WriteWait <= sincePing
    /\ reading /\ ~connected => markedFor + readLeft <= PongWait
    /\ peer /\ ~broken =>
         connected /\ sincePing + readLeft >= PongWait

IInv == TypeOK /\ Balance

LEMMA InitInv == Init => IInv
<1> SUFFICES ASSUME Init PROVE IInv
  OBVIOUS
<1>1. /\ peer \in BOOLEAN /\ connected \in BOOLEAN /\ reading \in BOOLEAN
      /\ broken \in BOOLEAN
  BY DEF Init
<1>2. /\ sincePing \in 0 .. PingPeriod
      /\ readLeft \in 0 .. PongWait
      /\ writeLeft \in {NoDeadline} \cup 0 .. WriteWait
      /\ silentFor \in Nat /\ brokenFor \in Nat /\ markedFor \in Nat
  BY PeriodAssumption DEF Init, NoDeadline
<1>3. Balance
  BY PeriodAssumption DEF Init, Balance
<1> QED
  BY <1>1, <1>2, <1>3 DEF IInv, TypeOK

LEMMA NextInv == IInv /\ [Next]_vars => IInv'
<1> SUFFICES ASSUME IInv, [Next]_vars PROVE IInv'
  OBVIOUS
<1> USE PeriodAssumption DEF IInv, TypeOK, Balance, NoDeadline, Less, clocks
<1>1. CASE Tick
  <2>1. TypeOK'
    BY <1>1 DEF Tick
  <2>2. Balance'
    BY <1>1 DEF Tick
  <2> QED
    BY <2>1, <2>2
<1>2. CASE Ping
  <2>1. connected' \in BOOLEAN
    BY <1>2 DEF Ping, WriteWorks
  <2>2. TypeOK'
    BY <1>2, <2>1 DEF Ping, WriteWorks
  <2>3. CASE broken
    <3>1. ~connected' /\ readLeft' = readLeft
      BY <1>2, <2>3 DEF Ping, WriteWorks
    <3>2. Balance'
      BY <1>2, <2>3, <3>1 DEF Ping
    <3> QED
      BY <2>2, <3>2
  <2>4. CASE ~broken
    <3>1. connected' /\ readLeft' = IF peer THEN PongWait ELSE readLeft
      BY <1>2, <2>4 DEF Ping, WriteWorks
    <3>2. Balance'
      BY <1>2, <2>4, <3>1 DEF Ping
    <3> QED
      BY <2>2, <3>2
  <2> QED
    BY <2>3, <2>4
<1>3. CASE AppWrite
  <2>1. broken' \in BOOLEAN /\ (~broken' <=> WriteWorks(writeLeft))
    BY <1>3 DEF AppWrite, WriteWorks
  <2>2. /\ UNCHANGED <<peer, connected, reading, sincePing, writeLeft>>
        /\ UNCHANGED <<silentFor, brokenFor, markedFor>>
        /\ connected
        /\ readLeft' = IF peer /\ WriteWorks(writeLeft) THEN PongWait ELSE readLeft
        /\ WriteWorks(writeLeft) => ~broken
        /\ ~WriteWorks(writeLeft) => broken \/ writeLeft = 0
    BY <1>3 DEF AppWrite, WriteWorks
  <2>3. TypeOK'
    BY <2>1, <2>2
  <2>4. Balance'
    BY <2>1, <2>2
  <2> QED
    BY <2>3, <2>4
<1>4. CASE ReadExpires
  <2>1. ~(peer /\ ~broken)
    BY <1>4 DEF ReadExpires
  <2>2. TypeOK'
    BY <1>4 DEF ReadExpires
  <2>3. Balance'
    BY <1>4, <2>1 DEF ReadExpires
  <2> QED
    BY <2>2, <2>3
<1>5. CASE ServerMessage
  BY <1>5 DEF ServerMessage
<1>6. CASE PeerFallsSilent
  BY <1>6 DEF PeerFallsSilent
<1>7. CASE UNCHANGED vars
  BY <1>7 DEF vars, state
<1> QED
  BY <1>1, <1>2, <1>3, <1>4, <1>5, <1>6, <1>7 DEF Next

LEMMA InductiveInvariant == Spec => []IInv
BY InitInv, NextInv, PTL DEF Spec

-----------------------------------------------------------------------------
(* Every variable keeps its type. *)
THEOREM TypeCorrect == Spec => []TypeOK
<1>1. IInv => TypeOK
  BY DEF IInv
<1> QED
  BY InductiveInvariant, <1>1, PTL

(* A silent peer is noticed within pongWait. *)
THEOREM SilenceBounded == Spec => []DeadPeerNoticed
<1>1. IInv => DeadPeerNoticed
  BY PeriodAssumption DEF IInv, Balance, TypeOK, DeadPeerNoticed
<1> QED
  BY InductiveInvariant, <1>1, PTL

(* A connection that cannot be written is noticed within pingPeriod. *)
THEOREM BreakageBounded == Spec => []BrokenNoticed
<1>1. IInv => BrokenNoticed
  BY PeriodAssumption DEF IInv, Balance, TypeOK, BrokenNoticed
<1> QED
  BY InductiveInvariant, <1>1, PTL

(* The reader of a marked connection is gone within pongWait. *)
THEOREM RepairBounded == Spec => []MarkedIsRepaired
<1>1. IInv => MarkedIsRepaired
  BY PeriodAssumption DEF IInv, Balance, TypeOK, MarkedIsRepaired
<1> QED
  BY InductiveInvariant, <1>1, PTL

(* While the peer answers and no write failed, the connection stays, and    *)
(* writes only fail writeWait or more after a ping.                         *)
THEOREM IdleConnectionKept == Spec => []HealthyKept
<1>1. IInv => HealthyKept
  BY DEF IInv, Balance, HealthyKept
<1> QED
  BY InductiveInvariant, <1>1, PTL

=============================================================================
