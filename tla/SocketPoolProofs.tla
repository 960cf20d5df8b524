-------------------------- MODULE SocketPoolProofs --------------------------
(***************************************************************************)
(* What module SocketPool claims, proved for every pool size, every set of *)
(* connections, every number of retries and every bound on the faults.     *)
(*                                                                         *)
(* The inductive invariant is IInv.  OnePerIndex and NoOrphan are not      *)
(* inductive alone: they depend on what the holder of connectionMutex has  *)
(* in hand (HolderInv), and RelayKept depends on the readers that run      *)
(* behind connected connections only through that same state.              *)
(***************************************************************************)
EXTENDS SocketPool, FiniteSetTheorems, TLAPS

IInv ==
    /\ TypeOK
    /\ HolderInv
    /\ OnePerIndex
    /\ NoOrphan
    /\ ConnectedIsRead
    /\ RelayKept

\* A new connection object is one that nobody refers to.
LEMMA NewConnUnused ==
    ASSUME \E c \in ConnId : Unused(c)
    PROVE  NewConn \in ConnId /\ Unused(NewConn)
BY DEF NewConn

-----------------------------------------------------------------------------
(* Type correctness *)

LEMMA InitType == Init => TypeOK
BY PoolAssumption
   DEF Init, TypeOK, ConnType, LockType, TaskType, HistoryType, Attempt

LEMMA NextType == TypeOK /\ [Next]_vars => TypeOK'
<1> SUFFICES ASSUME TypeOK, [Next]_vars PROVE TypeOK'
  OBVIOUS
<1> USE PoolAssumption DEF TypeOK
<1>1. CASE ConnectBegin
  <2>1. ConnType'
    BY <1>1 DEF ConnectBegin, ConnType, connVars
  <2>2. LockType'
    BY <1>1 DEF ConnectBegin, LockType, lockVars
  <2>3. TaskType'
    BY <1>1 DEF ConnectBegin, TaskType
  <2>4. HistoryType'
    BY <1>1 DEF ConnectBegin, HistoryType, history
  <2> QED
    BY <2>1, <2>2, <2>3, <2>4
<1>2. ASSUME NEW i \in Index, DialSucceeds(i) PROVE TypeOK'
  <2>0. NewConn \in ConnId
    BY <1>2, NewConnUnused DEF DialSucceeds
  <2>1. ConnType'
    BY <2>0, <1>2 DEF DialSucceeds, ConnType, connVars
  <2>2. LockType'
    BY <2>0, <1>2 DEF DialSucceeds, LockType, lockVars
  <2>3. TaskType'
    BY <1>2 DEF DialSucceeds, TaskType
  <2>4. HistoryType'
    BY <1>2 DEF DialSucceeds, HistoryType, history
  <2> QED
    BY <2>1, <2>2, <2>3, <2>4
<1>3. ASSUME NEW i \in Index, ConnectDialFails(i) PROVE TypeOK'
  <2>1. ConnType'
    BY <1>3 DEF ConnectDialFails, ConnType, connVars
  <2>2. LockType'
    BY <1>3 DEF ConnectDialFails, LockType, lockVars
  <2>3. TaskType'
    BY <1>3 DEF ConnectDialFails, TaskType
  <2>4. HistoryType'
    BY <1>3 DEF ConnectDialFails, HistoryType, history, Fault
  <2> QED
    BY <2>1, <2>2, <2>3, <2>4
<1>4. CASE ConnectInstall
  <2>1. ConnType'
    BY <1>4 DEF ConnectInstall, ConnType, connVars, LockType
  <2>2. LockType'
    BY <1>4 DEF ConnectInstall, LockType, lockVars
  <2>3. TaskType'
    BY <1>4 DEF ConnectInstall, TaskType, Attempt
  <2>4. HistoryType'
    BY <1>4 DEF ConnectInstall, HistoryType, history
  <2> QED
    BY <2>1, <2>2, <2>3, <2>4
<1>5. ASSUME NEW i \in Index, GiveUp(i) PROVE TypeOK'
  <2>1. ConnType'
    BY <1>5 DEF GiveUp, ConnType, connVars
  <2>2. LockType'
    BY <1>5 DEF GiveUp, LockType, lockVars
  <2>3. TaskType'
    BY <1>5 DEF GiveUp, TaskType, Attempt
  <2>4. HistoryType'
    BY <1>5 DEF GiveUp, HistoryType, history
  <2> QED
    BY <2>1, <2>2, <2>3, <2>4
<1>6. ASSUME NEW i \in Index, NEW a \in Attempt, ReconnectBegin(i, a) PROVE TypeOK'
  <2>0. a \in 0 .. MaxTries - 1
    BY <1>6 DEF ReconnectBegin, Attempt
  <2>1. ConnType'
    BY <2>0, <1>6 DEF ReconnectBegin, ConnType, connVars, Pooled
  <2>2. LockType'
    BY <2>0, <1>6 DEF ReconnectBegin, LockType, lockVars
  <2>3. TaskType'
    BY <2>0, <1>6 DEF ReconnectBegin, TaskType, Attempt
  <2>4. HistoryType'
    BY <1>6 DEF ReconnectBegin, HistoryType, history
  <2> QED
    BY <2>1, <2>2, <2>3, <2>4
<1>7. CASE ReconnectDialFails
  <2>0. attempt + 1 \in Attempt
    BY DEF LockType, Attempt
  <2>1. ConnType'
    BY <1>7 DEF ReconnectDialFails, ConnType, connVars
  <2>2. LockType'
    BY <2>0, <1>7 DEF ReconnectDialFails, LockType, lockVars
  <2>3. TaskType'
    BY <2>0, <1>7 DEF ReconnectDialFails, TaskType, Attempt, Spawn, LockType
  <2>4. HistoryType'
    BY <2>0, <1>7 DEF ReconnectDialFails, HistoryType, history, Fault
  <2> QED
    BY <2>1, <2>2, <2>3, <2>4
<1>8. CASE ReconnectInstall
  <2>1. ConnType'
    BY <1>8 DEF ReconnectInstall, ConnType, connVars, Pooled, LockType
  <2>2. LockType'
    BY <1>8 DEF ReconnectInstall, LockType, lockVars
  <2>3. TaskType'
    BY <1>8 DEF ReconnectInstall, TaskType
  <2>4. HistoryType'
    BY <1>8 DEF ReconnectInstall, HistoryType, history
  <2> QED
    BY <2>1, <2>2, <2>3, <2>4
<1>9. ASSUME NEW c \in ConnId, CloseFrame(c) PROVE TypeOK'
  <2>1. ConnType'
    BY <1>9 DEF CloseFrame, ConnType, connVars
  <2>2. LockType'
    BY <1>9 DEF CloseFrame, LockType, lockVars
  <2>3. TaskType'
    BY <1>9 DEF CloseFrame, TaskType, Attempt, Spawn, ConnType
  <2>4. HistoryType'
    BY <1>9 DEF CloseFrame, HistoryType, history, ConnType
  <2> QED
    BY <2>1, <2>2, <2>3, <2>4
<1>10. ASSUME NEW c \in ConnId, ReaderExits(c) PROVE TypeOK'
  <2>1. ConnType'
    BY <1>10 DEF ReaderExits, ReaderReturns, ConnType, connVars
  <2>2. LockType'
    BY <1>10 DEF ReaderExits, ReaderReturns, LockType, lockVars
  <2>3. TaskType'
    BY <1>10 DEF ReaderExits, ReaderReturns, TaskType, Attempt, Spawn, ConnType
  <2>4. HistoryType'
    BY <1>10 DEF ReaderExits, ReaderReturns, HistoryType, history
  <2> QED
    BY <2>1, <2>2, <2>3, <2>4
<1>11. ASSUME NEW c \in ConnId, ReadFails(c) PROVE TypeOK'
  <2>1. ConnType'
    BY <1>11 DEF ReadFails, ReaderReturns, ConnType, connVars
  <2>2. LockType'
    BY <1>11 DEF ReadFails, ReaderReturns, LockType, lockVars
  <2>3. TaskType'
    BY <1>11 DEF ReadFails, ReaderReturns, TaskType, Attempt, Spawn, ConnType
  <2>4. HistoryType'
    BY <1>11 DEF ReadFails, ReaderReturns, HistoryType, history, Fault
  <2> QED
    BY <2>1, <2>2, <2>3, <2>4
<1>12. ASSUME NEW c \in ConnId, PingFails(c) PROVE TypeOK'
  <2>1. ConnType'
    BY <1>12 DEF PingFails, ConnType, connVars
  <2>2. LockType'
    BY <1>12 DEF PingFails, LockType, lockVars
  <2>3. TaskType'
    BY <1>12 DEF PingFails, TaskType
  <2>4. HistoryType'
    BY <1>12 DEF PingFails, HistoryType, history, Fault
  <2> QED
    BY <2>1, <2>2, <2>3, <2>4
<1>13. CASE Close
  <2>1. ConnType'
    BY <1>13 DEF Close, ConnType, connVars
  <2>2. LockType'
    BY <1>13 DEF Close, LockType, lockVars
  <2>3. TaskType'
    BY <1>13 DEF Close, TaskType
  <2>4. HistoryType'
    BY <1>13 DEF Close, HistoryType, history
  <2> QED
    BY <2>1, <2>2, <2>3, <2>4
<1>14. CASE UNCHANGED vars
  BY <1>14 DEF vars, connVars, lockVars, history, ConnType, LockType, TaskType, HistoryType
<1> QED
  BY <1>1, <1>2, <1>3, <1>4, <1>5, <1>6, <1>7, <1>8,
     <1>9, <1>10, <1>11, <1>12, <1>13, <1>14 DEF Next

(* Every variable keeps its type. *)
THEOREM TypeCorrect == Spec => []TypeOK
BY InitType, NextType, PTL DEF Spec


-----------------------------------------------------------------------------
(* The conjuncts of the inductive invariant *)

LEMMA InitSafe == Init => HolderInv /\ OnePerIndex /\ NoOrphan /\ ConnectedIsRead /\ RelayKept
BY DEF Init, HolderInv, OnePerIndex, NoOrphan, ConnectedIsRead, RelayKept

\* A step keeps a reader behind every connected connection.
LEMMA NextConnectedIsRead == IInv /\ [Next]_vars => ConnectedIsRead'
<1> SUFFICES ASSUME IInv, [Next]_vars PROVE ConnectedIsRead'
  OBVIOUS
<1> USE DEF IInv, TypeOK, ConnType, LockType, connVars, lockVars, ConnectedIsRead
<1>1. CASE ConnectBegin
  BY <1>1 DEF ConnectBegin
<1>2. ASSUME NEW i \in Index, DialSucceeds(i) PROVE ConnectedIsRead'
  BY <1>2, NewConnUnused DEF DialSucceeds, Unused
<1>3. ASSUME NEW i \in Index, ConnectDialFails(i) PROVE ConnectedIsRead'
  BY <1>3 DEF ConnectDialFails
<1>4. CASE ConnectInstall
  BY <1>4 DEF ConnectInstall
<1>5. ASSUME NEW i \in Index, GiveUp(i) PROVE ConnectedIsRead'
  BY <1>5 DEF GiveUp
<1>6. ASSUME NEW i \in Index, NEW a \in Attempt, ReconnectBegin(i, a) PROVE ConnectedIsRead'
  BY <1>6 DEF ReconnectBegin
<1>7. CASE ReconnectDialFails
  BY <1>7 DEF ReconnectDialFails
<1>8. CASE ReconnectInstall
  BY <1>8 DEF ReconnectInstall
<1>9. ASSUME NEW c \in ConnId, CloseFrame(c) PROVE ConnectedIsRead'
  BY <1>9 DEF CloseFrame
<1>10. ASSUME NEW c \in ConnId, ReaderExits(c) PROVE ConnectedIsRead'
  BY <1>10 DEF ReaderExits, ReaderReturns
<1>11. ASSUME NEW c \in ConnId, ReadFails(c) PROVE ConnectedIsRead'
  BY <1>11 DEF ReadFails, ReaderReturns
<1>12. ASSUME NEW c \in ConnId, PingFails(c) PROVE ConnectedIsRead'
  BY <1>12 DEF PingFails
<1>13. CASE Close
  BY <1>13 DEF Close
<1>14. CASE UNCHANGED vars
  BY <1>14 DEF vars
<1> QED
  BY <1>1, <1>2, <1>3, <1>4, <1>5, <1>6, <1>7, <1>8,
     <1>9, <1>10, <1>11, <1>12, <1>13, <1>14 DEF Next

\* A step keeps what the holder of the mutex relies on.
LEMMA NextHolder == IInv /\ [Next]_vars => HolderInv'
<1> SUFFICES ASSUME IInv, [Next]_vars PROVE HolderInv'
  OBVIOUS
<1> USE DEF IInv, TypeOK, ConnType, LockType, connVars, lockVars, HolderInv, Pooled
<1>1. CASE ConnectBegin
  BY <1>1 DEF ConnectBegin, IsConnected
<1>2. ASSUME NEW i \in Index, DialSucceeds(i) PROVE HolderInv'
  BY <1>2, NewConnUnused DEF DialSucceeds, Unused
<1>3. ASSUME NEW i \in Index, ConnectDialFails(i) PROVE HolderInv'
  BY <1>3 DEF ConnectDialFails
<1>4. CASE ConnectInstall
  BY <1>4 DEF ConnectInstall
<1>5. ASSUME NEW i \in Index, GiveUp(i) PROVE HolderInv'
  BY <1>5 DEF GiveUp
<1>6. ASSUME NEW i \in Index, NEW a \in Attempt, ReconnectBegin(i, a) PROVE HolderInv'
  BY <1>6 DEF ReconnectBegin, OnePerIndex
<1>7. CASE ReconnectDialFails
  BY <1>7 DEF ReconnectDialFails
<1>8. CASE ReconnectInstall
  BY <1>8 DEF ReconnectInstall
<1>9. ASSUME NEW c \in ConnId, CloseFrame(c) PROVE HolderInv'
  BY <1>9 DEF CloseFrame
<1>10. ASSUME NEW c \in ConnId, ReaderExits(c) PROVE HolderInv'
  BY <1>10 DEF ReaderExits, ReaderReturns
<1>11. ASSUME NEW c \in ConnId, ReadFails(c) PROVE HolderInv'
  BY <1>11 DEF ReadFails, ReaderReturns
<1>12. ASSUME NEW c \in ConnId, PingFails(c) PROVE HolderInv'
  BY <1>12 DEF PingFails
<1>13. CASE Close
  BY <1>13 DEF Close
<1>14. CASE UNCHANGED vars
  BY <1>14 DEF vars
<1> QED
  BY <1>1, <1>2, <1>3, <1>4, <1>5, <1>6, <1>7, <1>8,
     <1>9, <1>10, <1>11, <1>12, <1>13, <1>14 DEF Next

\* A step keeps one connection per slot.
LEMMA NextOnePerIndex == IInv /\ [Next]_vars => OnePerIndex'
<1> SUFFICES ASSUME IInv, [Next]_vars PROVE OnePerIndex'
  OBVIOUS
<1> USE DEF IInv, TypeOK, ConnType, LockType, connVars, lockVars, HolderInv, OnePerIndex, Pooled
<1>1. CASE ConnectBegin
  BY <1>1 DEF ConnectBegin
<1>2. ASSUME NEW i \in Index, DialSucceeds(i) PROVE OnePerIndex'
  BY <1>2, NewConnUnused DEF DialSucceeds, Unused
<1>3. ASSUME NEW i \in Index, ConnectDialFails(i) PROVE OnePerIndex'
  BY <1>3 DEF ConnectDialFails
<1>4. CASE ConnectInstall
  BY <1>4 DEF ConnectInstall
<1>5. ASSUME NEW i \in Index, GiveUp(i) PROVE OnePerIndex'
  BY <1>5 DEF GiveUp
<1>6. ASSUME NEW i \in Index, NEW a \in Attempt, ReconnectBegin(i, a) PROVE OnePerIndex'
  BY <1>6 DEF ReconnectBegin
<1>7. CASE ReconnectDialFails
  BY <1>7 DEF ReconnectDialFails
<1>8. CASE ReconnectInstall
  BY <1>8 DEF ReconnectInstall
<1>9. ASSUME NEW c \in ConnId, CloseFrame(c) PROVE OnePerIndex'
  BY <1>9 DEF CloseFrame
<1>10. ASSUME NEW c \in ConnId, ReaderExits(c) PROVE OnePerIndex'
  BY <1>10 DEF ReaderExits, ReaderReturns
<1>11. ASSUME NEW c \in ConnId, ReadFails(c) PROVE OnePerIndex'
  BY <1>11 DEF ReadFails, ReaderReturns
<1>12. ASSUME NEW c \in ConnId, PingFails(c) PROVE OnePerIndex'
  BY <1>12 DEF PingFails
<1>13. CASE Close
  BY <1>13 DEF Close
<1>14. CASE UNCHANGED vars
  BY <1>14 DEF vars
<1> QED
  BY <1>1, <1>2, <1>3, <1>4, <1>5, <1>6, <1>7, <1>8,
     <1>9, <1>10, <1>11, <1>12, <1>13, <1>14 DEF Next

\* A step loses no connected connection.
LEMMA NextNoOrphan == IInv /\ [Next]_vars => NoOrphan'
<1> SUFFICES ASSUME IInv, [Next]_vars PROVE NoOrphan'
  OBVIOUS
<1> USE DEF IInv, TypeOK, ConnType, LockType, connVars, lockVars, HolderInv, OnePerIndex, NoOrphan, Pooled
<1>1. CASE ConnectBegin
  BY <1>1 DEF ConnectBegin
<1>2. ASSUME NEW i \in Index, DialSucceeds(i) PROVE NoOrphan'
  BY <1>2, NewConnUnused DEF DialSucceeds, Unused
<1>3. ASSUME NEW i \in Index, ConnectDialFails(i) PROVE NoOrphan'
  BY <1>3 DEF ConnectDialFails
<1>4. CASE ConnectInstall
  BY <1>4 DEF ConnectInstall
<1>5. ASSUME NEW i \in Index, GiveUp(i) PROVE NoOrphan'
  BY <1>5 DEF GiveUp
<1>6. ASSUME NEW i \in Index, NEW a \in Attempt, ReconnectBegin(i, a) PROVE NoOrphan'
  BY <1>6 DEF ReconnectBegin
<1>7. CASE ReconnectDialFails
  BY <1>7 DEF ReconnectDialFails
<1>8. CASE ReconnectInstall
  BY <1>8 DEF ReconnectInstall
<1>9. ASSUME NEW c \in ConnId, CloseFrame(c) PROVE NoOrphan'
  BY <1>9 DEF CloseFrame
<1>10. ASSUME NEW c \in ConnId, ReaderExits(c) PROVE NoOrphan'
  BY <1>10 DEF ReaderExits, ReaderReturns
<1>11. ASSUME NEW c \in ConnId, ReadFails(c) PROVE NoOrphan'
  BY <1>11 DEF ReadFails, ReaderReturns
<1>12. ASSUME NEW c \in ConnId, PingFails(c) PROVE NoOrphan'
  BY <1>12 DEF PingFails
<1>13. CASE Close
  BY <1>13 DEF Close
<1>14. CASE UNCHANGED vars
  BY <1>14 DEF vars
<1> QED
  BY <1>1, <1>2, <1>3, <1>4, <1>5, <1>6, <1>7, <1>8,
     <1>9, <1>10, <1>11, <1>12, <1>13, <1>14 DEF Next

\* Starting a task attends its slot and takes no task away from any slot.
LEMMA SpawnAttends ==
    ASSUME TaskType, NEW i \in Index, NEW a \in Attempt, Spawn(i, a)
    PROVE  /\ Attended(i)'
           /\ \A j \in Index, b \in Attempt : tasks[j][b] > 0 => tasks'[j][b] > 0
<1>1. tasks'[i][a] = tasks[i][a] + 1 /\ tasks[i][a] \in Nat
  BY DEF Spawn, TaskType
<1>2. ASSUME NEW j \in Index, NEW b \in Attempt, tasks[j][b] > 0
      PROVE  tasks'[j][b] > 0
  BY <1>1, <1>2 DEF Spawn, TaskType
<1> QED
  BY <1>1, <1>2 DEF Attended, InHand

\* The exit of a reader turns it into a task of its slot.
LEMMA ReaderRelay ==
    ASSUME IInv, NEW c \in ConnId, ReaderReturns(c)
    PROVE  RelayKept'
<1> USE DEF IInv, TypeOK, ConnType
<1>1. idx[c] \in Index /\ Spawn(idx[c], 0) /\ 0 \in Attempt
  BY PoolAssumption DEF ReaderReturns, Attempt
<1>2. Attended(idx[c])'
  BY <1>1, SpawnAttends DEF ReaderReturns
<1>3. \A j \in Index, b \in Attempt : tasks[j][b] > 0 => tasks'[j][b] > 0
  BY <1>1, SpawnAttends
<1>4. ASSUME NEW j \in Index, j # idx[c], Attended(j) PROVE Attended(j)'
  BY <1>3, <1>4 DEF Attended, InHand, ReaderReturns, lockVars
<1> QED
  BY <1>2, <1>4 DEF RelayKept, ReaderReturns

\* A step that does not give up a slot hands its relay on.
LEMMA NextRelay == IInv /\ [Next]_vars => RelayKept'
<1> SUFFICES ASSUME IInv, [Next]_vars PROVE RelayKept'
  OBVIOUS
<1> USE DEF IInv, TypeOK, ConnType, LockType, TaskType, connVars, lockVars
<1>1. CASE ConnectBegin
  BY <1>1 DEF ConnectBegin, RelayKept, Attended, InHand
<1>2. ASSUME NEW i \in Index, DialSucceeds(i) PROVE RelayKept'
  BY <1>2, NewConnUnused DEF DialSucceeds, Unused, RelayKept, Attended, InHand, HolderInv, history
<1>3. ASSUME NEW i \in Index, ConnectDialFails(i) PROVE RelayKept'
  BY <1>3 DEF ConnectDialFails, RelayKept, Attended, InHand
<1>4. CASE ConnectInstall
  <2>1. ASSUME NEW i \in failed PROVE Attended(i)'
    <3>1. i \in Index /\ 0 \in Attempt /\ tasks[i][0] \in Nat
      BY PoolAssumption DEF Attempt, TaskType
    <3>2. tasks'[i][0] = tasks[i][0] + 1
      BY <1>4, <3>1 DEF ConnectInstall, TaskType
    <3> QED
      BY <3>1, <3>2 DEF Attended, InHand
  <2>2. ASSUME NEW i \in Index, i \notin failed, Attended(i) PROVE Attended(i)'
    <3>1. tasks'[i] = tasks[i]
      BY <1>4, <2>2 DEF ConnectInstall
    <3> QED
      BY <1>4, <2>2, <3>1 DEF Attended, InHand, ConnectInstall
  <2> QED
    BY <2>1, <2>2, <1>4 DEF RelayKept, ConnectInstall, history
<1>5. ASSUME NEW i \in Index, GiveUp(i) PROVE RelayKept'
  <2>1. gaveUp'[i] # 0
    BY <1>5 DEF GiveUp, HistoryType
  <2>2. ASSUME NEW j \in Index, j # i, Attended(j) PROVE Attended(j)'
    BY <1>5, <2>2 DEF GiveUp, Attended, InHand, TaskType
  <2>3. \A j \in Index : j # i => gaveUp'[j] = gaveUp[j]
    BY <1>5 DEF GiveUp, HistoryType
  <2> QED
    BY <1>5, <2>1, <2>2, <2>3 DEF RelayKept, GiveUp
<1>6. ASSUME NEW i \in Index, NEW a \in Attempt, ReconnectBegin(i, a) PROVE RelayKept'
  BY <1>6 DEF ReconnectBegin, RelayKept, Attended, InHand, HolderInv, history
<1>7. CASE ReconnectDialFails
  <2>0. attempt + 1 \in Attempt
    BY PoolAssumption DEF Attempt
  <2>1. Spawn(slot, attempt + 1) /\ slot \in Index /\ attempt + 1 \in Attempt
    BY <1>7, <2>0 DEF ReconnectDialFails
  <2>2. ASSUME NEW j \in Index, j = slot PROVE Attended(j)'
    BY <2>1, <2>2, SpawnAttends
  <2>3. \A j \in Index, b \in Attempt : tasks[j][b] > 0 => tasks'[j][b] > 0
    BY <2>1, SpawnAttends
  <2>4. ASSUME NEW j \in Index, j # slot, Attended(j) PROVE Attended(j)'
    BY <2>3, <2>4, <1>7 DEF Attended, InHand, ReconnectDialFails
  <2> QED
    BY <2>2, <2>4, <1>7 DEF RelayKept, ReconnectDialFails
<1>8. CASE ReconnectInstall
  BY <1>8 DEF ReconnectInstall, RelayKept, Attended, InHand, history
<1>9. ASSUME NEW c \in ConnId, CloseFrame(c) PROVE RelayKept'
  <2>1. idx[c] \in Index /\ Spawn(idx[c], 0) /\ 0 \in Attempt
    BY <1>9, PoolAssumption DEF CloseFrame, Attempt
  <2>2. \A j \in Index, b \in Attempt : tasks[j][b] > 0 => tasks'[j][b] > 0
    BY <2>1, SpawnAttends
  <2>3. ASSUME NEW j \in Index, Attended(j) PROVE Attended(j)'
    BY <1>9, <2>2, <2>3 DEF CloseFrame, Attended, InHand
  <2> QED
    BY <1>9, <2>3 DEF RelayKept, CloseFrame
<1>10. ASSUME NEW c \in ConnId, ReaderExits(c) PROVE RelayKept'
  BY <1>10, ReaderRelay DEF ReaderExits
<1>11. ASSUME NEW c \in ConnId, ReadFails(c) PROVE RelayKept'
  BY <1>11, ReaderRelay DEF ReadFails
<1>12. ASSUME NEW c \in ConnId, PingFails(c) PROVE RelayKept'
  BY <1>12 DEF PingFails, RelayKept, Attended, InHand
<1>13. CASE Close
  BY <1>13 DEF Close, RelayKept, Attended, InHand
<1>14. CASE UNCHANGED vars
  BY <1>14 DEF vars, RelayKept, Attended, InHand, history
<1> QED
  BY <1>1, <1>2, <1>3, <1>4, <1>5, <1>6, <1>7, <1>8,
     <1>9, <1>10, <1>11, <1>12, <1>13, <1>14 DEF Next

-----------------------------------------------------------------------------
(* The count of relays *)

\* A slot's relays are finitely many, and as many as its history says.
Accounted(i) ==
    /\ IsFiniteSet(Sleeping(i)) /\ IsFiniteSet(Readers(i))
    /\ Relays(i) = connects + closeFrames[i] - gaveUp[i]

CountInv == \A i \in Index : Accounted(i)

\* A sleeping task more for slot i.
LEMMA SleeperAdded ==
    ASSUME TaskType, NEW i \in Index, NEW a \in Attempt, IsFiniteSet(Sleeping(i)),
           tasks'[i] = [tasks[i] EXCEPT ![a] = @ + 1]
    PROVE  /\ IsFiniteSet(Sleeping(i)')
           /\ Cardinality(Sleeping(i)') = Cardinality(Sleeping(i)) + 1
<1> DEFINE new == <<a, tasks[i][a] + 1>>
<1>1. /\ \A b \in Attempt : tasks[i][b] \in Nat
      /\ tasks'[i][a] = tasks[i][a] + 1
      /\ \A b \in Attempt \ {a} : tasks'[i][b] = tasks[i][b]
  BY DEF TaskType
<1>2. new \notin Sleeping(i)
  BY <1>1 DEF Sleeping
<1>3. ASSUME NEW b \in Attempt
      PROVE  {<<b, n>> : n \in 1 .. tasks'[i][b]}
               = {<<b, n>> : n \in 1 .. tasks[i][b]} \cup (IF b = a THEN {new} ELSE {})
  BY <1>1
<1>4. Sleeping(i)' = Sleeping(i) \cup {new}
  BY <1>3 DEF Sleeping
<1> HIDE DEF new
<1> QED
  BY <1>2, <1>4, FS_AddElement

\* A sleeping task less.
LEMMA SleeperRemoved ==
    ASSUME TaskType, NEW i \in Index, NEW a \in Attempt, IsFiniteSet(Sleeping(i)),
           tasks[i][a] > 0, tasks'[i] = [tasks[i] EXCEPT ![a] = @ - 1]
    PROVE  /\ IsFiniteSet(Sleeping(i)')
           /\ Cardinality(Sleeping(i)') = Cardinality(Sleeping(i)) - 1
<1> DEFINE last == <<a, tasks[i][a]>>
<1>1. /\ \A b \in Attempt : tasks[i][b] \in Nat
      /\ tasks'[i][a] = tasks[i][a] - 1
      /\ \A b \in Attempt \ {a} : tasks'[i][b] = tasks[i][b]
  BY DEF TaskType
<1>2. last \in Sleeping(i)
  BY <1>1 DEF Sleeping
<1>3. ASSUME NEW b \in Attempt
      PROVE  {<<b, n>> : n \in 1 .. tasks'[i][b]}
               = {<<b, n>> : n \in 1 .. tasks[i][b]} \ {last}
  BY <1>1
<1>4. Sleeping(i)' = Sleeping(i) \ {last}
  BY <1>3 DEF Sleeping
<1> HIDE DEF last
<1> QED
  BY <1>2, <1>4, FS_RemoveElement

\* A slot a step does not touch stays accounted for.
LEMMA Untouched ==
    ASSUME NEW i \in Index, Accounted(i), tasks'[i] = tasks[i], Readers(i)' = Readers(i),
           InHand(i)' <=> InHand(i),
           connects' + closeFrames'[i] - gaveUp'[i] = connects + closeFrames[i] - gaveUp[i]
    PROVE  Accounted(i)'
<1>1. Sleeping(i)' = Sleeping(i)
  BY DEF Sleeping
<1> QED
  BY <1>1 DEF Accounted, Relays

\* The balance of a slot, with its sets counted.
LEMMA Counted ==
    ASSUME TypeOK, NEW i \in Index, Accounted(i)
    PROVE  /\ Cardinality(Sleeping(i)) \in Nat /\ Cardinality(Readers(i)) \in Nat
           /\ connects \in Nat /\ closeFrames[i] \in Nat /\ gaveUp[i] \in Nat
           /\ Cardinality(Sleeping(i)) + Cardinality(Readers(i)) + (IF InHand(i) THEN 1 ELSE 0)
                = connects + closeFrames[i] - gaveUp[i]
BY FS_CardinalityType, PoolAssumption DEF Accounted, Relays, TypeOK, HistoryType

\* The exit of a reader makes it a sleeping task of its slot.
LEMMA ReaderCount ==
    ASSUME IInv, CountInv, NEW c \in ConnId, reader[c] # "none", ReaderReturns(c),
           NEW i \in Index
    PROVE  Accounted(i)'
<1> USE DEF IInv, TypeOK, ConnType, connVars, lockVars
<1>0. Accounted(i) /\ idx[c] \in Index /\ 0 \in Attempt
  BY PoolAssumption DEF CountInv, Attempt
<1>1. CASE i = idx[c]
  <2>1. c \in Readers(i) /\ Readers(i)' = Readers(i) \ {c}
    BY <1>1 DEF Readers, ReaderReturns
  <2>2. /\ IsFiniteSet(Readers(i)')
        /\ Cardinality(Readers(i)') = Cardinality(Readers(i)) - 1
    BY <1>0, <2>1, FS_RemoveElement DEF Accounted
  <2>3. tasks'[i] = [tasks[i] EXCEPT ![0] = @ + 1]
    BY <1>1, <1>0 DEF ReaderReturns, Spawn, TaskType
  <2>4. /\ IsFiniteSet(Sleeping(i)')
        /\ Cardinality(Sleeping(i)') = Cardinality(Sleeping(i)) + 1
    BY <1>0, <2>3, SleeperAdded DEF Accounted
  <2>5. UNCHANGED <<connects, closeFrames, gaveUp>> /\ (InHand(i)' <=> InHand(i))
    BY DEF ReaderReturns, InHand
  <2> QED
    BY <1>0, <2>2, <2>4, <2>5, Counted DEF Accounted, Relays
<1>2. CASE i # idx[c]
  <2>1. tasks'[i] = tasks[i] /\ Readers(i)' = Readers(i)
    BY <1>2, <1>0 DEF ReaderReturns, Spawn, TaskType, Readers
  <2>2. UNCHANGED <<connects, closeFrames, gaveUp>> /\ (InHand(i)' <=> InHand(i))
    BY DEF ReaderReturns, InHand
  <2> QED
    BY <1>0, <2>1, <2>2, Untouched
<1> QED
  BY <1>1, <1>2

\* A step keeps the balance of every slot.
LEMMA NextCount == IInv /\ CountInv /\ [Next]_vars => CountInv'
<1> SUFFICES ASSUME IInv, CountInv, [Next]_vars, NEW j \in Index PROVE Accounted(j)'
  BY DEF CountInv
<1> USE DEF IInv, TypeOK, ConnType, LockType, connVars, lockVars, history
<1>0. /\ Accounted(j)
      /\ IsFiniteSet(Sleeping(j)) /\ IsFiniteSet(Readers(j))
  BY DEF CountInv, Accounted
<1>1. CASE ConnectBegin
  <2>1. Sleeping(j)' = Sleeping(j) /\ Readers(j)' = Readers(j)
    BY <1>1 DEF ConnectBegin, Sleeping, Readers
  <2>2. ~InHand(j) /\ InHand(j)'
    BY <1>1 DEF ConnectBegin, InHand
  <2>3. connects' = connects + 1 /\ UNCHANGED <<closeFrames, gaveUp>>
    BY <1>1 DEF ConnectBegin
  <2> QED
    BY <1>0, <2>1, <2>2, <2>3, Counted DEF Accounted, Relays
<1>2. ASSUME NEW i \in Index, DialSucceeds(i) PROVE Accounted(j)'
  <2>0. NewConn \in ConnId /\ reader[NewConn] = "none"
    BY <1>2, NewConnUnused DEF DialSucceeds, Unused
  <2>1. CASE j = i
    <3>1. NewConn \notin Readers(j) /\ Readers(j)' = Readers(j) \cup {NewConn}
      BY <1>2, <2>0, <2>1 DEF DialSucceeds, Readers
    <3>2. /\ IsFiniteSet(Readers(j)')
          /\ Cardinality(Readers(j)') = Cardinality(Readers(j)) + 1
      BY <1>0, <3>1, FS_AddElement
    <3>3. Sleeping(j)' = Sleeping(j) /\ UNCHANGED <<connects, closeFrames, gaveUp>>
      BY <1>2 DEF DialSucceeds, Sleeping
    <3>4. InHand(j) /\ ~InHand(j)'
      BY <1>2, <2>1 DEF DialSucceeds, InHand, HolderInv
    <3> QED
      BY <1>0, <3>2, <3>3, <3>4, Counted DEF Accounted, Relays
  <2>2. CASE j # i
    <3>1. tasks'[j] = tasks[j] /\ UNCHANGED <<connects, closeFrames, gaveUp>>
      BY <1>2 DEF DialSucceeds
    <3>2. Readers(j)' = Readers(j)
      BY <1>2, <2>0, <2>2 DEF DialSucceeds, Readers
    <3>3. InHand(j)' <=> InHand(j)
      BY <1>2, <2>2 DEF DialSucceeds, InHand
    <3> QED
      BY <1>0, <3>1, <3>2, <3>3, Untouched
  <2> QED
    BY <2>1, <2>2
<1>3. ASSUME NEW i \in Index, ConnectDialFails(i) PROVE Accounted(j)'
  <2>1. /\ tasks'[j] = tasks[j] /\ Readers(j)' = Readers(j)
        /\ UNCHANGED <<connects, closeFrames, gaveUp>>
    BY <1>3 DEF ConnectDialFails, Readers
  <2>2. InHand(j)' <=> InHand(j)
    BY <1>3 DEF ConnectDialFails, InHand
  <2> QED
    BY <1>0, <2>1, <2>2, Untouched
<1>4. CASE ConnectInstall
  <2>1. Readers(j)' = Readers(j) /\ UNCHANGED <<connects, closeFrames, gaveUp>>
    BY <1>4 DEF ConnectInstall, Readers
  <2>2. ~InHand(j)' /\ (InHand(j) <=> j \in failed)
    BY <1>4 DEF ConnectInstall, InHand
  <2>3. CASE j \in failed
    <3>1. tasks'[j] = [tasks[j] EXCEPT ![0] = @ + 1] /\ 0 \in Attempt
      BY <1>4, <2>3, PoolAssumption DEF ConnectInstall, Attempt
    <3>2. /\ IsFiniteSet(Sleeping(j)')
          /\ Cardinality(Sleeping(j)') = Cardinality(Sleeping(j)) + 1
      BY <1>0, <3>1, SleeperAdded
    <3> QED
      BY <1>0, <2>1, <2>2, <2>3, <3>2, Counted DEF Accounted, Relays
  <2>4. CASE j \notin failed
    <3>1. tasks'[j] = tasks[j]
      BY <1>4, <2>4 DEF ConnectInstall
    <3> QED
      BY <1>0, <2>1, <2>2, <2>4, <3>1, Untouched
  <2> QED
    BY <2>3, <2>4
<1>5. ASSUME NEW i \in Index, GiveUp(i) PROVE Accounted(j)'
  <2>1. Readers(j)' = Readers(j) /\ (InHand(j)' <=> InHand(j)) /\ UNCHANGED <<connects, closeFrames>>
    BY <1>5 DEF GiveUp, Readers, InHand
  <2>2. CASE j = i
    <3>1. tasks'[j] = [tasks[j] EXCEPT ![MaxTries] = @ - 1] /\ MaxTries \in Attempt
      BY <1>5, <2>2, PoolAssumption DEF GiveUp, TaskType, Attempt
    <3>2. /\ IsFiniteSet(Sleeping(j)')
          /\ Cardinality(Sleeping(j)') = Cardinality(Sleeping(j)) - 1
      BY <1>0, <1>5, <2>2, <3>1, SleeperRemoved DEF GiveUp
    <3>3. gaveUp'[j] = gaveUp[j] + 1
      BY <1>5, <2>2 DEF GiveUp, HistoryType
    <3> QED
      BY <1>0, <2>1, <3>2, <3>3, Counted DEF Accounted, Relays
  <2>3. CASE j # i
    <3>1. tasks'[j] = tasks[j] /\ gaveUp'[j] = gaveUp[j]
      BY <1>5, <2>3 DEF GiveUp, TaskType, HistoryType
    <3> QED
      BY <1>0, <2>1, <3>1, Untouched
  <2> QED
    BY <2>2, <2>3
<1>6. ASSUME NEW i \in Index, NEW a \in Attempt, ReconnectBegin(i, a) PROVE Accounted(j)'
  <2>1. Readers(j)' = Readers(j) /\ UNCHANGED <<connects, closeFrames, gaveUp>>
    BY <1>6 DEF ReconnectBegin, Readers
  <2>2. ~InHand(j) /\ (InHand(j)' <=> j = i)
    BY <1>6 DEF ReconnectBegin, InHand
  <2>3. CASE j = i
    <3>1. tasks'[j] = [tasks[j] EXCEPT ![a] = @ - 1]
      BY <1>6, <2>3 DEF ReconnectBegin, TaskType
    <3>2. /\ IsFiniteSet(Sleeping(j)')
          /\ Cardinality(Sleeping(j)') = Cardinality(Sleeping(j)) - 1
      BY <1>0, <1>6, <2>3, <3>1, SleeperRemoved DEF ReconnectBegin
    <3> QED
      BY <1>0, <2>1, <2>2, <2>3, <3>2, Counted DEF Accounted, Relays
  <2>4. CASE j # i
    <3>1. tasks'[j] = tasks[j]
      BY <1>6, <2>4 DEF ReconnectBegin, TaskType
    <3> QED
      BY <1>0, <2>1, <2>2, <2>4, <3>1, Untouched
  <2> QED
    BY <2>3, <2>4
<1>7. CASE ReconnectDialFails
  <2>1. Readers(j)' = Readers(j) /\ UNCHANGED <<connects, closeFrames, gaveUp>>
    BY <1>7 DEF ReconnectDialFails, Readers
  <2>2. ~InHand(j)' /\ (InHand(j) <=> j = slot)
    BY <1>7 DEF ReconnectDialFails, InHand
  <2>3. CASE j = slot
    <3>1. tasks'[j] = [tasks[j] EXCEPT ![attempt + 1] = @ + 1] /\ attempt + 1 \in Attempt
      BY <1>7, <2>3, PoolAssumption DEF ReconnectDialFails, Spawn, TaskType, Attempt
    <3>2. /\ IsFiniteSet(Sleeping(j)')
          /\ Cardinality(Sleeping(j)') = Cardinality(Sleeping(j)) + 1
      BY <1>0, <3>1, SleeperAdded
    <3> QED
      BY <1>0, <2>1, <2>2, <2>3, <3>2, Counted DEF Accounted, Relays
  <2>4. CASE j # slot
    <3>1. tasks'[j] = tasks[j]
      BY <1>7, <2>4 DEF ReconnectDialFails, Spawn, TaskType
    <3> QED
      BY <1>0, <2>1, <2>2, <2>4, <3>1, Untouched
  <2> QED
    BY <2>3, <2>4
<1>8. CASE ReconnectInstall
  <2>1. /\ tasks'[j] = tasks[j] /\ Readers(j)' = Readers(j)
        /\ UNCHANGED <<connects, closeFrames, gaveUp>>
    BY <1>8 DEF ReconnectInstall, Readers
  <2>2. InHand(j)' <=> InHand(j)
    BY <1>8 DEF ReconnectInstall, InHand
  <2> QED
    BY <1>0, <2>1, <2>2, Untouched
<1>9. ASSUME NEW c \in ConnId, CloseFrame(c) PROVE Accounted(j)'
  <2>1. Readers(j)' = Readers(j) /\ (InHand(j)' <=> InHand(j)) /\ UNCHANGED <<connects, gaveUp>>
    BY <1>9 DEF CloseFrame, Readers, InHand
  <2>2. CASE j = idx[c]
    <3>1. tasks'[j] = [tasks[j] EXCEPT ![0] = @ + 1] /\ 0 \in Attempt
      BY <1>9, <2>2, PoolAssumption DEF CloseFrame, Spawn, TaskType, Attempt
    <3>2. /\ IsFiniteSet(Sleeping(j)')
          /\ Cardinality(Sleeping(j)') = Cardinality(Sleeping(j)) + 1
      BY <1>0, <3>1, SleeperAdded
    <3>3. closeFrames'[j] = closeFrames[j] + 1
      BY <1>9, <2>2 DEF CloseFrame, HistoryType
    <3>4. /\ Relays(j) \in Int /\ Relays(j)' = Relays(j) + 1
          /\ connects \in Int /\ closeFrames[j] \in Int /\ gaveUp[j] \in Int
      BY <1>0, <2>1, <3>2, Counted DEF Relays
    <3>5. Relays(j)' = connects' + closeFrames'[j] - gaveUp'[j]
      BY <1>0, <2>1, <3>3, <3>4 DEF Accounted
    <3> QED
      BY <2>1, <1>0, <3>2, <3>5 DEF Accounted
  <2>3. CASE j # idx[c]
    <3>1. tasks'[j] = tasks[j] /\ closeFrames'[j] = closeFrames[j]
      BY <1>9, <2>3 DEF CloseFrame, Spawn, TaskType, HistoryType
    <3> QED
      BY <1>0, <2>1, <3>1, Untouched
  <2> QED
    BY <2>2, <2>3
<1>10. ASSUME NEW c \in ConnId, ReaderExits(c) PROVE Accounted(j)'
  BY <1>10, ReaderCount DEF ReaderExits
<1>11. ASSUME NEW c \in ConnId, ReadFails(c) PROVE Accounted(j)'
  BY <1>11, ReaderCount DEF ReadFails
<1>12. ASSUME NEW c \in ConnId, PingFails(c) PROVE Accounted(j)'
  <2>1. /\ tasks'[j] = tasks[j] /\ Readers(j)' = Readers(j)
        /\ UNCHANGED <<connects, closeFrames, gaveUp>> /\ (InHand(j)' <=> InHand(j))
    BY <1>12 DEF PingFails, Readers, InHand
  <2> QED
    BY <1>0, <2>1, Untouched
<1>13. CASE Close
  <2>1. /\ tasks'[j] = tasks[j] /\ Readers(j)' = Readers(j)
        /\ UNCHANGED <<connects, closeFrames, gaveUp>> /\ (InHand(j)' <=> InHand(j))
    BY <1>13 DEF Close, Readers, InHand
  <2> QED
    BY <1>0, <2>1, Untouched
<1>14. CASE UNCHANGED vars
  <2>1. /\ tasks'[j] = tasks[j] /\ Readers(j)' = Readers(j)
        /\ UNCHANGED <<connects, closeFrames, gaveUp>> /\ (InHand(j)' <=> InHand(j))
    BY <1>14 DEF vars, Readers, InHand
  <2> QED
    BY <1>0, <2>1, Untouched
<1> QED
  BY <1>1, <1>2, <1>3, <1>4, <1>5, <1>6, <1>7, <1>8,
     <1>9, <1>10, <1>11, <1>12, <1>13, <1>14 DEF Next

\* Before Connect there are no relays.
LEMMA InitCount == Init => CountInv
<1> SUFFICES ASSUME Init, NEW i \in Index PROVE Accounted(i)
  BY DEF CountInv
<1>1. Sleeping(i) = {}
  BY DEF Init, Sleeping
<1>2. Readers(i) = {} /\ ~InHand(i)
  BY DEF Init, Readers, InHand
<1> QED
  BY <1>1, <1>2, FS_EmptySet DEF Init, Accounted, Relays

-----------------------------------------------------------------------------
(* The theorems *)

LEMMA InductiveInvariant == Spec => []IInv
<1>1. Init => IInv
  BY InitType, InitSafe DEF IInv
<1>2. IInv /\ [Next]_vars => IInv'
  BY NextType, NextHolder, NextOnePerIndex, NextNoOrphan, NextConnectedIsRead,
     NextRelay DEF IInv
<1> QED
  BY <1>1, <1>2, PTL DEF Spec

(* What the holder of connectionMutex has in hand is its own. *)
THEOREM HolderExclusive == Spec => []HolderInv
<1>1. IInv => HolderInv
  BY DEF IInv
<1> QED
  BY InductiveInvariant, <1>1, PTL

(* A slot never holds two connections: the pool never outgrows poolSize. *)
THEOREM OneConnectionPerSlot == Spec => []OnePerIndex
<1>1. IInv => OnePerIndex
  BY DEF IInv
<1> QED
  BY InductiveInvariant, <1>1, PTL

(* A usable connection is in the pool or about to be put there. *)
THEOREM NoConnectionOrphaned == Spec => []NoOrphan
<1>1. IInv => NoOrphan
  BY DEF IInv
<1> QED
  BY InductiveInvariant, <1>1, PTL

(* A usable connection has an open socket and a reader on it. *)
THEOREM ConnectedHasReader == Spec => []ConnectedIsRead
<1>1. IInv => ConnectedIsRead
  BY DEF IInv
<1> QED
  BY InductiveInvariant, <1>1, PTL

(* A slot that was not given up always has somebody who will act on it. *)
THEOREM RelayNeverLost == Spec => []RelayKept
<1>1. IInv => RelayKept
  BY DEF IInv
<1> QED
  BY InductiveInvariant, <1>1, PTL

(* Relays are doubled by close frames only, and lost by giving up only: a  *)
(* slot has as many as its history says, at every moment.                  *)
THEOREM RelaysCounted == Spec => []RelaysAccounted
<1>1. CountInv => RelaysAccounted
  BY DEF CountInv, Accounted, RelaysAccounted
<1> QED
  BY InductiveInvariant, InitCount, NextCount, <1>1, PTL DEF Spec

=============================================================================
