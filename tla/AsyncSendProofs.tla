--------------------------- MODULE AsyncSendProofs ---------------------------
(***************************************************************************)
(* What module AsyncSend claims, proved for any finite number of calls and *)
(* any set of connections.  The load counter is compared with the number   *)
(* of calls in flight by counting: each step adds one call to the set, or  *)
(* takes one away, or leaves it alone.                                     *)
(***************************************************************************)
EXTENDS AsyncSend, FiniteSetTheorems, TLAPS

\* TypeOK without the sign of the counter, which PendingExact provides.
IntType ==
    /\ pool \subseteq Conn
    /\ connected \in [Conn -> BOOLEAN]
    /\ wsOpen \in [Conn -> BOOLEAN]
    /\ deadline \in [Conn -> BOOLEAN]
    /\ writing \in [Conn -> Call \cup {NoCall, Sender}]
    /\ reader \in [Conn -> {"none", "reading", "stopping", "done"}]
    /\ pending \in [Conn -> Int]
    /\ handlers \in [Conn -> SUBSET Call]
    /\ inHand \in [Conn -> Call \cup {NoCall}]
    /\ sent \subseteq Call
    /\ pc \in [Call -> {"ready", "picked", "checked", "registered",
                        "writing", "waiting", "leaving", "done"}]
    /\ on \in [Call -> Conn]
    /\ chan \in [Call -> 0 .. 1]

\* Connections are used only once they exist, and a call is answered only
\* after it registered.
LifeInv ==
    /\ \A c \in Conn : c \in pool => reader[c] # "none"
    /\ \A c \in Conn : connected[c] => reader[c] = "reading"
    /\ \A k \in Call : pc[k] \notin {"ready", "done"} => reader[on[k]] # "none"
    /\ \A k \in Call : pc[k] \in {"ready", "picked", "checked"} =>
         chan[k] = 0 /\ \A c \in Conn : inHand[c] # k

IInv ==
    /\ IntType
    /\ LifeInv
    /\ PendingExact
    /\ HandlersInFlight
    /\ NoReplyDropped
    /\ AnswerableWhileConnected

-----------------------------------------------------------------------------
(* Counting the calls in flight *)

LEMMA InFlightFinite ==
    ASSUME NEW c \in Conn
    PROVE  IsFiniteSet(InFlight(c)) /\ Cardinality(InFlight(c)) \in Nat
<1>1. InFlight(c) \subseteq Call
  BY DEF InFlight
<1> QED
  BY <1>1, CallAssumption, FS_Subset, FS_CardinalityType

\* A step that leaves the set of calls in flight and the counter alone.
LEMMA SameLoad ==
    ASSUME PendingExact, pending' = pending,
           \A c \in Conn : InFlight(c)' = InFlight(c)
    PROVE  PendingExact'
BY DEF PendingExact

LEMMA InitInv == Init => IInv
<1> SUFFICES ASSUME Init PROVE IInv
  OBVIOUS
<1>1. IntType /\ LifeInv /\ HandlersInFlight /\ NoReplyDropped /\ AnswerableWhileConnected
  BY CallAssumption DEF Init, IntType, LifeInv, HandlersInFlight, NoReplyDropped,
     AnswerableWhileConnected, InFlight
<1>2. \A c \in Conn : InFlight(c) = {}
  BY DEF Init, InFlight
<1>3. PendingExact
  BY <1>2, FS_EmptySet DEF Init, PendingExact
<1> QED
  BY <1>1, <1>3 DEF IInv

-----------------------------------------------------------------------------
(* The conjuncts of the inductive invariant *)

\* A step keeps the types.
LEMMA NextType == IntType /\ [Next]_vars => IntType'
<1> SUFFICES ASSUME IntType, [Next]_vars PROVE IntType'
  OBVIOUS
<1> USE DEF IntType, connVars, callVars, lockVars
<1>1. ASSUME NEW k \in Call, NEW c \in Conn, Pick(k, c) PROVE IntType'
  BY <1>1 DEF Pick, Goto
<1>2. ASSUME NEW k \in Call, PickNone(k) PROVE IntType'
  BY <1>2 DEF PickNone, Goto
<1>3. ASSUME NEW k \in Call, Check(k) PROVE IntType'
  BY <1>3 DEF Check, Goto
<1>4. ASSUME NEW k \in Call, Register(k) PROVE IntType'
  BY <1>4 DEF Register, Goto
<1>5. ASSUME NEW k \in Call, EncodingFails(k) PROVE IntType'
  BY <1>5 DEF EncodingFails, Goto
<1>6. ASSUME NEW k \in Call, Write(k) PROVE IntType'
  BY <1>6 DEF Write, Goto, Unlock, UnchangedButWriter
<1>7. ASSUME NEW k \in Call, WriteFails(k) PROVE IntType'
  BY <1>7 DEF WriteFails, Goto, Unlock, UnchangedButWriter
<1>8. ASSUME NEW k \in Call, Receive(k) PROVE IntType'
  BY <1>8 DEF Receive, Goto
<1>9. ASSUME NEW k \in Call, TimeOut(k) PROVE IntType'
  BY <1>9 DEF TimeOut, Goto
<1>10. ASSUME NEW k \in Call, Cleanup(k) PROVE IntType'
  BY <1>10 DEF Cleanup, Goto
<1>11. ASSUME NEW c \in Conn, NEW k \in Call, Deliver(c, k) PROVE IntType'
  BY <1>11 DEF Deliver
<1>12. ASSUME NEW c \in Conn, HandOver(c) PROVE IntType'
  BY <1>12 DEF HandOver
<1>13. ASSUME NEW c \in Conn, ReaderExits(c) PROVE IntType'
  BY <1>13 DEF ReaderExits
<1>14. ASSUME NEW c \in Conn, Install(c) PROVE IntType'
  BY <1>14 DEF Install
<1>15. ASSUME NEW c \in Conn, Mark(c) PROVE IntType'
  BY <1>15 DEF Mark
<1>16. ASSUME NEW c \in Conn, ReconnectCloses(c) PROVE IntType'
  BY <1>16 DEF ReconnectCloses
<1>17. ASSUME NEW c \in Conn, Replace(c) PROVE IntType'
  BY <1>17 DEF Replace
<1>18. ASSUME NEW c \in Conn, Close(c) PROVE IntType'
  BY <1>18 DEF Close
<1>19. CASE UNCHANGED vars
  BY <1>19 DEF vars
<1>20. ASSUME NEW k \in Call, WriteBegins(k) PROVE IntType'
  BY <1>20 DEF WriteBegins, Goto, UnchangedButWriter
<1>21. ASSUME NEW c \in Conn, Ping(c) PROVE IntType'
  BY <1>21 DEF Ping
<1>22. ASSUME NEW c \in Conn, SendBegins(c) PROVE IntType'
  BY <1>22 DEF SendBegins, UnchangedButWriter
<1>23. ASSUME NEW c \in Conn, SendReturns(c) PROVE IntType'
  BY <1>23 DEF SendReturns, Unlock, UnchangedButWriter
<1> QED
  BY <1>1, <1>2, <1>3, <1>4, <1>5, <1>6, <1>7, <1>8,
     <1>9, <1>10, <1>11, <1>12, <1>13, <1>14, <1>15, <1>16,
     <1>17, <1>18, <1>19, <1>20, <1>21, <1>22, <1>23 DEF Next, CallStep, ReaderStep, LifeStep

\* A step keeps the order in which connections and calls come to life.
LEMMA NextLife == IInv /\ [Next]_vars => LifeInv'
<1> SUFFICES ASSUME IInv, [Next]_vars PROVE LifeInv'
  OBVIOUS
<1> USE DEF IInv, IntType, LifeInv, connVars, callVars, lockVars
<1>1. ASSUME NEW k \in Call, NEW c \in Conn, Pick(k, c) PROVE LifeInv'
  BY <1>1 DEF Pick, Goto
<1>2. ASSUME NEW k \in Call, PickNone(k) PROVE LifeInv'
  BY <1>2 DEF PickNone, Goto
<1>3. ASSUME NEW k \in Call, Check(k) PROVE LifeInv'
  BY <1>3 DEF Check, Goto
<1>4. ASSUME NEW k \in Call, Register(k) PROVE LifeInv'
  BY <1>4 DEF Register, Goto
<1>5. ASSUME NEW k \in Call, EncodingFails(k) PROVE LifeInv'
  BY <1>5 DEF EncodingFails, Goto
<1>6. ASSUME NEW k \in Call, Write(k) PROVE LifeInv'
  BY <1>6 DEF Write, Goto, Unlock, UnchangedButWriter
<1>7. ASSUME NEW k \in Call, WriteFails(k) PROVE LifeInv'
  BY <1>7 DEF WriteFails, Goto, Unlock, UnchangedButWriter
<1>8. ASSUME NEW k \in Call, Receive(k) PROVE LifeInv'
  BY <1>8 DEF Receive, Goto
<1>9. ASSUME NEW k \in Call, TimeOut(k) PROVE LifeInv'
  BY <1>9 DEF TimeOut, Goto
<1>10. ASSUME NEW k \in Call, Cleanup(k) PROVE LifeInv'
  BY <1>10 DEF Cleanup, Goto
<1>11. ASSUME NEW c \in Conn, NEW k \in Call, Deliver(c, k) PROVE LifeInv'
  BY <1>11 DEF Deliver, HandlersInFlight, InFlight
<1>12. ASSUME NEW c \in Conn, HandOver(c) PROVE LifeInv'
  <2>1. \A d \in Conn : connected'[d] => reader'[d] = "reading"
    BY <1>12 DEF HandOver
  <2>2. \A d \in Conn : reader[d] # "none" => reader'[d] # "none"
    BY <1>12 DEF HandOver
  <2>3. ASSUME NEW k \in Call, pc[k] \in {"ready", "picked", "checked"}
        PROVE  chan'[k] = 0 /\ \A d \in Conn : inHand'[d] # k
    BY <1>12, <2>3, CallAssumption DEF HandOver
  <2> QED
    BY <1>12, <2>1, <2>2, <2>3 DEF HandOver
<1>13. ASSUME NEW c \in Conn, ReaderExits(c) PROVE LifeInv'
  BY <1>13 DEF ReaderExits
<1>14. ASSUME NEW c \in Conn, Install(c) PROVE LifeInv'
  BY <1>14 DEF Install
<1>15. ASSUME NEW c \in Conn, Mark(c) PROVE LifeInv'
  BY <1>15 DEF Mark
<1>16. ASSUME NEW c \in Conn, ReconnectCloses(c) PROVE LifeInv'
  BY <1>16 DEF ReconnectCloses
<1>17. ASSUME NEW c \in Conn, Replace(c) PROVE LifeInv'
  BY <1>17 DEF Replace
<1>18. ASSUME NEW c \in Conn, Close(c) PROVE LifeInv'
  BY <1>18 DEF Close
<1>19. CASE UNCHANGED vars
  BY <1>19 DEF vars
<1>20. ASSUME NEW k \in Call, WriteBegins(k) PROVE LifeInv'
  BY <1>20 DEF WriteBegins, Goto, UnchangedButWriter
<1>21. ASSUME NEW c \in Conn, Ping(c) PROVE LifeInv'
  BY <1>21 DEF Ping
<1>22. ASSUME NEW c \in Conn, SendBegins(c) PROVE LifeInv'
  BY <1>22 DEF SendBegins, UnchangedButWriter
<1>23. ASSUME NEW c \in Conn, SendReturns(c) PROVE LifeInv'
  BY <1>23 DEF SendReturns, Unlock, UnchangedButWriter
<1> QED
  BY <1>1, <1>2, <1>3, <1>4, <1>5, <1>6, <1>7, <1>8,
     <1>9, <1>10, <1>11, <1>12, <1>13, <1>14, <1>15, <1>16,
     <1>17, <1>18, <1>19, <1>20, <1>21, <1>22, <1>23 DEF Next, CallStep, ReaderStep, LifeStep

\* A step keeps the load counters exact.
LEMMA NextPending == IInv /\ [Next]_vars => PendingExact'
<1> SUFFICES ASSUME IInv, [Next]_vars PROVE PendingExact'
  OBVIOUS
<1> USE DEF IInv
<1>1. ASSUME NEW k \in Call, NEW c \in Conn, Pick(k, c) PROVE PendingExact'
  <2>1. \A d \in Conn : InFlight(d)' = InFlight(d)
    BY <1>1 DEF Pick, Goto, InFlight, IntType, callVars
  <2> QED
    BY <1>1, <2>1, SameLoad DEF Pick, connVars
<1>2. ASSUME NEW k \in Call, PickNone(k) PROVE PendingExact'
  <2>1. \A d \in Conn : InFlight(d)' = InFlight(d)
    BY <1>2 DEF PickNone, Goto, InFlight, IntType, callVars
  <2> QED
    BY <1>2, <2>1, SameLoad DEF PickNone, connVars
<1>3. ASSUME NEW k \in Call, Check(k) PROVE PendingExact'
  <2>1. \A d \in Conn : InFlight(d)' = InFlight(d)
    BY <1>3 DEF Check, Goto, InFlight, IntType, callVars
  <2> QED
    BY <1>3, <2>1, SameLoad DEF Check, connVars
<1>4. ASSUME NEW k \in Call, Register(k) PROVE PendingExact'
  <2>1. InFlight(on[k])' = InFlight(on[k]) \cup {k} /\ k \notin InFlight(on[k])
    BY <1>4 DEF Register, Goto, InFlight, IntType
  <2>2. \A d \in Conn : d # on[k] => InFlight(d)' = InFlight(d)
    BY <1>4 DEF Register, Goto, InFlight, IntType
  <2>3. on[k] \in Conn
    BY DEF IntType
  <2>4. Cardinality(InFlight(on[k])') = Cardinality(InFlight(on[k])) + 1
    BY <2>1, <2>3, InFlightFinite, FS_AddElement
  <2>5. \A d \in Conn : pending'[d] = IF d = on[k] THEN pending[d] + 1 ELSE pending[d]
    BY <1>4 DEF Register, IntType
  <2> QED
    BY <1>4, <2>2, <2>3, <2>4, <2>5, InFlightFinite DEF PendingExact, Register
<1>5. ASSUME NEW k \in Call, EncodingFails(k) PROVE PendingExact'
  <2>1. \A d \in Conn : InFlight(d)' = InFlight(d)
    BY <1>5 DEF EncodingFails, Goto, InFlight, IntType, callVars
  <2> QED
    BY <1>5, <2>1, SameLoad DEF EncodingFails, connVars
<1>6. ASSUME NEW k \in Call, Write(k) PROVE PendingExact'
  <2>1. \A d \in Conn : InFlight(d)' = InFlight(d)
    BY <1>6 DEF Write, Goto, Unlock, UnchangedButWriter, InFlight, IntType, callVars
  <2> QED
    BY <1>6, <2>1, SameLoad DEF Write, Unlock, UnchangedButWriter
<1>7. ASSUME NEW k \in Call, WriteFails(k) PROVE PendingExact'
  <2>1. \A d \in Conn : InFlight(d)' = InFlight(d)
    BY <1>7 DEF WriteFails, Goto, Unlock, UnchangedButWriter, InFlight, IntType, callVars
  <2> QED
    BY <1>7, <2>1, SameLoad DEF WriteFails, Unlock, UnchangedButWriter
<1>8. ASSUME NEW k \in Call, Receive(k) PROVE PendingExact'
  <2>1. \A d \in Conn : InFlight(d)' = InFlight(d)
    BY <1>8 DEF Receive, Goto, InFlight, IntType, callVars
  <2> QED
    BY <1>8, <2>1, SameLoad DEF Receive, connVars
<1>9. ASSUME NEW k \in Call, TimeOut(k) PROVE PendingExact'
  <2>1. \A d \in Conn : InFlight(d)' = InFlight(d)
    BY <1>9 DEF TimeOut, Goto, InFlight, IntType, callVars
  <2> QED
    BY <1>9, <2>1, SameLoad DEF TimeOut, connVars
<1>10. ASSUME NEW k \in Call, Cleanup(k) PROVE PendingExact'
  <2>1. InFlight(on[k])' = InFlight(on[k]) \ {k} /\ k \in InFlight(on[k])
    BY <1>10 DEF Cleanup, Goto, InFlight, IntType
  <2>2. \A d \in Conn : d # on[k] => InFlight(d)' = InFlight(d)
    BY <1>10 DEF Cleanup, Goto, InFlight, IntType
  <2>3. on[k] \in Conn
    BY DEF IntType
  <2>4. Cardinality(InFlight(on[k])') = Cardinality(InFlight(on[k])) - 1
    BY <2>1, <2>3, InFlightFinite, FS_RemoveElement
  <2>5. \A d \in Conn : pending'[d] = IF d = on[k] THEN pending[d] - 1 ELSE pending[d]
    BY <1>10 DEF Cleanup, IntType
  <2> QED
    BY <1>10, <2>2, <2>3, <2>4, <2>5, InFlightFinite DEF PendingExact, Cleanup
<1>11. ASSUME NEW c \in Conn, NEW k \in Call, Deliver(c, k) PROVE PendingExact'
  <2>1. \A d \in Conn : InFlight(d)' = InFlight(d)
    BY <1>11 DEF Deliver, InFlight, IntType, callVars
  <2> QED
    BY <1>11, <2>1, SameLoad DEF Deliver, connVars
<1>12. ASSUME NEW c \in Conn, HandOver(c) PROVE PendingExact'
  <2>1. \A d \in Conn : InFlight(d)' = InFlight(d)
    BY <1>12 DEF HandOver, InFlight, IntType, callVars
  <2> QED
    BY <1>12, <2>1, SameLoad DEF HandOver, connVars
<1>13. ASSUME NEW c \in Conn, ReaderExits(c) PROVE PendingExact'
  <2>1. \A d \in Conn : InFlight(d)' = InFlight(d)
    BY <1>13 DEF ReaderExits, InFlight, IntType, callVars
  <2> QED
    BY <1>13, <2>1, SameLoad DEF ReaderExits, connVars
<1>14. ASSUME NEW c \in Conn, Install(c) PROVE PendingExact'
  <2>1. \A d \in Conn : InFlight(d)' = InFlight(d)
    BY <1>14 DEF Install, InFlight, IntType, callVars
  <2> QED
    BY <1>14, <2>1, SameLoad DEF Install, connVars
<1>15. ASSUME NEW c \in Conn, Mark(c) PROVE PendingExact'
  <2>1. \A d \in Conn : InFlight(d)' = InFlight(d)
    BY <1>15 DEF Mark, InFlight, IntType, callVars
  <2> QED
    BY <1>15, <2>1, SameLoad DEF Mark, connVars
<1>16. ASSUME NEW c \in Conn, ReconnectCloses(c) PROVE PendingExact'
  <2>1. \A d \in Conn : InFlight(d)' = InFlight(d)
    BY <1>16 DEF ReconnectCloses, InFlight, IntType, callVars
  <2> QED
    BY <1>16, <2>1, SameLoad DEF ReconnectCloses, connVars
<1>17. ASSUME NEW c \in Conn, Replace(c) PROVE PendingExact'
  <2>1. \A d \in Conn : InFlight(d)' = InFlight(d)
    BY <1>17 DEF Replace, InFlight, IntType, callVars
  <2> QED
    BY <1>17, <2>1, SameLoad DEF Replace, connVars
<1>18. ASSUME NEW c \in Conn, Close(c) PROVE PendingExact'
  <2>1. \A d \in Conn : InFlight(d)' = InFlight(d)
    BY <1>18 DEF Close, InFlight, IntType, callVars
  <2> QED
    BY <1>18, <2>1, SameLoad DEF Close, connVars
<1>19. CASE UNCHANGED vars
  BY <1>19 DEF vars, connVars, callVars, lockVars, PendingExact, InFlight
<1>20. ASSUME NEW k \in Call, WriteBegins(k) PROVE PendingExact'
  <2>1. \A d \in Conn : InFlight(d)' = InFlight(d)
    BY <1>20 DEF WriteBegins, Goto, UnchangedButWriter, InFlight, IntType, callVars
  <2> QED
    BY <1>20, <2>1, SameLoad DEF WriteBegins, Goto, UnchangedButWriter, connVars
<1>21. ASSUME NEW c \in Conn, Ping(c) PROVE PendingExact'
  <2>1. \A d \in Conn : InFlight(d)' = InFlight(d)
    BY <1>21 DEF Ping, InFlight, IntType, callVars
  <2> QED
    BY <1>21, <2>1, SameLoad DEF Ping, connVars
<1>22. ASSUME NEW c \in Conn, SendBegins(c) PROVE PendingExact'
  <2>1. \A d \in Conn : InFlight(d)' = InFlight(d)
    BY <1>22 DEF SendBegins, UnchangedButWriter, InFlight, IntType, callVars
  <2> QED
    BY <1>22, <2>1, SameLoad DEF SendBegins, UnchangedButWriter, connVars
<1>23. ASSUME NEW c \in Conn, SendReturns(c) PROVE PendingExact'
  <2>1. \A d \in Conn : InFlight(d)' = InFlight(d)
    BY <1>23 DEF SendReturns, Unlock, UnchangedButWriter, InFlight, IntType, callVars
  <2> QED
    BY <1>23, <2>1, SameLoad DEF SendReturns, Unlock, UnchangedButWriter, connVars
<1> QED
  BY <1>1, <1>2, <1>3, <1>4, <1>5, <1>6, <1>7, <1>8,
     <1>9, <1>10, <1>11, <1>12, <1>13, <1>14, <1>15, <1>16,
     <1>17, <1>18, <1>19, <1>20, <1>21, <1>22, <1>23 DEF Next, CallStep, ReaderStep, LifeStep

\* A step leaves no handler of a call that is not in flight.
LEMMA NextHandlers == IInv /\ [Next]_vars => HandlersInFlight'
<1> SUFFICES ASSUME IInv, [Next]_vars PROVE HandlersInFlight'
  OBVIOUS
<1> USE DEF IInv, IntType, HandlersInFlight, InFlight, connVars, callVars, lockVars
<1>1. ASSUME NEW k \in Call, NEW c \in Conn, Pick(k, c) PROVE HandlersInFlight'
  BY <1>1 DEF Pick, Goto
<1>2. ASSUME NEW k \in Call, PickNone(k) PROVE HandlersInFlight'
  BY <1>2 DEF PickNone, Goto
<1>3. ASSUME NEW k \in Call, Check(k) PROVE HandlersInFlight'
  BY <1>3 DEF Check, Goto
<1>4. ASSUME NEW k \in Call, Register(k) PROVE HandlersInFlight'
  BY <1>4 DEF Register, Goto
<1>5. ASSUME NEW k \in Call, EncodingFails(k) PROVE HandlersInFlight'
  BY <1>5 DEF EncodingFails, Goto
<1>6. ASSUME NEW k \in Call, Write(k) PROVE HandlersInFlight'
  BY <1>6 DEF Write, Goto, Unlock, UnchangedButWriter
<1>7. ASSUME NEW k \in Call, WriteFails(k) PROVE HandlersInFlight'
  BY <1>7 DEF WriteFails, Goto, Unlock, UnchangedButWriter
<1>8. ASSUME NEW k \in Call, Receive(k) PROVE HandlersInFlight'
  BY <1>8 DEF Receive, Goto
<1>9. ASSUME NEW k \in Call, TimeOut(k) PROVE HandlersInFlight'
  BY <1>9 DEF TimeOut, Goto
<1>10. ASSUME NEW k \in Call, Cleanup(k) PROVE HandlersInFlight'
  BY <1>10 DEF Cleanup, Goto
<1>11. ASSUME NEW c \in Conn, NEW k \in Call, Deliver(c, k) PROVE HandlersInFlight'
  BY <1>11 DEF Deliver
<1>12. ASSUME NEW c \in Conn, HandOver(c) PROVE HandlersInFlight'
  BY <1>12 DEF HandOver
<1>13. ASSUME NEW c \in Conn, ReaderExits(c) PROVE HandlersInFlight'
  BY <1>13 DEF ReaderExits
<1>14. ASSUME NEW c \in Conn, Install(c) PROVE HandlersInFlight'
  BY <1>14 DEF Install
<1>15. ASSUME NEW c \in Conn, Mark(c) PROVE HandlersInFlight'
  BY <1>15 DEF Mark
<1>16. ASSUME NEW c \in Conn, ReconnectCloses(c) PROVE HandlersInFlight'
  BY <1>16 DEF ReconnectCloses
<1>17. ASSUME NEW c \in Conn, Replace(c) PROVE HandlersInFlight'
  BY <1>17 DEF Replace
<1>18. ASSUME NEW c \in Conn, Close(c) PROVE HandlersInFlight'
  BY <1>18 DEF Close
<1>19. CASE UNCHANGED vars
  BY <1>19 DEF vars
<1>20. ASSUME NEW k \in Call, WriteBegins(k) PROVE HandlersInFlight'
  BY <1>20 DEF WriteBegins, Goto, UnchangedButWriter
<1>21. ASSUME NEW c \in Conn, Ping(c) PROVE HandlersInFlight'
  BY <1>21 DEF Ping
<1>22. ASSUME NEW c \in Conn, SendBegins(c) PROVE HandlersInFlight'
  BY <1>22 DEF SendBegins, UnchangedButWriter
<1>23. ASSUME NEW c \in Conn, SendReturns(c) PROVE HandlersInFlight'
  BY <1>23 DEF SendReturns, Unlock, UnchangedButWriter
<1> QED
  BY <1>1, <1>2, <1>3, <1>4, <1>5, <1>6, <1>7, <1>8,
     <1>9, <1>10, <1>11, <1>12, <1>13, <1>14, <1>15, <1>16,
     <1>17, <1>18, <1>19, <1>20, <1>21, <1>22, <1>23 DEF Next, CallStep, ReaderStep, LifeStep

\* A step keeps room for the response of a call.
LEMMA NextNoReplyDropped == IInv /\ [Next]_vars => NoReplyDropped'
<1> SUFFICES ASSUME IInv, [Next]_vars PROVE NoReplyDropped'
  OBVIOUS
<1> USE CallAssumption DEF IInv, IntType, NoReplyDropped, connVars, callVars, lockVars
<1>1. ASSUME NEW k \in Call, NEW c \in Conn, Pick(k, c) PROVE NoReplyDropped'
  BY <1>1 DEF Pick, Goto, LifeInv
<1>2. ASSUME NEW k \in Call, PickNone(k) PROVE NoReplyDropped'
  BY <1>2 DEF PickNone, Goto
<1>3. ASSUME NEW k \in Call, Check(k) PROVE NoReplyDropped'
  BY <1>3 DEF Check, Goto
<1>4. ASSUME NEW k \in Call, Register(k) PROVE NoReplyDropped'
  BY <1>4 DEF Register, Goto, LifeInv
<1>5. ASSUME NEW k \in Call, EncodingFails(k) PROVE NoReplyDropped'
  BY <1>5 DEF EncodingFails, Goto
<1>6. ASSUME NEW k \in Call, Write(k) PROVE NoReplyDropped'
  BY <1>6 DEF Write, Goto, Unlock, UnchangedButWriter
<1>7. ASSUME NEW k \in Call, WriteFails(k) PROVE NoReplyDropped'
  BY <1>7 DEF WriteFails, Goto, Unlock, UnchangedButWriter
<1>8. ASSUME NEW k \in Call, Receive(k) PROVE NoReplyDropped'
  BY <1>8 DEF Receive, Goto
<1>9. ASSUME NEW k \in Call, TimeOut(k) PROVE NoReplyDropped'
  BY <1>9 DEF TimeOut, Goto
<1>10. ASSUME NEW k \in Call, Cleanup(k) PROVE NoReplyDropped'
  BY <1>10 DEF Cleanup, Goto
<1>11. ASSUME NEW c \in Conn, NEW k \in Call, Deliver(c, k) PROVE NoReplyDropped'
  BY <1>11 DEF Deliver, HandlersInFlight, InFlight
<1>12. ASSUME NEW c \in Conn, HandOver(c) PROVE NoReplyDropped'
  BY <1>12 DEF HandOver
<1>13. ASSUME NEW c \in Conn, ReaderExits(c) PROVE NoReplyDropped'
  BY <1>13 DEF ReaderExits
<1>14. ASSUME NEW c \in Conn, Install(c) PROVE NoReplyDropped'
  BY <1>14 DEF Install
<1>15. ASSUME NEW c \in Conn, Mark(c) PROVE NoReplyDropped'
  BY <1>15 DEF Mark
<1>16. ASSUME NEW c \in Conn, ReconnectCloses(c) PROVE NoReplyDropped'
  BY <1>16 DEF ReconnectCloses
<1>17. ASSUME NEW c \in Conn, Replace(c) PROVE NoReplyDropped'
  BY <1>17 DEF Replace
<1>18. ASSUME NEW c \in Conn, Close(c) PROVE NoReplyDropped'
  BY <1>18 DEF Close
<1>19. CASE UNCHANGED vars
  BY <1>19 DEF vars
<1>20. ASSUME NEW k \in Call, WriteBegins(k) PROVE NoReplyDropped'
  BY <1>20 DEF WriteBegins, Goto, UnchangedButWriter
<1>21. ASSUME NEW c \in Conn, Ping(c) PROVE NoReplyDropped'
  BY <1>21 DEF Ping
<1>22. ASSUME NEW c \in Conn, SendBegins(c) PROVE NoReplyDropped'
  BY <1>22 DEF SendBegins, UnchangedButWriter
<1>23. ASSUME NEW c \in Conn, SendReturns(c) PROVE NoReplyDropped'
  BY <1>23 DEF SendReturns, Unlock, UnchangedButWriter
<1> QED
  BY <1>1, <1>2, <1>3, <1>4, <1>5, <1>6, <1>7, <1>8,
     <1>9, <1>10, <1>11, <1>12, <1>13, <1>14, <1>15, <1>16,
     <1>17, <1>18, <1>19, <1>20, <1>21, <1>22, <1>23 DEF Next, CallStep, ReaderStep, LifeStep

\* A step keeps a waiting call answerable while its connection is up.
LEMMA NextAnswerable == IInv /\ [Next]_vars => AnswerableWhileConnected'
<1> SUFFICES ASSUME IInv, [Next]_vars PROVE AnswerableWhileConnected'
  OBVIOUS
<1> USE CallAssumption DEF IInv, IntType, AnswerableWhileConnected, connVars, callVars, lockVars
<1>1. ASSUME NEW k \in Call, NEW c \in Conn, Pick(k, c) PROVE AnswerableWhileConnected'
  BY <1>1 DEF Pick, Goto
<1>2. ASSUME NEW k \in Call, PickNone(k) PROVE AnswerableWhileConnected'
  BY <1>2 DEF PickNone, Goto
<1>3. ASSUME NEW k \in Call, Check(k) PROVE AnswerableWhileConnected'
  BY <1>3 DEF Check, Goto
<1>4. ASSUME NEW k \in Call, Register(k) PROVE AnswerableWhileConnected'
  BY <1>4 DEF Register, Goto
<1>5. ASSUME NEW k \in Call, EncodingFails(k) PROVE AnswerableWhileConnected'
  BY <1>5 DEF EncodingFails, Goto
<1>6. ASSUME NEW k \in Call, Write(k) PROVE AnswerableWhileConnected'
  BY <1>6 DEF Write, Goto, Unlock, UnchangedButWriter
<1>7. ASSUME NEW k \in Call, WriteFails(k) PROVE AnswerableWhileConnected'
  BY <1>7 DEF WriteFails, Goto, Unlock, UnchangedButWriter
<1>8. ASSUME NEW k \in Call, Receive(k) PROVE AnswerableWhileConnected'
  BY <1>8 DEF Receive, Goto
<1>9. ASSUME NEW k \in Call, TimeOut(k) PROVE AnswerableWhileConnected'
  BY <1>9 DEF TimeOut, Goto
<1>10. ASSUME NEW k \in Call, Cleanup(k) PROVE AnswerableWhileConnected'
  BY <1>10 DEF Cleanup, Goto
<1>11. ASSUME NEW c \in Conn, NEW k \in Call, Deliver(c, k) PROVE AnswerableWhileConnected'
  BY <1>11 DEF Deliver, HandlersInFlight, InFlight
<1>12. ASSUME NEW c \in Conn, HandOver(c) PROVE AnswerableWhileConnected'
  BY <1>12 DEF HandOver
<1>13. ASSUME NEW c \in Conn, ReaderExits(c) PROVE AnswerableWhileConnected'
  BY <1>13 DEF ReaderExits
<1>14. ASSUME NEW c \in Conn, Install(c) PROVE AnswerableWhileConnected'
  BY <1>14 DEF Install, LifeInv
<1>15. ASSUME NEW c \in Conn, Mark(c) PROVE AnswerableWhileConnected'
  BY <1>15 DEF Mark
<1>16. ASSUME NEW c \in Conn, ReconnectCloses(c) PROVE AnswerableWhileConnected'
  BY <1>16 DEF ReconnectCloses
<1>17. ASSUME NEW c \in Conn, Replace(c) PROVE AnswerableWhileConnected'
  BY <1>17 DEF Replace
<1>18. ASSUME NEW c \in Conn, Close(c) PROVE AnswerableWhileConnected'
  BY <1>18 DEF Close
<1>19. CASE UNCHANGED vars
  BY <1>19 DEF vars
<1>20. ASSUME NEW k \in Call, WriteBegins(k) PROVE AnswerableWhileConnected'
  BY <1>20 DEF WriteBegins, Goto, UnchangedButWriter
<1>21. ASSUME NEW c \in Conn, Ping(c) PROVE AnswerableWhileConnected'
  BY <1>21 DEF Ping
<1>22. ASSUME NEW c \in Conn, SendBegins(c) PROVE AnswerableWhileConnected'
  BY <1>22 DEF SendBegins, UnchangedButWriter
<1>23. ASSUME NEW c \in Conn, SendReturns(c) PROVE AnswerableWhileConnected'
  BY <1>23 DEF SendReturns, Unlock, UnchangedButWriter
<1> QED
  BY <1>1, <1>2, <1>3, <1>4, <1>5, <1>6, <1>7, <1>8,
     <1>9, <1>10, <1>11, <1>12, <1>13, <1>14, <1>15, <1>16,
     <1>17, <1>18, <1>19, <1>20, <1>21, <1>22, <1>23 DEF Next, CallStep, ReaderStep, LifeStep

-----------------------------------------------------------------------------
(* The theorems *)

LEMMA InductiveInvariant == Spec => []IInv
<1>1. IInv /\ [Next]_vars => IInv'
  BY NextType, NextLife, NextPending, NextHandlers, NextNoReplyDropped,
     NextAnswerable DEF IInv
<1> QED
  BY InitInv, <1>1, PTL DEF Spec

(* Every variable keeps its type; no load counter is ever negative. *)
THEOREM TypeCorrect == Spec => []TypeOK
<1>1. IInv => TypeOK
  <2> SUFFICES ASSUME IInv PROVE TypeOK
    OBVIOUS
  <2>1. \A c \in Conn : pending[c] \in Nat
    BY InFlightFinite DEF IInv, PendingExact
  <2> QED
    BY <2>1 DEF IInv, IntType, TypeOK
<1> QED
  BY InductiveInvariant, <1>1, PTL

(* The load of a connection is the number of calls in flight on it. *)
THEOREM LoadExact == Spec => []PendingExact
<1>1. IInv => PendingExact
  BY DEF IInv
<1> QED
  BY InductiveInvariant, <1>1, PTL

(* No handler outlives its call. *)
THEOREM NoHandlerLeak == Spec => []HandlersInFlight
<1>1. IInv => HandlersInFlight
  BY DEF IInv
<1> QED
  BY InductiveInvariant, <1>1, PTL

(* A response read from the socket always finds room in its channel. *)
THEOREM ResponseHasRoom == Spec => []NoReplyDropped
<1>1. IInv => NoReplyDropped
  BY DEF IInv
<1> QED
  BY InductiveInvariant, <1>1, PTL

(* A waiting call on a live connection can still be answered. *)
THEOREM StillAnswerable == Spec => []AnswerableWhileConnected
<1>1. IInv => AnswerableWhileConnected
  BY DEF IInv
<1> QED
  BY InductiveInvariant, <1>1, PTL

=============================================================================
