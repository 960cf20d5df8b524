---------------------- MODULE RequestInterceptorProofs ----------------------
(***************************************************************************)
(* The safety properties of module RequestInterceptor, for any finite set  *)
(* of requests and any quota.  The inductive invariant says of one request *)
(* what is known at each of its program points; a step of one request      *)
(* does not touch what is said of another.                                 *)
(***************************************************************************)
EXTENDS RequestInterceptor, FiniteSetTheorems, TLAPS

\* The points of a request before it is decided, and after its handler.
Undecided == {"arrived", "identify", "allocate", "blockCheck", "reserve",
              "settle", "confirm"}
Served == {"fulfil", "use", "report", "done"}

\* Until its reservation is asked for, the server has not heard of a request.
Silent == {"arrived", "identify", "allocate", "blockCheck"}

Refusal == {"blocked", "denied", "malformed"}

\* What is refused stays on the way to its answer.
RefusalInv(r) ==
    /\ pc[r] \in Undecided => err[r] = "none"
    /\ pc[r] = "respond" => err[r] # "none"
    /\ err[r] \in Refusal => pc[r] \in {"respond", "done"} /\ reply[r] # "served"
    /\ pc[r] \notin Served => reply[r] = "none"
    /\ pc[r] \in {"arrived", "identify"} => ~rl[r]
    /\ pc[r] \in {"settle", "confirm"} => rl[r]
    /\ err[r] \notin {"none", "blocked"} => rl[r]

\* The gate is open to the paid and the excused only.
PaymentInv(r) ==
    /\ pc[r] = "handler" /\ rl[r] => r \in used \/ excused[r]
    /\ reply[r] = "served" /\ rl[r] => r \in used \/ excused[r]
    /\ pc[r] \in Silent \/ err[r] = "blocked" =>
         r \notin granted \cup used /\ uses[r] = 0

\* Whoever may still settle has not settled yet.
SettlementInv(r) ==
    /\ uses[r] <= 1
    /\ pc[r] \in Undecided \cup {"use", "report"} => uses[r] = 0
    /\ pc[r] = "handler" => uses[r] = 0 \/ settled[r] \/ ~metered[r]
    /\ pc[r] = "fulfil" => uses[r] = 0 \/ settled[r]

ReqInv(r) == RefusalInv(r) /\ PaymentInv(r) /\ SettlementInv(r)

IInv == TypeOK /\ \A r \in Req : ReqInv(r)

LEMMA InitInv == Init => IInv
<1> SUFFICES ASSUME Init PROVE IInv
  OBVIOUS
<1>1. up \in BOOLEAN /\ limited \in BOOLEAN /\ blocked \in BOOLEAN /\ connected \in BOOLEAN
  BY DEF Init
<1>2. TypeOK
  BY <1>1, RequestAssumption DEF Init, TypeOK
<1>3. ASSUME NEW r \in Req PROVE ReqInv(r)
  BY DEF Init, ReqInv, RefusalInv, PaymentInv, SettlementInv, Undecided, Served,
     Silent, Refusal
<1> QED
  BY <1>2, <1>3 DEF IInv

-----------------------------------------------------------------------------
(* The conjuncts of the inductive invariant *)

\* A step keeps the types.
LEMMA NextType == TypeOK /\ [Next]_vars => TypeOK'
<1> SUFFICES ASSUME TypeOK, [Next]_vars PROVE TypeOK'
  OBVIOUS
<1> USE RequestAssumption DEF TypeOK, config, shared, local, server, LooksUp
<1>1. ASSUME NEW r \in Req, Route(r) PROVE TypeOK'
  BY <1>1 DEF Route, Goto
<1>2. ASSUME NEW r \in Req, Identify(r) PROVE TypeOK'
  BY <1>2 DEF Identify, Goto
<1>3. ASSUME NEW r \in Req, AllocateOffline(r) PROVE TypeOK'
  BY <1>3 DEF AllocateOffline, Excuse, Allocated, Goto
<1>4. ASSUME NEW r \in Req, AllocateOnline(r) PROVE TypeOK'
  BY <1>4 DEF AllocateOnline, Goto
<1>5. ASSUME NEW r \in Req, BlockCheck(r) PROVE TypeOK'
  BY <1>5 DEF BlockCheck, Goto, Fails
<1>6. ASSUME NEW r \in Req, Announce(r) PROVE TypeOK'
  BY <1>6 DEF Announce, Allocated, Goto
<1>7. ASSUME NEW r \in Req, ReserveGranted(r) PROVE TypeOK'
  BY <1>7 DEF ReserveGranted, Allocated, Goto, Reserve
<1>8. ASSUME NEW r \in Req, ReserveUnanswered(r) PROVE TypeOK'
  <2>1. quota' \in 0 .. Quota /\ granted' \subseteq Req
    BY <1>8 DEF ReserveUnanswered, PerhapsReserved, Reserve
  <2> QED
    BY <1>8, <2>1 DEF ReserveUnanswered, Excuse, Allocated, Goto
<1>9. ASSUME NEW r \in Req, ReserveDenied(r) PROVE TypeOK'
  BY <1>9 DEF ReserveDenied, Fails, Goto
<1>10. ASSUME NEW r \in Req, ReserveMalformed(r) PROVE TypeOK'
  BY <1>10 DEF ReserveMalformed, Fails, Goto, PerhapsReserved, Reserve
<1>11. ASSUME NEW r \in Req, SettleSkipped(r) PROVE TypeOK'
  BY <1>11 DEF SettleSkipped, Goto, Excuse
<1>12. ASSUME NEW r \in Req, SettleOnline(r) PROVE TypeOK'
  BY <1>12 DEF SettleOnline, Goto
<1>13. ASSUME NEW r \in Req, Confirmed(r) PROVE TypeOK'
  BY <1>13 DEF Confirmed, Goto, SendUse
<1>14. ASSUME NEW r \in Req, Unconfirmed(r) PROVE TypeOK'
  <2>1. uses' \in [Req -> Nat] /\ used' \subseteq Req
    BY <1>14 DEF Unconfirmed, SendUse
  <2> QED
    BY <1>14, <2>1 DEF Unconfirmed, Goto, Excuse
<1>15. ASSUME NEW r \in Req, ConfirmDenied(r) PROVE TypeOK'
  BY <1>15 DEF ConfirmDenied, Fails, Goto, SendUse
<1>16. ASSUME NEW r \in Req, Respond(r) PROVE TypeOK'
  BY <1>16 DEF Respond, Answer, Goto, Excuse
<1>17. ASSUME NEW r \in Req, Handle(r) PROVE TypeOK'
  BY <1>17 DEF Handle, Goto
<1>18. ASSUME NEW r \in Req, HandlerPanics(r) PROVE TypeOK'
  BY <1>18 DEF HandlerPanics, Goto
<1>19. ASSUME NEW r \in Req, Fulfil(r) PROVE TypeOK'
  BY <1>19 DEF Fulfil, Goto
<1>20. ASSUME NEW r \in Req, Use(r) PROVE TypeOK'
  BY <1>20 DEF Use, Goto
<1>21. ASSUME NEW r \in Req, Report(r) PROVE TypeOK'
  BY <1>21 DEF Report, Goto, SendUse
<1>22. ASSUME RoutesChange PROVE TypeOK'
  BY <1>22 DEF RoutesChange
<1>23. ASSUME PoliciesChange PROVE TypeOK'
  BY <1>23 DEF PoliciesChange
<1>24. ASSUME BlocksChange PROVE TypeOK'
  BY <1>24 DEF BlocksChange
<1>25. ASSUME ConnectionChanges PROVE TypeOK'
  BY <1>25 DEF ConnectionChanges
<1>26. ASSUME FlagRenewed PROVE TypeOK'
  BY <1>26 DEF FlagRenewed
<1>27. ASSUME UNCHANGED vars PROVE TypeOK'
  BY <1>27 DEF vars
<1> QED
  BY <1>1, <1>2, <1>3, <1>4, <1>5, <1>6, <1>7, <1>8, <1>9, <1>10, <1>11,
     <1>12, <1>13, <1>14, <1>15, <1>16, <1>17, <1>18, <1>19, <1>20, <1>21,
     <1>22, <1>23, <1>24, <1>25, <1>26, <1>27
     DEF Next, Step


\* What is known of errors and answers.
LEMMA NextRefusal ==
    ASSUME TypeOK, \A q \in Req : RefusalInv(q), [Next]_vars, NEW q \in Req
    PROVE  RefusalInv(q)'
<1> USE DEF TypeOK, RefusalInv, Undecided, Served, Silent,
         Refusal, config, shared, local, server, LooksUp
<1>1. ASSUME NEW r \in Req, Route(r) PROVE RefusalInv(q)'
  BY <1>1 DEF Route, Goto
<1>2. ASSUME NEW r \in Req, Identify(r) PROVE RefusalInv(q)'
  BY <1>2 DEF Identify, Goto
<1>3. ASSUME NEW r \in Req, AllocateOffline(r) PROVE RefusalInv(q)'
  BY <1>3 DEF AllocateOffline, Excuse, Allocated, Goto
<1>4. ASSUME NEW r \in Req, AllocateOnline(r) PROVE RefusalInv(q)'
  BY <1>4 DEF AllocateOnline, Goto
<1>5. ASSUME NEW r \in Req, BlockCheck(r) PROVE RefusalInv(q)'
  BY <1>5 DEF BlockCheck, Goto, Fails
<1>6. ASSUME NEW r \in Req, Announce(r) PROVE RefusalInv(q)'
  BY <1>6 DEF Announce, Allocated, Goto
<1>7. ASSUME NEW r \in Req, ReserveGranted(r) PROVE RefusalInv(q)'
  BY <1>7 DEF ReserveGranted, Allocated, Goto, Reserve
<1>8. ASSUME NEW r \in Req, ReserveUnanswered(r) PROVE RefusalInv(q)'
  BY <1>8 DEF ReserveUnanswered, Excuse, Allocated, Goto, PerhapsReserved, Reserve
<1>9. ASSUME NEW r \in Req, ReserveDenied(r) PROVE RefusalInv(q)'
  BY <1>9 DEF ReserveDenied, Fails, Goto
<1>10. ASSUME NEW r \in Req, ReserveMalformed(r) PROVE RefusalInv(q)'
  BY <1>10 DEF ReserveMalformed, Fails, Goto, PerhapsReserved, Reserve
<1>11. ASSUME NEW r \in Req, SettleSkipped(r) PROVE RefusalInv(q)'
  BY <1>11 DEF SettleSkipped, Goto, Excuse
<1>12. ASSUME NEW r \in Req, SettleOnline(r) PROVE RefusalInv(q)'
  BY <1>12 DEF SettleOnline, Goto
<1>13. ASSUME NEW r \in Req, Confirmed(r) PROVE RefusalInv(q)'
  BY <1>13 DEF Confirmed, Goto, SendUse
<1>14. ASSUME NEW r \in Req, Unconfirmed(r) PROVE RefusalInv(q)'
  BY <1>14 DEF Unconfirmed, Goto, Excuse, SendUse
<1>15. ASSUME NEW r \in Req, ConfirmDenied(r) PROVE RefusalInv(q)'
  BY <1>15 DEF ConfirmDenied, Fails, Goto, SendUse
<1>16. ASSUME NEW r \in Req, Respond(r) PROVE RefusalInv(q)'
  BY <1>16 DEF Respond, Answer, Goto, Excuse
<1>17. ASSUME NEW r \in Req, Handle(r) PROVE RefusalInv(q)'
  BY <1>17 DEF Handle, Goto
<1>18. ASSUME NEW r \in Req, HandlerPanics(r) PROVE RefusalInv(q)'
  BY <1>18 DEF HandlerPanics, Goto
<1>19. ASSUME NEW r \in Req, Fulfil(r) PROVE RefusalInv(q)'
  BY <1>19 DEF Fulfil, Goto
<1>20. ASSUME NEW r \in Req, Use(r) PROVE RefusalInv(q)'
  BY <1>20 DEF Use, Goto
<1>21. ASSUME NEW r \in Req, Report(r) PROVE RefusalInv(q)'
  BY <1>21 DEF Report, Goto, SendUse
<1>22. ASSUME RoutesChange PROVE RefusalInv(q)'
  BY <1>22 DEF RoutesChange
<1>23. ASSUME PoliciesChange PROVE RefusalInv(q)'
  BY <1>23 DEF PoliciesChange
<1>24. ASSUME BlocksChange PROVE RefusalInv(q)'
  BY <1>24 DEF BlocksChange
<1>25. ASSUME ConnectionChanges PROVE RefusalInv(q)'
  BY <1>25 DEF ConnectionChanges
<1>26. ASSUME FlagRenewed PROVE RefusalInv(q)'
  BY <1>26 DEF FlagRenewed
<1>27. ASSUME UNCHANGED vars PROVE RefusalInv(q)'
  BY <1>27 DEF vars
<1> QED
  BY <1>1, <1>2, <1>3, <1>4, <1>5, <1>6, <1>7, <1>8, <1>9, <1>10, <1>11,
     <1>12, <1>13, <1>14, <1>15, <1>16, <1>17, <1>18, <1>19, <1>20, <1>21,
     <1>22, <1>23, <1>24, <1>25, <1>26, <1>27
     DEF Next, Step

\* What is known of payments.
LEMMA NextPayment ==
    ASSUME TypeOK, \A q \in Req : RefusalInv(q), \A q \in Req : PaymentInv(q), [Next]_vars, NEW q \in Req
    PROVE  PaymentInv(q)'
<1> USE DEF TypeOK, RefusalInv, PaymentInv, Undecided, Served, Silent,
         Refusal, config, shared, local, server, LooksUp
<1>1. ASSUME NEW r \in Req, Route(r) PROVE PaymentInv(q)'
  BY <1>1 DEF Route, Goto
<1>2. ASSUME NEW r \in Req, Identify(r) PROVE PaymentInv(q)'
  BY <1>2 DEF Identify, Goto
<1>3. ASSUME NEW r \in Req, AllocateOffline(r) PROVE PaymentInv(q)'
  BY <1>3 DEF AllocateOffline, Excuse, Allocated, Goto
<1>4. ASSUME NEW r \in Req, AllocateOnline(r) PROVE PaymentInv(q)'
  BY <1>4 DEF AllocateOnline, Goto
<1>5. ASSUME NEW r \in Req, BlockCheck(r) PROVE PaymentInv(q)'
  BY <1>5 DEF BlockCheck, Goto, Fails
<1>6. ASSUME NEW r \in Req, Announce(r) PROVE PaymentInv(q)'
  BY <1>6 DEF Announce, Allocated, Goto
<1>7. ASSUME NEW r \in Req, ReserveGranted(r) PROVE PaymentInv(q)'
  BY <1>7 DEF ReserveGranted, Allocated, Goto, Reserve
<1>8. ASSUME NEW r \in Req, ReserveUnanswered(r) PROVE PaymentInv(q)'
  BY <1>8 DEF ReserveUnanswered, Excuse, Allocated, Goto, PerhapsReserved, Reserve
<1>9. ASSUME NEW r \in Req, ReserveDenied(r) PROVE PaymentInv(q)'
  BY <1>9 DEF ReserveDenied, Fails, Goto
<1>10. ASSUME NEW r \in Req, ReserveMalformed(r) PROVE PaymentInv(q)'
  BY <1>10 DEF ReserveMalformed, Fails, Goto, PerhapsReserved, Reserve
<1>11. ASSUME NEW r \in Req, SettleSkipped(r) PROVE PaymentInv(q)'
  BY <1>11 DEF SettleSkipped, Goto, Excuse
<1>12. ASSUME NEW r \in Req, SettleOnline(r) PROVE PaymentInv(q)'
  BY <1>12 DEF SettleOnline, Goto
<1>13. ASSUME NEW r \in Req, Confirmed(r) PROVE PaymentInv(q)'
  BY <1>13 DEF Confirmed, Goto, SendUse
<1>14. ASSUME NEW r \in Req, Unconfirmed(r) PROVE PaymentInv(q)'
  BY <1>14 DEF Unconfirmed, Goto, Excuse, SendUse
<1>15. ASSUME NEW r \in Req, ConfirmDenied(r) PROVE PaymentInv(q)'
  BY <1>15 DEF ConfirmDenied, Fails, Goto, SendUse
<1>16. ASSUME NEW r \in Req, Respond(r) PROVE PaymentInv(q)'
  BY <1>16 DEF Respond, Answer, Goto, Excuse
<1>17. ASSUME NEW r \in Req, Handle(r) PROVE PaymentInv(q)'
  BY <1>17 DEF Handle, Goto
<1>18. ASSUME NEW r \in Req, HandlerPanics(r) PROVE PaymentInv(q)'
  BY <1>18 DEF HandlerPanics, Goto
<1>19. ASSUME NEW r \in Req, Fulfil(r) PROVE PaymentInv(q)'
  BY <1>19 DEF Fulfil, Goto
<1>20. ASSUME NEW r \in Req, Use(r) PROVE PaymentInv(q)'
  BY <1>20 DEF Use, Goto
<1>21. ASSUME NEW r \in Req, Report(r) PROVE PaymentInv(q)'
  BY <1>21 DEF Report, Goto, SendUse
<1>22. ASSUME RoutesChange PROVE PaymentInv(q)'
  BY <1>22 DEF RoutesChange
<1>23. ASSUME PoliciesChange PROVE PaymentInv(q)'
  BY <1>23 DEF PoliciesChange
<1>24. ASSUME BlocksChange PROVE PaymentInv(q)'
  BY <1>24 DEF BlocksChange
<1>25. ASSUME ConnectionChanges PROVE PaymentInv(q)'
  BY <1>25 DEF ConnectionChanges
<1>26. ASSUME FlagRenewed PROVE PaymentInv(q)'
  BY <1>26 DEF FlagRenewed
<1>27. ASSUME UNCHANGED vars PROVE PaymentInv(q)'
  BY <1>27 DEF vars
<1> QED
  BY <1>1, <1>2, <1>3, <1>4, <1>5, <1>6, <1>7, <1>8, <1>9, <1>10, <1>11,
     <1>12, <1>13, <1>14, <1>15, <1>16, <1>17, <1>18, <1>19, <1>20, <1>21,
     <1>22, <1>23, <1>24, <1>25, <1>26, <1>27
     DEF Next, Step

\* What is known of settlements.
LEMMA NextSettlement ==
    ASSUME TypeOK, \A q \in Req : SettlementInv(q), [Next]_vars, NEW q \in Req
    PROVE  SettlementInv(q)'
<1> USE DEF TypeOK, SettlementInv, Undecided, Served, Silent,
         Refusal, config, shared, local, server, LooksUp
<1>1. ASSUME NEW r \in Req, Route(r) PROVE SettlementInv(q)'
  BY <1>1 DEF Route, Goto
<1>2. ASSUME NEW r \in Req, Identify(r) PROVE SettlementInv(q)'
  BY <1>2 DEF Identify, Goto
<1>3. ASSUME NEW r \in Req, AllocateOffline(r) PROVE SettlementInv(q)'
  BY <1>3 DEF AllocateOffline, Excuse, Allocated, Goto
<1>4. ASSUME NEW r \in Req, AllocateOnline(r) PROVE SettlementInv(q)'
  BY <1>4 DEF AllocateOnline, Goto
<1>5. ASSUME NEW r \in Req, BlockCheck(r) PROVE SettlementInv(q)'
  BY <1>5 DEF BlockCheck, Goto, Fails
<1>6. ASSUME NEW r \in Req, Announce(r) PROVE SettlementInv(q)'
  BY <1>6 DEF Announce, Allocated, Goto
<1>7. ASSUME NEW r \in Req, ReserveGranted(r) PROVE SettlementInv(q)'
  BY <1>7 DEF ReserveGranted, Allocated, Goto, Reserve
<1>8. ASSUME NEW r \in Req, ReserveUnanswered(r) PROVE SettlementInv(q)'
  BY <1>8 DEF ReserveUnanswered, Excuse, Allocated, Goto, PerhapsReserved, Reserve
<1>9. ASSUME NEW r \in Req, ReserveDenied(r) PROVE SettlementInv(q)'
  BY <1>9 DEF ReserveDenied, Fails, Goto
<1>10. ASSUME NEW r \in Req, ReserveMalformed(r) PROVE SettlementInv(q)'
  BY <1>10 DEF ReserveMalformed, Fails, Goto, PerhapsReserved, Reserve
<1>11. ASSUME NEW r \in Req, SettleSkipped(r) PROVE SettlementInv(q)'
  BY <1>11 DEF SettleSkipped, Goto, Excuse
<1>12. ASSUME NEW r \in Req, SettleOnline(r) PROVE SettlementInv(q)'
  BY <1>12 DEF SettleOnline, Goto
<1>13. ASSUME NEW r \in Req, Confirmed(r) PROVE SettlementInv(q)'
  BY <1>13 DEF Confirmed, Goto, SendUse
<1>14. ASSUME NEW r \in Req, Unconfirmed(r) PROVE SettlementInv(q)'
  BY <1>14 DEF Unconfirmed, Goto, Excuse, SendUse
<1>15. ASSUME NEW r \in Req, ConfirmDenied(r) PROVE SettlementInv(q)'
  BY <1>15 DEF ConfirmDenied, Fails, Goto, SendUse
<1>16. ASSUME NEW r \in Req, Respond(r) PROVE SettlementInv(q)'
  BY <1>16 DEF Respond, Answer, Goto, Excuse
<1>17. ASSUME NEW r \in Req, Handle(r) PROVE SettlementInv(q)'
  BY <1>17 DEF Handle, Goto
<1>18. ASSUME NEW r \in Req, HandlerPanics(r) PROVE SettlementInv(q)'
  BY <1>18 DEF HandlerPanics, Goto
<1>19. ASSUME NEW r \in Req, Fulfil(r) PROVE SettlementInv(q)'
  BY <1>19 DEF Fulfil, Goto
<1>20. ASSUME NEW r \in Req, Use(r) PROVE SettlementInv(q)'
  BY <1>20 DEF Use, Goto
<1>21. ASSUME NEW r \in Req, Report(r) PROVE SettlementInv(q)'
  BY <1>21 DEF Report, Goto, SendUse
<1>22. ASSUME RoutesChange PROVE SettlementInv(q)'
  BY <1>22 DEF RoutesChange
<1>23. ASSUME PoliciesChange PROVE SettlementInv(q)'
  BY <1>23 DEF PoliciesChange
<1>24. ASSUME BlocksChange PROVE SettlementInv(q)'
  BY <1>24 DEF BlocksChange
<1>25. ASSUME ConnectionChanges PROVE SettlementInv(q)'
  BY <1>25 DEF ConnectionChanges
<1>26. ASSUME FlagRenewed PROVE SettlementInv(q)'
  BY <1>26 DEF FlagRenewed
<1>27. ASSUME UNCHANGED vars PROVE SettlementInv(q)'
  BY <1>27 DEF vars
<1> QED
  BY <1>1, <1>2, <1>3, <1>4, <1>5, <1>6, <1>7, <1>8, <1>9, <1>10, <1>11,
     <1>12, <1>13, <1>14, <1>15, <1>16, <1>17, <1>18, <1>19, <1>20, <1>21,
     <1>22, <1>23, <1>24, <1>25, <1>26, <1>27
     DEF Next, Step

LEMMA NextInv == IInv /\ [Next]_vars => IInv'
BY NextType, NextRefusal, NextPayment, NextSettlement DEF IInv, ReqInv

LEMMA InductiveInvariant == Spec => []IInv
BY InitInv, NextInv, PTL DEF Spec

-----------------------------------------------------------------------------
(* Every variable keeps its type; the quota is never overdrawn. *)
THEOREM TypeCorrect == Spec => []TypeOK
<1>1. IInv => TypeOK
  BY DEF IInv
<1> QED
  BY InductiveInvariant, <1>1, PTL

(* A rate-limited handler runs only paid for or excused. *)
THEOREM GateHolds == Spec => []PaidOrExcused
<1>1. IInv => PaidOrExcused
  BY DEF IInv, ReqInv, PaymentInv, PaidOrExcused
<1> QED
  BY InductiveInvariant, <1>1, PTL

(* No refused request is served, whatever changes after the refusal. *)
THEOREM RefusalsHold == Spec => []RefusedNotServed
<1>1. IInv => RefusedNotServed
  BY DEF IInv, ReqInv, RefusalInv, Refusal, RefusedNotServed
<1> QED
  BY InductiveInvariant, <1>1, PTL

(* No request settles its allocation twice. *)
THEOREM SettledAtMostOnce == Spec => []SettledOnce
<1>1. IInv => SettledOnce
  BY DEF IInv, ReqInv, SettlementInv, SettledOnce
<1> QED
  BY InductiveInvariant, <1>1, PTL

(* The server hears nothing of a blocked request. *)
THEOREM BlocksAreSilent == Spec => []BlockedIsSilent
<1>1. IInv => BlockedIsSilent
  BY DEF IInv, ReqInv, PaymentInv, BlockedIsSilent
<1> QED
  BY InductiveInvariant, <1>1, PTL

-----------------------------------------------------------------------------
(* The gate is implemented.  A paid request stands on a reservation of its *)
(* own, and the reservations are bounded by what the quota has lost.       *)

\* The rate-limited requests for which the server has reserved a unit.
Charged == {r \in granted : rl[r]}

QuotaInv == quota + Cardinality(Charged) <= Quota

\* A rate-limited request that is not excused moves on with its reservation.
BackedInv(r) ==
    /\ pc[r] \in {"settle", "confirm"} /\ ~excused[r] => r \in granted
    /\ pc[r] \in {"handler"} \cup Served /\ rl[r] /\ ~excused[r] /\ err[r] \notin Refusal
         => r \in granted
    /\ pc[r] = "respond" => err[r] # "none"

GateInv == IInv /\ QuotaInv /\ \A r \in Req : BackedInv(r)

LEMMA InitGateInv == Init => GateInv
<1> SUFFICES ASSUME Init PROVE GateInv
  OBVIOUS
<1>1. Charged = {}
  BY DEF Init, Charged
<1>2. QuotaInv
  BY <1>1, FS_EmptySet, RequestAssumption DEF Init, QuotaInv
<1>3. ASSUME NEW r \in Req PROVE BackedInv(r)
  BY DEF Init, BackedInv, Served
<1> QED
  BY <1>2, <1>3, InitInv DEF GateInv

\* What is known of reservations.
LEMMA NextBacked ==
    ASSUME TypeOK, \A q \in Req : RefusalInv(q), \A q \in Req : BackedInv(q),
           [Next]_vars, NEW q \in Req
    PROVE  BackedInv(q)'
<1> USE DEF TypeOK, RefusalInv, BackedInv, Undecided, Served, Refusal,
         config, shared, local, server, LooksUp
<1>1. ASSUME NEW r \in Req, Route(r) PROVE BackedInv(q)'
  BY <1>1 DEF Route, Goto
<1>2. ASSUME NEW r \in Req, Identify(r) PROVE BackedInv(q)'
  BY <1>2 DEF Identify, Goto
<1>3. ASSUME NEW r \in Req, AllocateOffline(r) PROVE BackedInv(q)'
  BY <1>3 DEF AllocateOffline, Goto, Excuse, Allocated
<1>4. ASSUME NEW r \in Req, AllocateOnline(r) PROVE BackedInv(q)'
  BY <1>4 DEF AllocateOnline, Goto
<1>5. ASSUME NEW r \in Req, BlockCheck(r) PROVE BackedInv(q)'
  BY <1>5 DEF BlockCheck, Goto, Fails
<1>6. ASSUME NEW r \in Req, Announce(r) PROVE BackedInv(q)'
  BY <1>6 DEF Announce, Goto, Allocated
<1>7. ASSUME NEW r \in Req, ReserveGranted(r) PROVE BackedInv(q)'
  BY <1>7 DEF ReserveGranted, Goto, Allocated, Reserve
<1>8. ASSUME NEW r \in Req, ReserveUnanswered(r) PROVE BackedInv(q)'
  BY <1>8 DEF ReserveUnanswered, Goto, Excuse, Allocated, PerhapsReserved, Reserve
<1>9. ASSUME NEW r \in Req, ReserveDenied(r) PROVE BackedInv(q)'
  BY <1>9 DEF ReserveDenied, Goto, Fails
<1>10. ASSUME NEW r \in Req, ReserveMalformed(r) PROVE BackedInv(q)'
  BY <1>10 DEF ReserveMalformed, Goto, Fails, PerhapsReserved, Reserve
<1>11. ASSUME NEW r \in Req, SettleSkipped(r) PROVE BackedInv(q)'
  BY <1>11 DEF SettleSkipped, Goto, Excuse
<1>12. ASSUME NEW r \in Req, SettleOnline(r) PROVE BackedInv(q)'
  BY <1>12 DEF SettleOnline, Goto
<1>13. ASSUME NEW r \in Req, Confirmed(r) PROVE BackedInv(q)'
  BY <1>13 DEF Confirmed, Goto, SendUse
<1>14. ASSUME NEW r \in Req, Unconfirmed(r) PROVE BackedInv(q)'
  BY <1>14 DEF Unconfirmed, Goto, Excuse, SendUse
<1>15. ASSUME NEW r \in Req, ConfirmDenied(r) PROVE BackedInv(q)'
  BY <1>15 DEF ConfirmDenied, Goto, Fails, SendUse
<1>16. ASSUME NEW r \in Req, Respond(r) PROVE BackedInv(q)'
  BY <1>16 DEF Respond, Answer, Goto, Excuse
<1>17. ASSUME NEW r \in Req, Handle(r) PROVE BackedInv(q)'
  BY <1>17 DEF Handle, Goto
<1>18. ASSUME NEW r \in Req, HandlerPanics(r) PROVE BackedInv(q)'
  BY <1>18 DEF HandlerPanics, Goto
<1>19. ASSUME NEW r \in Req, Fulfil(r) PROVE BackedInv(q)'
  BY <1>19 DEF Fulfil, Goto
<1>20. ASSUME NEW r \in Req, Use(r) PROVE BackedInv(q)'
  BY <1>20 DEF Use, Goto
<1>21. ASSUME NEW r \in Req, Report(r) PROVE BackedInv(q)'
  BY <1>21 DEF Report, Goto, SendUse
<1>22. ASSUME RoutesChange PROVE BackedInv(q)'
  BY <1>22 DEF RoutesChange
<1>23. ASSUME PoliciesChange PROVE BackedInv(q)'
  BY <1>23 DEF PoliciesChange
<1>24. ASSUME BlocksChange PROVE BackedInv(q)'
  BY <1>24 DEF BlocksChange
<1>25. ASSUME ConnectionChanges PROVE BackedInv(q)'
  BY <1>25 DEF ConnectionChanges
<1>26. ASSUME FlagRenewed PROVE BackedInv(q)'
  BY <1>26 DEF FlagRenewed
<1>27. ASSUME UNCHANGED vars PROVE BackedInv(q)'
  BY <1>27 DEF vars
<1> QED
  BY <1>1, <1>2, <1>3, <1>4, <1>5, <1>6, <1>7, <1>8, <1>9, <1>10, <1>11,
     <1>12, <1>13, <1>14, <1>15, <1>16, <1>17, <1>18, <1>19, <1>20, <1>21,
     <1>22, <1>23, <1>24, <1>25, <1>26, <1>27
     DEF Next, Step

\* Charging one more request takes one from the quota.
LEMMA ChargeOne ==
    ASSUME TypeOK, QuotaInv, NEW r \in Req, Reserve(r) \/ UNCHANGED <<quota, granted>>,
           UNCHANGED rl
    PROVE  QuotaInv'
<1>1. IsFiniteSet(Charged)
  BY RequestAssumption, FS_Subset DEF TypeOK, Charged
<1>2. Charged' = Charged \/ Charged' = Charged \cup {r}
  BY DEF Reserve, Charged
<1>3. Cardinality(Charged) \in Nat
  BY <1>1, FS_CardinalityType
<1>4. Cardinality(Charged \cup {r}) \in {Cardinality(Charged), Cardinality(Charged) + 1}
  BY <1>1, FS_AddElement
<1>5. Cardinality(Charged') \in {Cardinality(Charged), Cardinality(Charged) + 1}
  BY <1>2, <1>4
<1>6. CASE Reserve(r)
  <2>1. quota \in Nat /\ quota' = quota - 1
    BY <1>6, RequestAssumption DEF Reserve, TypeOK
  <2>2. quota' + Cardinality(Charged') <= Quota
    BY <1>3, <1>5, <2>1, RequestAssumption DEF QuotaInv
  <2> QED
    BY <2>2 DEF QuotaInv
<1>7. CASE UNCHANGED <<quota, granted>>
  BY <1>7 DEF QuotaInv, Charged
<1> QED
  BY <1>6, <1>7

\* The reservations of rate-limited requests are what the quota has lost.
LEMMA NextQuota ==
    ASSUME IInv, QuotaInv, [Next]_vars
    PROVE  QuotaInv'
<1> USE DEF config, shared, local, server, LooksUp
<1>1. ASSUME NEW r \in Req, Identify(r) PROVE QuotaInv'
  <2>1. r \notin granted
    BY <1>1 DEF Identify, IInv, ReqInv, PaymentInv, Silent
  <2>2. Charged' = Charged /\ quota' = quota
    BY <1>1, <2>1 DEF Identify, Charged, IInv, TypeOK
  <2> QED
    BY <2>2 DEF QuotaInv
<1>2. ASSUME NEW r \in Req, Announce(r) PROVE QuotaInv'
  <2>1. Charged' = Charged /\ quota' = quota
    BY <1>2 DEF Announce, Charged
  <2> QED
    BY <2>1 DEF QuotaInv
<1>3. ASSUME NEW r \in Req, Reserve(r) \/ UNCHANGED <<quota, granted>>, UNCHANGED rl
      PROVE QuotaInv'
  BY <1>3, ChargeOne DEF IInv
<1>4. ASSUME NEW r \in Req, Step(r), ~Identify(r), ~Announce(r)
      PROVE Reserve(r) \/ UNCHANGED <<quota, granted>>
  BY <1>4 DEF Step, Route, AllocateOffline, AllocateOnline, BlockCheck, ReserveGranted,
     ReserveUnanswered, ReserveDenied, ReserveMalformed, PerhapsReserved, SettleSkipped,
     SettleOnline, Confirmed, Unconfirmed, ConfirmDenied, Respond, Handle,
     HandlerPanics, Fulfil, Use, Report
<1>5. ASSUME NEW r \in Req, Step(r), ~Identify(r), ~Announce(r)
      PROVE UNCHANGED rl
  BY <1>5 DEF Step, Route, AllocateOffline, AllocateOnline, BlockCheck, ReserveGranted,
     ReserveUnanswered, ReserveDenied, ReserveMalformed, SettleSkipped,
     SettleOnline, Confirmed, Unconfirmed, ConfirmDenied, Respond, Handle,
     HandlerPanics, Fulfil, Use, Report
<1>6. ASSUME UNCHANGED <<quota, granted, rl>> PROVE QuotaInv'
  BY <1>6 DEF QuotaInv, Charged
<1>7. ASSUME RoutesChange \/ PoliciesChange \/ BlocksChange \/ ConnectionChanges
             \/ FlagRenewed \/ UNCHANGED vars
      PROVE UNCHANGED <<quota, granted, rl>>
  BY <1>7 DEF RoutesChange, PoliciesChange, BlocksChange, ConnectionChanges, FlagRenewed, config, shared, vars
<1> QED
  BY <1>1, <1>2, <1>3, <1>4, <1>5, <1>6, <1>7 DEF Next

LEMMA GateInvariant == Spec => []GateInv
<1>1. GateInv /\ [Next]_vars => GateInv'
  BY NextInv, NextQuota, NextBacked DEF GateInv, IInv, ReqInv
<1> QED
  BY InitGateInv, <1>1, PTL DEF Spec

\* What a step may do to the decision and the result of its request: nothing, ...
Stays(r) == Decision(r)' = Decision(r) /\ Result(r)' = Result(r)

\* ... decide it, ...
Decides(r, d) == Decision(r) = "open" /\ Decision(r)' = d /\ Result(r)' = Result(r)

\* ... or end it.
Ends(r, d, e) ==
    /\ Decision(r) = d /\ Decision(r)' = d
    /\ Result(r) = "none" /\ Result(r)' = e

Moves(r) ==
    \/ Stays(r)
    \/ \E d \in {"exempt", "excused", "refused"} : Decides(r, d)
    \/ Decides(r, "paid") /\ r \in Charged
    \/ \E d \in Gate!Admitted : Ends(r, d, "served")
    \/ Ends(r, "refused", "rejected")

\* A step of a request moves it.
LEMMA StepMoves ==
    ASSUME IInv, NEW r \in Req, RefusalInv(r), BackedInv(r), Step(r)
    PROVE  Moves(r)
<1> USE DEF IInv, TypeOK, RefusalInv, BackedInv, Undecided, Served, Refusal, Moves, Stays,
         Decides, Ends, Decision, Result, Charged, Gate!Admitted, config, shared, local, server, LooksUp
<1>1. CASE Route(r)
  BY <1>1 DEF Route, Goto
<1>2. CASE Identify(r)
  BY <1>2 DEF Identify, Goto
<1>3. CASE AllocateOffline(r)
  BY <1>3 DEF AllocateOffline, Goto, Excuse, Allocated
<1>4. CASE AllocateOnline(r)
  BY <1>4 DEF AllocateOnline, Goto
<1>5. CASE BlockCheck(r)
  BY <1>5 DEF BlockCheck, Goto, Fails
<1>6. CASE Announce(r)
  BY <1>6 DEF Announce, Goto, Allocated
<1>7. CASE ReserveGranted(r)
  BY <1>7 DEF ReserveGranted, Goto, Allocated, Reserve
<1>8. CASE ReserveUnanswered(r)
  BY <1>8 DEF ReserveUnanswered, Goto, Excuse, Allocated, PerhapsReserved, Reserve
<1>9. CASE ReserveDenied(r)
  BY <1>9 DEF ReserveDenied, Goto, Fails
<1>10. CASE ReserveMalformed(r)
  BY <1>10 DEF ReserveMalformed, Goto, Fails, PerhapsReserved, Reserve
<1>11. CASE SettleSkipped(r)
  BY <1>11 DEF SettleSkipped, Goto, Excuse
<1>12. CASE SettleOnline(r)
  BY <1>12 DEF SettleOnline, Goto
<1>13. CASE Confirmed(r)
  BY <1>13 DEF Confirmed, Goto, SendUse
<1>14. CASE Unconfirmed(r)
  BY <1>14 DEF Unconfirmed, Goto, Excuse, SendUse
<1>15. CASE ConfirmDenied(r)
  BY <1>15 DEF ConfirmDenied, Goto, Fails, SendUse
<1>16. CASE Respond(r)
  <2>1. CASE err[r] \in Refusal
    <3>1. reply[r] = "none" /\ reply'[r] \in {"400", "403", "429"} /\ err' = err
      BY <1>16, <2>1 DEF Respond, Answer
    <3>2. Ends(r, "refused", "rejected")
      BY <2>1, <3>1
    <3> QED
      BY <3>2
  <2>2. CASE err[r] = "deniedAsOutage"
    BY <1>16, <2>2 DEF Respond, Answer, Goto, Excuse
  <2> QED
    BY <1>16, <2>1, <2>2 DEF Respond
<1>17. CASE Handle(r)
  BY <1>17 DEF Handle, Goto
<1>18. CASE HandlerPanics(r)
  BY <1>18 DEF HandlerPanics, Goto
<1>19. CASE Fulfil(r)
  BY <1>19 DEF Fulfil, Goto
<1>20. CASE Use(r)
  BY <1>20 DEF Use, Goto
<1>21. CASE Report(r)
  BY <1>21 DEF Report, Goto, SendUse
<1> QED
  BY <1>1, <1>2, <1>3, <1>4, <1>5, <1>6, <1>7, <1>8, <1>9, <1>10, <1>11,
     <1>12, <1>13, <1>14, <1>15, <1>16, <1>17, <1>18, <1>19, <1>20, <1>21
     DEF Step

\* ... and no other.
LEMMA OthersStay ==
    ASSUME TypeOK, NEW r \in Req, NEW q \in Req \ {r}, Step(r)
    PROVE  Stays(q)
<1> USE DEF TypeOK, Stays, Decision, Result, config, shared, local, server, LooksUp
<1>1. CASE Route(r)
  BY <1>1 DEF Route, Goto
<1>2. CASE Identify(r)
  BY <1>2 DEF Identify, Goto
<1>3. CASE AllocateOffline(r)
  BY <1>3 DEF AllocateOffline, Goto, Excuse, Allocated
<1>4. CASE AllocateOnline(r)
  BY <1>4 DEF AllocateOnline, Goto
<1>5. CASE BlockCheck(r)
  BY <1>5 DEF BlockCheck, Goto, Fails
<1>6. CASE Announce(r)
  BY <1>6 DEF Announce, Goto, Allocated
<1>7. CASE ReserveGranted(r)
  BY <1>7 DEF ReserveGranted, Goto, Allocated, Reserve
<1>8. CASE ReserveUnanswered(r)
  BY <1>8 DEF ReserveUnanswered, Goto, Excuse, Allocated, PerhapsReserved, Reserve
<1>9. CASE ReserveDenied(r)
  BY <1>9 DEF ReserveDenied, Goto, Fails
<1>10. CASE ReserveMalformed(r)
  BY <1>10 DEF ReserveMalformed, Goto, Fails, PerhapsReserved, Reserve
<1>11. CASE SettleSkipped(r)
  BY <1>11 DEF SettleSkipped, Goto, Excuse
<1>12. CASE SettleOnline(r)
  BY <1>12 DEF SettleOnline, Goto
<1>13. CASE Confirmed(r)
  BY <1>13 DEF Confirmed, Goto, SendUse
<1>14. CASE Unconfirmed(r)
  BY <1>14 DEF Unconfirmed, Goto, Excuse, SendUse
<1>15. CASE ConfirmDenied(r)
  BY <1>15 DEF ConfirmDenied, Goto, Fails, SendUse
<1>16. CASE Respond(r)
  BY <1>16 DEF Respond, Answer, Goto, Excuse
<1>17. CASE Handle(r)
  BY <1>17 DEF Handle, Goto
<1>18. CASE HandlerPanics(r)
  BY <1>18 DEF HandlerPanics, Goto
<1>19. CASE Fulfil(r)
  BY <1>19 DEF Fulfil, Goto
<1>20. CASE Use(r)
  BY <1>20 DEF Use, Goto
<1>21. CASE Report(r)
  BY <1>21 DEF Report, Goto, SendUse
<1> QED
  BY <1>1, <1>2, <1>3, <1>4, <1>5, <1>6, <1>7, <1>8, <1>9, <1>10, <1>11,
     <1>12, <1>13, <1>14, <1>15, <1>16, <1>17, <1>18, <1>19, <1>20, <1>21
     DEF Step

\* The module of the gate counts as this one does.
LEMMA SameCardinality == \A S : Gate!Cardinality(S) = Cardinality(S)
BY DEF Gate!Cardinality, Cardinality

\* Who pays has a reservation the paid before it do not have.
LEMMA PaidBelowQuota ==
    ASSUME GateInv, NEW r \in Req, Decision(r) = "open", r \in Charged
    PROVE  Gate!Cardinality(Gate!Paid) < Quota
<1>1. IsFiniteSet(Charged)
  BY RequestAssumption, FS_Subset DEF GateInv, IInv, TypeOK, Charged
<1>2. ASSUME NEW q \in Req, Decision(q) = "paid"
      PROVE  q \in Charged \ {r}
  BY <1>2 DEF GateInv, IInv, TypeOK, BackedInv, Decision, Served, Refusal, Charged
<1>3. Gate!Paid \subseteq Charged \ {r}
  BY <1>2 DEF Gate!Paid
<1>4. /\ IsFiniteSet(Charged \ {r})
      /\ Cardinality(Charged \ {r}) = Cardinality(Charged) - 1
  BY <1>1, FS_RemoveElement
<1>5. Cardinality(Gate!Paid) <= Cardinality(Charged \ {r})
  BY <1>3, <1>4, FS_Subset
<1>6. /\ Cardinality(Charged) \in Nat
      /\ Cardinality(Gate!Paid) \in Nat
  BY <1>1, <1>3, <1>4, FS_Subset, FS_CardinalityType
<1> QED
  BY <1>4, <1>5, <1>6, SameCardinality, RequestAssumption DEF GateInv, IInv, TypeOK, QuotaInv

\* The moves are steps of the gate.
LEMMA MovesAreSteps ==
    ASSUME GateInv, NEW r \in Req, Moves(r), \A q \in Req \ {r} : Stays(q)
    PROVE  [Gate!Next]_(Gate!gateVars)
<1> DEFINE D == [q \in Req |-> Decision(q)]
           R == [q \in Req |-> Result(q)]
<1>1. ASSUME Decision(r)' = Decision(r) PROVE D' = D
  BY <1>1 DEF Stays
<1>2. ASSUME Result(r)' = Result(r) PROVE R' = R
  BY <1>2 DEF Stays
<1>3. D' = [D EXCEPT ![r] = Decision(r)'] /\ R' = [R EXCEPT ![r] = Result(r)']
  BY DEF Stays
<1>4. D[r] = Decision(r) /\ R[r] = Result(r)
  OBVIOUS
<1>5. CASE Stays(r)
  BY <1>1, <1>2, <1>5 DEF Stays, Gate!gateVars
<1>6. ASSUME NEW d \in {"exempt", "excused", "refused"}, Decides(r, d)
      PROVE  Gate!Step(r)
  BY <1>2, <1>3, <1>4, <1>6
     DEF Decides, Gate!Step, Gate!Exempt, Gate!Excuse, Gate!Refuse, Gate!Decide
<1>7. CASE Decides(r, "paid") /\ r \in Charged
  <2>1. Gate!Cardinality(Gate!Paid) < Quota
    BY <1>7, PaidBelowQuota DEF Decides
  <2> QED
    BY <1>2, <1>3, <1>4, <1>7, <2>1
       DEF Decides, Gate!Next, Gate!Step, Gate!Pay, Gate!Decide
<1>8. ASSUME NEW d \in Gate!Admitted, Ends(r, d, "served")
      PROVE  Gate!Step(r)
  BY <1>1, <1>3, <1>4, <1>8 DEF Ends, Gate!Step, Gate!Serve
<1>9. CASE Ends(r, "refused", "rejected")
  BY <1>1, <1>3, <1>4, <1>9 DEF Ends, Gate!Next, Gate!Step, Gate!Reject
<1> QED
  BY <1>5, <1>6, <1>7, <1>8, <1>9 DEF Moves, Gate!Next

\* Every request starts undecided.
LEMMA InitGate == Init => Gate!Init
<1> SUFFICES ASSUME Init PROVE Gate!Init
  OBVIOUS
<1>1. ASSUME NEW r \in Req PROVE Decision(r) = "open" /\ Result(r) = "none"
  <2>1. pc[r] = "arrived" /\ err[r] = "none" /\ reply[r] = "none"
    BY DEF Init
  <2> QED
    BY <2>1 DEF Decision, Result
<1> QED
  BY <1>1 DEF Gate!Init

\* Every step of the program is a step of the gate, or none.
LEMMA NextGate == GateInv /\ [Next]_vars => [Gate!Next]_(Gate!gateVars)
<1> SUFFICES ASSUME GateInv, [Next]_vars PROVE [Gate!Next]_(Gate!gateVars)
  OBVIOUS
<1>1. ASSUME NEW r \in Req, Step(r) PROVE [Gate!Next]_(Gate!gateVars)
  <2>1. Moves(r)
    BY <1>1, StepMoves DEF GateInv, IInv, ReqInv
  <2>2. \A q \in Req \ {r} : Stays(q)
    BY <1>1, OthersStay DEF GateInv, IInv
  <2> QED
    BY <2>1, <2>2, MovesAreSteps
<1>2. ASSUME RoutesChange \/ PoliciesChange \/ BlocksChange \/ ConnectionChanges
             \/ FlagRenewed \/ UNCHANGED vars
      PROVE  UNCHANGED Gate!gateVars
  <2>1. UNCHANGED <<pc, local>>
    BY <1>2 DEF RoutesChange, PoliciesChange, BlocksChange, ConnectionChanges, FlagRenewed, config, shared, vars
  <2>2. \A r \in Req : Stays(r)
    BY <2>1 DEF Stays, Decision, Result, local
  <2> QED
    BY <2>2 DEF Stays, Gate!gateVars
<1> QED
  BY <1>1, <1>2 DEF Next

(* The interceptor is a metering gate: every request is decided once and   *)
(* before its handler, the refused are rejected and the others served, and *)
(* at most Quota of them count as paid.                                    *)
THEOREM GateImplemented == Spec => ImplementsGate
BY InitGate, GateInvariant, NextGate, PTL DEF Spec, ImplementsGate, Gate!Safety

=============================================================================
