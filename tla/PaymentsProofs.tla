--------------------------- MODULE PaymentsProofs ---------------------------
(***************************************************************************)
(* Proofs about the payment order model, for every value of the constants. *)
(***************************************************************************)
EXTENDS Payments, TLAPS

-----------------------------------------------------------------------------
(* Type correctness.                                                       *)

\* The worker record every return of Complete or Cancel leaves.
LEMMA IdleType == Idle \in Worker
  BY PaymentsAssumption DEF Idle, Worker, PCs, Kinds, Statuses

LEMMA TypeInit == Init => TypeOK
<1>1. (CHOOSE u \in Users : TRUE) \in Users
  BY PaymentsAssumption
<1>2. QED
  BY <1>1, IdleType, PaymentsAssumption DEF Init, TypeOK, Statuses

LEMMA TypeStep == TypeOK /\ [Next]_vars => TypeOK'
<1> SUFFICES ASSUME TypeOK, [Next]_vars PROVE TypeOK'
  OBVIOUS
<1> USE DEF TypeOK, Worker, PCs, Kinds, Statuses
<1>1. CASE CreateOrder
  BY <1>1 DEF CreateOrder
<1>2. CASE Tick
  BY <1>2 DEF Tick
<1>4. ASSUME NEW w \in Workers, Call(w) PROVE TypeOK'
  BY <1>4, PaymentsAssumption DEF Call
<1>5. ASSUME NEW w \in Workers, CompleteRead(w) PROVE TypeOK'
  BY <1>5, IdleType DEF CompleteRead
<1>6. ASSUME NEW w \in Workers, CancelRead(w) PROVE TypeOK'
  BY <1>6, IdleType DEF CancelRead
<1>7. ASSUME NEW w \in Workers, SaveOrder(w) PROVE TypeOK'
  BY <1>7, IdleType DEF SaveOrder
<1>8. ASSUME NEW w \in Workers, Credit(w) PROVE TypeOK'
  BY <1>8, IdleType DEF Credit
<1>9. ASSUME NEW w \in Workers, FailCall(w) PROVE TypeOK'
  BY <1>9, IdleType, PaymentsAssumption DEF FailCall
<1>10. CASE UNCHANGED vars
  BY <1>10 DEF vars
<1>11. QED
  BY <1>1, <1>2, <1>4, <1>5, <1>6, <1>7, <1>8, <1>9, <1>10 DEF Next

\* Every reachable state of the payment model is well typed, for any
\* orders, users, workers and bounds.
THEOREM TypeCorrect == Spec => []TypeOK
  BY TypeInit, TypeStep, PTL DEF Spec

-----------------------------------------------------------------------------
(* Calls on one order do not overlap: each order is credited at most once, *)
(* only while it is completed, and the order table follows                 *)
(* PaymentsAbstract.  Requests on different orders interleave freely.      *)

\* The status a request's copy carries to UpdatePaymentOrder.
Target(k) == IF k = "complete" THEN "completed" ELSE "cancelled"

\* Two requests in progress work on different orders.
LEMMA DistinctOrders ==
  ASSUME OneCallPerOrder, NEW v \in Workers, NEW w \in Workers, v # w,
         worker[v].pc # "idle", worker[w].pc # "idle"
  PROVE  worker[v].order # worker[w].order
  BY DEF OneCallPerOrder

\* What an order's row says of its credits.
OrderOK(o) ==
    /\ credited[o] <= 1
    /\ credited[o] > 0 => status[o] = "completed"

\* What a request in progress knows of its order: one about to save found
\* it pending, and no other request has touched that order since; one
\* about to credit has saved it completed and not yet credited it.
InFlightOK(w) ==
    LET wk == worker[w] IN
    /\ wk.pc = "save" => /\ status[wk.order] = "pending"
                         /\ wk.local = Target(wk.kind)
    /\ wk.pc = "credit" => /\ status[wk.order] = "completed"
                           /\ credited[wk.order] = 0

\* AtMostOnceCredit /\ CreditedIsCompleted is not inductive: it says
\* nothing of a request between its pending check and its Save, or between
\* its Save and AddCredits.  PayInv adds what those requests know.
PayInv ==
    /\ TypeOK
    /\ \A o \in Orders : OrderOK(o)
    /\ \A w \in Workers : InFlightOK(w)

LEMMA PayInvInit == Init => PayInv
<1> SUFFICES ASSUME Init PROVE PayInv
  OBVIOUS
<1>1. TypeOK
  BY TypeInit
<1>2. \A w \in Workers : worker[w].pc = "idle"
  BY DEF Init, Idle
<1>3. \A o \in Orders : credited[o] = 0
  BY DEF Init
<1>4. QED
  BY <1>1, <1>2, <1>3 DEF PayInv, OrderOK, InFlightOK

LEMMA PayInvStep ==
  PayInv /\ OneCallPerOrder /\ [Next]_vars => PayInv'
<1> SUFFICES ASSUME PayInv, OneCallPerOrder, [Next]_vars PROVE PayInv'
  OBVIOUS
<1>0. TypeOK'
  BY TypeStep DEF PayInv
<1>a. TypeOK /\ \A o \in Orders : OrderOK(o) /\ \A w \in Workers : InFlightOK(w)
  BY DEF PayInv
<1> SUFFICES /\ \A o \in Orders : OrderOK(o)'
             /\ \A w \in Workers : InFlightOK(w)'
  BY <1>0 DEF PayInv
<1> USE DEF TypeOK, Worker, PCs, Kinds, Statuses
<1>1. CASE CreateOrder
  BY <1>1, <1>a DEF CreateOrder, OrderOK, InFlightOK
<1>2. CASE Tick
  BY <1>2, <1>a DEF Tick, OrderOK, InFlightOK
<1>3. ASSUME NEW v \in Workers, Call(v) PROVE InFlightOK(v)' /\ UNCHANGED <<status, credited>>
  BY <1>3, <1>a DEF Call, InFlightOK
<1>4. ASSUME NEW v \in Workers, CompleteRead(v) \/ CancelRead(v)
      PROVE  InFlightOK(v)' /\ UNCHANGED <<status, credited>>
  <2> DEFINE wk == worker[v]
  <2>1. Idle.pc = "idle"
    BY DEF Idle
  <2>2. CASE CompleteRead(v)
    <3>1. /\ worker'[v] = IF status[wk.order] # "pending" \/ wk.order \in late
                          THEN Idle
                          ELSE [wk EXCEPT !.pc = "save", !.local = "completed"]
          /\ status' = status /\ credited' = credited
      BY <2>2, <1>a DEF CompleteRead
    <3>2. wk.kind = "complete"
      BY <2>2 DEF CompleteRead
    <3>3. QED
      BY <3>1, <3>2, <2>1, <1>a DEF InFlightOK, Target
  <2>3. CASE CancelRead(v)
    <3>1. /\ worker'[v] = IF status[wk.order] # "pending"
                          THEN Idle
                          ELSE [wk EXCEPT !.pc = "save", !.local = "cancelled"]
          /\ status' = status /\ credited' = credited
      BY <2>3, <1>a DEF CancelRead
    <3>2. wk.kind = "cancel"
      BY <2>3 DEF CancelRead
    <3>3. QED
      BY <3>1, <3>2, <2>1, <1>a DEF InFlightOK, Target
  <2>4. QED
    BY <2>2, <2>3, <1>4
<1>5. ASSUME NEW v \in Workers, FailCall(v) PROVE InFlightOK(v)' /\ UNCHANGED <<status, credited>>
  BY <1>5, <1>a DEF FailCall, InFlightOK, Idle
<1>6. ASSUME NEW v \in Workers,
             Call(v) \/ CompleteRead(v) \/ CancelRead(v) \/ FailCall(v)
      PROVE  /\ \A o \in Orders : OrderOK(o)'
             /\ \A w \in Workers : InFlightOK(w)'
  <2>1. InFlightOK(v)' /\ UNCHANGED <<status, credited>>
    BY <1>3, <1>4, <1>5, <1>6
  <2>2. \A w \in Workers \ {v} : worker'[w] = worker[w]
    BY <1>6, <1>a DEF Call, CompleteRead, CancelRead, FailCall
  <2>3. QED
    BY <2>1, <2>2, <1>a DEF OrderOK, InFlightOK
<1>7. ASSUME NEW v \in Workers, SaveOrder(v)
      PROVE  /\ \A o \in Orders : OrderOK(o)'
             /\ \A w \in Workers : InFlightOK(w)'
  <2> DEFINE wk == worker[v]
  <2>1. /\ wk.pc = "save"
        /\ status' = [status EXCEPT ![wk.order] = wk.local]
        /\ worker' = [worker EXCEPT ![v] =
                        IF wk.kind = "complete" THEN [wk EXCEPT !.pc = "credit"] ELSE Idle]
        /\ credited' = credited
    BY <1>7 DEF SaveOrder
  <2>2. status[wk.order] = "pending" /\ wk.local = Target(wk.kind) /\ credited[wk.order] = 0
    BY <2>1, <1>a DEF InFlightOK, OrderOK
  <2>3. ASSUME NEW w \in Workers \ {v}, worker[w].pc \in {"save", "credit"}
        PROVE  worker[w].order # wk.order
    BY <2>1, <2>3, DistinctOrders
  <2>4. \A w \in Workers \ {v} : InFlightOK(w)'
    BY <2>1, <2>3, <1>a DEF InFlightOK
  <2>5. InFlightOK(v)'
    BY <2>1, <2>2, <1>a, IdleType DEF InFlightOK, Target, Idle
  <2>6. \A o \in Orders : OrderOK(o)'
    BY <2>1, <2>2, <1>a DEF OrderOK
  <2>7. QED
    BY <2>4, <2>5, <2>6
<1>8. ASSUME NEW v \in Workers, Credit(v)
      PROVE  /\ \A o \in Orders : OrderOK(o)'
             /\ \A w \in Workers : InFlightOK(w)'
  <2> DEFINE o0 == worker[v].order
  <2>1. /\ worker[v].pc = "credit"
        /\ credited' = [credited EXCEPT ![o0] = @ + 1]
        /\ worker' = [worker EXCEPT ![v] = Idle]
        /\ status' = status
    BY <1>8 DEF Credit
  <2>2. status[o0] = "completed" /\ credited[o0] = 0 /\ o0 \in Orders
    BY <2>1, <1>a DEF InFlightOK
  <2>3. ASSUME NEW w \in Workers \ {v}, worker[w].pc \in {"save", "credit"}
        PROVE  worker[w].order # o0
    BY <2>1, <2>3, DistinctOrders
  <2>4. \A w \in Workers \ {v} : InFlightOK(w)'
    BY <2>1, <2>3, <1>a DEF InFlightOK
  <2>5. InFlightOK(v)'
    BY <2>1, <1>a, IdleType DEF InFlightOK, Idle
  <2>6. \A o \in Orders : OrderOK(o)'
    BY <2>1, <2>2, <1>a DEF OrderOK
  <2>7. QED
    BY <2>4, <2>5, <2>6
<1>9. CASE UNCHANGED vars
  BY <1>9, <1>a DEF vars, OrderOK, InFlightOK
<1>10. QED
  BY <1>1, <1>2, <1>6, <1>7, <1>8, <1>9 DEF Next

\* However often Complete is called for an order (a retried or duplicated
\* provider callback), whichever calls fail and however requests on other
\* orders interleave, CompletePaymentOrder credits an order at most once,
\* provided calls on one order do not overlap: its Status != "pending"
\* check refuses every later call.  (Overlapping calls on one order break
\* it: pay_double_complete.)
THEOREM CreditOncePerOrder == Spec /\ []OneCallPerOrder => []AtMostOnceCredit
<1>1. PayInv => AtMostOnceCredit
  BY DEF PayInv, OrderOK, AtMostOnceCredit
<1>2. QED
  BY <1>1, PayInvInit, PayInvStep, PTL DEF Spec

\* Under the same discipline, an order whose AddCredits went through is and
\* stays "completed": a later CancelPaymentOrder or CompletePaymentOrder is
\* refused by the pending check.  (Overlapping calls break it: pay_terminal.)
THEOREM CreditedIsCompletedPerOrder == Spec /\ []OneCallPerOrder => []CreditedIsCompleted
<1>1. PayInv => CreditedIsCompleted
  BY DEF PayInv, OrderOK, CreditedIsCompleted
<1>2. QED
  BY <1>1, PayInvInit, PayInvStep, PTL DEF Spec

\* Every step of the model is a step of the abstract life cycle or leaves
\* the statuses and the credits alone.
LEMMA RefinementStep ==
  PayInv /\ [Next]_vars => [Abs!Next]_(Abs!absVars)
<1> SUFFICES ASSUME PayInv, [Next]_vars PROVE [Abs!Next]_(Abs!absVars)
  OBVIOUS
<1> USE DEF PayInv, TypeOK, Worker, PCs, Kinds, Statuses, Abs!absVars
<1>1. CASE CreateOrder
  BY <1>1 DEF CreateOrder, Abs!Next, Abs!Create
<1>2. CASE Tick
  BY <1>2 DEF Tick
<1>4. ASSUME NEW w \in Workers,
             Call(w) \/ CompleteRead(w) \/ CancelRead(w) \/ FailCall(w)
      PROVE  UNCHANGED Abs!absVars
  BY <1>4 DEF Call, CompleteRead, CancelRead, FailCall
<1>5. ASSUME NEW w \in Workers, SaveOrder(w) PROVE Abs!Next
  <2>1. worker[w].pc = "save" /\ worker[w].order \in Orders
    BY <1>5 DEF SaveOrder
  <2>2. Abs!Decide(worker[w].order, Target(worker[w].kind))
    BY <1>5, <2>1 DEF SaveOrder, Abs!Decide, InFlightOK
  <2>3. Target(worker[w].kind) \in {"completed", "cancelled"}
    BY DEF Target
  <2>4. QED
    BY <2>1, <2>2, <2>3 DEF Abs!Next
<1>6. ASSUME NEW w \in Workers, Credit(w) PROVE Abs!Grant(worker[w].order)
  <2> DEFINE o == worker[w].order
  <2>1. worker[w].pc = "credit" /\ o \in Orders
    BY <1>6 DEF Credit
  <2>2. status[o] = "completed" /\ credited[o] = 0
    BY <2>1 DEF InFlightOK
  <2>3. credited' = [credited EXCEPT ![o] = @ + 1] /\ status' = status
    BY <1>6 DEF Credit
  <2>4. credited' = [credited EXCEPT ![o] = 1]
    BY <2>2, <2>3
  <2>5. QED
    BY <2>2, <2>3, <2>4 DEF Abs!Grant
<1>7. ASSUME NEW w \in Workers PROVE worker[w].order \in Orders
  OBVIOUS
<1>8. CASE UNCHANGED vars
  BY <1>8 DEF vars
<1>9. QED
  BY <1>1, <1>2, <1>4, <1>5, <1>6, <1>7, <1>8 DEF Next, Abs!Next

\* PaymentsRefines, provided calls on one order do not overlap: whatever
\* calls fail and however requests on different orders interleave, the
\* read / Save / AddCredits sequences of CompletePaymentOrder and
\* CancelPaymentOrder implement the atomic life cycle of spec 4.4: only a
\* pending order is decided, completed and cancelled are final, and an
\* order is credited once, after it was completed.  (Overlapping calls on
\* one order break it: pay_double_complete, pay_terminal.)
THEOREM RefinementPerOrder == Spec /\ []OneCallPerOrder => PaymentsRefines
<1>1. Init => Abs!Init
  BY DEF Init, Abs!Init
<1>2. QED
  BY <1>1, PayInvInit, PayInvStep, RefinementStep, PTL
     DEF Spec, PaymentsRefines, Abs!Spec

=============================================================================
