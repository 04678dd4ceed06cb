------------------------------ MODULE Payments ------------------------------
(***************************************************************************)
(* The payment order engine of internal/op (src/unnamed/part_003 230-324) *)
(* and the handlers that drive it (part_003 565-700): CreatePaymentOrder, *)
(* CompletePaymentOrder (called by the public /complete endpoint and by   *)
(* PaymentNotification) and CancelPaymentOrder.  CleanExpiredPaymentOrders *)
(* is not a step: nothing calls it, and its db.Where(...).Update(...)      *)
(* (part_001 559) names no model, so gorm returns an error and changes no  *)
(* row.  No order is ever set "expired"; a late order stays "pending" and  *)
(* CompletePaymentOrder refuses it through IsExpired.                      *)
(*                                                                         *)
(* As in Ledger, each database call is one atomic step and a worker's Go  *)
(* code runs on its private copy of the order row; UpdatePaymentOrder is  *)
(* gorm Save, which writes the copy's status back whatever the row holds  *)
(* now.  AddCredits is one step here (its own races are Ledger's); what   *)
(* this module records of it is how often each order was credited.        *)
(***************************************************************************)
EXTENDS Naturals

CONSTANTS
    Orders,       \* order numbers generateOrderID may hand out
    Users,        \* user IDs that own orders and call Cancel
    Workers,      \* request workers (HTTP handlers, provider callbacks)
    MaxRequests,  \* bound on Complete/Cancel calls in a behaviour
    MaxFaults     \* bound on failed database / AddCredits calls

ASSUME PaymentsAssumption ==
    /\ Orders # {} /\ Users # {}
    /\ MaxRequests \in Nat /\ MaxFaults \in Nat

VARIABLES
    status,    \* status[o]: the x_payment_orders row's Status ("none": no row)
    owner,     \* owner[o]: the row's UserID
    late,      \* orders whose ExpiresAt now lies in the past
    credited,  \* credited[o]: AddCredits calls that succeeded for order o
    worker,    \* worker[w]: the call in progress and its copy of the row
    requests,  \* Complete / Cancel calls started so far
    faults     \* calls failed so far

vars == <<status, owner, late, credited, worker, requests, faults>>

\* The Status strings the code writes; "none" stands for a missing row.
Statuses == {"none", "pending", "completed", "cancelled", "expired"}

Kinds == {"complete", "cancel"}

\* idle; read: GetPaymentOrderByOrderNo; save: UpdatePaymentOrder;
\* credit: the AddCredits call of CompletePaymentOrder.
PCs == {"idle", "read", "save", "credit"}

Worker == [pc : PCs, kind : Kinds, order : Orders, user : Users, local : Statuses]

Idle == [pc |-> "idle", kind |-> "complete", order |-> CHOOSE o \in Orders : TRUE,
         user |-> CHOOSE u \in Users : TRUE, local |-> "none"]

TypeOK ==
    /\ status \in [Orders -> Statuses]
    /\ owner \in [Orders -> Users]
    /\ late \subseteq Orders
    /\ credited \in [Orders -> Nat]
    /\ worker \in [Workers -> Worker]
    /\ requests \in 0..MaxRequests
    /\ faults \in 0..MaxFaults

Init ==
    /\ status = [o \in Orders |-> "none"]
    /\ owner = [o \in Orders |-> CHOOSE u \in Users : TRUE]
    /\ late = {}
    /\ credited = [o \in Orders |-> 0]
    /\ worker = [w \in Workers |-> Idle]
    /\ requests = 0
    /\ faults = 0

-----------------------------------------------------------------------------
(* Environment: order creation and the clock.                              *)

\* Handler CreatePaymentOrder -> op.CreatePaymentOrder: a fresh order number,
\* Status "pending", ExpiresAt = now + 30 min, inserted by db.Create.
CreateOrder ==
    \E o \in Orders, u \in Users :
        /\ status[o] = "none"
        /\ status' = [status EXCEPT ![o] = "pending"]
        /\ owner' = [owner EXCEPT ![o] = u]
        /\ UNCHANGED <<late, credited, worker, requests, faults>>

\* Time passes the ExpiresAt of an order.
Tick ==
    \E o \in Orders :
        /\ status[o] # "none" /\ o \notin late
        /\ late' = late \cup {o}
        /\ UNCHANGED <<status, owner, credited, worker, requests, faults>>

-----------------------------------------------------------------------------
(* Request workers.                                                       *)

\* A request reaches op.CompletePaymentOrder (the public /complete endpoint,
\* or PaymentNotification with any out_trade_no: neither verifies anything)
\* or op.CancelPaymentOrder (with the caller's user ID) for some order number.
Call(w) ==
    /\ worker[w].pc = "idle"
    /\ requests < MaxRequests
    /\ \E k \in Kinds, o \in Orders, u \in Users :
          worker' = [worker EXCEPT ![w] = [pc |-> "read", kind |-> k, order |-> o,
                                           user |-> u, local |-> "none"]]
    /\ requests' = requests + 1
    /\ UNCHANGED <<status, owner, late, credited, faults>>

\* Fault variant: CompletePaymentOrder without its Status != "pending" check.
CompleteReadNoCheck(w) ==
    LET wk == worker[w] IN
    /\ wk.pc = "read" /\ wk.kind = "complete"
    /\ worker' = [worker EXCEPT ![w] =
                     IF status[wk.order] = "none" \/ wk.order \in late
                     THEN Idle
                     ELSE [wk EXCEPT !.pc = "save", !.local = "completed"]]
    /\ UNCHANGED <<status, owner, late, credited, requests, faults>>

\* CompletePaymentOrder: look the order up; not found, not pending, or
\* IsExpired end the call; otherwise the copy gets Status "completed".
CompleteRead(w) ==
    LET wk == worker[w] IN
    /\ wk.pc = "read" /\ wk.kind = "complete"
    /\ worker' = [worker EXCEPT ![w] =
                     IF status[wk.order] # "pending" \/ wk.order \in late
                     THEN Idle
                     ELSE [wk EXCEPT !.pc = "save", !.local = "completed"]]
    /\ UNCHANGED <<status, owner, late, credited, requests, faults>>

\* Fault variant: CancelPaymentOrder without its Status != "pending" check.
CancelReadNoCheck(w) ==
    LET wk == worker[w] IN
    /\ wk.pc = "read" /\ wk.kind = "cancel"
    /\ worker' = [worker EXCEPT ![w] =
                     IF status[wk.order] = "none"
                     THEN Idle
                     ELSE [wk EXCEPT !.pc = "save", !.local = "cancelled"]]
    /\ UNCHANGED <<status, owner, late, credited, requests, faults>>

\* CancelPaymentOrder: look the order up; not found or not pending end the
\* call (the userID argument is never compared with the order's UserID).
CancelRead(w) ==
    LET wk == worker[w] IN
    /\ wk.pc = "read" /\ wk.kind = "cancel"
    /\ worker' = [worker EXCEPT ![w] =
                     IF status[wk.order] # "pending"
                     THEN Idle
                     ELSE [wk EXCEPT !.pc = "save", !.local = "cancelled"]]
    /\ UNCHANGED <<status, owner, late, credited, requests, faults>>

\* db.UpdatePaymentOrder (gorm Save) writes the copy's status; Complete
\* goes on to AddCredits, Cancel returns.
SaveOrder(w) ==
    LET wk == worker[w] IN
    /\ wk.pc = "save"
    /\ status' = [status EXCEPT ![wk.order] = wk.local]
    /\ worker' = [worker EXCEPT ![w] =
                     IF wk.kind = "complete" THEN [wk EXCEPT !.pc = "credit"] ELSE Idle]
    /\ UNCHANGED <<owner, late, credited, requests, faults>>

\* AddCredits(order.UserID, order.Credits, ...) succeeds.
Credit(w) ==
    LET wk == worker[w] IN
    /\ wk.pc = "credit"
    /\ credited' = [credited EXCEPT ![wk.order] = @ + 1]
    /\ worker' = [worker EXCEPT ![w] = Idle]
    /\ UNCHANGED <<status, owner, late, requests, faults>>

\* The pending database call or AddCredits fails; the error is returned
\* and what was saved before stays saved.
FailCall(w) ==
    /\ worker[w].pc \in {"read", "save", "credit"}
    /\ faults < MaxFaults
    /\ worker' = [worker EXCEPT ![w] = Idle]
    /\ faults' = faults + 1
    /\ UNCHANGED <<status, owner, late, credited, requests>>

Next ==
    \/ CreateOrder \/ Tick
    \/ \E w \in Workers :
          \/ Call(w) \/ CompleteRead(w) \/ CancelRead(w)
          \/ SaveOrder(w) \/ Credit(w) \/ FailCall(w)

Spec == Init /\ [][Next]_vars

\* Calls on one order do not overlap: while a Complete or Cancel request
\* works on an order, no other request works on the same order.  The code
\* does not enforce it (pay_double_complete, pay_terminal); requests on
\* different orders interleave freely under it.
OneCallPerOrder ==
    \A v, w \in Workers :
        v # w /\ worker[v].pc # "idle" /\ worker[w].pc # "idle"
            => worker[v].order # worker[w].order

-----------------------------------------------------------------------------
(* Properties.                                                             *)

\* Spec 4.4 / 8.4: calling Complete more than once on an order number (a
\* retried or duplicated provider callback) credits the account once: the
\* pending-only guard of CompletePaymentOrder must make every later call fail.
AtMostOnceCredit == \A o \in Orders : credited[o] <= 1

\* Spec 4.4 / 5: an order whose AddCredits went through stays "completed";
\* a later CancelPaymentOrder or CompletePaymentOrder must not move it.
CreditedIsCompleted == \A o \in Orders : credited[o] > 0 => status[o] = "completed"

\* Spec 4.4: once an order has left "pending" its status never changes: no
\* UpdatePaymentOrder of a stale copy overwrites cancelled or completed.
TerminalStable ==
    [][\A o \in Orders : status[o] \notin {"none", "pending"} => status'[o] = status[o]]_vars

\* Spec 4.4 as an abstract specification: the Complete and Cancel requests,
\* with their private copies and failures, implement the atomic life cycle
\* of PaymentsAbstract, in which only a pending order is completed or
\* cancelled, completed and cancelled are final, and an order is credited
\* once, only after it was completed.
Abs == INSTANCE PaymentsAbstract WITH status <- status, credited <- credited,
                                      Orders <- Orders

PaymentsRefines == Abs!Spec

=============================================================================
