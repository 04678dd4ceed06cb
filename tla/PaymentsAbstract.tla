-------------------------- MODULE PaymentsAbstract --------------------------
(***************************************************************************)
(* The life cycle of a payment order (spec 4.4), with no workers and no    *)
(* private copies: an order is created pending; a completion or a         *)
(* cancellation decides a pending order, and only a pending one; completed *)
(* and cancelled are final; a completed order is credited once.  No step   *)
(* sets an order expired: a late order stays pending and is refused.       *)
(***************************************************************************)
EXTENDS Naturals

CONSTANTS Orders

VARIABLES
    status,    \* status[o]: "none", "pending", "completed", "cancelled", "expired"
    credited   \* credited[o]: credits granted for o

absVars == <<status, credited>>

Init ==
    /\ status = [o \in Orders |-> "none"]
    /\ credited = [o \in Orders |-> 0]

\* An order is created pending.
Create(o) ==
    /\ status[o] = "none"
    /\ status' = [status EXCEPT ![o] = "pending"]
    /\ UNCHANGED credited

\* A completion or a cancellation decides a pending order.
Decide(o, s) ==
    /\ status[o] = "pending"
    /\ status' = [status EXCEPT ![o] = s]
    /\ UNCHANGED credited

\* A completed order not yet credited gets its credits.
Grant(o) ==
    /\ status[o] = "completed"
    /\ credited[o] = 0
    /\ credited' = [credited EXCEPT ![o] = 1]
    /\ UNCHANGED status

Next ==
    \E o \in Orders :
        \/ Create(o)
        \/ \E s \in {"completed", "cancelled"} : Decide(o, s)
        \/ Grant(o)

Spec == Init /\ [][Next]_absVars

=============================================================================
