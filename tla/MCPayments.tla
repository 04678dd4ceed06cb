----------------------------- MODULE MCPayments -----------------------------
(* Small instances of Payments for TLC: two order numbers, two users.      *)
EXTENDS Payments

CONSTANTS o1, o2, u1, u2, w1, w2

MCOrders == {o1, o2}
MCUsers == {u1, u2}
=============================================================================
