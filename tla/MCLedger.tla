------------------------------ MODULE MCLedger ------------------------------
(* Ledger instantiated for TLC: two users, credit amounts 1 and 2.          *)
EXTENDS Ledger

CONSTANTS u1, u2, w1, w2

MCUsers == {u1, u2}
MCAmounts == {1, 2}

=============================================================================
