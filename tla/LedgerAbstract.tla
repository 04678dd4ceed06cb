--------------------------- MODULE LedgerAbstract ---------------------------
(***************************************************************************)
(* What the Ledger Engine promises of an account (spec 4.1, 8.1, 8.2),    *)
(* with no workers and no private copies: a credit adds its amount to the *)
(* balance and to the total earned, a debit takes it from the balance and *)
(* adds it to the total spent, and a debit larger than the balance is     *)
(* refused.  Each is one atomic step on the account's three counters.     *)
(* A user with no row has counters at zero.  The transaction history is   *)
(* not part of it: a failed insert after the update leaves none (the      *)
(* ledger_partial run), which is a separate matter.                       *)
(***************************************************************************)
EXTENDS Integers

CONSTANTS Users, Amounts

VARIABLES account   \* account[u]: Balance, TotalEarn, TotalSpent of u

Init == account = [u \in Users |-> [balance |-> 0, totalEarn |-> 0, totalSpent |-> 0]]

\* A credit of a to u.
Add(u, a) ==
    account' = [account EXCEPT ![u] = [balance |-> @.balance + a,
                                       totalEarn |-> @.totalEarn + a,
                                       totalSpent |-> @.totalSpent]]

\* A debit of a from u, refused when the balance is smaller.
Deduct(u, a) ==
    /\ account[u].balance >= a
    /\ account' = [account EXCEPT ![u] = [balance |-> @.balance - a,
                                          totalEarn |-> @.totalEarn,
                                          totalSpent |-> @.totalSpent + a]]

Next == \E u \in Users, a \in Amounts : Add(u, a) \/ Deduct(u, a)

Spec == Init /\ [][Next]_account

=============================================================================
