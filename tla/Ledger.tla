------------------------------- MODULE Ledger -------------------------------
(***************************************************************************)
(* The credit ledger of internal/op (src/unnamed/part_003): AddCredits and  *)
(* DeductCredits, with GetUserCredits / CreateUserCredits, run by request  *)
(* workers that share the database of internal/db (src/unnamed/part_001).  *)
(*                                                                         *)
(* Every database call is one atomic step; the Go code between two calls  *)
(* runs on the worker's private copy of the row ("local").  The row is     *)
(* written back with gorm's Save, which overwrites every column with the   *)
(* worker's copy: nothing serialises two workers on the same account.      *)
(* Any database call may fail (a storage error), up to MaxFaults times;    *)
(* the Go code then returns the error and abandons the request.            *)
(***************************************************************************)
EXTENDS Integers, Sequences

CONSTANTS
    Users,        \* user IDs that own (or will own) a UserCredits row
    Workers,      \* request workers (HTTP handlers, payment callbacks)
    Amounts,      \* credit amounts passed to AddCredits / DeductCredits
    MaxRequests,  \* bound on the number of ledger calls in a behaviour
    MaxFaults     \* bound on the number of failed database calls

ASSUME UsersAssumption == Users # {}
ASSUME AmountsAssumption == Amounts # {} /\ Amounts \subseteq Nat \ {0}
ASSUME BoundsAssumption == MaxRequests \in Nat /\ MaxFaults \in Nat

VARIABLES
    hasRow,    \* users whose x_user_credits row exists
    account,   \* account[u]: the row's Balance, TotalEarn, TotalSpent
    txs,       \* txs[u]: the x_credit_transactions rows of u, in creation order
    worker,    \* worker[w]: where request w is, and its private copy of the row
    requests,  \* ledger calls started so far
    faults     \* database calls failed so far

vars == <<hasRow, account, txs, worker, requests, faults>>

Row == [balance : Int, totalEarn : Int, totalSpent : Int]
Tx == [amount : Int, balance : Int]

\* model.UserCredits{UserID: userID, Balance: 0}: all counters at zero.
ZeroRow == [balance |-> 0, totalEarn |-> 0, totalSpent |-> 0]

Ops == {"add", "deduct"}

\* idle: no call in progress; read: GetUserCredits; insert: the Create of
\* CreateUserCredits; save: UpdateUserCredits; record: CreateCreditTransaction.
PCs == {"idle", "read", "insert", "save", "record"}

Worker == [pc : PCs, user : Users, op : Ops, amount : Amounts, local : Row]

\* A worker with no call in progress (its other fields are irrelevant).
Idle == [pc |-> "idle", user |-> CHOOSE u \in Users : TRUE, op |-> "add",
         amount |-> CHOOSE a \in Amounts : TRUE, local |-> ZeroRow]

TypeOK ==
    /\ hasRow \subseteq Users
    /\ account \in [Users -> Row]
    /\ txs \in [Users -> Seq(Tx)]
    /\ worker \in [Workers -> Worker]
    /\ requests \in 0..MaxRequests
    /\ faults \in 0..MaxFaults

Init ==
    /\ hasRow = {}
    /\ account = [u \in Users |-> ZeroRow]
    /\ txs = [u \in Users |-> <<>>]
    /\ worker = [w \in Workers |-> Idle]
    /\ requests = 0
    /\ faults = 0

-----------------------------------------------------------------------------
(* The row arithmetic of AddCredits and DeductCredits on the local copy.   *)

\* Fault variant: DeductCredits forgets to add to TotalSpent.
DebitedNoTotal(r, amount) ==
    [balance |-> r.balance - amount, totalEarn |-> r.totalEarn,
     totalSpent |-> r.totalSpent]

Credited(r, amount) ==
    [balance |-> r.balance + amount, totalEarn |-> r.totalEarn + amount,
     totalSpent |-> r.totalSpent]

Debited(r, amount) ==
    [balance |-> r.balance - amount, totalEarn |-> r.totalEarn,
     totalSpent |-> r.totalSpent + amount]

\* The row a worker's Save writes, and the signed amount its transaction records.
Updated(wk) == IF wk.op = "add" THEN Credited(wk.local, wk.amount)
                                ELSE Debited(wk.local, wk.amount)

SignedAmount(wk) == IF wk.op = "add" THEN wk.amount ELSE -wk.amount

\* Fault variant: DeductCredits without its balance check.
AfterReadNoCheck(wk, r) == [wk EXCEPT !.pc = "save", !.local = r]

\* What the worker does once GetUserCredits has returned row r: AddCredits
\* goes on to save; DeductCredits first refuses when Balance < amount.
AfterRead(wk, r) ==
    IF wk.op = "deduct" /\ r.balance < wk.amount
    THEN Idle
    ELSE [wk EXCEPT !.pc = "save", !.local = r]

-----------------------------------------------------------------------------
(* Actions of worker w.                                                    *)

\* A caller (redeem, payment completion, download, admin) calls AddCredits
\* or DeductCredits for some user and positive amount.
Call(w) ==
    /\ worker[w].pc = "idle"
    /\ requests < MaxRequests
    /\ \E u \in Users, o \in Ops, a \in Amounts :
          worker' = [worker EXCEPT ![w] = [pc |-> "read", user |-> u, op |-> o,
                                           amount |-> a, local |-> ZeroRow]]
    /\ requests' = requests + 1
    /\ UNCHANGED <<hasRow, account, txs, faults>>

\* GetUserCredits, and the re-check at the top of CreateUserCredits: an
\* existing row is copied into local; a missing one is to be created.
ReadRow(w) ==
    LET wk == worker[w] IN
    /\ wk.pc = "read"
    /\ worker' = [worker EXCEPT ![w] =
                     IF wk.user \in hasRow THEN AfterRead(wk, account[wk.user])
                                           ELSE [wk EXCEPT !.pc = "insert"]]
    /\ UNCHANGED <<hasRow, account, txs, requests, faults>>

\* db.CreateUserCredits inserts a zero row; the unique index on user_id
\* rejects it when another worker created the row after our read.
InsertRow(w) ==
    LET wk == worker[w] IN
    /\ wk.pc = "insert"
    /\ IF wk.user \in hasRow
       THEN /\ worker' = [worker EXCEPT ![w] = Idle]
            /\ UNCHANGED <<hasRow, account>>
       ELSE /\ hasRow' = hasRow \cup {wk.user}
            /\ account' = [account EXCEPT ![wk.user] = ZeroRow]
            /\ worker' = [worker EXCEPT ![w] = AfterRead(wk, ZeroRow)]
    /\ UNCHANGED <<txs, requests, faults>>

\* Fault variant: UpdateUserCredits is called before the arithmetic, so the
\* row is saved unchanged.
SaveRowUnchanged(w) ==
    LET wk == worker[w] IN
    /\ wk.pc = "save"
    /\ account' = [account EXCEPT ![wk.user] = wk.local]
    /\ worker' = [worker EXCEPT ![w].pc = "record"]
    /\ UNCHANGED <<hasRow, txs, requests, faults>>

\* db.UpdateUserCredits: gorm Save writes every column of the local copy.
SaveRow(w) ==
    LET wk == worker[w] IN
    /\ wk.pc = "save"
    /\ account' = [account EXCEPT ![wk.user] = Updated(wk)]
    /\ worker' = [worker EXCEPT ![w].pc = "record"]
    /\ UNCHANGED <<hasRow, txs, requests, faults>>

\* Fault variant: the transaction records the balance read, not the new one.
RecordTxOldBalance(w) ==
    LET wk == worker[w] IN
    /\ wk.pc = "record"
    /\ txs' = [txs EXCEPT ![wk.user] =
                  Append(@, [amount |-> SignedAmount(wk),
                             balance |-> wk.local.balance])]
    /\ worker' = [worker EXCEPT ![w] = Idle]
    /\ UNCHANGED <<hasRow, account, requests, faults>>

\* db.CreateCreditTransaction appends the transaction with the balance the
\* worker computed; the call then returns nil.
RecordTx(w) ==
    LET wk == worker[w] IN
    /\ wk.pc = "record"
    /\ txs' = [txs EXCEPT ![wk.user] =
                  Append(@, [amount |-> SignedAmount(wk),
                             balance |-> Updated(wk).balance])]
    /\ worker' = [worker EXCEPT ![w] = Idle]
    /\ UNCHANGED <<hasRow, account, requests, faults>>

\* The pending database call fails; the function returns the wrapped error
\* and whatever earlier calls committed stays committed.
FailCall(w) ==
    /\ worker[w].pc \in {"read", "insert", "save", "record"}
    /\ faults < MaxFaults
    /\ worker' = [worker EXCEPT ![w] = Idle]
    /\ faults' = faults + 1
    /\ UNCHANGED <<hasRow, account, txs, requests>>

Next ==
    \E w \in Workers :
        \/ Call(w)
        \/ ReadRow(w)
        \/ InsertRow(w)
        \/ SaveRow(w)
        \/ RecordTx(w)
        \/ FailCall(w)

Spec == Init /\ [][Next]_vars

\* Calls on one account do not overlap: while an AddCredits or DeductCredits
\* call works on a user's account, no other call works on the same account.
\* The code does not enforce it (ledger_lost_update); calls on different
\* accounts interleave freely under it.
OneCallPerUser ==
    \A v, w \in Workers :
        v # w /\ worker[v].pc # "idle" /\ worker[w].pc # "idle"
            => worker[v].user # worker[w].user

-----------------------------------------------------------------------------
(* Properties.                                                             *)

\* Workers that are between a database write of u's balance and the write
\* of its transaction.
InFlight(u) == {w \in Workers : worker[w].user = u /\ worker[w].pc = "record"}

\* The balance the transaction history of u ends on (0 when it is empty).
LastBalance(s) == IF s = <<>> THEN 0 ELSE s[Len(s)].balance

\* Spec 3 / 8.1: each transaction's recorded balance is the previous one plus
\* its amount, i.e. the running sum of the history (AddCredits, DeductCredits).
TxChain ==
    \A u \in Users : \A i \in 1..Len(txs[u]) :
        txs[u][i].balance =
            (IF i = 1 THEN 0 ELSE txs[u][i - 1].balance) + txs[u][i].amount

\* Spec 8.1 / 4.1: whenever no call on u is between its balance update and its
\* transaction insert, the stored balance is what the history sums to; a
\* failed CreateCreditTransaction after UpdateUserCredits must not break it.
BalanceMatchesLedger ==
    \A u \in Users : InFlight(u) = {} => account[u].balance = LastBalance(txs[u])

\* Spec 8.2: DeductCredits never drives a stored balance, or the balance a
\* transaction records, below zero, even when calls on one account interleave.
NeverNegative ==
    \A u \in Users :
        /\ account[u].balance >= 0
        /\ \A i \in 1..Len(txs[u]) : txs[u][i].balance >= 0

\* The three counters of a UserCredits row stay consistent (Balance =
\* TotalEarn - TotalSpent) under concurrent Save calls, because Save writes
\* all columns from the same copy.
TotalsAgree ==
    \A u \in Users : account[u].balance = account[u].totalEarn - account[u].totalSpent

\* Spec 4.1 / 8.1 / 8.2 as an abstract specification: the AddCredits and
\* DeductCredits calls, with their reads, lazy row creation, Saves of a
\* private copy and failures, implement atomic credit and checked debit
\* steps on each account (LedgerAbstract); a user with no row counts as an
\* account at zero.
Abs == INSTANCE LedgerAbstract
           WITH account <- [u \in Users |-> IF u \in hasRow THEN account[u] ELSE ZeroRow],
                Users <- Users, Amounts <- Amounts

LedgerRefines == Abs!Spec

=============================================================================
