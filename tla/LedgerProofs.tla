---------------------------- MODULE LedgerProofs ----------------------------
(***************************************************************************)
(* Proofs about the ledger model, for every value of the constants.        *)
(***************************************************************************)
EXTENDS Ledger, SequenceTheorems, TLAPS

-----------------------------------------------------------------------------
(* Lemmas about the operators the actions are built from.                  *)

\* Credit amounts are natural numbers, hence integers.
LEMMA AmountsNat == Amounts \subseteq Nat
  BY AmountsAssumption

LEMMA AmountsInt == Amounts \subseteq Int
  BY AmountsNat

\* The worker record every return of AddCredits / DeductCredits leaves.
LEMMA IdleType == Idle \in Worker
  BY UsersAssumption, AmountsAssumption DEF Idle, Worker, PCs, Ops, ZeroRow, Row

\* The row Save writes is a well-formed UserCredits row.
LEMMA UpdatedType ==
  ASSUME NEW wk \in Worker
  PROVE  Updated(wk) \in Row
<1>1. wk.local \in Row /\ wk.amount \in Amounts
  BY DEF Worker
<1>2. wk.amount \in Int
  BY <1>1, AmountsInt
<1>3. Credited(wk.local, wk.amount) \in Row
  BY <1>1, <1>2 DEF Credited, Row
<1>4. Debited(wk.local, wk.amount) \in Row
  BY <1>1, <1>2 DEF Debited, Row
<1>5. QED
  BY <1>3, <1>4 DEF Updated

\* The continuation after GetUserCredits yields a worker record.
LEMMA AfterReadType ==
  ASSUME NEW wk \in Worker, NEW r \in Row
  PROVE  AfterRead(wk, r) \in Worker
  BY IdleType DEF AfterRead, Worker, PCs

-----------------------------------------------------------------------------
(* Type correctness.                                                       *)

\* The initial state is well typed.
LEMMA TypeInit == Init => TypeOK
  BY IdleType, BoundsAssumption DEF Init, TypeOK, ZeroRow, Row

\* Every step of the ledger preserves the types.
LEMMA TypeStep == TypeOK /\ [Next]_vars => TypeOK'
<1> SUFFICES ASSUME TypeOK, [Next]_vars PROVE TypeOK'
  OBVIOUS
<1>1. ASSUME NEW w \in Workers, Call(w) PROVE TypeOK'
  BY <1>1, BoundsAssumption DEF Call, TypeOK, Worker, PCs, Ops, ZeroRow, Row
<1>2. ASSUME NEW w \in Workers, ReadRow(w) PROVE TypeOK'
  <2>1. worker[w] \in Worker /\ account[worker[w].user] \in Row
    BY DEF TypeOK, Worker
  <2>2. [worker[w] EXCEPT !.pc = "insert"] \in Worker
    BY <2>1 DEF Worker, PCs
  <2>3. CASE worker[w].user \in hasRow
    BY <1>2, <2>1, <2>3, AfterReadType DEF ReadRow, TypeOK
  <2>4. CASE worker[w].user \notin hasRow
    BY <1>2, <2>2, <2>4 DEF ReadRow, TypeOK
  <2>5. QED
    BY <2>3, <2>4
<1>3. ASSUME NEW w \in Workers, InsertRow(w) PROVE TypeOK'
  <2>1. worker[w] \in Worker /\ ZeroRow \in Row
    BY DEF TypeOK, ZeroRow, Row
  <2>2. CASE worker[w].user \in hasRow
    BY <1>3, <2>2, IdleType DEF InsertRow, TypeOK
  <2>3. CASE worker[w].user \notin hasRow
    <3>1. worker[w].user \in Users
      BY <2>1 DEF Worker
    <3>2. AfterRead(worker[w], ZeroRow) \in Worker
      BY <2>1, AfterReadType
    <3>3. QED
      BY <1>3, <2>1, <2>3, <3>1, <3>2 DEF InsertRow, TypeOK
  <2>4. QED
    BY <2>2, <2>3
<1>4. ASSUME NEW w \in Workers, SaveRow(w) PROVE TypeOK'
  <2>1. worker[w] \in Worker /\ worker[w].user \in Users
    BY DEF TypeOK, Worker
  <2>2. [worker[w] EXCEPT !.pc = "record"] \in Worker
    BY <2>1 DEF Worker, PCs
  <2>3. QED
    BY <1>4, <2>1, <2>2, UpdatedType DEF SaveRow, TypeOK
<1>5. ASSUME NEW w \in Workers, RecordTx(w) PROVE TypeOK'
  <2> DEFINE wk == worker[w]
             t == [amount |-> SignedAmount(wk), balance |-> Updated(wk).balance]
  <2>1. wk \in Worker /\ txs[wk.user] \in Seq(Tx)
    BY DEF TypeOK, Worker
  <2>2. SignedAmount(wk) \in Int
    <3>1. wk.amount \in Int
      BY <2>1, AmountsInt DEF Worker
    <3>2. QED
      BY <3>1 DEF SignedAmount
  <2>3. Updated(wk).balance \in Int
    <3>1. Updated(wk) \in Row
      BY <2>1, UpdatedType
    <3>2. QED
      BY <3>1 DEF Row
  <2>4. t \in Tx
    BY <2>2, <2>3 DEF Tx
  <2>5. Append(txs[wk.user], t) \in Seq(Tx)
    BY <2>1, <2>4, AppendProperties
  <2>6. QED
    BY <1>5, <2>1, <2>5, IdleType DEF RecordTx, TypeOK
<1>6. ASSUME NEW w \in Workers, FailCall(w) PROVE TypeOK'
  BY <1>6, IdleType, BoundsAssumption DEF FailCall, TypeOK
<1>7. CASE UNCHANGED vars
  BY <1>7 DEF vars, TypeOK
<1>8. QED
  BY <1>1, <1>2, <1>3, <1>4, <1>5, <1>6, <1>7 DEF Next

\* Every reachable state of the ledger is well typed: rows, transaction
\* histories, worker records and the two bounded counters.
THEOREM TypeCorrect == Spec => []TypeOK
  BY TypeInit, TypeStep, PTL DEF Spec

-----------------------------------------------------------------------------
(* The inductive invariant behind NeverNegative and TotalsAgree.  A stored *)
(* row alone is not inductive: Save writes the worker's copy, so the copy  *)
(* read before the Save must itself be sound, and DeductCredits' check    *)
(* must still hold for it when the Save happens, however stale it is.     *)

RowSound(r) == r.balance >= 0 /\ r.balance = r.totalEarn - r.totalSpent

LocalSound(wk) ==
    wk.pc \in {"save", "record"} =>
        /\ RowSound(wk.local)
        /\ wk.op = "deduct" => wk.local.balance >= wk.amount

LedgerInv ==
    /\ TypeOK
    /\ \A u \in Users : RowSound(account[u])
    /\ \A w \in Workers : LocalSound(worker[w])
    /\ \A u \in Users : \A i \in 1..Len(txs[u]) : txs[u][i].balance >= 0

\* A worker with no call in progress constrains nothing.
LEMMA IdleSound == LocalSound(Idle)
  BY DEF LocalSound, Idle

\* Save applied to a sound copy that passed DeductCredits' check writes a
\* sound row.
LEMMA UpdatedSound ==
  ASSUME NEW wk \in Worker, RowSound(wk.local),
         wk.op = "deduct" => wk.local.balance >= wk.amount
  PROVE  RowSound(Updated(wk))
<1>1. wk.local \in Row /\ wk.amount \in Nat /\ wk.op \in Ops
  BY AmountsNat DEF Worker
<1>2. CASE wk.op = "add"
  BY <1>1, <1>2 DEF Updated, Credited, RowSound, Row
<1>3. CASE wk.op # "add"
  <2>1. wk.op = "deduct"
    BY <1>1, <1>3 DEF Ops
  <2>2. QED
    BY <1>1, <1>3, <2>1 DEF Updated, Debited, RowSound, Row
<1>4. QED
  BY <1>2, <1>3

\* The continuation after GetUserCredits keeps a sound copy of a sound row,
\* and lets a deduction through only when that copy covers the amount.
LEMMA AfterReadSound ==
  ASSUME NEW wk \in Worker, NEW r \in Row, RowSound(r)
  PROVE  LocalSound(AfterRead(wk, r))
<1>1. CASE wk.op = "deduct" /\ r.balance < wk.amount
  BY <1>1, IdleSound DEF AfterRead
<1>2. CASE ~(wk.op = "deduct" /\ r.balance < wk.amount)
  <2>1. AfterRead(wk, r) = [wk EXCEPT !.pc = "save", !.local = r]
    BY <1>2 DEF AfterRead
  <2>2. r.balance \in Int /\ wk.amount \in Int
    BY AmountsInt DEF Worker, Row
  <2>3. QED
    BY <1>2, <2>1, <2>2 DEF LocalSound, Worker
<1>3. QED
  BY <1>1, <1>2

\* The stored rows, the workers' copies and the recorded balances stay sound
\* at every step.
LEMMA LedgerInvStep == LedgerInv /\ [Next]_vars => LedgerInv'
<1> SUFFICES ASSUME LedgerInv, [Next]_vars PROVE LedgerInv'
  OBVIOUS
<1> USE DEF LedgerInv
<1>0. TypeOK'
  BY TypeStep
<1>1. ASSUME NEW w \in Workers, Call(w) PROVE LedgerInv'
  <2>1. LocalSound(worker'[w])
    BY <1>1 DEF Call, LocalSound
  <2>2. QED
    BY <1>0, <1>1, <2>1 DEF Call, TypeOK
<1>2. ASSUME NEW w \in Workers, ReadRow(w) PROVE LedgerInv'
  <2>1. worker[w] \in Worker /\ worker[w].user \in Users
    BY DEF TypeOK, Worker
  <2>2. CASE worker[w].user \in hasRow
    <3>1. account[worker[w].user] \in Row /\ RowSound(account[worker[w].user])
      BY <2>1 DEF TypeOK
    <3>2. LocalSound(AfterRead(worker[w], account[worker[w].user]))
      BY <2>1, <3>1, AfterReadSound
    <3>3. QED
      BY <1>0, <1>2, <2>2, <3>2 DEF ReadRow, TypeOK
  <2>3. CASE worker[w].user \notin hasRow
    <3>1. LocalSound([worker[w] EXCEPT !.pc = "insert"])
      BY <2>1 DEF LocalSound, Worker
    <3>2. QED
      BY <1>0, <1>2, <2>3, <3>1 DEF ReadRow, TypeOK
  <2>4. QED
    BY <2>2, <2>3
<1>3. ASSUME NEW w \in Workers, InsertRow(w) PROVE LedgerInv'
  <2>1. worker[w] \in Worker /\ worker[w].user \in Users
    BY DEF TypeOK, Worker
  <2>2. CASE worker[w].user \in hasRow
    BY <1>0, <1>3, <2>2, IdleSound DEF InsertRow, TypeOK
  <2>3. CASE worker[w].user \notin hasRow
    <3>1. ZeroRow \in Row /\ RowSound(ZeroRow)
      BY DEF ZeroRow, Row, RowSound
    <3>2. LocalSound(AfterRead(worker[w], ZeroRow))
      BY <2>1, <3>1, AfterReadSound
    <3>3. QED
      BY <1>0, <1>3, <2>3, <3>1, <3>2 DEF InsertRow, TypeOK
  <2>4. QED
    BY <2>2, <2>3
<1>4. ASSUME NEW w \in Workers, SaveRow(w) PROVE LedgerInv'
  <2> DEFINE wk == worker[w]
  <2>1. wk \in Worker /\ wk.user \in Users /\ wk.pc = "save"
    BY <1>4 DEF TypeOK, Worker, SaveRow
  <2>2. RowSound(Updated(wk))
    BY <2>1, UpdatedSound DEF LocalSound
  <2>3. LocalSound([wk EXCEPT !.pc = "record"])
    BY <2>1 DEF LocalSound, Worker
  <2>4. QED
    BY <1>0, <1>4, <2>1, <2>2, <2>3 DEF SaveRow, TypeOK
<1>5. ASSUME NEW w \in Workers, RecordTx(w) PROVE LedgerInv'
  <2> DEFINE wk == worker[w]
             t == [amount |-> SignedAmount(wk), balance |-> Updated(wk).balance]
  <2>1. wk \in Worker /\ wk.user \in Users /\ wk.pc = "record"
        /\ txs[wk.user] \in Seq(Tx)
    BY <1>5 DEF TypeOK, Worker, RecordTx
  <2>2. t.balance >= 0
    <3>1. RowSound(Updated(wk))
      BY <2>1, UpdatedSound DEF LocalSound
    <3>2. QED
      BY <3>1 DEF RowSound
  <2>3. \A i \in 1..Len(txs'[wk.user]) : txs'[wk.user][i].balance >= 0
    <3>1. txs'[wk.user] = Append(txs[wk.user], t)
      BY <1>5, <2>1 DEF RecordTx, TypeOK
    <3>2. QED
      BY <2>1, <2>2, <3>1, AppendProperties
  <2>4. QED
    BY <1>0, <1>5, <2>1, <2>3, IdleSound DEF RecordTx, TypeOK
<1>6. ASSUME NEW w \in Workers, FailCall(w) PROVE LedgerInv'
  BY <1>0, <1>6, IdleSound DEF FailCall, TypeOK
<1>7. CASE UNCHANGED vars
  BY <1>0, <1>7 DEF vars
<1>8. QED
  BY <1>1, <1>2, <1>3, <1>4, <1>5, <1>6, <1>7 DEF Next

LEMMA LedgerInvInit == Init => LedgerInv
  BY TypeInit, IdleSound DEF Init, LedgerInv, RowSound, ZeroRow

\* NeverNegative holds in every reachable state: however DeductCredits and
\* AddCredits calls interleave on one account, and whichever database calls
\* fail, no stored balance and no recorded balance is negative.
THEOREM NeverNegativeHolds == Spec => []NeverNegative
<1>1. LedgerInv => NeverNegative
  BY DEF LedgerInv, RowSound, NeverNegative
<1>2. QED
  BY <1>1, LedgerInvInit, LedgerInvStep, PTL DEF Spec

\* TotalsAgree holds in every reachable state: Balance = TotalEarn -
\* TotalSpent for every UserCredits row, although Save overwrites rows with
\* stale copies.
THEOREM TotalsAgreeHolds == Spec => []TotalsAgree
<1>1. LedgerInv => TotalsAgree
  BY DEF LedgerInv, RowSound, TotalsAgree
<1>2. QED
  BY <1>1, LedgerInvInit, LedgerInvStep, PTL DEF Spec

-----------------------------------------------------------------------------
(* Calls on one account do not overlap: the ledger implements             *)
(* LedgerAbstract, however calls on different accounts interleave.  When   *)
(* calls on one account overlap it does not: a Save of a stale copy loses  *)
(* an update (ledger_lost_update).                                         *)

\* The accounts as LedgerAbstract sees them.
Mapped == [u \in Users |-> IF u \in hasRow THEN account[u] ELSE ZeroRow]

\* A call about to Save holds a copy of its user's current row that passed
\* DeductCredits' balance check: nothing has written the row since.
SaveOK(w) ==
    LET wk == worker[w] IN
    wk.pc = "save" =>
        /\ wk.user \in hasRow
        /\ wk.local = account[wk.user]
        /\ wk.op = "deduct" => wk.local.balance >= wk.amount

LedgerOwnInv == TypeOK /\ \A w \in Workers : SaveOK(w)

\* Two calls in progress work on different accounts.
LEMMA DistinctUsers ==
  ASSUME OneCallPerUser, NEW v \in Workers, NEW w \in Workers, v # w,
         worker[v].pc # "idle", worker[w].pc # "idle"
  PROVE  worker[v].user # worker[w].user
  BY DEF OneCallPerUser

\* An abandoned call is idle.
LEMMA IdlePc == Idle.pc = "idle"
  BY DEF Idle

\* After GetUserCredits and DeductCredits' balance check, a call that goes
\* on to Save holds exactly the row it read, and that row covers a deduct.
LEMMA AfterReadSave ==
  ASSUME NEW wk \in Worker, NEW r \in Row, AfterRead(wk, r).pc = "save"
  PROVE  /\ AfterRead(wk, r).user = wk.user
         /\ AfterRead(wk, r).amount = wk.amount
         /\ AfterRead(wk, r).local = r
         /\ AfterRead(wk, r).op = "deduct" => r.balance >= wk.amount
<1>1. ~(wk.op = "deduct" /\ r.balance < wk.amount)
  BY IdlePc DEF AfterRead
<1>2. AfterRead(wk, r) = [wk EXCEPT !.pc = "save", !.local = r]
  BY <1>1 DEF AfterRead
<1>3. QED
  BY <1>1, <1>2, AmountsAssumption DEF Worker, Row

LEMMA LedgerOwnInvInit == Init => LedgerOwnInv
  BY TypeInit, IdlePc DEF Init, LedgerOwnInv, SaveOK

\* The call that takes a step keeps its own SaveOK.
LEMMA ActorSaveOK ==
  ASSUME LedgerOwnInv, NEW w \in Workers,
         \/ Call(w) \/ ReadRow(w) \/ InsertRow(w)
         \/ SaveRow(w) \/ RecordTx(w) \/ FailCall(w)
  PROVE  SaveOK(w)'
<1>a. TypeOK
  BY DEF LedgerOwnInv
<1>2. CASE Call(w)
  BY <1>2, <1>a DEF Call, SaveOK, TypeOK
<1>3. CASE ReadRow(w)
  <2> DEFINE wk == worker[w]
  <2>1. wk \in Worker /\ wk.pc = "read"
    BY <1>3, <1>a DEF ReadRow, TypeOK
  <2>2. CASE wk.user \in hasRow
    <3>1. account[wk.user] \in Row
      BY <1>a, <2>1 DEF TypeOK, Worker
    <3>2. worker'[w] = AfterRead(wk, account[wk.user]) /\ hasRow' = hasRow /\ account' = account
      BY <1>3, <2>2, <1>a DEF ReadRow, TypeOK
    <3>3. worker'[w].pc = "save" =>
             /\ worker'[w].user \in hasRow'
             /\ worker'[w].local = account'[worker'[w].user]
             /\ worker'[w].op = "deduct" => worker'[w].local.balance >= worker'[w].amount
      <4> SUFFICES ASSUME worker'[w].pc = "save"
                   PROVE  /\ worker'[w].user \in hasRow'
                          /\ worker'[w].local = account'[worker'[w].user]
                          /\ worker'[w].op = "deduct" =>
                                worker'[w].local.balance >= worker'[w].amount
        OBVIOUS
      <4>1. AfterRead(wk, account[wk.user]).pc = "save"
        BY <3>2
      <4>2. /\ AfterRead(wk, account[wk.user]).user = wk.user
            /\ AfterRead(wk, account[wk.user]).amount = wk.amount
            /\ AfterRead(wk, account[wk.user]).local = account[wk.user]
            /\ AfterRead(wk, account[wk.user]).op = "deduct" =>
                  account[wk.user].balance >= wk.amount
        BY <2>1, <3>1, <4>1, AfterReadSave
      <4>3. QED
        BY <2>2, <3>2, <4>2
    <3>4. QED
      BY <3>3, IdlePc DEF SaveOK
  <2>3. CASE wk.user \notin hasRow
    <3>1. worker'[w].pc = "insert"
      BY <1>3, <2>1, <2>3, <1>a DEF ReadRow, TypeOK, Worker
    <3>2. QED
      BY <3>1, IdlePc DEF SaveOK
  <2>4. QED
    BY <2>2, <2>3
<1>4. CASE InsertRow(w)
  <2> DEFINE wk == worker[w]
  <2>1. wk \in Worker /\ wk.pc = "insert"
    BY <1>4, <1>a DEF InsertRow, TypeOK
  <2>2. CASE wk.user \in hasRow
    <3>1. worker'[w] = Idle
      BY <1>4, <2>2, <1>a DEF InsertRow, TypeOK
    <3>2. QED
      BY <3>1, IdlePc DEF SaveOK
  <2>3. CASE wk.user \notin hasRow
    <3>1. ZeroRow \in Row
      BY DEF ZeroRow, Row
    <3>2. /\ worker'[w] = AfterRead(wk, ZeroRow)
          /\ hasRow' = hasRow \cup {wk.user}
          /\ account' = [account EXCEPT ![wk.user] = ZeroRow]
      BY <1>4, <2>3, <1>a DEF InsertRow, TypeOK
    <3>3. account'[wk.user] = ZeroRow
      BY <3>2, <2>1, <1>a DEF TypeOK, Worker
    <3>4. worker'[w].pc = "save" =>
             /\ worker'[w].user \in hasRow'
             /\ worker'[w].local = account'[worker'[w].user]
             /\ worker'[w].op = "deduct" => worker'[w].local.balance >= worker'[w].amount
      <4> SUFFICES ASSUME worker'[w].pc = "save"
                   PROVE  /\ worker'[w].user \in hasRow'
                          /\ worker'[w].local = account'[worker'[w].user]
                          /\ worker'[w].op = "deduct" =>
                                worker'[w].local.balance >= worker'[w].amount
        OBVIOUS
      <4>1. AfterRead(wk, ZeroRow).pc = "save"
        BY <3>2
      <4>2. /\ AfterRead(wk, ZeroRow).user = wk.user
            /\ AfterRead(wk, ZeroRow).amount = wk.amount
            /\ AfterRead(wk, ZeroRow).local = ZeroRow
            /\ AfterRead(wk, ZeroRow).op = "deduct" => ZeroRow.balance >= wk.amount
        BY <2>1, <3>1, <4>1, AfterReadSave
      <4>3. QED
        BY <3>2, <3>3, <4>2
    <3>5. QED
      BY <3>4, IdlePc DEF SaveOK
  <2>4. QED
    BY <2>2, <2>3
<1>5. CASE SaveRow(w)
  BY <1>5, <1>a DEF SaveRow, SaveOK, TypeOK
<1>6. CASE RecordTx(w)
  BY <1>6, <1>a, IdlePc DEF RecordTx, SaveOK, TypeOK
<1>7. CASE FailCall(w)
  BY <1>7, <1>a, IdlePc DEF FailCall, SaveOK, TypeOK
<1>8. QED
  BY <1>2, <1>3, <1>4, <1>5, <1>6, <1>7

\* A step of one call keeps every other call's SaveOK: it writes only the
\* row of its own account, which no other call in progress works on.
LEMMA OthersSaveOK ==
  ASSUME LedgerOwnInv, OneCallPerUser, NEW v \in Workers,
         \/ Call(v) \/ ReadRow(v) \/ InsertRow(v)
         \/ SaveRow(v) \/ RecordTx(v) \/ FailCall(v),
         NEW w \in Workers \ {v}
  PROVE  SaveOK(w)'
<1>a. TypeOK /\ SaveOK(w)
  BY DEF LedgerOwnInv
<1>1. worker'[w] = worker[w] /\ hasRow \subseteq hasRow'
  BY <1>a DEF Call, ReadRow, InsertRow, SaveRow, RecordTx, FailCall, TypeOK
<1>2. ASSUME worker[w].pc = "save"
      PROVE  account'[worker[w].user] = account[worker[w].user]
  <2>1. CASE Call(v) \/ ReadRow(v) \/ RecordTx(v) \/ FailCall(v)
    BY <2>1 DEF Call, ReadRow, RecordTx, FailCall
  <2>2. CASE InsertRow(v)
    <3>1. worker[v].pc = "insert"
      BY <2>2 DEF InsertRow
    <3>2. worker[v].user # worker[w].user
      BY <1>2, <3>1, DistinctUsers
    <3>3. \/ account' = account
          \/ account' = [account EXCEPT ![worker[v].user] = ZeroRow]
      BY <2>2 DEF InsertRow
    <3>4. QED
      BY <3>2, <3>3, <1>a DEF TypeOK, Worker
  <2>3. CASE SaveRow(v)
    <3>1. worker[v].pc = "save"
      BY <2>3 DEF SaveRow
    <3>2. worker[v].user # worker[w].user
      BY <1>2, <3>1, DistinctUsers
    <3>3. account' = [account EXCEPT ![worker[v].user] = Updated(worker[v])]
      BY <2>3 DEF SaveRow
    <3>4. QED
      BY <3>2, <3>3, <1>a DEF TypeOK, Worker
  <2>4. QED
    BY <2>1, <2>2, <2>3
<1>3. QED
  BY <1>a, <1>1, <1>2 DEF SaveOK

LEMMA LedgerOwnInvStep ==
  LedgerOwnInv /\ OneCallPerUser /\ [Next]_vars => LedgerOwnInv'
<1> SUFFICES ASSUME LedgerOwnInv, OneCallPerUser, [Next]_vars PROVE LedgerOwnInv'
  OBVIOUS
<1>0. TypeOK'
  BY TypeStep DEF LedgerOwnInv
<1>1. ASSUME NEW v \in Workers,
             \/ Call(v) \/ ReadRow(v) \/ InsertRow(v)
             \/ SaveRow(v) \/ RecordTx(v) \/ FailCall(v)
      PROVE  \A w \in Workers : SaveOK(w)'
  BY <1>1, ActorSaveOK, OthersSaveOK
<1>2. CASE UNCHANGED vars
  BY <1>0, <1>2 DEF vars, LedgerOwnInv, SaveOK
<1>3. QED
  BY <1>0, <1>1, <1>2 DEF Next, LedgerOwnInv

\* Each ledger step is a step of LedgerAbstract
\* on the mapped accounts or leaves them alone: only SaveRow changes a
\* counter, and it performs AddCredits' or DeductCredits' arithmetic on the
\* row as it is in the database.
LEMMA RefinementStep ==
  LedgerOwnInv /\ [Next]_vars => [Abs!Next]_Mapped
<1> SUFFICES ASSUME LedgerOwnInv, [Next]_vars PROVE [Abs!Next]_Mapped
  OBVIOUS
<1>a. TypeOK
  BY DEF LedgerOwnInv
<1>1. ASSUME NEW w \in Workers, SaveRow(w) PROVE [Abs!Next]_Mapped
  <2> DEFINE wk == worker[w]
             usr == wk.user
             amt == wk.amount
  <2>1. /\ wk \in Worker
        /\ wk.pc = "save"
        /\ account' = [account EXCEPT ![usr] = Updated(wk)]
        /\ hasRow' = hasRow
    BY <1>1, <1>a DEF SaveRow, TypeOK
  <2>2. /\ usr \in hasRow
        /\ wk.local = account[usr]
        /\ wk.op = "deduct" => wk.local.balance >= amt
    BY <2>1 DEF LedgerOwnInv, SaveOK
  <2>3. usr \in Users /\ amt \in Amounts /\ account[usr] \in Row
    BY <2>1, <1>a DEF Worker, TypeOK
  <2>4. Mapped[usr] = account[usr]
    BY <2>2, <2>3 DEF Mapped
  <2>5. Mapped' = [Mapped EXCEPT ![usr] = Updated(wk)]
    BY <2>1, <2>2, <2>3, <1>a DEF Mapped, TypeOK
  <2>6. CASE wk.op = "add"
    <3>1. Mapped' = [Mapped EXCEPT ![usr] = [balance |-> Mapped[usr].balance + amt,
                                           totalEarn |-> Mapped[usr].totalEarn + amt,
                                           totalSpent |-> Mapped[usr].totalSpent]]
      BY <2>4, <2>5, <2>2, <2>6 DEF Updated, Credited
    <3>2. Abs!Next
      BY <2>3, <3>1 DEF Abs!Next, Abs!Add, Mapped
    <3>3. QED
      BY <3>2
  <2>7. CASE wk.op = "deduct"
    <3>1. /\ Mapped[usr].balance >= amt
          /\ Mapped' = [Mapped EXCEPT ![usr] = [balance |-> Mapped[usr].balance - amt,
                                              totalEarn |-> Mapped[usr].totalEarn,
                                              totalSpent |-> Mapped[usr].totalSpent + amt]]
      BY <2>4, <2>5, <2>2, <2>7 DEF Updated, Debited
    <3>2. Abs!Next
      BY <2>3, <3>1 DEF Abs!Next, Abs!Deduct, Mapped
    <3>3. QED
      BY <3>2
  <2>8. QED
    BY <2>1, <2>6, <2>7 DEF Worker, Ops
<1>2. ASSUME NEW w \in Workers, InsertRow(w) PROVE Mapped' = Mapped
  <2> DEFINE wk == worker[w]
  <2>1. CASE wk.user \in hasRow
    BY <1>2, <2>1 DEF InsertRow, Mapped
  <2>2. CASE wk.user \notin hasRow
    <3>1. /\ hasRow' = hasRow \cup {wk.user}
          /\ account' = [account EXCEPT ![wk.user] = ZeroRow]
      BY <1>2, <2>2 DEF InsertRow
    <3>2. QED
      BY <3>1, <2>2, <1>a DEF Mapped, TypeOK
  <2>3. QED
    BY <2>1, <2>2
<1>3. ASSUME NEW w \in Workers,
             \/ Call(w) \/ ReadRow(w) \/ RecordTx(w) \/ FailCall(w)
      PROVE  Mapped' = Mapped
  <2>1. hasRow' = hasRow /\ account' = account
    BY <1>3 DEF Call, ReadRow, RecordTx, FailCall
  <2>2. QED
    BY <2>1 DEF Mapped
<1>4. CASE UNCHANGED vars
  BY <1>4 DEF vars, Mapped
<1>5. QED
  BY <1>1, <1>2, <1>3, <1>4 DEF Next

\* LedgerRefines, provided calls on one account do not overlap: whatever
\* calls fail and however calls on different accounts interleave, the
\* read / insert / Save sequences of AddCredits and DeductCredits are atomic
\* credits, and debits refused when the balance is short, of the mapped
\* accounts.  (Overlapping calls on one account break it: ledger_lost_update.)
THEOREM RefinementPerUser == Spec /\ []OneCallPerUser => LedgerRefines
<1>1. Init => Abs!Init
  BY DEF Init, Abs!Init, ZeroRow
<1>2. QED
  BY <1>1, RefinementStep, LedgerOwnInvInit, LedgerOwnInvStep, PTL
     DEF Spec, LedgerRefines, Abs!Spec, Mapped

=============================================================================
