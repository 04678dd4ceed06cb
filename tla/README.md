# TLA+ models of the OpenList credits subsystem

This directory holds TLA+ models of the credits add-on in this repository:
the credit ledger, payment orders, redeem codes, path pricing, user
registration and verification codes. It also holds TLC configurations that
model-check them on small instances, an abstract specification of the
redemption engine with a refinement check, and TLAPS proofs of the safety
invariants of every modelled component. Every definition is translated from the Go source. Its lines are
listed under `map` in `PROJECT.json`.

## 1. The system

| Part | Source | State | Operations |
|---|---|---|---|
| Ledger Engine | `src/unnamed/part_003` 14-117, db `part_001` 385-405, model `part_002` 9-37 | `x_user_credits` (Balance, TotalEarn, TotalSpent per user), `x_credit_transactions` | CreateUserCredits, GetUserCredits, AddCredits, DeductCredits |
| Payment Order Engine | `part_003` 230-324, handlers 565-700, db `part_001` 524-560 | `x_payment_orders` (Status, ExpiresAt, UserID) | CreatePaymentOrder, CompletePaymentOrder, CancelPaymentOrder, CleanExpiredPaymentOrders, PaymentNotification |
| Redemption Engine | `part_003` 163-228, handlers 509-563, db `part_001` 470-506 | `x_redeem_codes` (UsedCount, MaxUses), `x_redeem_code_usages` | GenerateRedeemCodes, RedeemCode |
| Pricing Resolver | `part_003` 124-161, 336-382, handlers 436-507, 702-742, db `part_001` 423-468 | `x_file_credits_configs` (Path, IsFolder, Credits, Inheritable, Enabled) | Set/Get/Delete rule, CheckFileDownloadPermission, ProcessFileDownload |
| Registration | `internal/op/user_registration.go`, `internal/model/user_registration.go`, handlers `part_004`, db `part_001` 299-377 | `x_user_registrations` (Status 0/1/2/-1, Token, ExpiresAt, soft delete), `x_verification_codes` | CreateUserRegistration, Verify, Approve, Reject, CleanExpiredData, CreateVerificationCode, VerifyCode |
| Payment gateway adapters | `part_000`, `part_001` 1-291 | none in this repository | request signing and encoding for two providers |

How the parts interact:
- RedeemCode and CompletePaymentOrder end by calling `AddCredits`.
- ProcessFileDownload calls `DeductCredits` with the price that the Pricing Resolver found.
- ApproveUserRegistration creates the user and its empty `UserCredits` row.

Every operation runs on the goroutine of its HTTP request (spec §5: request-parallel). Nothing serialises two requests.

The code follows the same pattern throughout:
1. A request reads a row into a Go struct.
2. It checks and changes the struct in memory.
3. It writes the struct back with gorm `Save`, which overwrites every column.

None of the multi-statement operations runs in a database transaction. The models keep this structure:
- Each database call is one atomic step of a request *worker*.
- The worker's copy of the row is part of its state (`local`).
- Each call can fail, up to a bound `MaxFaults`. The Go code then returns the error, and what earlier calls committed stays committed.

The hazards this exposes are listed in `PROJECT.json` under `hazards`, each at its source line. In short:
- lost updates and double spends on the ledger;
- a balance saved without its transaction;
- redeem codes used more often than their MaxUses;
- double completion of a payment order;
- Cancel or Complete overwriting a terminal order status;
- unauthenticated completion;
- inheritance lookups that treat `_` as a wildcard;
- the delete handler removing an ancestor's rule;
- registrations that can never be approved;
- one-time codes accepted twice.

## 2. Modules

| Module | Models | Variables | Actions (code) |
|---|---|---|---|
| `Ledger` | Ledger Engine | `hasRow`, `account`, `txs`, `worker` (pc ∈ read/insert/save/record, `local` row copy), `requests`, `faults` | `Call` (AddCredits/DeductCredits entry), `ReadRow` (GetUserCredits), `InsertRow` (CreateUserCredits, unique index), `SaveRow` (UpdateUserCredits = Save), `RecordTx` (CreateCreditTransaction), `FailCall` |
| `Payments` | Payment Order Engine | `status`, `owner`, `late` (clock), `credited`, `worker` | `CreateOrder`, `Tick` (environment), `Call` (public complete endpoint, PaymentNotification, cancel endpoint), `CompleteRead`, `CancelRead`, `SaveOrder` (Save), `Credit` (AddCredits), `FailCall` |
| `Redemption` | Redemption Engine | `issued`, `usedCount`, `usages`, `credited`, `worker` | `Generate` (one Create of the loop), `Call`, `ReadCode` (+CanUse), `SaveCode`, `RecordUsage`, `Credit`, `FailCall` |
| `Pricing` | Pricing Resolver | `rule` (per path), `lastCall` (the request served, its path and the price it allowed), `faults` | `SetRule`, `DeleteRule` (handler: lookup, then delete by ID), `Download`, `DownloadLookupFails` |
| `RedemptionAbstract` | what the Redemption Engine promises (spec §4.3, §5) | `issued`, `usedCount`, `usages`, `credited` | `Issue`, `Claim` (one use, atomically), `Record`, `Grant` |
| `PaymentsAbstract` | what an order may go through (spec §4.4) | `status`, `credited` | `Create`, `Decide` (a pending order completed or cancelled), `Grant` (a completed order credited once) |
| `LedgerAbstract` | what an account promises (spec §4.1, §8) | `account` | `Add`, `Deduct` (refused when the balance is short), each atomic |
| `VerificationCodes` | one-time codes of one (email, type) | `codeCount`, `codeUsed`, `codeLate`, `codeDeleted`, `accepted`, `verifier`, `requests`, `faults` | `SendCode`, `CodeExpires`, `CleanExpiredCodes`, `CallVerifyCode`, `ReadCode` (newest usable code, `CanUse`, comparison), `SaveCode`, `FailCodeCall` |
| `Registration` | registration applications, composed with `VerificationCodes` (EXTENDS) | `used`, `email`, `uname`, `status`, `late`, `deleted` (soft delete), `users`, `lastCall` (the request served and whether it succeeded), and the code variables | `CreateRegistration` (handler + op; refused or accepted), `VerifyRegistration`, `ApproveRegistration`, `RejectRegistration`, `Tick`, `CleanExpiredData` (both clean-ups in order; either delete may fail), and the code actions |
| `LedgerProofs` | TLAPS proofs about `Ledger` | | |
| `RedemptionProofs` | TLAPS proofs about `Redemption` and its refinement | | |
| `PaymentsProofs`, `RegistrationProofs`, `PricingProofs` | TLAPS proofs about `Payments`, `Registration` (with the codes) and `Pricing` | | |
| `MC*` | TLC instances (model values, small sets of paths) | | |

Abstractions, and why they are sound for the properties checked:
- **Payments and Redemption:** `AddCredits` is one step that records how often it succeeded for each order or code. Its internal races are the Ledger module's subject, and the payment and redeem properties count credits only.
- **Pricing:** paths are sequences of one-character strings, so that the LIKE pattern can be evaluated character by character. Inheritable and Enabled are always true: the handler never passes them on, and gorm replaces the zero value `false` by the column default `true`.
- **Registration:**
  - A token is the row's slot. `generateToken` yields 64 hex characters, never `""`.
  - Each registration request is one step. The races that matter are in the code and payment modules.
  - `CleanExpiredData` (user_registration.go 204-217) deletes expired registrations, then expired codes, and returns at the first error. The model has its three outcomes: both done, the first delete failing (nothing done), the second failing (registrations cleaned, codes not).
- **VerificationCodes:** codes of one (email, type) pair only. `GetVerificationCode` filters on both, so different pairs never meet.
- **Fault variants:** the definitions named `...NoCheck`, `...OffByOne`, `...Unmarked`, `ShortestFirst` and so on are mutated copies of the code's definitions. No specification uses them. They exist so that the mutation runs can check that each property notices a plausible bug.

## 3. Runs

All runs use `CHECK_DEADLOCK FALSE`. Every behaviour ends once the request bound `MaxRequests` is spent, and a server with no more requests is idle, not deadlocked.

### Passing runs

| Run | Instance | Properties | What it shows |
|---|---|---|---|
| ledger_conc | 2 workers, 2 users, amounts {1,2}, 4 calls, 1 fault | NeverNegative, TotalsAgree | Under every interleaving, including lost updates and failures, no balance goes negative, and Balance = TotalEarn − TotalSpent. |
| pay_per_order | 2 workers racing the clock, 2 orders, 4 calls, 1 fault; `CONSTRAINT OneCallPerOrder` | AtMostOnceCredit, CreditedIsCompleted, PaymentsRefines | Calls on different orders interleave freely, and calls on one order do not overlap. Then the pending-only guards make retries, late callbacks and cancels harmless, and the order table follows `PaymentsAbstract`. |
| redeem_per_code | 2 workers, 2 codes, 4 calls, 1 fault; `CONSTRAINT OneCallPerCode` | UsesWithinMax, CountCoversUsages, CreditBackedByUsage, RedemptionRefines | The step order (count, usage, credit) keeps every credit backed by a usage record, whatever fails. Calls on different codes interleave; while calls on one code do not overlap, every behaviour of the code is a behaviour of `RedemptionAbstract`. |
| pricing_resolve | paths /a, /a/, /ab, /a/b, /b; prices {0,2}; 1 fault | ResolveAgrees | Over every rule set reachable by set/delete, the code's lookup equals the longest-prefix price of spec §4.2. This includes /a pricing /ab, which the spec's character-prefix contract also does. |
| reg_seq | 2 slots, 2 e-mails, 2 names, 1 code verifier, 2 codes, 3 calls, 1 fault | CodeAcceptedOnce | With the registration requests and the clean-up running alongside, a single verifier accepts each code at most once, even when the code expires or is cleaned between its read and its save. The two-verifier case is reg_double_verify. |

### Violation runs

Each violation run checks one property that the spec states. TLC finds it violated, and the finding is in `PROJECT.json`.

| Run | Property | Counterexample |
|---|---|---|
| ledger_lost_update | TxChain | Two AddCredits of 1 on balance 0 both read 0, both save balance 1 and both record balance 1: one credit is lost although both calls succeeded. |
| ledger_partial | BalanceMatchesLedger | The balance is saved and the transaction insert fails. |
| pay_double_complete | AtMostOnceCredit | Two callbacks both read pending, and both credit. |
| pay_terminal | TerminalStable | Complete and Cancel both read the order pending; Cancel saves it cancelled, then Complete's stale Save overwrites cancelled with completed and credits. |
| redeem_over | UsesWithinMax | Two redemptions of a single-use code. |
| pricing_delete_parent | DeleteOnlyNamed | DELETE of /a/b removes the rule of /a. |
| reg_double_verify | CodeAcceptedOnce | Two concurrent VerifyCode calls both read code 1 unused, both save it used and both accept it. |

### Divergences seen while modelling, without a run of their own

Each of these is in the models' actions and was confirmed by TLC while the models were written. None of them has a run in this project.
- **Unauthenticated completion.** `PaymentNotification` (part_003:681) and the public complete endpoint (part_003:607) complete any order number without provider verification, which spec §4.5 requires.
- **No ownership check.** `CancelPaymentOrder` never compares the caller with the order's owner (part_003:302), so spec §4.4's Forbidden case never occurs.
- **`_` acts as a wildcard.** In the inheritance query's LIKE pattern (part_001:465), a folder rule on `/_` prices `/a`. `ResolveAgrees` fails on such an instance.
- **A storage error makes the download free.** A failed price lookup is treated as "free" (part_003:340).
- **Swapped arguments.** `CreateRegistration` passes (username, email) to `CreateUserRegistration(email, username, …)` (part_004:28).
- **Approve and Reject are dead.** They look up token `""` with status 0 (user_registration.go:89, 136), so a verified registration is never approved or rejected.
- **An expired application blocks re-application.** The expired row, even once soft-deleted, keeps its e-mail and user name in the unique indexes (user_registration.go:55).
- **A completed order can stay uncredited.** `CompletePaymentOrder` saves the order completed before `AddCredits` (part_003:293); if that fails, every retry is refused as not pending. The model has the failing call; no property claims the order is credited later, since nothing in the code retries it.
- **The expiry sweep cannot run.** `CleanExpiredPaymentOrders` (part_001:559) calls `Update` with no model, which gorm refuses, and nothing calls it. No order becomes expired; a late order stays pending and Complete refuses it through `IsExpired`.

### Why the bounds are enough

- **Two workers** suffice for every race here. Each race is between two requests on one row.
- **Two users, orders or codes** make room for a second row, so that the models show the rows do not interfere.
- **One fault** is the partial-commit case. A second fault adds no new code path.
- **Amounts {1,2} against an initial balance of 0** cover the three cases of the balance check: equal, smaller and larger.
- **Pricing paths.** They contain two nested folders and a sibling that shares a character prefix.

### Mutation runs

Each property of a passing run has a mutation run (listed under `mutants`). It swaps one code definition for its fault variant, and TLC must then report the property violated:
- a dropped pending check in CompleteRead or CancelRead;
- `<=` in place of `<` in CanUse;
- a lost UsedCount increment;
- a skipped usage record;
- ORDER BY ASC in place of DESC;
- a code saved without `Used = true`;
- a deduction without its balance check;
- a deduction that forgets TotalSpent.

### Refinement

`RedemptionAbstract` says what a redemption may do: claim one use of an issued code with uses left (atomically), record a usage of a claimed use, grant the credits of a recorded usage, each possibly the last step taken. `Redemption` instantiates it with the identity mapping (`Abs == INSTANCE RedemptionAbstract`, `MaxUses` is 1 in both) and `RedemptionRefines == Abs!Spec` is checked as a PROPERTY:
- `ReadCode` and `Call` are stutters; `SaveCode` is `Claim`; `RecordUsage` is `Record`; `Credit` is `Grant`; `Generate` is `Issue`.
- It holds while calls on one code do not overlap (redeem_per_code, and proved). With two on one code, a `SaveCode` from a stale copy rewrites UsedCount to a value it already had, so a second use is recorded without a claim; that is the redeem_over race seen from the abstract side.

`PaymentsAbstract` is the life cycle of an order: created pending; only a pending order is decided, completed or cancelled; a completed order is credited once. Completed and cancelled are final. `Payments` maps `status` and `credited` to themselves (`PaymentsRefines`, checked in pay_per_order):
- `CreateOrder` is `Create`; `SaveOrder` is `Decide`; `Credit` is `Grant`;
- `Tick`, `Call`, the reads and `FailCall` are stutters.
When two calls on one order overlap it fails: a request that read the order while pending saves over a status another request has since made final (pay_terminal).

`LedgerAbstract` is an account as spec §4.1 describes it: an atomic credit, and an atomic debit refused when the balance is short. `Ledger` maps a user with no row to zeroed counters and a user with a row to the row (`LedgerRefines`). The history table is not mapped; ledger_partial is about it. Only `SaveRow` changes the mapped accounts: it is `Add` or `Deduct` of the worker's user and amount. Everything else, the row insertion included, is a stutter. It holds while calls on one user's account do not overlap; this is proved (below), and no run of the project checks it, because every ledger run asks a question of its own. When two calls on one account overlap, a `SaveRow` from a stale copy is no step of `LedgerAbstract`: the lost update of ledger_lost_update.

### Calls on one key that do not overlap

Several properties hold only while calls on one row do not overlap; two overlapping calls on one row break them, as the violation runs show. The code has no lock, so this is a hypothesis, stated per row: `OneCallPerOrder` (Payments), `OneCallPerUser` (Ledger) and `OneCallPerCode` (Redemption) say that two busy workers never work on the same order, user or code. Calls on different rows interleave freely under it, and any call may fail. The passing runs impose it with `CONSTRAINT` on two workers; the theorems take it as `[]OneCallPerX` on the left of the implication. It is what a row lock or a per-key queue in front of the handlers would give. The theorems therefore say that the guards of the code are right and that rows do not interfere; they do not say the code is safe when one row is raced.

### Liveness

No liveness property is stated. The one the spec suggests, that a completed order is eventually credited, fails in the code for a reason needing no fairness argument (a failed `AddCredits` is never retried, see the divergences), and nothing in the code schedules the clients or the clock.

## 4. Proofs

`LedgerProofs` proves the following for all values of the constants. It assumes only that `Users` is nonempty, that the amounts are positive naturals and that the bounds are naturals (`UsersAssumption`, `AmountsAssumption`, `BoundsAssumption`).

- **`TypeCorrect`:** `Spec => []TypeOK`.
- **`NeverNegativeHolds`:** `Spec => []NeverNegative`.
- **`TotalsAgreeHolds`:** `Spec => []TotalsAgree`.

The last two rest on an inductive invariant `LedgerInv`, which TLC also checked on the ledger_conc instance. It states that:
- every stored row is sound: its balance is at least 0 and equals TotalEarn − TotalSpent;
- every worker between its read and its transaction holds a sound copy;
- a deducting worker's copy covers its amount;
- every recorded transaction balance is at least 0.

`NeverNegative` alone is not inductive. A `SaveRow` writes `Updated(local)`, and that is non-negative only because the copy was checked against the amount when it was read. That fact lives in the worker's state, so the invariant must carry it. Each action is then shown to preserve `LedgerInv`:
- **`SaveRow`** writes a sound row computed from a sound copy.
- **`RecordTx`** records that row's balance.
- **`ReadRow` and `InsertRow`** either drop the request or take a sound copy that passed the check.

These proofs establish that the lost update cannot break balance non-negativity or the row's totals. They do not establish that it keeps the history right, which the ledger_lost_update run disproves.

`RedemptionProofs` proves, from `RedemptionAssumption` (Codes nonempty, Workers finite, the bounds naturals):
- **`TypeCorrect`:** `Spec => []TypeOK`.
- **`CreditBackedByUsageHolds`:** `Spec => []CreditBackedByUsage`, for any number of workers. The invariant is not inductive: a worker at its credit step will add one credit. The strengthening `CreditInv` counts those workers, `credited[c] + Cardinality(InFlight(c)) <= usages[c]`, where `InFlight(c)` is the set of workers about to credit `c`. `RecordUsage` raises both sides by one, `Credit` moves one worker from the left's count to the credit, and `FailCall` only shrinks the set. The lemmas `InFlightFrame` and `InFlightShrinks` give the cardinality of the set after each step (FiniteSetTheorems).
- **`RefinementPerCode`:** `Spec /\ []OneCallPerCode => RedemptionRefines`.
- **`UsesWithinMaxPerCode`:** `Spec /\ []OneCallPerCode => []UsesWithinMax`.
- **`CountCoversUsagesPerCode`:** `Spec /\ []OneCallPerCode => []CountCoversUsages`.
  All three rest on the invariant `CodeInv`. Per code it says that `usages <= usedCount <= MaxUses` and `credited <= usages`. Per busy worker it says what it knows of its code: one about to save holds an issued code with a use left and a copy one above the stored count; one about to record has a claimed use unrecorded; one about to credit has a recorded usage not yet granted. `CodeInvStep` shows it is kept by every step whose start state satisfies `OneCallPerCode`. The lemma `DistinctCodes` says that another busy worker's step touches a different code, so it cannot invalidate the knowledge. `RefinementStep` maps each step to `Abs!Next` or a stutter.

`PaymentsProofs` proves, from `PaymentsAssumption` (orders and users nonempty, bounds naturals):
- **`TypeCorrect`:** `Spec => []TypeOK`.
- **`CreditOncePerOrder`:** `Spec /\ []OneCallPerOrder => []AtMostOnceCredit`.
- **`CreditedIsCompletedPerOrder`:** `Spec /\ []OneCallPerOrder => []CreditedIsCompleted`.
- **`RefinementPerOrder`:** `Spec /\ []OneCallPerOrder => PaymentsRefines`. Lemma `RefinementStep` maps a save to `Decide` of a pending order and a credit to `Grant` of a completed, uncredited one.
  The inductive invariant `PayInv` says what a request in flight knows. One about to save found its order pending, and under `OneCallPerOrder` (lemma `DistinctOrders`) nothing else has touched it, so it is still pending. One about to credit has saved its order completed and has not credited it yet. Every retry then fails the pending check.

`LedgerProofs` also proves:
- **`RefinementPerUser`:** `Spec /\ []OneCallPerUser => LedgerRefines`. The inductive invariant `LedgerOwnInv` says that a worker about to save holds exactly the row its user has in the database, and that for a deduct that row covers the amount. It is needed because `SaveRow` writes `Updated(local)`: that is `Add` or `Deduct` of the current account only if `local` is still the current row. Two lemmas show every step keeps it. `ActorSaveOK` covers the worker's own step; its lemma `AfterReadSave` says a call that passed the balance check holds the row it read. `OthersSaveOK` covers the other workers' steps, which touch other users' rows (`DistinctUsers`). `RefinementStep` maps `SaveRow` to `Add` or `Deduct` and the rest to stutters.

`RegistrationProofs` proves, from `RegistrationAssumption` and `CodesAssumption` (e-mails and names nonempty, at least one code):
- **`TypeCorrect`:** `Spec => []TypeOK`, over both tables and every outcome of `CleanExpiredData`.
`CodeAcceptedOnce` is model-checked only: `VerificationCodes` covers one (email, type) pair, so a per-code hypothesis would be the one-verifier case, which reg_seq checks and reg_double_verify shows is the whole question.

`PricingProofs` proves, from `PricingAssumption` (paths nonempty and sequences of strings, prices naturals):
- **`TypeCorrect`:** `Spec => []TypeOK`, so every price charged is a natural number.
- **`ResolveAgreesHolds`:** under `NoWildcard` (no path contains `_`), `Spec => []ResolveAgrees`. It rests on four lemmas:
  - `InheritableIsSpec`: without `_`, LIKE is prefix matching, so the query selects exactly spec 4.2's folder rules;
  - `LongestExists`: a longest such rule exists, since a nonempty set of naturals has a least element (`NatSetHasMin`, from `WFMin` and `NatLessThanWellFounded`);
  - `PrefixUnique`: two prefixes of one path that have one length are equal, so the database's tie-break never matters;
  - `PrefixPointwise`: `IsPrefix`, element by element.
  `NoWildcard` is a hypothesis of the theorem and not an assumption of the model: with `_` the property fails, as the divergence list records.

### Model-checked only

- The Ledger's TxChain and BalanceMatchesLedger, Payments' TerminalStable, Pricing's DeleteOnlyNamed, and every property when two calls on one row overlap, `PaymentsRefines` and `LedgerRefines` included. The code violates all of them, and TLC shows the counterexamples.
- `CodeAcceptedOnce` (reg_seq, and violated with two verifiers in reg_double_verify).
- Liveness and ENABLED-based reasoning are beyond TLAPS here, and no liveness property is stated (section 3). The registration liveness failure needs no fairness argument: Approve cannot succeed in any state.

## 5. Not modelled

- **Payment gateway adapters** (`part_000`, `part_001` 1-291): signing, encoding and HTTP calls to two fixed external protocols. They change no state of this repository, and nothing here calls their VerifyPayment. The missing verification is modelled as the unauthenticated completion in `Payments`.
- **Read-only listings:** GetCreditTransactions, ListPaymentOrders, GetRedeemCodes, GetPendingRegistrations (user_registration.go 199-202).
- **The e-mail and code senders** (user_registration.go 229-242): they only log.
- **TableName** of the models: table names only.
- **CleanExpiredPaymentOrders** (part_001 557-560): nothing calls it, and its `db.Where(...).Update(...)` names no model, so gorm returns an error without writing. Modelled as absent: no order becomes expired.
- **Composition of the price lookup with the Ledger deduction** in ProcessFileDownload, where a rule can change between check and charge. This is planned as a composed download module.
- **The gorm behaviour of `Save` on a row that was soft-deleted** between a read and the save (VerifyUserRegistration racing the clean-up). It depends on the gorm version.
- **Case-insensitive LIKE** (SQLite, MySQL default collations) and the lack of `CONCAT` in older SQLite. Both depend on the database.

## 6. Plan for later work

1. A composed `CreditsSystem` in which the `Credit` steps of Payments and Redemption and the download deduction are Ledger workers (INSTANCE with the ledger's variables).
2. The refinements of Ledger, Payments and Redemption are proved while calls on one row do not overlap. A locked variant of the ledger (a row lock around read and save) would implement `LedgerAbstract` for any number of workers; the code has no such lock.
