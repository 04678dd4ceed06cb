----------------------------- MODULE Redemption -----------------------------
(***************************************************************************)
(* Redeem codes (src/unnamed/part_003 163-228 and the handlers 509-563):  *)
(* GenerateRedeemCodes creates codes one Create at a time; RedeemCode      *)
(* reads a code, checks CanUse, saves UsedCount+1 with gorm Save, inserts  *)
(* a RedeemCodeUsage and calls AddCredits.  Every database call, and the   *)
(* AddCredits call, is one atomic step of a request worker working on its  *)
(* own copy of the code row; any of them may fail.                         *)
(***************************************************************************)
EXTENDS Naturals, FiniteSets

CONSTANTS
    Codes,        \* code strings generateRedeemCode may produce
    Workers,      \* request workers calling the redeem endpoint
    MaxRequests,  \* bound on RedeemCode calls in a behaviour
    MaxFaults     \* bound on failed calls

ASSUME RedemptionAssumption ==
    Codes # {} /\ IsFiniteSet(Workers) /\ MaxRequests \in Nat /\ MaxFaults \in Nat

VARIABLES
    issued,     \* codes with a row in x_redeem_codes
    usedCount,  \* usedCount[c]: the row's UsedCount
    usages,     \* usages[c]: x_redeem_code_usages rows for c
    credited,   \* credited[c]: AddCredits calls that succeeded for c
    worker,     \* worker[w]: the RedeemCode call in progress
    requests,
    faults

vars == <<issued, usedCount, usages, credited, worker, requests, faults>>

\* The handler never passes its MaxUses field on, so every code gets the
\* column default `gorm:"default:1"`; ExpiresAt is nil and Enabled true.
MaxUses == 1

\* read: GetRedeemCodeByCode; save: UpdateRedeemCode; usage:
\* CreateRedeemCodeUsage; credit: AddCredits.
PCs == {"idle", "read", "save", "usage", "credit"}

Worker == [pc : PCs, code : Codes, local : 0..MaxUses]

Idle == [pc |-> "idle", code |-> CHOOSE c \in Codes : TRUE, local |-> 0]

TypeOK ==
    /\ issued \subseteq Codes
    /\ usedCount \in [Codes -> 0..MaxUses]
    /\ usages \in [Codes -> Nat]
    /\ credited \in [Codes -> Nat]
    /\ worker \in [Workers -> Worker]
    /\ requests \in 0..MaxRequests
    /\ faults \in 0..MaxFaults

Init ==
    /\ issued = {}
    /\ usedCount = [c \in Codes |-> 0]
    /\ usages = [c \in Codes |-> 0]
    /\ credited = [c \in Codes |-> 0]
    /\ worker = [w \in Workers |-> Idle]
    /\ requests = 0
    /\ faults = 0

\* Fault variant: CanUse with <= in place of <.
CanUseOffByOne(c) == usedCount[c] <= MaxUses

\* RedeemCode.CanUse: Enabled && !IsExpired() && UsedCount < MaxUses, with
\* Enabled true and ExpiresAt nil for every generated code.
CanUse(c) == usedCount[c] < MaxUses

-----------------------------------------------------------------------------

\* One iteration of GenerateRedeemCodes' loop: db.CreateRedeemCode inserts
\* a fresh code with the defaults (a failure ends the loop, leaving the
\* codes created so far).
Generate ==
    \E c \in Codes \ issued :
        /\ issued' = issued \cup {c}
        /\ UNCHANGED <<usedCount, usages, credited, worker, requests, faults>>

\* A user posts some code string to the redeem endpoint.
Call(w) ==
    /\ worker[w].pc = "idle"
    /\ requests < MaxRequests
    /\ \E c \in Codes : worker' = [worker EXCEPT ![w] = [pc |-> "read", code |-> c, local |-> 0]]
    /\ requests' = requests + 1
    /\ UNCHANGED <<issued, usedCount, usages, credited, faults>>

\* GetRedeemCodeByCode, then the CanUse check; the copy's UsedCount is
\* incremented in memory.
ReadCode(w) ==
    LET c == worker[w].code IN
    /\ worker[w].pc = "read"
    /\ worker' = [worker EXCEPT ![w] =
                     IF c \in issued /\ CanUse(c)
                     THEN [pc |-> "save", code |-> c, local |-> usedCount[c] + 1]
                     ELSE Idle]
    /\ UNCHANGED <<issued, usedCount, usages, credited, requests, faults>>

\* Fault variant: the usage record is skipped.
SaveCodeSkipUsage(w) ==
    LET wk == worker[w] IN
    /\ wk.pc = "save"
    /\ usedCount' = [usedCount EXCEPT ![wk.code] = wk.local]
    /\ worker' = [worker EXCEPT ![w].pc = "credit"]
    /\ UNCHANGED <<issued, usages, credited, requests, faults>>

\* Fault variant: the increment is lost and the count read is saved back.
SaveCodeNoIncrement(w) ==
    LET wk == worker[w] IN
    /\ wk.pc = "save"
    /\ usedCount' = [usedCount EXCEPT ![wk.code] = wk.local - 1]
    /\ worker' = [worker EXCEPT ![w].pc = "usage"]
    /\ UNCHANGED <<issued, usages, credited, requests, faults>>

\* db.UpdateRedeemCode (gorm Save) writes the copy's UsedCount.
SaveCode(w) ==
    LET wk == worker[w] IN
    /\ wk.pc = "save"
    /\ usedCount' = [usedCount EXCEPT ![wk.code] = wk.local]
    /\ worker' = [worker EXCEPT ![w].pc = "usage"]
    /\ UNCHANGED <<issued, usages, credited, requests, faults>>

\* db.CreateRedeemCodeUsage.
RecordUsage(w) ==
    LET wk == worker[w] IN
    /\ wk.pc = "usage"
    /\ usages' = [usages EXCEPT ![wk.code] = @ + 1]
    /\ worker' = [worker EXCEPT ![w].pc = "credit"]
    /\ UNCHANGED <<issued, usedCount, credited, requests, faults>>

\* AddCredits(userID, redeemCode.Credits, ...) succeeds.
Credit(w) ==
    LET wk == worker[w] IN
    /\ wk.pc = "credit"
    /\ credited' = [credited EXCEPT ![wk.code] = @ + 1]
    /\ worker' = [worker EXCEPT ![w] = Idle]
    /\ UNCHANGED <<issued, usedCount, usages, requests, faults>>

\* The pending call fails: RedeemCode returns the wrapped error and the
\* earlier steps stay committed.
FailCall(w) ==
    /\ worker[w].pc \in {"read", "save", "usage", "credit"}
    /\ faults < MaxFaults
    /\ worker' = [worker EXCEPT ![w] = Idle]
    /\ faults' = faults + 1
    /\ UNCHANGED <<issued, usedCount, usages, credited, requests>>

Next ==
    \/ Generate
    \/ \E w \in Workers :
          \/ Call(w) \/ ReadCode(w) \/ SaveCode(w)
          \/ RecordUsage(w) \/ Credit(w) \/ FailCall(w)

Spec == Init /\ [][Next]_vars

\* Calls on one code do not overlap: while a RedeemCode call works on a
\* code, no other call works on the same code.  The code does not enforce
\* it (redeem_over); calls on different codes interleave freely under it.
OneCallPerCode ==
    \A v, w \in Workers :
        v # w /\ worker[v].pc # "idle" /\ worker[w].pc # "idle"
            => worker[v].code # worker[w].code

-----------------------------------------------------------------------------
(* Properties.                                                             *)

\* Spec 3 / 5: a code is redeemed at most MaxUses times: once its UsedCount
\* has reached MaxUses, the CanUse check of every later RedeemCode refuses
\* it, and the usage row is written only after that check passed.
UsesWithinMax == \A c \in Codes : usages[c] <= MaxUses

\* Spec 3: UsedCount accounts for every redemption recorded in
\* x_redeem_code_usages (a redemption never leaves the count behind).
CountCoversUsages == \A c \in Codes : usages[c] <= usedCount[c]

\* Spec 4.3: no credit is granted for a code without a usage record of it,
\* whatever calls fail in between.
CreditBackedByUsage == \A c \in Codes : credited[c] <= usages[c]

\* Spec 4.3 / 5 as an abstract specification: the redeem requests, with
\* their private copies and failures, implement atomic claim, record and
\* grant steps on the code's counters (RedemptionAbstract), so that a
\* code is never claimed beyond MaxUses, and nothing is recorded or
\* granted that was not claimed first.
Abs == INSTANCE RedemptionAbstract
           WITH issued <- issued, usedCount <- usedCount, usages <- usages,
                credited <- credited, Codes <- Codes, MaxUses <- MaxUses

RedemptionRefines == Abs!Spec

=============================================================================
