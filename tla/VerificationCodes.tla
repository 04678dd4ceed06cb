-------------------------- MODULE VerificationCodes --------------------------
(***************************************************************************)
(* One-time verification codes (internal/op/user_registration.go 150-197, *)
(* the VerificationCode model in internal/model/user_registration.go, the *)
(* queries in src/unnamed/part_001 340-361, handlers part_004 145-197).    *)
(* All codes belong to one (email, type) pair: GetVerificationCode filters *)
(* on both, so codes of different pairs never meet.  Codes are numbered in *)
(* creation order.  VerifyCode is two database calls, a read and a Save of *)
(* the copy with Used = true, made by concurrent request workers.  The     *)
(* names are those of the code table, since the Registration module        *)
(* extends this one (CleanExpiredData cleans both tables).                 *)
(***************************************************************************)
EXTENDS Naturals

CONSTANTS
    Workers,      \* request workers calling the verify-code endpoint
    MaxCodes,     \* bound on codes created
    MaxRequests,  \* bound on VerifyCode calls
    MaxFaults     \* bound on failed database calls

ASSUME CodesAssumption ==
    MaxCodes \in Nat \ {0} /\ MaxRequests \in Nat /\ MaxFaults \in Nat

CodeIds == 1..MaxCodes

VARIABLES
    codeCount,    \* number of codes created so far (ids 1..codeCount)
    codeUsed,     \* codes whose Used column is true
    codeLate,     \* codes whose 10 minutes have run out
    codeDeleted,  \* codes soft-deleted by CleanExpiredVerificationCodes
    accepted,     \* accepted[c]: VerifyCode calls that returned nil for code c
    verifier,     \* verifier[w]: the VerifyCode call in progress
    requests,
    faults        \* failed database calls so far

codeVars == <<codeCount, codeUsed, codeLate, codeDeleted, accepted, verifier,
              requests, faults>>

Verifier == [pc : {"idle", "read", "save"}, code : CodeIds, local : CodeIds]

IdleVerifier == [pc |-> "idle", code |-> 1, local |-> 1]

\* The x_verification_codes rows of the pair and the calls in progress.
CodesTypeOK ==
    /\ codeCount \in 0..MaxCodes
    /\ codeUsed \subseteq CodeIds /\ codeLate \subseteq CodeIds
    /\ codeDeleted \subseteq CodeIds
    /\ accepted \in [CodeIds -> Nat]
    /\ verifier \in [Workers -> Verifier]
    /\ requests \in 0..MaxRequests
    /\ faults \in 0..MaxFaults

CodesInit ==
    /\ codeCount = 0
    /\ codeUsed = {} /\ codeLate = {} /\ codeDeleted = {}
    /\ accepted = [c \in CodeIds |-> 0]
    /\ verifier = [w \in Workers |-> IdleVerifier]
    /\ requests = 0
    /\ faults = 0

\* VerificationCode.IsExpired: now is after ExpiresAt.
IsExpired(c) == c \in codeLate

\* VerificationCode.CanUse: !Used && !IsExpired().
CanUse(c) == c \notin codeUsed /\ ~IsExpired(c)

\* db.GetVerificationCode: used = false AND expires_at > now, not deleted,
\* newest first.
Usable == {c \in 1..codeCount : CanUse(c) /\ c \notin codeDeleted}

-----------------------------------------------------------------------------

\* Handler SendVerificationCode -> CreateVerificationCode: a new code, Used
\* false, ExpiresAt now + 10 min.
SendCode ==
    /\ codeCount < MaxCodes
    /\ codeCount' = codeCount + 1
    /\ UNCHANGED <<codeUsed, codeLate, codeDeleted, accepted, verifier,
                   requests, faults>>

\* The 10 minutes of a code run out.
CodeExpires ==
    \E c \in 1..codeCount :
        /\ ~IsExpired(c)
        /\ codeLate' = codeLate \cup {c}
        /\ UNCHANGED <<codeCount, codeUsed, codeDeleted, accepted, verifier,
                       requests, faults>>

\* db.CleanExpiredVerificationCodes: soft-delete every row with
\* expires_at < now, used or not.
CleanExpiredCodes ==
    /\ codeDeleted' = codeDeleted \cup codeLate
    /\ UNCHANGED <<codeCount, codeUsed, codeLate, accepted, verifier, requests,
                   faults>>

\* Handler VerifyCode: a user submits some code for the pair.
CallVerifyCode(w) ==
    /\ verifier[w].pc = "idle"
    /\ requests < MaxRequests
    /\ \E c \in CodeIds :
          verifier' = [verifier EXCEPT ![w] = [pc |-> "read", code |-> c, local |-> 1]]
    /\ requests' = requests + 1
    /\ UNCHANGED <<codeCount, codeUsed, codeLate, codeDeleted, accepted, faults>>

\* VerifyCode: the newest usable code (none: error), CanUse, and the
\* comparison with the submitted code; on a match the copy gets Used = true.
ReadCode(w) ==
    LET wk == verifier[w]
        newest == CHOOSE c \in Usable : \A d \in Usable : d <= c
    IN
    /\ wk.pc = "read"
    /\ verifier' = [verifier EXCEPT ![w] =
                       IF Usable # {} /\ CanUse(newest) /\ wk.code = newest
                       THEN [wk EXCEPT !.pc = "save", !.local = newest]
                       ELSE IdleVerifier]
    /\ UNCHANGED <<codeCount, codeUsed, codeLate, codeDeleted, accepted,
                   requests, faults>>

\* Fault variant: the copy is saved without Used = true.
SaveCodeUnmarked(w) ==
    LET wk == verifier[w] IN
    /\ wk.pc = "save"
    /\ accepted' = [accepted EXCEPT ![wk.local] = @ + 1]
    /\ verifier' = [verifier EXCEPT ![w] = IdleVerifier]
    /\ UNCHANGED <<codeCount, codeUsed, codeLate, codeDeleted, requests, faults>>

\* db.UpdateVerificationCode (gorm Save) writes Used = true; VerifyCode
\* returns nil.
SaveCode(w) ==
    LET wk == verifier[w] IN
    /\ wk.pc = "save"
    /\ codeUsed' = codeUsed \cup {wk.local}
    /\ accepted' = [accepted EXCEPT ![wk.local] = @ + 1]
    /\ verifier' = [verifier EXCEPT ![w] = IdleVerifier]
    /\ UNCHANGED <<codeCount, codeLate, codeDeleted, requests, faults>>

\* The pending database call fails and VerifyCode returns the error.
FailCodeCall(w) ==
    /\ verifier[w].pc \in {"read", "save"}
    /\ faults < MaxFaults
    /\ verifier' = [verifier EXCEPT ![w] = IdleVerifier]
    /\ faults' = faults + 1
    /\ UNCHANGED <<codeCount, codeUsed, codeLate, codeDeleted, accepted, requests>>

\* The steps of the code table alone (the clean-up is CleanExpiredData's,
\* in the Registration module).
CodesNext ==
    \/ SendCode \/ CodeExpires
    \/ \E w \in Workers :
          CallVerifyCode(w) \/ ReadCode(w) \/ SaveCode(w) \/ FailCodeCall(w)

-----------------------------------------------------------------------------

\* Spec 3 (VerificationCode "consumable once"): VerifyCode accepts each code
\* at most once.  An accepted code is saved with Used = true, so no later
\* call finds it usable, whether it expired or was cleaned in between.
CodeAcceptedOnce == \A c \in CodeIds : accepted[c] <= 1

=============================================================================
