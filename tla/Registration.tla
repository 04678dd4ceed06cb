---------------------------- MODULE Registration ----------------------------
(***************************************************************************)
(* User registration applications: the handlers of src/unnamed/part_004, *)
(* internal/op/user_registration.go and the queries of part_001 299-338.  *)
(* A registration row lives in a slot (its primary key); its token is the *)
(* slot itself, since generateToken yields a unique non-empty string.     *)
(* Rows are soft-deleted (gorm.DeletedAt): a deleted row is invisible to  *)
(* queries but still holds its Email and Username in the unique indexes.  *)
(* Each registration request is one atomic step.  The code table of      *)
(* VerificationCodes is part of the module: CleanExpiredData cleans both. *)
(***************************************************************************)
EXTENDS Integers, VerificationCodes

CONSTANTS
    Slots,    \* primary keys of x_user_registrations rows
    Emails,   \* e-mail addresses a request may carry
    Names,    \* user names a request may carry
    NoToken   \* the empty string ""

ASSUME RegistrationAssumption ==
    /\ Emails # {} /\ Names # {}
    /\ Emails \cap Names = {}
    /\ NoToken \notin Slots

VARIABLES
    used,      \* slots holding a row (deleted or not)
    email,     \* email[s]: the row's Email column
    uname,     \* uname[s]: the row's Username column
    status,    \* status[s]: 0 pending, 1 verified, 2 registered, -1 rejected
    late,      \* rows whose ExpiresAt has passed
    deleted,   \* soft-deleted rows
    users,     \* user names of the accounts Approve created
    lastCall   \* the request served by the last step and whether it succeeded

regVars == <<used, email, uname, status, late, deleted, users, lastCall>>

vars == <<regVars, codeVars>>

Strings == Emails \cup Names

Calls == [op : {"none", "create", "verify", "approve", "reject", "clean"}, ok : BOOLEAN]

\* The request served and whether it returned success.
Reply(op, ok) == [op |-> op, ok |-> ok]

TypeOK ==
    /\ CodesTypeOK
    /\ used \subseteq Slots
    /\ email \in [Slots -> Strings]
    /\ uname \in [Slots -> Strings]
    /\ status \in [Slots -> {-1, 0, 1, 2}]
    /\ late \subseteq used
    /\ deleted \subseteq used
    /\ users \subseteq Strings
    /\ lastCall \in Calls

Init ==
    /\ CodesInit
    /\ used = {}
    /\ email = [s \in Slots |-> CHOOSE e \in Emails : TRUE]
    /\ uname = [s \in Slots |-> CHOOSE n \in Names : TRUE]
    /\ status = [s \in Slots |-> 0]
    /\ late = {}
    /\ deleted = {}
    /\ users = {}
    /\ lastCall = Reply("none", FALSE)

-----------------------------------------------------------------------------

Live == used \ deleted

\* generateToken: 32 random bytes, hex-encoded; never "" and, by the unique
\* index on Token, different for every row.  The slot stands for it.
Token(s) == s

\* db.GetUserRegistrationByToken: token = ? AND status = 0.
ByToken(t) == {s \in Live : Token(s) = t /\ status[s] = 0}

\* CreateUserRegistration's checks, in the code's order, for the arguments
\* it receives (em, un): GetUserByName(em), GetUserByName(un), a live
\* unexpired row with Email em, then the unique indexes of db.Create.
CreateRefused(em, un) ==
    \/ em \in users
    \/ un \in users
    \/ \E s \in Live : email[s] = em /\ s \notin late
    \/ \E s \in used : email[s] = em \/ uname[s] = un

\* Handler CreateRegistration passes (req.Username, req.Email) to
\* op.CreateUserRegistration(email, username, ...): the arguments swap.
CreateRegistration ==
    \E e \in Emails, n \in Names :
        LET em == n
            un == e
        IN \/ /\ CreateRefused(em, un)
              /\ lastCall' = Reply("create", FALSE)
              /\ UNCHANGED <<used, email, uname, status, late, deleted, users>>
           \/ /\ ~CreateRefused(em, un)
              /\ \E s \in Slots \ used :
                    /\ used' = used \cup {s}
                    /\ email' = [email EXCEPT ![s] = em]
                    /\ uname' = [uname EXCEPT ![s] = un]
                    /\ status' = [status EXCEPT ![s] = 0]
              /\ lastCall' = Reply("create", TRUE)
              /\ UNCHANGED <<late, deleted, users>>

\* VerifyUserRegistration(token): the pending row with that token, unless
\* expired, is saved with Status 1.
VerifyRegistration ==
    \E t \in Slots \cup {NoToken} :
        LET found == {s \in ByToken(t) : s \notin late} IN
        /\ status' = [s \in Slots |-> IF s \in found THEN 1 ELSE status[s]]
        /\ lastCall' = Reply("verify", found # {})
        /\ UNCHANGED <<used, email, uname, late, deleted, users>>

\* ApproveUserRegistration(id) ignores id and loads GetUserRegistrationByToken("");
\* a row found with Status 1 gets a user (CreateUser; its UserCredits row
\* is Ledger's) and Status 2.
ApproveRegistration ==
    LET found == {s \in ByToken(NoToken) : status[s] = 1} IN
    /\ status' = [s \in Slots |-> IF s \in found THEN 2 ELSE status[s]]
    /\ users' = users \cup {uname[s] : s \in found}
    /\ lastCall' = Reply("approve", found # {})
    /\ UNCHANGED <<used, email, uname, late, deleted>>

\* RejectUserRegistration(id): the same lookup, then Status -1.
RejectRegistration ==
    LET found == ByToken(NoToken) IN
    /\ status' = [s \in Slots |-> IF s \in found THEN -1 ELSE status[s]]
    /\ lastCall' = Reply("reject", found # {})
    /\ UNCHANGED <<used, email, uname, late, deleted, users>>

\* The 24 hours of a row run out.
Tick ==
    \E s \in Live :
        /\ s \notin late
        /\ late' = late \cup {s}
        /\ UNCHANGED <<used, email, uname, status, deleted, users, lastCall>>

\* db.CleanExpiredUserRegistrations: soft-delete the rows with
\* expires_at < now AND status = 0.
CleanExpiredRegistrations ==
    /\ deleted' = deleted \cup {s \in late \cap Live : status[s] = 0}
    /\ UNCHANGED <<used, email, uname, status, late, users>>

\* op.CleanExpiredData: the registrations, then the codes.  An error of the
\* first returns before the second runs; an error of the second leaves the
\* first committed.
CleanExpiredData ==
    \/ /\ CleanExpiredRegistrations
       /\ CleanExpiredCodes
       /\ lastCall' = Reply("clean", TRUE)
    \/ /\ faults < MaxFaults
       /\ faults' = faults + 1
       /\ lastCall' = Reply("clean", FALSE)
       /\ \/ UNCHANGED <<used, email, uname, status, late, deleted, users>>
          \/ CleanExpiredRegistrations
       /\ UNCHANGED <<codeCount, codeUsed, codeLate, codeDeleted, accepted,
                      verifier, requests>>

\* The registration requests, each leaving the code table alone.
RegistrationNext ==
    \/ CreateRegistration \/ VerifyRegistration \/ ApproveRegistration
    \/ RejectRegistration \/ Tick

Next ==
    \/ RegistrationNext /\ UNCHANGED codeVars
    \/ CodesNext /\ UNCHANGED regVars
    \/ CleanExpiredData

Spec == Init /\ [][Next]_vars

=============================================================================
