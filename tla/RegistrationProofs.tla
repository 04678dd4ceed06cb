------------------------- MODULE RegistrationProofs -------------------------
(***************************************************************************)
(* Proofs about the registration model and its verification codes, for    *)
(* every value of the constants.                                           *)
(***************************************************************************)
EXTENDS Registration, TLAPS

-----------------------------------------------------------------------------
(* Type correctness.                                                       *)

LEMMA IdleVerifierType == IdleVerifier \in Verifier
  BY CodesAssumption DEF IdleVerifier, Verifier, CodeIds

LEMMA TypeInit == Init => TypeOK
<1> SUFFICES ASSUME Init PROVE TypeOK
  OBVIOUS
<1>1. (CHOOSE e \in Emails : TRUE) \in Strings /\ (CHOOSE n \in Names : TRUE) \in Strings
  BY RegistrationAssumption DEF Strings
<1>2. CodesTypeOK
  BY IdleVerifierType, CodesAssumption DEF Init, CodesInit, CodesTypeOK, CodeIds
<1>3. QED
  BY <1>1, <1>2 DEF Init, TypeOK, Calls, Reply

\* The code table's types are kept by the steps of the codes.
LEMMA CodesTypeStep ==
  ASSUME CodesTypeOK, CodesNext PROVE CodesTypeOK'
<1> USE DEF CodesTypeOK, Verifier, CodeIds
<1>1. CASE SendCode
  BY <1>1, CodesAssumption DEF SendCode
<1>2. CASE CodeExpires
  BY <1>2, CodesAssumption DEF CodeExpires
<1>3. ASSUME NEW w \in Workers, CallVerifyCode(w) PROVE CodesTypeOK'
  BY <1>3, CodesAssumption DEF CallVerifyCode
<1>4. ASSUME NEW w \in Workers, ReadCode(w) PROVE CodesTypeOK'
  BY <1>4, IdleVerifierType DEF ReadCode
<1>5. ASSUME NEW w \in Workers, SaveCode(w) PROVE CodesTypeOK'
  <2> DEFINE wk == verifier[w]
  <2>1. wk \in Verifier /\ wk.local \in CodeIds
    OBVIOUS
  <2>2. codeUsed' = codeUsed \cup {wk.local}
        /\ accepted' = [accepted EXCEPT ![wk.local] = @ + 1]
        /\ verifier' = [verifier EXCEPT ![w] = IdleVerifier]
        /\ codeCount' = codeCount /\ codeLate' = codeLate
        /\ codeDeleted' = codeDeleted /\ requests' = requests /\ faults' = faults
    BY <1>5 DEF SaveCode
  <2>3. accepted' \in [CodeIds -> Nat]
    BY <2>1, <2>2
  <2>4. verifier' \in [Workers -> Verifier]
    BY <2>2, IdleVerifierType
  <2>5. codeUsed' \subseteq CodeIds
    BY <2>1, <2>2
  <2>6. QED
    BY <2>2, <2>3, <2>4, <2>5
<1>6. ASSUME NEW w \in Workers, FailCodeCall(w) PROVE CodesTypeOK'
  BY <1>6, IdleVerifierType, CodesAssumption DEF FailCodeCall
<1>7. QED
  BY <1>1, <1>2, <1>3, <1>4, <1>5, <1>6 DEF CodesNext

LEMMA TypeStep == TypeOK /\ [Next]_vars => TypeOK'
<1> SUFFICES ASSUME TypeOK, [Next]_vars PROVE TypeOK'
  OBVIOUS
<1>1. CASE RegistrationNext /\ UNCHANGED codeVars
  <2>1. CodesTypeOK'
    BY <1>1 DEF TypeOK, CodesTypeOK, codeVars
  <2>2. CASE CreateRegistration
    <3>1. PICK e \in Emails, n \in Names :
            \/ /\ CreateRefused(n, e)
               /\ lastCall' = Reply("create", FALSE)
               /\ UNCHANGED <<used, email, uname, status, late, deleted, users>>
            \/ /\ ~CreateRefused(n, e)
               /\ \E s \in Slots \ used :
                     /\ used' = used \cup {s}
                     /\ email' = [email EXCEPT ![s] = n]
                     /\ uname' = [uname EXCEPT ![s] = e]
                     /\ status' = [status EXCEPT ![s] = 0]
               /\ lastCall' = Reply("create", TRUE)
               /\ UNCHANGED <<late, deleted, users>>
      BY <2>2 DEF CreateRegistration
    <3>2. n \in Strings /\ e \in Strings
      BY DEF Strings
    <3>3. Reply("create", FALSE) \in Calls /\ Reply("create", TRUE) \in Calls
      BY DEF Calls, Reply
    <3>4. CASE CreateRefused(n, e)
      BY <2>1, <3>1, <3>3, <3>4 DEF TypeOK
    <3>5. CASE ~CreateRefused(n, e)
      <4>1. PICK s \in Slots \ used :
                     /\ used' = used \cup {s}
                     /\ email' = [email EXCEPT ![s] = n]
                     /\ uname' = [uname EXCEPT ![s] = e]
                     /\ status' = [status EXCEPT ![s] = 0]
        BY <3>1, <3>5
      <4>2. late' = late /\ deleted' = deleted /\ users' = users
            /\ lastCall' = Reply("create", TRUE)
        BY <3>1, <3>5
      <4>3. QED
        BY <2>1, <3>2, <3>3, <4>1, <4>2 DEF TypeOK
    <3>6. QED
      BY <3>4, <3>5
  <2>3. CASE VerifyRegistration
    BY <1>1, <2>1, <2>3 DEF VerifyRegistration, TypeOK, Calls, Reply
  <2>4. CASE ApproveRegistration
    BY <1>1, <2>1, <2>4 DEF ApproveRegistration, ByToken, Live, TypeOK, Calls, Reply
  <2>5. CASE RejectRegistration
    BY <1>1, <2>1, <2>5 DEF RejectRegistration, TypeOK, Calls, Reply
  <2>6. CASE Tick
    <3>1. PICK s \in Live : /\ late' = late \cup {s}
                            /\ UNCHANGED <<used, email, uname, status, deleted, users, lastCall>>
      BY <2>6 DEF Tick
    <3>2. s \in used
      BY DEF Live
    <3>3. QED
      BY <2>1, <3>1, <3>2 DEF TypeOK
  <2>7. QED
    BY <1>1, <2>2, <2>3, <2>4, <2>5, <2>6 DEF RegistrationNext
<1>2. CASE CodesNext /\ UNCHANGED regVars
  BY <1>2, CodesTypeStep DEF regVars, TypeOK
<1>3. CASE CleanExpiredData
  <2>1. Reply("clean", FALSE) \in Calls /\ Reply("clean", TRUE) \in Calls
    BY DEF Calls, Reply
  <2>2. CleanExpiredRegistrations => deleted' \subseteq used /\ used' = used
    BY DEF CleanExpiredRegistrations, Live, TypeOK
  <2>3. CASE /\ CleanExpiredRegistrations
             /\ CleanExpiredCodes
             /\ lastCall' = Reply("clean", TRUE)
    BY <2>1, <2>2, <2>3 DEF CleanExpiredRegistrations, CleanExpiredCodes,
       TypeOK, CodesTypeOK
  <2>4. CASE /\ faults < MaxFaults
             /\ faults' = faults + 1
             /\ lastCall' = Reply("clean", FALSE)
             /\ \/ UNCHANGED <<used, email, uname, status, late, deleted, users>>
                \/ CleanExpiredRegistrations
             /\ UNCHANGED <<codeCount, codeUsed, codeLate, codeDeleted, accepted,
                            verifier, requests>>
    <3>1. CodesTypeOK'
      BY <2>4, CodesAssumption DEF TypeOK, CodesTypeOK
    <3>2. CASE UNCHANGED <<used, email, uname, status, late, deleted, users>>
      BY <2>1, <2>4, <3>1, <3>2 DEF TypeOK
    <3>3. CASE CleanExpiredRegistrations
      BY <2>1, <2>2, <2>4, <3>1, <3>3 DEF CleanExpiredRegistrations, TypeOK
    <3>4. QED
      BY <2>4, <3>2, <3>3
  <2>5. QED
    BY <1>3, <2>3, <2>4 DEF CleanExpiredData
<1>4. CASE UNCHANGED vars
  BY <1>4 DEF vars, regVars, codeVars, TypeOK, CodesTypeOK
<1>5. QED
  BY <1>1, <1>2, <1>3, <1>4 DEF Next

\* Every reachable state of the registration model is well typed, for any
\* slots, e-mails, names, verifiers and bounds.
THEOREM TypeCorrect == Spec => []TypeOK
  BY TypeInit, TypeStep, PTL DEF Spec

=============================================================================
