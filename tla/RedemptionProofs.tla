-------------------------- MODULE RedemptionProofs --------------------------
(***************************************************************************)
(* Proofs about the redeem-code model, for every value of the constants.   *)
(***************************************************************************)
EXTENDS Redemption, FiniteSetTheorems, TLAPS

-----------------------------------------------------------------------------
(* Type correctness.                                                       *)

\* The worker record every return of RedeemCode leaves.
LEMMA IdleType == Idle \in Worker
  BY RedemptionAssumption DEF Idle, Worker, PCs, MaxUses

\* The initial state is well typed.
LEMMA TypeInit == Init => TypeOK
  BY IdleType, RedemptionAssumption DEF Init, TypeOK, MaxUses

\* Every step preserves the types.
LEMMA TypeStep == TypeOK /\ [Next]_vars => TypeOK'
<1> SUFFICES ASSUME TypeOK, [Next]_vars PROVE TypeOK'
  OBVIOUS
<1> USE DEF TypeOK, Worker, PCs, MaxUses
<1>1. CASE Generate
  BY <1>1 DEF Generate
<1>2. ASSUME NEW w \in Workers, Call(w) PROVE TypeOK'
  BY <1>2, RedemptionAssumption DEF Call
<1>3. ASSUME NEW w \in Workers, ReadCode(w) PROVE TypeOK'
  <2>1. CanUse(worker[w].code) => usedCount[worker[w].code] + 1 \in 0..MaxUses
    BY DEF CanUse
  <2>2. QED
    BY <1>3, <2>1, IdleType DEF ReadCode
<1>4. ASSUME NEW w \in Workers, SaveCode(w) PROVE TypeOK'
  BY <1>4 DEF SaveCode
<1>5. ASSUME NEW w \in Workers, RecordUsage(w) PROVE TypeOK'
  BY <1>5 DEF RecordUsage
<1>6. ASSUME NEW w \in Workers, Credit(w) PROVE TypeOK'
  BY <1>6, IdleType DEF Credit
<1>7. ASSUME NEW w \in Workers, FailCall(w) PROVE TypeOK'
  BY <1>7, IdleType, RedemptionAssumption DEF FailCall
<1>8. CASE UNCHANGED vars
  BY <1>8 DEF vars
<1>9. QED
  BY <1>1, <1>2, <1>3, <1>4, <1>5, <1>6, <1>7, <1>8 DEF Next

\* Every reachable state of the redeem model is well typed, for any codes,
\* workers and bounds: in particular UsedCount stays within 0..MaxUses as
\* the rows Save writes are built from CanUse-checked copies.
THEOREM TypeCorrect == Spec => []TypeOK
  BY TypeInit, TypeStep, PTL DEF Spec

-----------------------------------------------------------------------------
(* Every credit is backed by a usage record, for any number of workers.    *)

\* The requests that have recorded a usage of c and are about to call
\* AddCredits for it.
InFlight(c) == {w \in Workers : worker[w].pc = "credit" /\ worker[w].code = c}

\* CreditBackedByUsage is not inductive: a usage is recorded one step
\* before its credit, so the credits still owed are counted in.
CreditInv ==
    /\ TypeOK
    /\ \A c \in Codes : credited[c] + Cardinality(InFlight(c)) <= usages[c]

\* The requests in flight are a finite set.
LEMMA InFlightFinite ==
  ASSUME NEW c
  PROVE  IsFiniteSet(InFlight(c)) /\ Cardinality(InFlight(c)) \in Nat
<1>1. InFlight(c) \subseteq Workers
  BY DEF InFlight
<1>2. IsFiniteSet(InFlight(c))
  BY <1>1, RedemptionAssumption, FS_Subset
<1>3. QED
  BY <1>2, FS_CardinalityType

\* A step of worker w changes the requests in flight by w alone.
LEMMA InFlightFrame ==
  ASSUME NEW w \in Workers, NEW c,
         \A v \in Workers \ {w} : worker'[v] = worker[v]
  PROVE  InFlight(c)' =
            (InFlight(c) \ {w}) \cup
            {v \in {w} : worker'[v].pc = "credit" /\ worker'[v].code = c}
  BY DEF InFlight

\* A step that leaves w out of flight removes w from the requests in
\* flight, if it was there.
LEMMA InFlightShrinks ==
  ASSUME NEW w \in Workers, NEW c,
         \A v \in Workers \ {w} : worker'[v] = worker[v],
         worker'[w].pc # "credit"
  PROVE  /\ IsFiniteSet(InFlight(c)')
         /\ Cardinality(InFlight(c)') =
               IF w \in InFlight(c) THEN Cardinality(InFlight(c)) - 1
                                    ELSE Cardinality(InFlight(c))
<1>1. InFlight(c)' = InFlight(c) \ {w}
  BY InFlightFrame
<1>2. IsFiniteSet(InFlight(c))
  BY InFlightFinite
<1>3. /\ IsFiniteSet(InFlight(c) \ {w})
      /\ Cardinality(InFlight(c) \ {w}) =
            IF w \in InFlight(c) THEN Cardinality(InFlight(c)) - 1
                                 ELSE Cardinality(InFlight(c))
  BY <1>2, FS_RemoveElement
<1>4. QED
  BY <1>1, <1>3

\* The initial state satisfies the invariant: nothing is in flight.
LEMMA CreditInvInit == Init => CreditInv
<1> SUFFICES ASSUME Init PROVE CreditInv
  OBVIOUS
<1>1. TypeOK
  BY TypeInit
<1>2. ASSUME NEW c \in Codes PROVE InFlight(c) = {}
  BY RedemptionAssumption DEF Init, InFlight, Idle
<1>3. QED
  BY <1>1, <1>2, FS_EmptySet DEF Init, CreditInv

\* Every step preserves the invariant.
LEMMA CreditInvStep == CreditInv /\ [Next]_vars => CreditInv'
<1> SUFFICES ASSUME CreditInv, [Next]_vars PROVE CreditInv'
  OBVIOUS
<1> DEFINE Backed(c) == credited[c] + Cardinality(InFlight(c)) <= usages[c]
<1>0. TypeOK'
  BY TypeStep DEF CreditInv
<1>1. ASSUME NEW c \in Codes PROVE Cardinality(InFlight(c)) \in Nat
  BY InFlightFinite
\* A step that moves w between two places other than "credit" and keeps
\* both counters keeps every count.
<1>2. ASSUME NEW w \in Workers,
             \A v \in Workers \ {w} : worker'[v] = worker[v],
             worker[w].pc # "credit", worker'[w].pc # "credit",
             UNCHANGED <<credited, usages>>
      PROVE  CreditInv'
  <2>1. ASSUME NEW c \in Codes PROVE Backed(c)'
    <3>1. w \notin InFlight(c)
      BY <1>2 DEF InFlight
    <3>2. Cardinality(InFlight(c)') = Cardinality(InFlight(c))
      BY <1>2, <3>1, InFlightShrinks
    <3>3. QED
      BY <1>2, <3>2 DEF CreditInv
  <2>2. QED
    BY <1>0, <2>1 DEF CreditInv
<1>3. CASE Generate \/ UNCHANGED vars
  <2>1. InFlight(Codes)' = InFlight(Codes) /\ \A c \in Codes : InFlight(c)' = InFlight(c)
    BY <1>3 DEF Generate, vars, InFlight
  <2>2. QED
    BY <1>0, <1>3, <2>1 DEF Generate, vars, CreditInv
<1>4. ASSUME NEW w \in Workers, Call(w) PROVE CreditInv'
  BY <1>4, <1>2 DEF Call, CreditInv, TypeOK
<1>5. ASSUME NEW w \in Workers, ReadCode(w) PROVE CreditInv'
  BY <1>5, <1>2 DEF ReadCode, Idle, CreditInv, TypeOK
<1>6. ASSUME NEW w \in Workers, SaveCode(w) PROVE CreditInv'
  BY <1>6, <1>2 DEF SaveCode, CreditInv, TypeOK
<1>7. ASSUME NEW w \in Workers, RecordUsage(w) PROVE CreditInv'
  <2> DEFINE c0 == worker[w].code
  <2>1. c0 \in Codes /\ worker[w].pc = "usage" /\ worker'[w].pc = "credit"
        /\ worker'[w].code = c0
        /\ \A v \in Workers \ {w} : worker'[v] = worker[v]
    BY <1>7 DEF RecordUsage, CreditInv, TypeOK, Worker
  <2>2. ASSUME NEW c \in Codes PROVE Backed(c)'
    <3>1. w \notin InFlight(c)
      BY <2>1 DEF InFlight
    <3>2. CASE c = c0
      <4>1. InFlight(c)' = InFlight(c) \cup {w}
        BY <2>1, <3>2, InFlightFrame
      <4>2. Cardinality(InFlight(c)') = Cardinality(InFlight(c)) + 1
        BY <3>1, <4>1, InFlightFinite, FS_AddElement
      <4>3. usages'[c] = usages[c] + 1 /\ credited'[c] = credited[c]
        BY <1>7, <3>2 DEF RecordUsage, CreditInv, TypeOK
      <4>4. QED
        BY <1>1, <4>2, <4>3 DEF CreditInv, TypeOK
    <3>3. CASE c # c0
      <4>1. InFlight(c)' = InFlight(c)
        <5>1. InFlight(c)' =
                 (InFlight(c) \ {w}) \cup
                 {v \in {w} : worker'[v].pc = "credit" /\ worker'[v].code = c}
          BY <2>1, InFlightFrame
        <5>2. {v \in {w} : worker'[v].pc = "credit" /\ worker'[v].code = c} = {}
          BY <2>1, <3>3
        <5>3. QED
          BY <3>1, <5>1, <5>2
      <4>2. usages'[c] = usages[c] /\ credited'[c] = credited[c]
        BY <1>7, <3>3 DEF RecordUsage, CreditInv, TypeOK
      <4>3. QED
        BY <4>1, <4>2 DEF CreditInv
    <3>4. QED
      BY <3>2, <3>3
  <2>3. QED
    BY <1>0, <2>2 DEF CreditInv
<1>8. ASSUME NEW w \in Workers, Credit(w) PROVE CreditInv'
  <2> DEFINE c0 == worker[w].code
  <2>1. c0 \in Codes /\ worker'[w].pc = "idle"
        /\ \A v \in Workers \ {w} : worker'[v] = worker[v]
    BY <1>8, RedemptionAssumption DEF Credit, Idle, CreditInv, TypeOK, Worker
  <2>2. w \in InFlight(c0)
    BY <1>8 DEF Credit, InFlight
  <2>3. ASSUME NEW c \in Codes PROVE Backed(c)'
    <3>1. CASE c = c0
      <4>1. Cardinality(InFlight(c)') = Cardinality(InFlight(c)) - 1
        BY <2>1, <2>2, <3>1, InFlightShrinks
      <4>2. usages'[c] = usages[c] /\ credited'[c] = credited[c] + 1
        BY <1>8, <3>1 DEF Credit, CreditInv, TypeOK
      <4>3. QED
        BY <1>1, <4>1, <4>2 DEF CreditInv, TypeOK
    <3>2. CASE c # c0
      <4>1. Cardinality(InFlight(c)') <= Cardinality(InFlight(c))
        BY <2>1, InFlightShrinks, <1>1
      <4>2. usages'[c] = usages[c] /\ credited'[c] = credited[c]
        BY <1>8, <3>2 DEF Credit, CreditInv, TypeOK
      <4>3. Cardinality(InFlight(c)') \in Nat
        BY <2>1, InFlightShrinks, FS_CardinalityType
      <4>4. QED
        BY <1>1, <4>1, <4>2, <4>3 DEF CreditInv, TypeOK
    <3>3. QED
      BY <3>1, <3>2
  <2>4. QED
    BY <1>0, <2>3 DEF CreditInv
<1>9. ASSUME NEW w \in Workers, FailCall(w) PROVE CreditInv'
  <2>1. /\ worker'[w].pc = "idle"
        /\ \A v \in Workers \ {w} : worker'[v] = worker[v]
        /\ credited' = credited /\ usages' = usages
    BY <1>9, RedemptionAssumption DEF FailCall, Idle, CreditInv, TypeOK
  <2>2. ASSUME NEW c \in Codes PROVE Backed(c)'
    <3>1. Cardinality(InFlight(c)') <= Cardinality(InFlight(c))
      BY <2>1, InFlightShrinks, <1>1
    <3>2. Cardinality(InFlight(c)') \in Nat
      BY <2>1, InFlightShrinks, FS_CardinalityType
    <3>3. credited'[c] = credited[c] /\ usages'[c] = usages[c]
      BY <2>1
    <3>4. credited[c] + Cardinality(InFlight(c)) <= usages[c]
          /\ credited[c] \in Nat /\ usages[c] \in Nat
      BY DEF CreditInv, TypeOK
    <3>5. QED
      BY <1>1, <3>1, <3>2, <3>3, <3>4
  <2>3. QED
    BY <1>0, <2>2 DEF CreditInv
<1>10. QED
  BY <1>3, <1>4, <1>5, <1>6, <1>7, <1>8, <1>9 DEF Next

\* CreditBackedByUsage holds in every reachable state, for any finite set
\* of concurrent RedeemCode requests and any failures: AddCredits is only
\* reached after CreateRedeemCodeUsage of the same code has succeeded.
THEOREM CreditBackedByUsageHolds == Spec => []CreditBackedByUsage
<1>1. CreditInv => CreditBackedByUsage
  <2> SUFFICES ASSUME CreditInv, NEW c \in Codes PROVE credited[c] <= usages[c]
    BY DEF CreditBackedByUsage
  <2>1. Cardinality(InFlight(c)) \in Nat
    BY InFlightFinite
  <2>2. QED
    BY <2>1 DEF CreditInv, TypeOK
<1>2. QED
  BY <1>1, CreditInvInit, CreditInvStep, PTL DEF Spec

-----------------------------------------------------------------------------
(* Calls on one code do not overlap: the counters stay ordered, a code is  *)
(* redeemed at most MaxUses times, and the redeem handler implements       *)
(* RedemptionAbstract, however calls on different codes interleave.        *)

\* Two calls in progress work on different codes.
LEMMA DistinctCodes ==
  ASSUME OneCallPerCode, NEW v \in Workers, NEW w \in Workers, v # w,
         worker[v].pc # "idle", worker[w].pc # "idle"
  PROVE  worker[v].code # worker[w].code
  BY DEF OneCallPerCode

\* The counters of a code are ordered.
CodeOK(c) == usages[c] <= usedCount[c] /\ credited[c] <= usages[c]

\* What each place of a RedeemCode call knows of its code's counters: the
\* copy read before Save is still current, and the step it is about to
\* take is one its code has room for.
InFlightOK(w) ==
    LET wk == worker[w] IN
    /\ wk.pc = "save" => /\ wk.code \in issued
                         /\ usedCount[wk.code] < MaxUses
                         /\ wk.local = usedCount[wk.code] + 1
    /\ wk.pc = "usage" => usages[wk.code] < usedCount[wk.code]
    /\ wk.pc = "credit" => credited[wk.code] < usages[wk.code]

CodeInv ==
    /\ TypeOK
    /\ \A c \in Codes : CodeOK(c)
    /\ \A w \in Workers : InFlightOK(w)

LEMMA CodeInvInit == Init => CodeInv
  BY TypeInit, RedemptionAssumption DEF Init, CodeInv, CodeOK, InFlightOK, Idle

LEMMA CodeInvStep == CodeInv /\ OneCallPerCode /\ [Next]_vars => CodeInv'
<1> SUFFICES ASSUME CodeInv, OneCallPerCode, [Next]_vars PROVE CodeInv'
  OBVIOUS
<1>0. TypeOK'
  BY TypeStep DEF CodeInv
<1>a. TypeOK /\ \A c \in Codes : CodeOK(c) /\ \A w \in Workers : InFlightOK(w)
  BY DEF CodeInv
<1> SUFFICES /\ \A c \in Codes : CodeOK(c)'
             /\ \A w \in Workers : InFlightOK(w)'
  BY <1>0 DEF CodeInv
<1> USE DEF TypeOK, Worker, PCs, MaxUses
<1>b. Idle.pc = "idle"
  BY DEF Idle
<1>1. CASE Generate
  BY <1>1, <1>a DEF Generate, CodeOK, InFlightOK
<1>2. ASSUME NEW v \in Workers, Call(v) \/ ReadCode(v) \/ FailCall(v)
      PROVE  /\ \A c \in Codes : CodeOK(c)'
             /\ \A w \in Workers : InFlightOK(w)'
  <2>1. UNCHANGED <<issued, usedCount, usages, credited>>
    BY <1>2 DEF Call, ReadCode, FailCall
  <2>2. \A w \in Workers \ {v} : worker'[w] = worker[w]
    BY <1>2, <1>a DEF Call, ReadCode, FailCall
  <2>3. InFlightOK(v)'
    <3>1. CASE Call(v) \/ FailCall(v)
      BY <3>1, <1>a, <1>b DEF Call, FailCall, InFlightOK
    <3>2. CASE ReadCode(v)
      BY <3>2, <1>a, <1>b, RedemptionAssumption DEF ReadCode, CanUse, InFlightOK
    <3>3. QED
      BY <1>2, <3>1, <3>2
  <2>4. QED
    BY <2>1, <2>2, <2>3, <1>a DEF CodeOK, InFlightOK
<1>3. ASSUME NEW v \in Workers, SaveCode(v) \/ RecordUsage(v) \/ Credit(v)
      PROVE  /\ \A c \in Codes : CodeOK(c)'
             /\ \A w \in Workers : InFlightOK(w)'
  <2> DEFINE c0 == worker[v].code
  <2>1. worker[v].pc \in {"save", "usage", "credit"} /\ c0 \in Codes
    BY <1>3, <1>a DEF SaveCode, RecordUsage, Credit
  <2>2. \A c \in Codes \ {c0} :
           /\ usedCount'[c] = usedCount[c] /\ usages'[c] = usages[c]
           /\ credited'[c] = credited[c]
    BY <1>3, <1>a DEF SaveCode, RecordUsage, Credit
  <2>3. issued' = issued /\ \A w \in Workers \ {v} : worker'[w] = worker[w]
    BY <1>3, <1>a DEF SaveCode, RecordUsage, Credit
  <2>4. ASSUME NEW w \in Workers \ {v}, worker[w].pc # "idle"
        PROVE  worker[w].code # c0
    BY <2>1, <2>4, DistinctCodes
  <2>5. \A w \in Workers \ {v} : InFlightOK(w)'
    BY <2>2, <2>3, <2>4, <1>a DEF InFlightOK
  <2>6. CASE SaveCode(v)
    <3>1. /\ usedCount' = [usedCount EXCEPT ![c0] = worker[v].local]
          /\ worker'[v] = [worker[v] EXCEPT !.pc = "usage"]
          /\ UNCHANGED <<usages, credited>>
      BY <2>6, <1>a DEF SaveCode
    <3>2. worker[v].pc = "save"
      BY <2>6 DEF SaveCode
    <3>3. QED
      BY <2>5, <3>1, <3>2, <1>a DEF CodeOK, InFlightOK
  <2>7. CASE RecordUsage(v)
    <3>1. /\ usages' = [usages EXCEPT ![c0] = @ + 1]
          /\ worker'[v] = [worker[v] EXCEPT !.pc = "credit"]
          /\ UNCHANGED <<usedCount, credited>>
      BY <2>7, <1>a DEF RecordUsage
    <3>2. worker[v].pc = "usage"
      BY <2>7 DEF RecordUsage
    <3>3. QED
      BY <2>5, <3>1, <3>2, <1>a DEF CodeOK, InFlightOK
  <2>8. CASE Credit(v)
    <3>1. /\ credited' = [credited EXCEPT ![c0] = @ + 1]
          /\ worker'[v] = Idle
          /\ UNCHANGED <<usedCount, usages>>
      BY <2>8, <1>a DEF Credit
    <3>2. worker[v].pc = "credit"
      BY <2>8 DEF Credit
    <3>3. QED
      BY <2>5, <3>1, <3>2, <1>a, <1>b DEF CodeOK, InFlightOK
  <2>9. QED
    BY <1>3, <2>6, <2>7, <2>8
<1>4. CASE UNCHANGED vars
  BY <1>4, <1>a DEF vars, CodeOK, InFlightOK
<1>5. QED
  BY <1>1, <1>2, <1>3, <1>4 DEF Next

\* Every step of the model is a step of the abstract specification or
\* leaves its counters alone.
LEMMA RefinementStep ==
  CodeInv /\ [Next]_vars => [Abs!Next]_(Abs!absVars)
<1> SUFFICES ASSUME CodeInv, [Next]_vars PROVE [Abs!Next]_(Abs!absVars)
  OBVIOUS
<1> USE DEF CodeInv, InFlightOK, TypeOK, Worker, PCs, MaxUses, Abs!absVars
<1>1. CASE Generate
  BY <1>1 DEF Generate, Abs!Next, Abs!Issue
<1>2. ASSUME NEW w \in Workers, Call(w) \/ ReadCode(w) \/ FailCall(w)
      PROVE  UNCHANGED Abs!absVars
  BY <1>2 DEF Call, ReadCode, FailCall
<1>3. ASSUME NEW w \in Workers, SaveCode(w) PROVE Abs!Claim(worker[w].code)
  BY <1>3 DEF SaveCode, Abs!Claim
<1>4. ASSUME NEW w \in Workers, RecordUsage(w) PROVE Abs!Record(worker[w].code)
  BY <1>4 DEF RecordUsage, Abs!Record
<1>5. ASSUME NEW w \in Workers, Credit(w) PROVE Abs!Grant(worker[w].code)
  BY <1>5 DEF Credit, Abs!Grant
<1>6. ASSUME NEW w \in Workers PROVE worker[w].code \in Codes
  OBVIOUS
<1>7. CASE UNCHANGED vars
  BY <1>7 DEF vars
<1>8. QED
  BY <1>1, <1>2, <1>3, <1>4, <1>5, <1>6, <1>7 DEF Next, Abs!Next

\* RedemptionRefines, provided calls on one code do not overlap: whatever
\* calls fail and however calls on different codes interleave, the redeem
\* handler's read / Save / CreateRedeemCodeUsage / AddCredits sequence
\* implements atomic claim, record and grant steps, so that no code is
\* claimed beyond MaxUses and nothing is recorded or granted that was not
\* claimed first.  (Overlapping calls on one code break it: redeem_over.)
THEOREM RefinementPerCode == Spec /\ []OneCallPerCode => RedemptionRefines
<1>1. Init => Abs!Init
  BY DEF Init, Abs!Init
<1>2. QED
  BY <1>1, CodeInvInit, CodeInvStep, RefinementStep, PTL
     DEF Spec, RedemptionRefines, Abs!Spec

\* Provided calls on one code do not overlap, a code is redeemed at most
\* MaxUses times, however calls on other codes interleave: the CanUse check
\* on the copy read is still true when Save writes it back.  (Overlapping
\* calls on one code break it: redeem_over.)
THEOREM UsesWithinMaxPerCode == Spec /\ []OneCallPerCode => []UsesWithinMax
<1>1. CodeInv => UsesWithinMax
  BY DEF CodeInv, CodeOK, TypeOK, UsesWithinMax, MaxUses
<1>2. QED
  BY <1>1, CodeInvInit, CodeInvStep, PTL DEF Spec

\* Under the same discipline, UsedCount accounts for every usage row:
\* CreateRedeemCodeUsage runs only after the Save of the incremented count,
\* and a failed Save ends the call.
THEOREM CountCoversUsagesPerCode == Spec /\ []OneCallPerCode => []CountCoversUsages
<1>1. CodeInv => CountCoversUsages
  BY DEF CodeInv, CodeOK, CountCoversUsages
<1>2. QED
  BY <1>1, CodeInvInit, CodeInvStep, PTL DEF Spec

=============================================================================
