--------------------------- MODULE PricingProofs ----------------------------
(***************************************************************************)
(* Proofs about the pricing model: its types, and that the code's lookup  *)
(* yields the longest-prefix price of spec 4.2 whenever no path holds the *)
(* LIKE wildcard '_'.                                                      *)
(***************************************************************************)
EXTENDS Pricing, SequenceTheorems, WellFoundedInduction, TLAPS

-----------------------------------------------------------------------------
(* Type correctness.                                                       *)

\* A rule the lookup returns is a row, and its Credits a price.
LEMMA LookupRows ==
  ASSUME TypeOK, NEW q \in Paths
  PROVE  /\ Lookup(q) \subseteq Paths
         /\ \A p \in Lookup(q) : rule[p] \in Rule
<1>1. \A p \in Paths : HasRule(p) => rule[p] \in Rule
  BY DEF TypeOK, HasRule
<1>2. QED
  BY <1>1 DEF Lookup, LongestFirst, Inheritable

LEMMA CodePricesNat ==
  ASSUME TypeOK, NEW q \in Paths
  PROVE  CodePrices(q) \subseteq Nat
<1>1. \A p \in Lookup(q) : rule[p].credits \in Nat
  BY LookupRows, PricingAssumption DEF Rule
<1>2. QED
  BY <1>1 DEF CodePrices

LEMMA TypeInit == Init => TypeOK
  BY PricingAssumption DEF Init, TypeOK, Calls

LEMMA TypeStep == TypeOK /\ [Next]_vars => TypeOK'
<1> SUFFICES ASSUME TypeOK, [Next]_vars PROVE TypeOK'
  OBVIOUS
<1>1. CASE SetRule
  BY <1>1, PricingAssumption DEF SetRule, TypeOK, Rule, Calls
<1>2. CASE DeleteRule
  BY <1>2, LookupRows DEF DeleteRule, TypeOK, Calls
<1>3. CASE Download
  BY <1>3, CodePricesNat DEF Download, TypeOK, Calls
<1>4. CASE DownloadLookupFails
  BY <1>4, PricingAssumption DEF DownloadLookupFails, TypeOK, Calls
<1>5. CASE UNCHANGED vars
  BY <1>5 DEF vars, TypeOK
<1>6. QED
  BY <1>1, <1>2, <1>3, <1>4, <1>5 DEF Next

\* Every reachable state of the pricing model is well typed; in particular
\* every price a download is charged is a natural number.
THEOREM TypeCorrect == Spec => []TypeOK
  BY TypeInit, TypeStep, PTL DEF Spec

-----------------------------------------------------------------------------
(* Lemmas about prefixes and lengths.                                      *)

\* A nonempty set of naturals has a least element (< is well founded).
LEMMA NatSetHasMin ==
  ASSUME NEW T \in SUBSET Nat, T # {}
  PROVE  \E x \in T : \A y \in T : x <= y
<1>1. \E x \in T : \A y \in T : ~(<<y, x>> \in OpToRel(<, Nat))
  BY NatLessThanWellFounded, WFMin
<1>2. PICK x \in T : \A y \in T : ~(<<y, x>> \in OpToRel(<, Nat))
  BY <1>1
<1>3. ASSUME NEW y \in T PROVE x <= y
  <2>1. <<y, x>> \in Nat \X Nat
    OBVIOUS
  <2>2. ~(y < x)
    BY <1>2, <2>1 DEF OpToRel
  <2>3. QED
    BY <2>2
<1>4. QED
  BY <1>3

\* IsPrefix of SequencesExt, element by element.
LEMMA PrefixPointwise ==
  ASSUME NEW p \in Seq(STRING), NEW q \in Seq(STRING)
  PROVE  IsPrefix(p, q) <=> /\ Len(p) <= Len(q)
                            /\ \A i \in 1..Len(p) : p[i] = q[i]
<1>1. SubSeq(p, 1, Len(p)) = p
  BY SubSeqFull
<1>2. ASSUME Len(p) <= Len(q)
      PROVE  /\ SubSeq(q, 1, Len(p)) \in Seq(STRING)
             /\ Len(SubSeq(q, 1, Len(p))) = Len(p)
             /\ \A i \in 1..Len(p) : SubSeq(q, 1, Len(p))[i] = q[i]
  <2>1. \A i \in 1..Len(p) : q[i] \in STRING
    BY <1>2
  <2>2. QED
    BY <2>1, SubSeqProperties
<1>3. ASSUME Len(p) <= Len(q)
      PROVE  p = SubSeq(q, 1, Len(p)) <=> \A i \in 1..Len(p) : p[i] = q[i]
  BY <1>2, <1>3, SeqEqual
<1>4. QED
  BY <1>1, <1>3 DEF IsPrefix

\* The paths in which '_' occurs nowhere: for them LIKE CONCAT(p, '%')
\* is plain prefix matching.
NoWildcard == \A p \in Paths : \A i \in 1..Len(p) : p[i] # "_"

\* Without wildcards the inheritance query selects exactly the folder rules
\* spec 4.2 considers.
LEMMA InheritableIsSpec ==
  ASSUME NoWildcard, NEW q \in Paths
  PROVE  Inheritable(q) = SpecFolderRules(q)
<1>1. ASSUME NEW p \in Paths PROVE LikePrefix(q, p) <=> IsPrefix(p, q)
  BY PrefixPointwise, PricingAssumption, NoWildcard DEF LikePrefix, NoWildcard
<1>2. QED
  BY <1>1 DEF Inheritable, SpecFolderRules

\* Two prefixes of q of one length are the same path.
LEMMA PrefixUnique ==
  ASSUME NEW q \in Seq(STRING), NEW p1 \in Seq(STRING), NEW p2 \in Seq(STRING),
         IsPrefix(p1, q), IsPrefix(p2, q), Len(p1) = Len(p2)
  PROVE  p1 = p2
<1>1. \A i \in 1..Len(p1) : p1[i] = q[i] /\ p2[i] = q[i]
  BY PrefixPointwise
<1>2. QED
  BY <1>1, SeqEqual

-----------------------------------------------------------------------------
(* The code's lookup yields the price of spec 4.2.                         *)

\* The folder rules above q have a longest one.
LEMMA LongestExists ==
  ASSUME NEW q \in Paths, SpecFolderRules(q) # {}
  PROVE  \E p \in SpecFolderRules(q) : \A r \in SpecFolderRules(q) : Len(r) <= Len(p)
<1> DEFINE S == SpecFolderRules(q)
           T == {Len(q) - Len(p) : p \in S}
<1>1. \A p \in S : p \in Seq(STRING) /\ Len(p) <= Len(q)
  BY PricingAssumption DEF SpecFolderRules, IsPrefix
<1>2. T \in SUBSET Nat /\ T # {}
  BY <1>1, PricingAssumption
<1>3. PICK x \in T : \A y \in T : x <= y
  BY <1>2, NatSetHasMin
<1>4. PICK p \in S : x = Len(q) - Len(p)
  BY <1>3
<1>5. ASSUME NEW r \in S PROVE Len(r) <= Len(p)
  <2>1. Len(q) - Len(r) \in T
    OBVIOUS
  <2>2. x <= Len(q) - Len(r)
    BY <1>3, <2>1
  <2>3. Len(q) \in Nat /\ Len(r) \in Nat /\ Len(p) \in Nat
    BY <1>1, PricingAssumption
  <2>4. QED
    BY <1>4, <2>2, <2>3
<1>6. QED
  BY <1>5

\* In any state whose rows are well typed, every path's code price is its
\* spec price, when no path holds '_'.
LEMMA ResolveState ==
  ASSUME TypeOK, NoWildcard
  PROVE  ResolveAgrees
<1> SUFFICES ASSUME NEW q \in Paths PROVE CodePrices(q) = {SpecPrice(q)}
  BY DEF ResolveAgrees
<1> DEFINE S == SpecFolderRules(q)
           best == CHOOSE p \in S : \A r \in S : Len(r) <= Len(p)
<1>1. Inheritable(q) = S
  BY InheritableIsSpec
<1>2. CASE HasRule(q)
  BY <1>2 DEF CodePrices, Lookup, SpecPrice
<1>3. CASE ~HasRule(q) /\ S = {}
  <2>1. Lookup(q) = {}
    BY <1>1, <1>3 DEF Lookup, LongestFirst
  <2>2. QED
    BY <1>3, <2>1 DEF CodePrices, SpecPrice
<1>4. CASE ~HasRule(q) /\ S # {}
  <2>1. best \in S /\ \A r \in S : Len(r) <= Len(best)
    BY <1>4, LongestExists
  <2>2. \A p \in S : p \in Seq(STRING) /\ IsPrefix(p, q)
    BY PricingAssumption DEF SpecFolderRules
  <2>3. ASSUME NEW p \in LongestFirst(q) PROVE p = best
    <3>1. p \in S /\ Len(p) = Len(best)
      BY <1>1, <2>1, <2>2 DEF LongestFirst
    <3>2. QED
      BY <2>1, <2>2, <3>1, PrefixUnique, PricingAssumption
  <2>4. Lookup(q) = {best}
    BY <1>1, <1>4, <2>1, <2>3 DEF Lookup, LongestFirst
  <2>5. QED
    BY <1>4, <2>4 DEF CodePrices, SpecPrice
<1>5. QED
  BY <1>2, <1>3, <1>4

\* ResolveAgrees, for any paths without '_', prices and failures: whatever
\* rules the admins have created and deleted, GetFileCreditsConfig (the
\* exact rule, else the first row of the inheritance query ordered by
\* LENGTH(path) DESC) prices every path at its longest-prefix price, even
\* when the database breaks a tie arbitrarily, since two folder rules
\* above one path never have the same length.  (With '_' it fails: the
\* LIKE wildcard divergence.)
THEOREM ResolveAgreesHolds ==
  ASSUME NoWildcard
  PROVE  Spec => []ResolveAgrees
<1>1. TypeOK => ResolveAgrees
  BY ResolveState
<1>2. QED
  BY <1>1, TypeCorrect, PTL

=============================================================================
