------------------------- MODULE RedemptionAbstract -------------------------
(***************************************************************************)
(* What the Redemption Engine promises (spec 4.3, 5), with no workers and  *)
(* no private copies: a redemption claims one use of an issued, usable     *)
(* code (the exclusivity point), then records one usage of a claimed use,  *)
(* then grants the credits of one recorded usage.  Each of the three is    *)
(* atomic; a redemption may stop after any of them (a partial failure),    *)
(* and nothing happens that no redemption asked for.                       *)
(***************************************************************************)
EXTENDS Naturals

CONSTANTS
    Codes,    \* code strings
    MaxUses   \* uses a code allows

VARIABLES
    issued,     \* codes that exist
    usedCount,  \* usedCount[c]: uses of c claimed
    usages,     \* usages[c]: usages of c recorded
    credited    \* credited[c]: grants made for usages of c

absVars == <<issued, usedCount, usages, credited>>

Init ==
    /\ issued = {}
    /\ usedCount = [c \in Codes |-> 0]
    /\ usages = [c \in Codes |-> 0]
    /\ credited = [c \in Codes |-> 0]

\* A new code is issued with no uses.
Issue ==
    \E c \in Codes \ issued :
        /\ issued' = issued \cup {c}
        /\ UNCHANGED <<usedCount, usages, credited>>

\* One use of an issued code with uses left is claimed.
Claim(c) ==
    /\ c \in issued
    /\ usedCount[c] < MaxUses
    /\ usedCount' = [usedCount EXCEPT ![c] = @ + 1]
    /\ UNCHANGED <<issued, usages, credited>>

\* A claimed use not yet recorded gets its usage record.
Record(c) ==
    /\ usages[c] < usedCount[c]
    /\ usages' = [usages EXCEPT ![c] = @ + 1]
    /\ UNCHANGED <<issued, usedCount, credited>>

\* A recorded usage not yet granted gets its credits.
Grant(c) ==
    /\ credited[c] < usages[c]
    /\ credited' = [credited EXCEPT ![c] = @ + 1]
    /\ UNCHANGED <<issued, usedCount, usages>>

Next == Issue \/ \E c \in Codes : Claim(c) \/ Record(c) \/ Grant(c)

Spec == Init /\ [][Next]_absVars

=============================================================================
