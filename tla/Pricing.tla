------------------------------ MODULE Pricing -------------------------------
(***************************************************************************)
(* Path pricing (src/unnamed/part_003 124-161, 336-382 and the handlers   *)
(* 436-507, 702-742; queries in src/unnamed/part_001 423-468).  A path is *)
(* a sequence of one-character strings, so that the LIKE pattern of       *)
(* GetInheritableCreditsConfig can be evaluated character by character.   *)
(* Rules are created and deleted by admin requests and read by download   *)
(* requests; each request is one atomic step.                              *)
(***************************************************************************)
EXTENDS Integers, Sequences, SequencesExt

CONSTANTS
    Paths,      \* the paths requests name (sequences of characters)
    Prices,     \* Credits values an admin may set
    MaxFaults   \* bound on failed queries

ASSUME PricingAssumption ==
    /\ Paths # {} /\ Paths \subseteq Seq(STRING)
    /\ Prices \subseteq Nat /\ MaxFaults \in Nat

VARIABLES
    rule,      \* rule[p]: the x_file_credits_configs row with Path p, or NoRule
    lastCall,  \* the request served by the last step and what it returned
    faults     \* failed queries so far

vars == <<rule, lastCall, faults>>

\* A FileCreditsConfig row as SetFileCreditsConfig creates it: IsFolder and
\* Credits from the request, Inheritable and Enabled left at their zero
\* value, which gorm replaces by the column default true.
Rule == [folder : BOOLEAN, credits : Prices]
NoRule == [folder |-> FALSE, credits |-> -1]

Calls == [op : {"none", "set", "delete", "download"}, path : Paths, price : Nat]

TypeOK ==
    /\ rule \in [Paths -> Rule \cup {NoRule}]
    /\ lastCall \in Calls
    /\ faults \in 0..MaxFaults

Init ==
    /\ rule = [p \in Paths |-> NoRule]
    /\ lastCall = [op |-> "none", path |-> CHOOSE p \in Paths : TRUE, price |-> 0]
    /\ faults = 0

-----------------------------------------------------------------------------
(* The lookup of op.GetFileCreditsConfig.                                 *)

HasRule(p) == rule[p] # NoRule

\* q LIKE CONCAT(p, '%'): p matches a prefix of q, where '_' in p stands
\* for any one character ('%' does not occur in the paths considered).
LikePrefix(q, p) ==
    /\ Len(p) <= Len(q)
    /\ \A i \in 1..Len(p) : p[i] = "_" \/ p[i] = q[i]

\* The rows the inheritance query's WHERE clause selects.
Inheritable(q) == {p \in Paths : HasRule(p) /\ rule[p].folder /\ LikePrefix(q, p)}

\* Fault variant: ORDER BY LENGTH(path) ASC.
ShortestFirst(q) ==
    {p \in Inheritable(q) : \A r \in Inheritable(q) : Len(p) <= Len(r)}

\* ORDER BY LENGTH(path) DESC ... First: a longest selected row (the
\* database picks any one of several of equal length).
LongestFirst(q) ==
    {p \in Inheritable(q) : \A r \in Inheritable(q) : Len(r) <= Len(p)}

\* The rows GetFileCreditsConfig(q) may return: the exact enabled rule,
\* else what GetInheritableCreditsConfig returns ({} is ErrRecordNotFound).
Lookup(q) == IF HasRule(q) THEN {q} ELSE LongestFirst(q)

\* CheckFileDownloadPermission's required credits: the row's Credits, and 0
\* ("free") when the lookup returns an error.
CodePrices(q) == IF Lookup(q) = {} THEN {0} ELSE {rule[p].credits : p \in Lookup(q)}

-----------------------------------------------------------------------------

\* Handler SetFileCreditsConfig -> op.SetFileCreditsConfig -> db.Create;
\* the unique index on Path refuses a second rule for the same path.
SetRule ==
    \E p \in Paths, f \in BOOLEAN, c \in Prices :
        /\ ~HasRule(p)
        /\ rule' = [rule EXCEPT ![p] = [folder |-> f, credits |-> c]]
        /\ lastCall' = [op |-> "set", path |-> p, price |-> c]
        /\ UNCHANGED faults

\* Handler DeleteFileCreditsConfig: GetFileCreditsConfig(path) (404 when it
\* finds nothing), then DeleteFileCreditsConfig(config.ID) on the row found.
DeleteRule ==
    \E p \in Paths :
        \E d \in Lookup(p) :
            /\ rule' = [rule EXCEPT ![d] = NoRule]
            /\ lastCall' = [op |-> "delete", path |-> p, price |-> 0]
            /\ UNCHANGED faults

\* Handlers CheckDownloadPermission / DeductCreditsForDownload ->
\* ProcessFileDownload: the download is allowed at the price the lookup
\* yields (the balance check and the deduction are Ledger's).
Download ==
    \E q \in Paths :
        \E c \in CodePrices(q) :
            /\ lastCall' = [op |-> "download", path |-> q, price |-> c]
            /\ UNCHANGED <<rule, faults>>

\* The lookup query fails with a storage error; CheckFileDownloadPermission
\* returns (true, 0, nil): the download is allowed for free.
DownloadLookupFails ==
    /\ faults < MaxFaults
    /\ \E q \in Paths :
          lastCall' = [op |-> "download", path |-> q, price |-> 0]
    /\ faults' = faults + 1
    /\ UNCHANGED rule

Next == SetRule \/ DeleteRule \/ Download \/ DownloadLookupFails

Spec == Init /\ [][Next]_vars

-----------------------------------------------------------------------------
(* The resolution spec 4.2 prescribes, and the properties.                 *)

\* Spec 4.2: the exact rule's credits; else those of the longest folder rule
\* whose path is a (character) prefix of q; else 0.
SpecFolderRules(q) == {p \in Paths : HasRule(p) /\ rule[p].folder /\ IsPrefix(p, q)}

SpecPrice(q) ==
    IF HasRule(q) THEN rule[q].credits
    ELSE IF SpecFolderRules(q) = {} THEN 0
    ELSE LET best == CHOOSE p \in SpecFolderRules(q) :
                         \A r \in SpecFolderRules(q) : Len(r) <= Len(p)
         IN rule[best].credits

\* Spec 4.2 / 8.5: whatever rules the admins have created and deleted, the
\* price GetFileCreditsConfig yields for every path is the longest-prefix price.
ResolveAgrees == \A q \in Paths : CodePrices(q) = {SpecPrice(q)}

\* Spec 4.1 (PricingRule keyed by exact path): deleting the rule of a path
\* through the admin handler removes that path's rule and no other.
DeleteOnlyNamed ==
    [][lastCall'.op = "delete" =>
          \A p \in Paths : rule'[p] # rule[p] => p = lastCall'.path]_vars

=============================================================================
