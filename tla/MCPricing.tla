------------------------------ MODULE MCPricing ------------------------------
(* Small instances of Pricing for TLC.  The paths are short character      *)
(* sequences chosen so that folder rules nest ("/a" above "/a/b"), share a *)
(* character prefix without being ancestors ("/a" and "/ab").             *)
EXTENDS Pricing

PA == <<"/", "a">>
PAB == <<"/", "a", "b">>
PASB == <<"/", "a", "/", "b">>
PAS == <<"/", "a", "/">>
PB == <<"/", "b">>

MCPaths == {PA, PAS, PAB, PASB, PB}
MCPrices == {0, 2}
=============================================================================
