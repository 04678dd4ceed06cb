--------------------------- MODULE MCRegistration ---------------------------
(* Small instances of Registration, with its code table, for TLC.          *)
EXTENDS Registration

CONSTANTS s1, s2, e1, e2, n1, n2, tok0, w1, w2

MCSlots == {s1, s2}
=============================================================================
