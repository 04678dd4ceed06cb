---------------------------- MODULE MCRedemption ----------------------------
(* Small instances of Redemption for TLC: two code strings.                *)
EXTENDS Redemption

CONSTANTS c1, c2, w1, w2

MCCodes == {c1, c2}
=============================================================================
