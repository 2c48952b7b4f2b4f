---------------------------- MODULE MCTransaction ----------------------------
(* Transaction with three items of work, alike, and calls four deep.       *)
EXTENDS Transaction, TLC

CONSTANTS i1, i2, i3

MCSymmetry == Permutations({i1, i2, i3})
=============================================================================
