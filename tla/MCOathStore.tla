---------------------------- MODULE MCOathStore ----------------------------
(* The labels of accounts are interchangeable; that of the OTP slot is not. *)
EXTENDS OathStore, TLC

CONSTANTS k, a, b, c
MCNames == {k, a, b, c}
MCSymmetry == Permutations({a, b, c})
=============================================================================
