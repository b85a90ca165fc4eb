------------------------------- MODULE MCFido -------------------------------
(* A registration and an authentication differ only in their slot and in   *)
(* what is signed, so the requests of the run differ in their challenge.   *)
EXTENDS Fido, TLC

CONSTANTS a1, a2, k1, k2
MCApps == {a1, a2}
MCU2f == [op : {"REGISTER"}, key : {k1, k2}]
MCPlain == [op : {"INIT", "PING"}, key : {None}]
MCSymmetry == Permutations({a1, a2}) \cup Permutations({k1, k2})
=============================================================================
