------------------------------- MODULE MCHmi -------------------------------
(* A small instance of Hmi for TLC: the buttons and the LED of a board     *)
(* without a screen, and the screen of a board that nobody touches.        *)
EXTENDS Hmi

MCStart == {[mode |-> "OTP", screen |-> FALSE, moves |-> 3, switches |-> 1],
            [mode |-> "OTP", screen |-> TRUE, moves |-> 0, switches |-> 0]}
=============================================================================
