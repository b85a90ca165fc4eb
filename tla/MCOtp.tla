------------------------------- MODULE MCOtp -------------------------------
EXTENDS Otp
MCSlots == {"S0", "S1"}
=============================================================================
