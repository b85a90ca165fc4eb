----------------------------- MODULE MCUsbMode -----------------------------
(* Small instances of UsbMode for TLC. *)
EXTENDS UsbMode

CONSTANTS console, hmi

MCSetters == {console}
MCCyclers == {hmi}
AllTargets == {"NONE", "STORAGE", "PGP", "OTP", "FIDO", "OATH"}
NamedTargets == {"NONE", "STORAGE", "OATH"}
=============================================================================
