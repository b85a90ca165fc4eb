--------------------------- MODULE MCConfirmLink ---------------------------
(* Small instances of ConfirmLink for TLC. *)
EXTENDS ConfirmLink

MCSlots == {"F0", "E0"}
MCOps == {"HOST", "CODE"}
OnlyFido == {"FIDO"}
CcidAndFido == {"CCID", "FIDO"}
=============================================================================
