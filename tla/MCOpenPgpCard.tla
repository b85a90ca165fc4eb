--------------------------- MODULE MCOpenPgpCard ---------------------------
(* Small instances of OpenPgpCard for TLC. *)
EXTENDS OpenPgpCard

CONSTANTS factory, mine

MCSlots == {"SIG", "DEC"}
MCPins == {factory, mine}
=============================================================================
