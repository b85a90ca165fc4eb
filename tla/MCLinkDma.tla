----------------------------- MODULE MCLinkDma -----------------------------
EXTENDS LinkDma
MCSlots == {1, 2}
MCPages == {0, 1}
=============================================================================
