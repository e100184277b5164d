------------------------- MODULE MCDeviceLifecycle -------------------------
(***************************************************************************)
(* Three processes share the card with the display server: two ask for it  *)
(* exclusively, one of them without being root, and one shares it.         *)
(***************************************************************************)
EXTENDS DeviceLifecycle

CONSTANTS p1, p2, p3

MCProc == {p1, p2, p3}
MCExclusive == {p1, p2}
MCRoot == {p1}
=============================================================================
