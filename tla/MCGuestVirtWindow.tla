------------------------- MODULE MCGuestVirtWindow --------------------------
(***************************************************************************)
(* Instances of GuestVirtWindow for TLC.                                   *)
(***************************************************************************)
EXTENDS GuestVirtWindow
=============================================================================
