----------------------------- MODULE MCBootcMac -----------------------------
(***************************************************************************)
(* BootcMac for TLC.  The next monitor and the next pid are drawn with a   *)
(* CHOOSE, so that no symmetry is left to reduce by.                       *)
(***************************************************************************)
EXTENDS BootcMac
=============================================================================
