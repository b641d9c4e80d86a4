------------------------- MODULE MCTeamReservations -------------------------
(***************************************************************************)
(* TeamReservations for TLC.                                               *)
(***************************************************************************)
EXTENDS TeamReservations
=============================================================================
