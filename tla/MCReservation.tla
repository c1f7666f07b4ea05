--------------------------- MODULE MCReservation ---------------------------
(***************************************************************************)
(* Instances of Reservation for TLC.                                       *)
(***************************************************************************)
EXTENDS Reservation
=============================================================================
