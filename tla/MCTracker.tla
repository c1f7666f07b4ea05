----------------------------- MODULE MCTracker ------------------------------
(***************************************************************************)
(* The instance of Tracker for TLC.                                        *)
(***************************************************************************)
EXTENDS Tracker

MCLookback == [short |-> 1, medium |-> 2, long |-> 2]
\* Just below and at the limit, and no limit.
MCExposures == {<<98, 100>>, <<100, 100>>, <<1, 0>>}
=============================================================================
