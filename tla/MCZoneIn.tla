------------------------------ MODULE MCZoneIn -------------------------------
(* Model values for model checking ZoneIn.                                 *)
EXTENDS ZoneIn, TLC
CONSTANTS l1, l2
MCLines == {l1, l2}
=============================================================================
