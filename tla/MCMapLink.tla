----------------------------- MODULE MCMapLink ------------------------------
(* Model value for model checking MapLink.                                 *)
EXTENDS MapLink, TLC
=============================================================================
