----------------------------- MODULE MCCastBar ------------------------------
(* Model values for CastBar.                                                  *)
EXTENDS CastBar
CONSTANTS cure, fire, dia
MCTimed == {cure, fire}
MCInstants == {dia}
=============================================================================
