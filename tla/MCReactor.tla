------------------------------ MODULE MCReactor ------------------------------
(* Model values for Reactor.                                                  *)
EXTENDS Reactor
CONSTANTS m1, m2
MCTargets == {m1, m2}
=============================================================================
