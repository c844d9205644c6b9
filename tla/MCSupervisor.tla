---------------------------- MODULE MCSupervisor ----------------------------
(* Model values for model checking Supervisor.                            *)
EXTENDS Supervisor, TLC

CONSTANTS o1, o2

MCOrders == {o1, o2}
MCOneOrder == {o1}
Symmetry == Permutations(MCOrders)
=============================================================================
