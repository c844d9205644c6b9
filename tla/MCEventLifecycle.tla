-------------------------- MODULE MCEventLifecycle --------------------------
(* Model values and tag kinds for model checking EventLifecycle.          *)
EXTENDS EventLifecycle, TLC

CONSTANTS e1, e2

MCEvents == {e1, e2}
MCOneEvent == {e1}
MCUpdateTags == {{"ack"}}
MCAllTags == {{"ack"}, {"reply"}, {"ack", "reply"}}
Symmetry == Permutations(MCEvents)
=============================================================================
