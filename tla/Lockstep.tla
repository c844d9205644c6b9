------------------------------ MODULE Lockstep ------------------------------
(* What the map link promises above an unreliable network: the server takes *)
(* one datagram of requests, the client applies the one bundle that answers  *)
(* it, and so on.  Nothing is applied twice, out of order or left out, and   *)
(* the server never runs ahead of what the client has applied.               *)
EXTENDS Naturals

CONSTANT Modulus    \* sequence numbers are kept modulo this

VARIABLES made,     \* number of the last bundle the server made
          got       \* number of the last bundle the client applied

Wrapped(x) == IF x + 1 = Modulus THEN 0 ELSE x + 1

Init == made \in 0 .. Modulus - 1 /\ got = made

Take == /\ got = made
        /\ made' = Wrapped(made)
        /\ UNCHANGED got

Apply == /\ made = Wrapped(got)
         /\ got' = made
         /\ UNCHANGED made

Next == Take \/ Apply
Spec == Init /\ [][Next]_<<made, got>>
=============================================================================
