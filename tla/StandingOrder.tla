--------------------------- MODULE StandingOrder ---------------------------
(***************************************************************************)
(* What the supervisor promises of the operator's goal, whatever happens   *)
(* to sessions and processes: there is at most one standing order, it is   *)
(* the last one given and not cancelled, and no order is being carried out *)
(* once the standing one has been cancelled.                               *)
(***************************************************************************)
CONSTANTS Orders, NoOrder

VARIABLES
    want,   \* the standing order
    doing   \* whether an order is, or is about to be, carried out

\* What the last process left standing is taken up at once.
Init == want \in Orders \cup {NoOrder} /\ doing = (want # NoOrder)

\* An order replaces the one before; it may be found impossible.
Give == want' \in Orders /\ doing' \in BOOLEAN

Cancel == want' = NoOrder /\ doing' = FALSE

\* The session, the process or the order itself is over.
Stop == doing' = FALSE /\ UNCHANGED want

\* The standing order is taken up again.
Resume == want # NoOrder /\ doing' = TRUE /\ UNCHANGED want

Next == Give \/ Cancel \/ Stop \/ Resume

Spec == Init /\ [][Next]_<<want, doing>>
=============================================================================
