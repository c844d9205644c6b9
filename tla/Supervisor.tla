----------------------------- MODULE Supervisor -----------------------------
(***************************************************************************)
(* kuluu-session's supervisor::run with the GoalStore it persists the      *)
(* operator's goal in, and the reactor and session it restarts, seen as    *)
(* far as goals and endings go.  The process may be killed and started     *)
(* again at any point.                                                     *)
(*                                                                         *)
(* Time is not counted: an attempt that lasted min_run_for_reset or longer *)
(* is a choice, and a backoff is a number of InitialBackoff units.         *)
(***************************************************************************)
EXTENDS Naturals, Sequences

CONSTANTS
    Orders,          \* goal commands that persist: Follow, Engage, PathTo
    NoOrder,         \* no goal
    Bank,            \* the BankWhenFull goal, which does not persist
    MaxAttempts,     \* max_attempts
    InitialBackoff,  \* initial_backoff
    MaxBackoff,      \* max_backoff
    InnerCap,        \* capacity of the channel to the reactor
    OuterCap,        \* bound: commands waiting in the external channel
    MaxLong,         \* bound: attempts that last min_run_for_reset
    MaxPanics,       \* bound: panics of the reactor task
    MaxDiskFaults,   \* bound: failed writes and removals of the goal file
    MaxCrashes       \* bound: kills of the process

Commands == Orders \cup {"cancel", "bank", "move", "disconnect"}

ASSUME OrdersAssumption ==
    /\ NoOrder \notin Commands /\ Bank \notin Orders /\ Bank # NoOrder
    /\ "cancel" \notin Orders /\ "bank" \notin Orders
    /\ "move" \notin Orders /\ "disconnect" \notin Orders
ASSUME NumbersAssumption ==
    /\ MaxAttempts \in Nat \ {0} /\ InnerCap \in Nat \ {0}
    /\ InitialBackoff \in Nat \ {0} /\ MaxBackoff \in Nat /\ InitialBackoff <= MaxBackoff
ASSUME BoundsAssumption ==
    {OuterCap, MaxLong, MaxPanics, MaxDiskFaults, MaxCrashes} \subseteq Nat

VARIABLES
    sup,      \* the locals of supervisor::run
    outer,    \* external_cmd_rx: the operator's channel
    inner,    \* the attempt's own channel to the reactor
    reactor,  \* the reactor task and its session
    disk,     \* the goal file
    used      \* how much of each bound is spent

vars == <<sup, outer, inner, reactor, disk, used>>

Ends     == {"clean", "silent", "error", "rejected", "panic"}
Over     == {"returned_ok", "returned_err"}
Phases   == {"attempt", "send", "join", "sleep"} \cup Over

Locals ==
    [phase: Phases, last_goal: Orders \cup {NoOrder}, hold: Commands \cup {NoOrder},
     failures: 0..MaxAttempts, backoff: InitialBackoff..MaxBackoff, quit: BOOLEAN]
Channel == [q: Seq(Commands), open: BOOLEAN]
Task ==
    [end: Ends \cup {"running"}, goal: Orders \cup {NoOrder, Bank},
     in_zone: BOOLEAN, leaving: BOOLEAN]
Budget == [long: Nat, panics: Nat, faults: Nat, crashes: Nat]

\* The failures in a row never pass max_attempts, nor the backoff its cap.
TypeOK ==
    /\ sup \in Locals /\ outer \in Channel /\ inner \in Channel /\ reactor \in Task
    /\ disk \in Orders \cup {NoOrder} /\ used \in Budget

Running == reactor.end = "running"
Spawned == [end |-> "running", goal |-> NoOrder, in_zone |-> FALSE, leaving |-> FALSE]

\* A new attempt's channel starts with the goal to replay.
Replay(g) == [q |-> IF g = NoOrder THEN <<>> ELSE <<g>>, open |-> TRUE]

Start(g) ==
    [phase |-> "attempt", last_goal |-> g, hold |-> NoOrder, failures |-> 0,
     backoff |-> InitialBackoff, quit |-> FALSE]

Init ==
    /\ disk \in Orders \cup {NoOrder}
    /\ sup = Start(disk) /\ inner = Replay(disk)
    /\ outer = [q |-> <<>>, open |-> TRUE]
    /\ reactor = Spawned
    /\ used = [long |-> 0, panics |-> 0, faults |-> 0, crashes |-> 0]

-----------------------------------------------------------------------------
(* The operator.                                                           *)

Ask ==
    /\ outer.open /\ Len(outer.q) < OuterCap /\ sup.phase \notin Over
    /\ \E c \in Commands : outer' = [outer EXCEPT !.q = Append(@, c)]
    /\ UNCHANGED <<sup, inner, reactor, disk, used>>

HangUp ==
    /\ outer.open /\ outer' = [outer EXCEPT !.open = FALSE]
    /\ UNCHANGED <<sup, inner, reactor, disk, used>>

-----------------------------------------------------------------------------
(* The inner loop of supervisor::run.  The select is biased: a finished    *)
(* reactor is seen before the next command.                                *)

\* A command is taken and remembered for what it asks, then sent on.
Take(c, goal, quit) ==
    /\ sup.phase = "attempt" /\ Running
    /\ outer.q # <<>> /\ Head(outer.q) = c
    /\ outer' = [outer EXCEPT !.q = Tail(@)]
    /\ sup' = [sup EXCEPT !.phase = "send", !.hold = c, !.last_goal = goal, !.quit = quit]

\* GoalStore::save and ::clear replace the file in one step or not at all;
\* a failure is reported (save) or ignored (clear).
Store(goal) ==
    \/ disk' = goal /\ UNCHANGED used
    \/ /\ used.faults < MaxDiskFaults
       /\ used' = [used EXCEPT !.faults = @ + 1]
       /\ UNCHANGED disk

TakeOrder ==
    /\ \E g \in Orders : Take(g, g, sup.quit) /\ Store(g)
    /\ UNCHANGED <<inner, reactor>>

\* Mutation: a cancel leaves the goal file alone.
TakeCancelInMemory ==
    /\ Take("cancel", NoOrder, sup.quit)
    /\ UNCHANGED <<inner, reactor, disk, used>>

TakeCancel ==
    /\ Take("cancel", NoOrder, sup.quit) /\ Store(NoOrder)
    /\ UNCHANGED <<inner, reactor>>

TakeDisconnect ==
    /\ Take("disconnect", sup.last_goal, TRUE)
    /\ UNCHANGED <<inner, reactor, disk, used>>

TakeOther ==
    /\ \E c \in {"bank", "move"} : Take(c, sup.last_goal, sup.quit)
    /\ UNCHANGED <<inner, reactor, disk, used>>

\* Mutation: a full channel drops the command (try_send).
SendOrDrop ==
    /\ sup.phase = "send" /\ Running
    /\ inner' = IF Len(inner.q) < InnerCap THEN [inner EXCEPT !.q = Append(@, sup.hold)] ELSE inner
    /\ sup' = [sup EXCEPT !.phase = "attempt", !.hold = NoOrder]
    /\ UNCHANGED <<outer, reactor, disk, used>>

\* inner_tx.send waits for room, and fails once the reactor dropped inner_rx.
Send ==
    /\ sup.phase = "send" /\ Running /\ Len(inner.q) < InnerCap
    /\ inner' = [inner EXCEPT !.q = Append(@, sup.hold)]
    /\ sup' = [sup EXCEPT !.phase = "attempt", !.hold = NoOrder]
    /\ UNCHANGED <<outer, reactor, disk, used>>

SendFails ==
    /\ sup.phase = "send" /\ ~Running
    /\ sup' = [sup EXCEPT !.phase = "join", !.hold = NoOrder]
    /\ UNCHANGED <<outer, inner, reactor, disk, used>>

CallerDropped ==
    /\ sup.phase = "attempt" /\ Running /\ outer = [q |-> <<>>, open |-> FALSE]
    /\ inner' = [inner EXCEPT !.open = FALSE]
    /\ sup' = [sup EXCEPT !.phase = "join"]
    /\ UNCHANGED <<outer, reactor, disk, used>>

-----------------------------------------------------------------------------
(* What supervisor::run does with the end of an attempt.                   *)

Joins == sup.phase \in {"attempt", "join"} /\ ~Running

CleanExit ==
    /\ Joins /\ reactor.end \in {"clean", "silent"}
    /\ sup' = [sup EXCEPT !.phase = "returned_ok"]
    /\ UNCHANGED <<outer, inner, reactor, disk, used>>

\* After the operator's Disconnect, or a rejected login, an error is final.
Fatal == reactor.end = "rejected" \/ (reactor.end = "error" /\ sup.quit)

Return ==
    /\ Joins /\ Fatal
    /\ sup' = [sup EXCEPT !.phase = "returned_err"]
    /\ UNCHANGED <<outer, inner, reactor, disk, used>>

\* Mutation: one failure too many.
AfterFailuresLate(n) == IF n > MaxAttempts THEN "returned_err" ELSE "sleep"

AfterFailures(n) == IF n >= MaxAttempts THEN "returned_err" ELSE "sleep"

\* Everything else is counted, unless the attempt lasted, and retried.
Retry ==
    /\ Joins /\ reactor.end \in {"error", "panic"} /\ ~Fatal
    /\ \E long \in BOOLEAN :
         /\ long => used.long < MaxLong
         /\ LET n == IF long THEN 0 ELSE sup.failures + 1
                b == IF long THEN InitialBackoff ELSE sup.backoff
            IN  sup' = [sup EXCEPT !.phase = AfterFailures(n), !.failures = n, !.backoff = b]
         /\ used' = [used EXCEPT !.long = IF long THEN @ + 1 ELSE @]
    /\ UNCHANGED <<outer, inner, reactor, disk>>

\* Mutation: the backoff stays what it was.
DoubledNever(b) == b

Doubled(b) == IF 2 * b <= MaxBackoff THEN 2 * b ELSE MaxBackoff

\* The sleep is over: a new reactor, a new channel, the goal replayed.
Wake ==
    /\ sup.phase = "sleep"
    /\ sup' = [sup EXCEPT !.phase = "attempt", !.backoff = Doubled(@)]
    /\ inner' = Replay(sup.last_goal) /\ reactor' = Spawned
    /\ UNCHANGED <<outer, disk, used>>

-----------------------------------------------------------------------------
(* The reactor.                                                            *)

Handle(c) == Running /\ inner.q # <<>> /\ Head(inner.q) = c /\ inner' = [inner EXCEPT !.q = Tail(@)]

\* handle_command on a goal: a PathTo without a walkable route changes nothing.
HandleOrder ==
    /\ \E g \in Orders :
         /\ Handle(g)
         /\ \/ reactor' = [reactor EXCEPT !.goal = g]
            \/ UNCHANGED reactor
    /\ UNCHANGED <<sup, outer, disk, used>>

\* Mutation: a cancel does not stop the goal.
HandleCancelKeepsGoal ==
    /\ Handle("cancel")
    /\ UNCHANGED <<sup, outer, reactor, disk, used>>

HandleCancel ==
    /\ Handle("cancel") /\ reactor' = [reactor EXCEPT !.goal = NoOrder]
    /\ UNCHANGED <<sup, outer, disk, used>>

HandleBank ==
    /\ Handle("bank") /\ reactor' = [reactor EXCEPT !.goal = Bank]
    /\ UNCHANGED <<sup, outer, disk, used>>

\* A Move takes over from a goal, but not from an engage.
HandleMove ==
    /\ Handle("move")
    /\ \/ reactor' = [reactor EXCEPT !.goal = NoOrder]
       \/ UNCHANGED reactor
    /\ UNCHANGED <<sup, outer, disk, used>>

HandleDisconnect ==
    /\ Handle("disconnect") /\ reactor' = [reactor EXCEPT !.leaving = TRUE]
    /\ UNCHANGED <<sup, outer, disk, used>>

\* The channel is closed: no more ticks, wait for the session.
HandleClosed ==
    /\ Running /\ inner = [q |-> <<>>, open |-> FALSE] /\ ~reactor.leaving
    /\ reactor' = [reactor EXCEPT !.leaving = TRUE, !.goal = NoOrder]
    /\ UNCHANGED <<sup, outer, inner, disk, used>>

\* The goal is reached, its target is gone or dead, the player is, or is
\* taken to another zone.
GoalEnds ==
    /\ Running /\ reactor.goal # NoOrder
    /\ reactor' = [reactor EXCEPT !.goal = NoOrder]
    /\ UNCHANGED <<sup, outer, inner, disk, used>>

\* The 0x00A LOGIN of the zone-in: its ZoneChanged resets the goal.
Login ==
    /\ Running /\ ~reactor.in_zone
    /\ reactor' = [reactor EXCEPT !.in_zone = TRUE, !.goal = NoOrder]
    /\ UNCHANGED <<sup, outer, inner, disk, used>>

Ending(end) == reactor' = [reactor EXCEPT !.end = end, !.goal = NoOrder]

\* The session reads commands in its keepalive loop only: a Disconnect, or
\* the closed channel, ends it there.
SessionLeaves ==
    /\ Running /\ reactor.in_zone /\ reactor.leaving /\ Ending("clean")
    /\ UNCHANGED <<sup, outer, inner, disk, used>>

\* MAP_SILENCE_TIMEOUT without a packet; keepalive_loop returns Ok all the same.
SessionSilent ==
    /\ Running /\ reactor.in_zone /\ Ending("silent")
    /\ UNCHANGED <<sup, outer, inner, disk, used>>

\* The server logs the character out.
SessionLoggedOut ==
    /\ Running /\ reactor.in_zone /\ Ending("clean")
    /\ UNCHANGED <<sup, outer, inner, disk, used>>

\* `?` on the login, lobby or map handshake, or on a send.
SessionFails ==
    /\ Running /\ Ending("error")
    /\ UNCHANGED <<sup, outer, inner, disk, used>>

LoginRejected ==
    /\ Running /\ ~reactor.in_zone /\ Ending("rejected")
    /\ UNCHANGED <<sup, outer, inner, disk, used>>

Panic ==
    /\ Running /\ used.panics < MaxPanics /\ Ending("panic")
    /\ used' = [used EXCEPT !.panics = @ + 1]
    /\ UNCHANGED <<sup, outer, inner, disk>>

\* The process is killed and started again: only the goal file is left.
Crash ==
    /\ used.crashes < MaxCrashes
    /\ used' = [used EXCEPT !.crashes = @ + 1]
    /\ sup' = Start(disk) /\ inner' = Replay(disk) /\ reactor' = Spawned
    /\ outer' = [q |-> <<>>, open |-> TRUE]
    /\ UNCHANGED disk

Operator == Ask \/ HangUp
Supervise ==
    \/ TakeOrder \/ TakeCancel \/ TakeDisconnect \/ TakeOther \/ Send \/ SendFails
    \/ CallerDropped \/ CleanExit \/ Return \/ Retry \/ Wake
React ==
    \/ HandleOrder \/ HandleCancel \/ HandleBank \/ HandleMove \/ HandleDisconnect
    \/ HandleClosed \/ GoalEnds \/ Login
    \/ SessionLeaves \/ SessionSilent \/ SessionLoggedOut \/ SessionFails \/ LoginRejected \/ Panic

Next == Operator \/ Supervise \/ React \/ Crash

\* tokio polls the supervisor, and a reactor that has a command, and a
\* session that is told to leave does; logging in always ends one way or
\* the other.  A session in its zone may go on for ever.
Fairness ==
    /\ WF_vars(Supervise)
    /\ WF_vars(HandleOrder \/ HandleCancel \/ HandleBank \/ HandleMove
                 \/ HandleDisconnect \/ HandleClosed)
    /\ WF_vars(~reactor.in_zone /\ (Login \/ SessionFails \/ LoginRejected))
    /\ WF_vars(SessionLeaves)

Spec == Init /\ [][Next]_vars
FairSpec == Spec /\ Fairness

-----------------------------------------------------------------------------
(* What should hold.                                                       *)

\* The commands the reactor has still to handle.
UnderWay == IF sup.hold = NoOrder THEN inner.q ELSE Append(inner.q, sup.hold)

\* With this goal and these commands to come, an order is or may be carried out.
InForce(goal, q) ==
    \/ goal \in Orders /\ \A j \in DOMAIN q : q[j] # "cancel"
    \/ \E i \in DOMAIN q : q[i] \in Orders /\ \A j \in DOMAIN q : j > i => q[j] # "cancel"

Doing == Running /\ InForce(reactor.goal, UnderWay)

Order == INSTANCE StandingOrder WITH want <- sup.last_goal, doing <- Doing

\* supervisor::run with its channels, its restarts and the goal file, and
\* the reactor's handle_command, implement one standing order: no drop of a
\* command, reconnect or restart brings a cancelled order back.
ImplementsStandingOrder == Order!Spec

\* Once supervisor::run has taken the operator's Cancel no order is carried
\* out, by this attempt or after any reconnect or restart, until the next
\* order; commands still under way to the reactor included.
CancelStops == sup.last_goal = NoOrder => ~Doing

\* The goal file holds the goal in force whenever the process may be killed:
\* GoalStore::save and ::clear keep up with last_goal.
GoalIsDurable == disk = sup.last_goal

\* The n-th failure in a row is followed by a sleep of at least
\* InitialBackoff * 2^(n-1), up to MaxBackoff, whatever long attempts and
\* resets of supervisor::run's backoff came before.
BackoffKeepsPace ==
    sup.phase = "sleep" /\ sup.failures > 0 =>
      \/ sup.backoff = MaxBackoff
      \/ sup.backoff >= InitialBackoff * 2^(sup.failures - 1)

\* The operator's Disconnect, once taken, ends supervisor::run, whatever the
\* session is doing when the reactor forwards it and however it fails.
DisconnectEnds == sup.quit ~> sup.phase \in Over

\* playbook.md of ffxi-agent: "Clean exit. Supervisor will not reconnect."
\* Once the operator asked to disconnect no session is started any more.
DisconnectIsFinal ==
    [][sup.phase = "sleep" /\ sup'.phase = "attempt" /\ UNCHANGED used
         => ~sup.quit /\ "disconnect" \notin {outer.q[i] : i \in DOMAIN outer.q}]_vars

\* disconnect_recovery.rs: the supervisor recovers to InZone after the link
\* was dead longer than MAP_SILENCE_TIMEOUT.  A session that lost its server
\* is retried.
SilenceIsRetried == sup.phase = "returned_ok" => reactor.end # "silent" \/ sup.quit

\* OPERATING.md of ffxi-agent: the supervisor resumes the persisted goal.
\* The goal replayed to a new session outlives the login it was replayed for.
ReplayReachesZone ==
    [][~reactor.in_zone /\ reactor'.in_zone /\ reactor.goal \in Orders
         => reactor'.goal = reactor.goal]_vars

\* playbook.md of ffxi-agent: cancel "also clears persisted goal on disk".
CancelClearsDisk == sup.last_goal = NoOrder => disk = NoOrder

\* playbook.md of ffxi-agent: what the agent is shown is the goal the
\* supervisor will resume.  With no command under way, the goal the reactor
\* pursues is the one a reconnect would resume.
LiveGoalIsResumed ==
    Running /\ UnderWay = <<>> /\ reactor.goal # NoOrder => reactor.goal = sup.last_goal
=============================================================================
