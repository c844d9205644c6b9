-------------------------- MODULE SupervisorProofs --------------------------
(***************************************************************************)
(* Proofs about Supervisor, for any goals, capacities and bounds.          *)
(***************************************************************************)
EXTENDS Supervisor, FiniteSetTheorems, FunctionTheorems, TLAPS

\* A command is held exactly while it is being sent on, and an attempt is
\* under way only with failures to spare.
Inv ==
    /\ TypeOK
    /\ sup.phase = "send" <=> sup.hold # NoOrder
    /\ sup.phase \notin Over => sup.failures < MaxAttempts

-----------------------------------------------------------------------------
LEMMA DoubledBounds ==
    ASSUME NEW b \in InitialBackoff..MaxBackoff
    PROVE  Doubled(b) \in InitialBackoff..MaxBackoff
BY NumbersAssumption DEF Doubled

LEMMA QueueTyped ==
    ASSUME NEW c \in Channel
    PROVE  /\ \A x \in Commands : [c EXCEPT !.q = Append(c.q, x)] \in Channel
           /\ c.q # <<>> => /\ [c EXCEPT !.q = Tail(c.q)] \in Channel
                            /\ Head(c.q) \in Commands
<1>1. \A w \in Seq(Commands) : [c EXCEPT !.q = w] \in Channel
  BY DEF Channel
<1>2. \A x \in Commands : Append(c.q, x) \in Seq(Commands)
  BY DEF Channel
<1>3. c.q # <<>> => Tail(c.q) \in Seq(Commands) /\ Head(c.q) \in Commands
  BY DEF Channel
<1> QED BY <1>1, <1>2, <1>3, Zenon

LEMMA CountTyped ==
    ASSUME NEW u \in Budget
    PROVE  /\ [u EXCEPT !.long = u.long + 1] \in Budget
           /\ [u EXCEPT !.long = u.long] \in Budget
           /\ [u EXCEPT !.panics = u.panics + 1] \in Budget
           /\ [u EXCEPT !.faults = u.faults + 1] \in Budget
           /\ [u EXCEPT !.crashes = u.crashes + 1] \in Budget
<1>1. \A n \in Nat : n + 1 \in Nat
  OBVIOUS
<1> QED BY <1>1 DEF Budget

LEMMA ReplayTyped ==
    ASSUME NEW g \in Orders \cup {NoOrder}
    PROVE  Replay(g) \in Channel
<1>1. <<>> \in Seq(Commands)
  OBVIOUS
<1>2. \A x \in Commands : <<x>> \in Seq(Commands)
  OBVIOUS
<1>3. g # NoOrder => g \in Commands
  BY DEF Commands
<1>4. (IF g = NoOrder THEN <<>> ELSE <<g>>) \in Seq(Commands)
  BY <1>1, <1>2, <1>3
<1> QED BY <1>4 DEF Replay, Channel

LEMMA StartTyped ==
    ASSUME NEW g \in Orders \cup {NoOrder}
    PROVE  /\ Start(g) \in Locals
           /\ Start(g).phase = "attempt" /\ Start(g).hold = NoOrder
           /\ Start(g).failures < MaxAttempts /\ Start(g).last_goal = g
BY NumbersAssumption DEF Start, Phases, Over, Locals

\* Taking a command holds it and touches nothing else of the supervisor's
\* state than what it asks for.
LEMMA TakeTyped ==
    ASSUME Inv, NEW c, NEW g \in Orders \cup {NoOrder}, NEW b \in BOOLEAN, Take(c, g, b)
    PROVE  /\ c \in Commands /\ outer' \in Channel
           /\ sup' \in Locals
           /\ sup'.phase = "send" /\ sup'.hold # NoOrder /\ sup'.failures < MaxAttempts
<1>1. c \in Commands /\ outer' \in Channel
  BY QueueTyped DEF Inv, TypeOK, Take
<1>2. sup' = [sup EXCEPT !.phase = "send", !.hold = c, !.last_goal = g, !.quit = b]
  BY DEF Take
<1>3. sup.phase = "attempt" /\ sup.failures < MaxAttempts
  BY DEF Take, Inv, Over
<1>4. c # NoOrder
  BY <1>1, OrdersAssumption
<1>5. "send" \in Phases
  BY DEF Phases
<1> QED BY <1>1, <1>2, <1>3, <1>4, <1>5 DEF Inv, TypeOK, Locals

LEMMA StoreTyped ==
    ASSUME TypeOK, NEW g \in Orders \cup {NoOrder}, Store(g)
    PROVE  /\ disk' \in Orders \cup {NoOrder}
           /\ used' \in Budget
BY CountTyped DEF TypeOK, Store

LEMMA TakesKeepInv ==
    ASSUME Inv, TakeOrder \/ TakeCancel \/ TakeDisconnect \/ TakeOther
    PROVE  Inv'
<1>1. PICK c \in Commands, g \in Orders \cup {NoOrder}, b \in BOOLEAN : Take(c, g, b)
  <2>1. sup.quit \in BOOLEAN /\ sup.last_goal \in Orders \cup {NoOrder}
    BY DEF Inv, TypeOK, Locals
  <2>2. Orders \subseteq Commands /\ {"cancel", "disconnect", "bank", "move"} \subseteq Commands
    BY DEF Commands
  <2>3. CASE TakeOrder
    BY <2>1, <2>2, <2>3, Zenon DEF TakeOrder
  <2>4. CASE TakeCancel
    BY <2>1, <2>2, <2>4, Zenon DEF TakeCancel
  <2>5. CASE TakeDisconnect
    BY <2>1, <2>2, <2>5, Zenon DEF TakeDisconnect
  <2>6. CASE TakeOther
    BY <2>1, <2>2, <2>6, Zenon DEF TakeOther
  <2> QED BY <2>3, <2>4, <2>5, <2>6
<1>2. /\ outer' \in Channel /\ sup' \in Locals
      /\ sup'.phase = "send" /\ sup'.hold # NoOrder /\ sup'.failures < MaxAttempts
  BY <1>1, TakeTyped, Zenon
<1>3. disk' \in Orders \cup {NoOrder} /\ used' \in Budget
  BY StoreTyped, Zenon DEF Inv, TypeOK, TakeOrder, TakeCancel, TakeDisconnect, TakeOther
<1>4. UNCHANGED <<inner, reactor>>
  BY DEF TakeOrder, TakeCancel, TakeDisconnect, TakeOther
<1> QED BY <1>2, <1>3, <1>4 DEF Inv, TypeOK

\* The inductive invariant: types, a held command exactly in phase send, and
\* an attempt or a backoff of supervisor::run only with failures to spare.
THEOREM InvInductive == Spec => []Inv
<1>1. Init => Inv
  <2> SUFFICES ASSUME Init PROVE Inv
    OBVIOUS
  <2>1. sup = Start(disk) /\ inner = Replay(disk) /\ disk \in Orders \cup {NoOrder}
    BY DEF Init
  <2>2. reactor \in Task
    BY DEF Init, Spawned, Task
  <2>3. outer \in Channel
    <3>1. <<>> \in Seq(Commands)
      OBVIOUS
    <3> QED BY <3>1 DEF Init, Channel
  <2>4. used \in Budget
    BY DEF Init, Budget
  <2> QED BY <2>1, <2>2, <2>3, <2>4, ReplayTyped, StartTyped DEF Inv, TypeOK
<1>2. Inv /\ [Next]_vars => Inv'
  <2> SUFFICES ASSUME Inv, [Next]_vars PROVE Inv'
    OBVIOUS
  <2> USE DEF Inv, TypeOK, Locals, Channel, Task, Budget
  <2>1. CASE Ask
    <3>1. PICK c \in Commands : outer' = [outer EXCEPT !.q = Append(outer.q, c)]
      BY <2>1 DEF Ask
    <3>2. outer' \in Channel
      BY <3>1, QueueTyped
    <3> QED BY <2>1, <3>2 DEF Ask
  <2>2. CASE HangUp
    BY <2>2 DEF HangUp
  <2>3. CASE TakeOrder \/ TakeCancel \/ TakeDisconnect \/ TakeOther
    BY <2>3, TakesKeepInv
  <2>7. CASE Send
    BY <2>7, QueueTyped DEF Send, Phases, Over
  <2>8. CASE SendFails
    BY <2>8 DEF SendFails, Phases, Over
  <2>9. CASE CallerDropped
    BY <2>9 DEF CallerDropped, Phases, Over
  <2>10. CASE CleanExit
    BY <2>10 DEF CleanExit, Joins, Phases, Over
  <2>11. CASE Return
    BY <2>11 DEF Return, Joins, Phases, Over
  <2>12. CASE Retry
    <3>1. PICK long \in BOOLEAN :
            LET n == IF long THEN 0 ELSE sup.failures + 1
                b == IF long THEN InitialBackoff ELSE sup.backoff
            IN  /\ sup' = [sup EXCEPT !.phase = AfterFailures(n),
                                      !.failures = n, !.backoff = b]
                /\ used' = [used EXCEPT !.long = IF long THEN used.long + 1 ELSE used.long]
      BY <2>12 DEF Retry
    <3> DEFINE n == IF long THEN 0 ELSE sup.failures + 1
               b == IF long THEN InitialBackoff ELSE sup.backoff
               ph == AfterFailures(n)
    <3>2. sup' = [sup EXCEPT !.phase = ph, !.failures = n, !.backoff = b]
      BY <3>1
    <3>3. used' \in Budget
      BY <3>1, CountTyped
    <3>4. sup.phase \in {"attempt", "join"} /\ sup.hold = NoOrder /\ sup.failures < MaxAttempts
      BY <2>12 DEF Retry, Joins, Over
    <3>5. n \in 0..MaxAttempts /\ b \in InitialBackoff..MaxBackoff /\ ph \in Phases /\ ph # "send"
          /\ (ph \notin Over => n < MaxAttempts)
      BY <3>4, NumbersAssumption DEF Phases, Over, AfterFailures
    <3> HIDE DEF n, b, ph
    <3>6. sup' \in Locals
          /\ sup'.phase = ph /\ sup'.failures = n /\ sup'.hold = NoOrder
      BY <3>2, <3>4, <3>5
    <3> QED BY <2>12, <3>3, <3>5, <3>6 DEF Retry
  <2>13. CASE Wake
    BY <2>13, DoubledBounds, ReplayTyped DEF Wake, Phases, Over, Spawned
  <2>14. CASE HandleOrder
    BY <2>14, QueueTyped DEF HandleOrder, Handle
  <2>15. CASE HandleCancel
    BY <2>15, QueueTyped DEF HandleCancel, Handle
  <2>16. CASE HandleBank
    BY <2>16, QueueTyped DEF HandleBank, Handle
  <2>17. CASE HandleMove
    BY <2>17, QueueTyped DEF HandleMove, Handle
  <2>18. CASE HandleDisconnect
    BY <2>18, QueueTyped DEF HandleDisconnect, Handle
  <2>19. CASE HandleClosed
    BY <2>19 DEF HandleClosed
  <2>20. CASE GoalEnds
    BY <2>20 DEF GoalEnds
  <2>21. CASE Login
    BY <2>21 DEF Login
  <2>22. CASE SessionLeaves
    BY <2>22 DEF SessionLeaves, Ending, Ends
  <2>23. CASE SessionSilent
    BY <2>23 DEF SessionSilent, Ending, Ends
  <2>24. CASE SessionLoggedOut
    BY <2>24 DEF SessionLoggedOut, Ending, Ends
  <2>25. CASE SessionFails
    BY <2>25 DEF SessionFails, Ending, Ends
  <2>26. CASE LoginRejected
    BY <2>26 DEF LoginRejected, Ending, Ends
  <2>27. CASE Panic
    <3>1. used' \in Budget
      BY <2>27, CountTyped DEF Panic
    <3>2. reactor' \in Task
      BY <2>27 DEF Panic, Ending, Ends
    <3> QED BY <2>27, <3>1, <3>2 DEF Panic
  <2>28. CASE Crash
    <3>1. used' \in Budget
      BY <2>28, CountTyped DEF Crash
    <3>2. reactor' \in Task
      BY <2>28 DEF Crash, Spawned
    <3>3. <<>> \in Seq(Commands)
      OBVIOUS
    <3>4. outer' \in Channel
      BY <2>28, <3>3 DEF Crash
    <3>5. sup' = Start(disk) /\ inner' = Replay(disk) /\ disk' = disk
      BY <2>28 DEF Crash
    <3> QED BY <3>1, <3>2, <3>4, <3>5, StartTyped, ReplayTyped
  <2>29. CASE UNCHANGED vars
    BY <2>29 DEF vars
  <2> QED
    BY <2>1, <2>2, <2>3, <2>7, <2>8, <2>9, <2>10, <2>11, <2>12, <2>13, <2>14, <2>15, <2>16,
       <2>17, <2>18, <2>19, <2>20, <2>21, <2>22, <2>23, <2>24, <2>25, <2>26, <2>27, <2>28, <2>29
       DEF Next, Operator, Supervise, React
<1> QED BY <1>1, <1>2, PTL DEF Spec

\* TypeOK: max_attempts bounds the failures in a row and max_backoff the
\* backoff, and every queue holds commands only, whatever is retried.
THEOREM TypeCorrect == Spec => []TypeOK
<1>1. Inv => TypeOK
  BY DEF Inv
<1> QED BY <1>1, InvInductive, PTL

-----------------------------------------------------------------------------
(* Which orders are in force, as the queue to the reactor moves.           *)

\* A command put behind the others starts no order unless it is one.
LEMMA InForceAppend ==
    ASSUME NEW q \in Seq(Commands), NEW c \in Commands, NEW g,
           c \notin Orders, InForce(g, Append(q, c))
    PROVE  c # "cancel" /\ InForce(g, q)
<1>1. /\ Len(Append(q, c)) = Len(q) + 1 /\ Append(q, c)[Len(q) + 1] = c
      /\ \A j \in 1..Len(q) : Append(q, c)[j] = q[j]
  OBVIOUS
<1>2. DOMAIN q = 1..Len(q) /\ DOMAIN Append(q, c) = 1..(Len(q) + 1) /\ Len(q) \in Nat
  OBVIOUS
<1>3. CASE g \in Orders /\ \A j \in DOMAIN Append(q, c) : Append(q, c)[j] # "cancel"
  BY <1>1, <1>2, <1>3 DEF InForce
<1>4. CASE \E i \in DOMAIN Append(q, c) :
             Append(q, c)[i] \in Orders
             /\ \A j \in DOMAIN Append(q, c) : j > i => Append(q, c)[j] # "cancel"
  <2>1. PICK i \in 1..(Len(q) + 1) :
               Append(q, c)[i] \in Orders
               /\ \A j \in 1..(Len(q) + 1) : j > i => Append(q, c)[j] # "cancel"
    BY <1>2, <1>4
  <2>2. i \in 1..Len(q)
    BY <1>1, <1>2, <2>1
  <2>3. c # "cancel"
    BY <1>1, <1>2, <2>1, <2>2
  <2>4. q[i] \in Orders /\ \A j \in 1..Len(q) : j > i => q[j] # "cancel"
    BY <1>1, <1>2, <2>1, <2>2
  <2> QED BY <1>2, <2>2, <2>3, <2>4 DEF InForce
<1> QED BY <1>3, <1>4 DEF InForce

\* Handling the first command puts no order in force that was not, whether
\* it clears the goal, becomes it, or is no cancel and leaves it alone.
LEMMA InForceTail ==
    ASSUME NEW q \in Seq(Commands), q # <<>>, NEW g, NEW h, InForce(h, Tail(q)),
           h \in Orders => h = Head(q) \/ (h = g /\ Head(q) # "cancel")
    PROVE  InForce(g, q)
<1>1. /\ Len(q) \in Nat /\ Len(q) > 0 /\ Len(Tail(q)) = Len(q) - 1 /\ Head(q) = q[1]
      /\ \A j \in 1..(Len(q) - 1) : Tail(q)[j] = q[j + 1]
  OBVIOUS
<1>2. DOMAIN q = 1..Len(q) /\ DOMAIN Tail(q) = 1..(Len(q) - 1)
  OBVIOUS
<1>3. CASE h \in Orders /\ \A j \in DOMAIN Tail(q) : Tail(q)[j] # "cancel"
  <2>1. \A j \in 2..Len(q) : q[j] = Tail(q)[j - 1] /\ j - 1 \in 1..(Len(q) - 1)
    BY <1>1
  <2>2. \A j \in 2..Len(q) : q[j] # "cancel"
    BY <1>2, <1>3, <2>1
  <2>3. CASE h = Head(q)
    BY <1>1, <1>2, <1>3, <2>2, <2>3 DEF InForce
  <2>4. CASE h = g /\ Head(q) # "cancel"
    <3>1. \A j \in 1..Len(q) : j = 1 \/ j \in 2..Len(q)
      BY <1>1
    <3> QED BY <1>1, <1>2, <1>3, <2>2, <2>4, <3>1 DEF InForce
  <2> QED BY <1>3, <2>3, <2>4
<1>4. CASE \E i \in DOMAIN Tail(q) :
             Tail(q)[i] \in Orders /\ \A j \in DOMAIN Tail(q) : j > i => Tail(q)[j] # "cancel"
  <2>1. PICK i \in 1..(Len(q) - 1) :
               Tail(q)[i] \in Orders
               /\ \A j \in 1..(Len(q) - 1) : j > i => Tail(q)[j] # "cancel"
    BY <1>2, <1>4
  <2>2. i + 1 \in 1..Len(q) /\ q[i + 1] \in Orders
    BY <1>1, <2>1
  <2>3. ASSUME NEW j \in 1..Len(q), j > i + 1
        PROVE  q[j] # "cancel"
    <3>1. j - 1 \in 1..(Len(q) - 1) /\ j - 1 > i /\ q[j] = Tail(q)[j - 1]
      BY <1>1, <2>1, <2>3
    <3> QED BY <2>1, <3>1
  <2> QED BY <1>2, <2>2, <2>3 DEF InForce
<1> QED BY <1>3, <1>4 DEF InForce

LEMMA InForceWithout ==
    ASSUME NEW q, NEW g, NEW h, h \notin Orders, InForce(h, q)
    PROVE  InForce(g, q)
BY DEF InForce

\* What is under way loses its head when the reactor takes a command.
LEMMA UnderWayTail ==
    ASSUME Inv, NEW c, Handle(c), UNCHANGED sup
    PROVE  /\ UnderWay \in Seq(Commands) /\ UnderWay # <<>>
           /\ Head(UnderWay) = c /\ UnderWay' = Tail(UnderWay)
<1>1. inner.q \in Seq(Commands) /\ sup.hold \in Commands \cup {NoOrder}
  BY DEF Inv, TypeOK, Channel, Locals
<1>2. inner.q # <<>> /\ Head(inner.q) = c
  BY DEF Handle
<1>3. inner'.q = Tail(inner.q) /\ sup'.hold = sup.hold
  BY DEF Handle, Inv, TypeOK, Channel
<1>4. \A x \in Commands :
        /\ Append(inner.q, x) \in Seq(Commands) /\ Append(inner.q, x) # <<>>
        /\ Head(Append(inner.q, x)) = Head(inner.q)
        /\ Tail(Append(inner.q, x)) = Append(Tail(inner.q), x)
  BY <1>1, <1>2
<1>5. CASE sup.hold = NoOrder
  BY <1>1, <1>2, <1>3, <1>5 DEF UnderWay
<1>6. CASE sup.hold # NoOrder
  BY <1>1, <1>2, <1>3, <1>4, <1>6 DEF UnderWay
<1> QED BY <1>5, <1>6

\* A fresh attempt carries out what is replayed to it, and nothing else.
LEMMA FreshInForce ==
    ASSUME NEW g \in Orders \cup {NoOrder}
    PROVE  InForce(NoOrder, Replay(g).q) <=> g # NoOrder
<1>1. CASE g = NoOrder
  BY <1>1, OrdersAssumption DEF InForce, Replay, Commands
<1>2. CASE g # NoOrder
  <2>1. Replay(g).q = <<g>>
    BY <1>2 DEF Replay
  <2>2. 1 \in DOMAIN <<g>> /\ <<g>>[1] \in Orders /\ \A j \in DOMAIN <<g>> : ~(j > 1)
    BY <1>2
  <2> QED BY <1>2, <2>1, <2>2 DEF InForce
<1> QED BY <1>1, <1>2

-----------------------------------------------------------------------------
(* The supervisor implements one standing order.                           *)

\* A command the reactor handles starts no order that was not under way.
LEMMA HandleStarts ==
    ASSUME Inv, NEW c, Handle(c), UNCHANGED sup, reactor'.end = reactor.end,
           reactor'.goal \in Orders =>
             reactor'.goal = c \/ (reactor'.goal = reactor.goal /\ c # "cancel")
    PROVE  Doing' => Doing
<1>1. /\ UnderWay \in Seq(Commands) /\ UnderWay # <<>>
      /\ Head(UnderWay) = c /\ UnderWay' = Tail(UnderWay)
  BY UnderWayTail
<1>2. SUFFICES ASSUME Doing' PROVE Doing
  OBVIOUS
<1>3. Running /\ InForce(reactor'.goal, Tail(UnderWay))
  BY <1>1, <1>2 DEF Doing, Running, InForce
<1>4. InForce(reactor.goal, UnderWay)
  BY <1>1, <1>3, InForceTail
<1> QED BY <1>3, <1>4 DEF Doing

\* A reactor that drops its goal, or ends, starts no order either.
LEMMA DropStarts ==
    ASSUME UNCHANGED <<sup, inner>>, reactor'.goal = NoOrder, Running
    PROVE  Doing' => Doing
<1>1. UnderWay' = UnderWay
  BY DEF UnderWay
<1>2. NoOrder \notin Orders
  BY OrdersAssumption DEF Commands
<1>3. SUFFICES ASSUME Doing' PROVE Doing
  OBVIOUS
<1>4. InForce(NoOrder, UnderWay)
  BY <1>1, <1>3 DEF Doing, InForce
<1> QED BY <1>2, <1>4, InForceWithout DEF Doing

\* What a reactor step does to the standing order.
LEMMA ReactStops ==
    ASSUME Inv, React
    PROVE  UNCHANGED sup /\ (Doing' => Doing)
<1>0. reactor \in Task /\ NoOrder \notin Orders /\ Bank \notin Orders /\ "cancel" \notin Orders
  BY OrdersAssumption DEF Inv, TypeOK, Commands
<1>1. UNCHANGED sup
  BY DEF React, HandleOrder, HandleCancel, HandleBank, HandleMove, HandleDisconnect, HandleClosed,
         GoalEnds, Login, SessionLeaves, SessionSilent, SessionLoggedOut, SessionFails,
         LoginRejected, Panic
<1>2. CASE HandleOrder
  <2>1. PICK g \in Orders : Handle(g) /\ (reactor' = [reactor EXCEPT !.goal = g] \/ UNCHANGED reactor)
    BY <1>2 DEF HandleOrder
  <2>2. /\ reactor'.end = reactor.end /\ g # "cancel"
        /\ reactor'.goal = g \/ reactor'.goal = reactor.goal
    BY <1>0, <2>1 DEF Task
  <2> QED BY <1>1, <2>1, <2>2, HandleStarts
<1>3. CASE HandleCancel
  <2>1. Handle("cancel") /\ reactor'.end = reactor.end /\ reactor'.goal = NoOrder
    BY <1>0, <1>3 DEF HandleCancel, Task
  <2> QED BY <1>0, <1>1, <2>1, HandleStarts
<1>4. CASE HandleBank
  <2>1. Handle("bank") /\ reactor'.end = reactor.end /\ reactor'.goal = Bank
    BY <1>0, <1>4 DEF HandleBank, Task
  <2> QED BY <1>0, <1>1, <2>1, HandleStarts
<1>5. CASE HandleMove
  <2>1. /\ Handle("move") /\ reactor'.end = reactor.end
        /\ reactor'.goal = NoOrder \/ reactor'.goal = reactor.goal
    BY <1>0, <1>5 DEF HandleMove, Task
  <2>2. "move" # "cancel"
    OBVIOUS
  <2> QED BY <1>0, <1>1, <2>1, <2>2, HandleStarts
<1>6. CASE HandleDisconnect
  <2>1. /\ Handle("disconnect") /\ reactor'.end = reactor.end
        /\ reactor'.goal = reactor.goal
    BY <1>0, <1>6 DEF HandleDisconnect, Task
  <2>2. "disconnect" # "cancel"
    OBVIOUS
  <2> QED BY <1>0, <1>1, <2>1, <2>2, HandleStarts
<1>7. CASE HandleClosed \/ GoalEnds \/ Login
  <2>1. Running /\ UNCHANGED <<sup, inner>> /\ reactor'.goal = NoOrder
    BY <1>0, <1>7 DEF HandleClosed, GoalEnds, Login, Task
  <2> QED BY <1>1, <2>1, DropStarts
<1>8. CASE SessionLeaves \/ SessionSilent \/ SessionLoggedOut \/ SessionFails \/ LoginRejected \/ Panic
  <2>1. Running /\ UNCHANGED <<sup, inner>> /\ reactor'.goal = NoOrder
    BY <1>0, <1>8
       DEF SessionLeaves, SessionSilent, SessionLoggedOut, SessionFails, LoginRejected, Panic, Ending, Task
  <2> QED BY <1>1, <2>1, DropStarts
<1> QED BY <1>1, <1>2, <1>3, <1>4, <1>5, <1>6, <1>7, <1>8 DEF React

\* A command taken from the operator goes behind those under way.
LEMMA TakeUnderWay ==
    ASSUME Inv, NEW c, NEW g, NEW b, Take(c, g, b), UNCHANGED inner
    PROVE  /\ c \in Commands /\ UnderWay \in Seq(Commands)
           /\ UnderWay' = Append(UnderWay, c) /\ sup'.last_goal = g
<1>1. c \in Commands
  BY QueueTyped DEF Inv, TypeOK, Take
<1>2. sup.hold = NoOrder /\ sup'.hold = c /\ sup'.last_goal = g
  BY DEF Inv, TypeOK, Take, Locals
<1>3. c # NoOrder /\ inner.q \in Seq(Commands)
  BY <1>1, OrdersAssumption DEF Inv, TypeOK, Channel
<1> QED BY <1>1, <1>2, <1>3 DEF UnderWay

\* What a supervisor step does to the standing order.
LEMMA SuperviseOrders ==
    ASSUME Inv, Supervise
    PROVE  \/ sup'.last_goal \in Orders
           \/ sup'.last_goal = NoOrder /\ ~Doing'
           \/ sup'.last_goal = sup.last_goal /\ (Doing' => Doing)
<1>0. /\ reactor \in Task /\ sup \in Locals /\ inner \in Channel
      /\ "cancel" \in Commands /\ "cancel" \notin Orders
      /\ NoOrder \notin Orders
  BY OrdersAssumption DEF Inv, TypeOK, Commands
<1>1. CASE TakeOrder
  BY <1>0, <1>1 DEF TakeOrder, Take, Locals
<1>2. CASE TakeCancel
  <2>1. Take("cancel", NoOrder, sup.quit) /\ UNCHANGED <<inner, reactor>>
    BY <1>2 DEF TakeCancel
  <2>2. UnderWay' = Append(UnderWay, "cancel") /\ UnderWay \in Seq(Commands) /\ sup'.last_goal = NoOrder
    BY <2>1, TakeUnderWay
  <2>3. \A x : ~InForce(x, Append(UnderWay, "cancel"))
    BY <1>0, <2>2, InForceAppend
  <2>4. ~Doing'
    BY <2>2, <2>3 DEF Doing, InForce
  <2> QED BY <2>2, <2>4
<1>3. CASE TakeDisconnect \/ TakeOther
  <2>1. PICK c, b : /\ c \in {"disconnect", "bank", "move"}
                       /\ Take(c, sup.last_goal, b) /\ UNCHANGED <<inner, reactor>>
    BY <1>3 DEF TakeDisconnect, TakeOther
  <2>2. /\ UnderWay' = Append(UnderWay, c) /\ UnderWay \in Seq(Commands)
        /\ sup'.last_goal = sup.last_goal /\ c \in Commands \ Orders
    BY <2>1, TakeUnderWay, OrdersAssumption
  <2>3. ASSUME Doing' PROVE Doing
    <3>1. Running /\ InForce(reactor.goal, Append(UnderWay, c))
      BY <2>1, <2>2, <2>3 DEF Doing, Running, InForce
    <3>2. InForce(reactor.goal, UnderWay)
      BY <2>2, <3>1, InForceAppend
    <3> QED BY <3>1, <3>2 DEF Doing
  <2> QED BY <2>2, <2>3
<1>4. CASE Send
  <2>1. /\ sup.hold # NoOrder /\ sup'.hold = NoOrder /\ sup'.last_goal = sup.last_goal
        /\ inner'.q = Append(inner.q, sup.hold) /\ UNCHANGED reactor
    BY <1>0, <1>4 DEF Send, Inv, Locals, Channel
  <2>2. UnderWay' = UnderWay
    BY <2>1 DEF UnderWay
  <2> QED BY <2>1, <2>2 DEF Doing, Running, InForce
<1>5. CASE SendFails
  BY <1>0, <1>5 DEF SendFails, Doing, Running, Locals
<1>6. CASE CallerDropped
  <2>1. /\ sup'.hold = sup.hold /\ sup'.last_goal = sup.last_goal
        /\ inner'.q = inner.q /\ UNCHANGED reactor
    BY <1>0, <1>6 DEF CallerDropped, Locals, Channel
  <2>2. UnderWay' = UnderWay
    BY <2>1 DEF UnderWay
  <2> QED BY <2>1, <2>2 DEF Doing, Running, InForce
<1>7. CASE CleanExit \/ Return
  BY <1>0, <1>7 DEF CleanExit, Return, Joins, Doing, Running, Locals
<1>8. CASE Retry
  BY <1>0, <1>8 DEF Retry, Joins, Doing, Running, Locals
<1>9. CASE Wake
  <2>1. sup'.last_goal = sup.last_goal /\ sup.last_goal \in Orders \cup {NoOrder}
        /\ sup'.hold = NoOrder /\ inner' = Replay(sup.last_goal) /\ reactor'.goal = NoOrder
    BY <1>0, <1>9 DEF Wake, Inv, Locals, Spawned
  <2>2. UnderWay' = Replay(sup.last_goal).q
    BY <2>1 DEF UnderWay
  <2>3. CASE sup.last_goal = NoOrder
    <3>1. ~InForce(NoOrder, Replay(sup.last_goal).q)
      BY <2>3, FreshInForce
    <3> QED BY <2>1, <2>2, <2>3, <3>1 DEF Doing, InForce
  <2> QED BY <2>1, <2>3
<1> QED BY <1>1, <1>2, <1>3, <1>4, <1>5, <1>6, <1>7, <1>8, <1>9 DEF Supervise

\* supervisor::run, its restarts and its goal file implement one standing
\* order: an initial state maps to an initial state, and every step gives,
\* cancels, stops or resumes the order, or leaves it as it is.
THEOREM Refinement == Spec => ImplementsStandingOrder
<1>0. NoOrder \notin Orders
  BY OrdersAssumption DEF Commands
<1>1. Init => Order!Init
  <2> SUFFICES ASSUME Init PROVE Order!Init
    OBVIOUS
  <2>1. /\ disk \in Orders \cup {NoOrder} /\ sup.last_goal = disk /\ sup.hold = NoOrder
        /\ reactor.goal = NoOrder /\ Running /\ inner = Replay(disk)
    BY StartTyped DEF Init, Spawned, Running
  <2>2. Doing <=> disk # NoOrder
    BY <2>1, FreshInForce DEF Doing, UnderWay
  <2>3. Doing = (sup.last_goal # NoOrder)
    BY <2>1, <2>2 DEF Doing
  <2> QED BY <2>1, <2>3 DEF Order!Init
<1>2. Inv /\ [Next]_vars => [Order!Next]_<<sup.last_goal, Doing>>
  <2> SUFFICES ASSUME Inv, [Next]_vars
               PROVE  [Order!Next]_<<sup.last_goal, Doing>>
    OBVIOUS
  <2>0. /\ Doing \in BOOLEAN /\ Doing' \in BOOLEAN
        /\ sup.last_goal \in Orders \cup {NoOrder}
    BY DEF Doing, Inv, TypeOK, Locals
  <2>1. ASSUME sup'.last_goal \in Orders PROVE Order!Next
    BY <2>0, <2>1 DEF Order!Next, Order!Give
  <2>2. ASSUME sup'.last_goal = NoOrder, ~Doing' PROVE Order!Next
    BY <2>2 DEF Order!Next, Order!Cancel
  <2>3. ASSUME sup'.last_goal = sup.last_goal, Doing' => Doing
        PROVE  [Order!Next]_<<sup.last_goal, Doing>>
    <3>1. CASE Doing' = Doing
      BY <2>3, <3>1
    <3>2. CASE ~Doing'
      BY <2>3, <3>2 DEF Order!Next, Order!Stop
    <3>3. (Doing' = Doing) \/ ~Doing'
      BY <2>0, <2>3
    <3> QED BY <3>1, <3>2, <3>3
  <2>4. CASE Operator
    <3>1. UNCHANGED <<sup, inner, reactor>>
      BY <2>4 DEF Operator, Ask, HangUp
    <3>2. sup'.last_goal = sup.last_goal /\ (Doing' => Doing)
      BY <3>1 DEF Doing, Running, UnderWay, InForce
    <3> QED BY <2>3, <3>2
  <2>5. CASE Supervise
    BY <2>1, <2>2, <2>3, <2>5, SuperviseOrders
  <2>6. CASE React
    BY <2>3, <2>6, ReactStops
  <2>7. CASE Crash
    <3>1. /\ disk \in Orders \cup {NoOrder} /\ sup'.last_goal = disk /\ sup'.hold = NoOrder
          /\ reactor'.goal = NoOrder /\ inner' = Replay(disk)
      BY <2>7, StartTyped DEF Crash, Spawned, Inv, TypeOK
    <3>2. CASE disk = NoOrder
      <4>1. ~InForce(NoOrder, Replay(NoOrder).q)
        BY FreshInForce
      <4>2. ~Doing'
        BY <3>1, <3>2, <4>1 DEF Doing, UnderWay, InForce
      <4> QED BY <2>2, <3>1, <3>2, <4>2
    <3> QED BY <2>1, <3>1, <3>2
  <2>8. CASE UNCHANGED vars
    <3>1. UNCHANGED <<sup, inner, reactor>>
      BY <2>8 DEF vars
    <3>2. sup'.last_goal = sup.last_goal /\ (Doing' => Doing)
      BY <3>1 DEF Doing, Running, UnderWay, InForce
    <3> QED BY <2>3, <3>2
  <2> QED BY <2>4, <2>5, <2>6, <2>7, <2>8 DEF Next
<1> QED BY <1>1, <1>2, InvInductive, PTL DEF Spec, ImplementsStandingOrder, Order!Spec

\* CancelStops: after the operator's cancel, no order is carried out by any
\* attempt, reconnect or restart until a new one is given.  It is what the
\* standing order guarantees, carried over by Refinement.
THEOREM CancelSafe == Spec => []CancelStops
<1>0. NoOrder \notin Orders
  BY OrdersAssumption DEF Commands
<1>1. Order!Init => CancelStops
  BY DEF Order!Init, CancelStops
<1>2. CancelStops /\ [Order!Next]_<<sup.last_goal, Doing>> => CancelStops'
  <2> SUFFICES ASSUME CancelStops, [Order!Next]_<<sup.last_goal, Doing>>
               PROVE  CancelStops'
    OBVIOUS
  <2>1. CASE Order!Give
    BY <1>0, <2>1 DEF Order!Give, CancelStops
  <2>2. CASE Order!Cancel
    BY <2>2 DEF Order!Cancel, CancelStops
  <2>3. CASE Order!Stop
    BY <2>3 DEF Order!Stop, CancelStops
  <2>4. CASE Order!Resume
    BY <2>4 DEF Order!Resume, CancelStops
  <2>5. CASE UNCHANGED <<sup.last_goal, Doing>>
    BY <2>5 DEF CancelStops
  <2> QED BY <2>1, <2>2, <2>3, <2>4, <2>5 DEF Order!Next
<1> QED BY <1>1, <1>2, Refinement, PTL DEF ImplementsStandingOrder, Order!Spec

\* GoalIsDurable: as long as GoalStore::save and ::clear succeed, a killed
\* process finds the goal it was pursuing on disk, whenever it is killed.
THEOREM GoalDurable ==
    ASSUME MaxDiskFaults = 0
    PROVE  Spec => []GoalIsDurable
<1>1. Init => GoalIsDurable
  BY StartTyped DEF Init, GoalIsDurable
<1>2. Inv /\ GoalIsDurable /\ [Next]_vars => GoalIsDurable'
  <2> SUFFICES ASSUME Inv, GoalIsDurable, [Next]_vars PROVE GoalIsDurable'
    OBVIOUS
  <2>0. /\ disk = sup.last_goal /\ disk \in Orders \cup {NoOrder}
        /\ sup \in Locals /\ ~(used.faults < MaxDiskFaults)
    BY DEF GoalIsDurable, Inv, TypeOK, Budget
  <2>1. CASE TakeOrder
    <3>1. PICK g \in Orders : Take(g, g, sup.quit) /\ Store(g)
      BY <2>1 DEF TakeOrder
    <3> QED BY <2>0, <3>1 DEF Take, Store, Locals, GoalIsDurable
  <2>2. CASE TakeCancel
    BY <2>0, <2>2 DEF TakeCancel, Take, Store, Locals, GoalIsDurable
  <2>3. CASE TakeDisconnect \/ TakeOther
    BY <2>0, <2>3 DEF TakeDisconnect, TakeOther, Take, Locals, GoalIsDurable
  <2>4. CASE Send \/ SendFails \/ CallerDropped \/ CleanExit \/ Return \/ Wake
    BY <2>0, <2>4
       DEF Send, SendFails, CallerDropped, CleanExit, Return, Wake, Locals, GoalIsDurable
  <2>5. CASE Retry
    BY <2>0, <2>5 DEF Retry, Locals, GoalIsDurable
  <2>6. CASE React
    <3>1. UNCHANGED <<sup, disk>>
      BY <2>6 DEF React, HandleOrder, HandleCancel, HandleBank, HandleMove, HandleDisconnect,
                  HandleClosed, GoalEnds, Login, SessionLeaves, SessionSilent,
                  SessionLoggedOut, SessionFails, LoginRejected, Panic
    <3> QED BY <2>0, <3>1 DEF GoalIsDurable
  <2>7. CASE Operator
    BY <2>0, <2>7 DEF Operator, Ask, HangUp, GoalIsDurable
  <2>8. CASE Crash
    BY <2>0, <2>8, StartTyped DEF Crash, GoalIsDurable
  <2>9. CASE UNCHANGED vars
    BY <2>0, <2>9 DEF vars, GoalIsDurable
  <2> QED BY <2>1, <2>2, <2>3, <2>4, <2>5, <2>6, <2>7, <2>8, <2>9 DEF Next, Supervise
<1> QED BY <1>1, <1>2, InvInductive, PTL DEF Spec

-----------------------------------------------------------------------------
(* The backoff keeps pace with the failures in a row.                      *)

\* A set of n + 1 elements has twice the subsets of one of n: each subset
\* that lacks the new element has a companion that has it.
LEMMA PowerDoubles ==
    ASSUME NEW n \in Nat
    PROVE  2^n \in Nat /\ 2^(n + 1) = 2^n + 2^n
<1> DEFINE S == 1..n
           T == S \cup {n + 1}
           without == SUBSET S
           with == {x \cup {n + 1} : x \in without}
           f == [x \in without |-> x \cup {n + 1}]
<1>1. IsFiniteSet(S) /\ Cardinality(S) = n /\ n + 1 \notin S
  BY FS_Interval
<1> HIDE DEF S
<1>2. IsFiniteSet(T) /\ Cardinality(T) = n + 1
  BY <1>1, FS_AddElement
<1>3. /\ IsFiniteSet(without) /\ Cardinality(without) = 2^n
      /\ Cardinality(without) \in Nat
  <2>1. IsFiniteSet(without) /\ Cardinality(without) = 2^Cardinality(S)
    BY <1>1, FS_SUBSET, Zenon
  <2> QED BY <2>1, <1>1, FS_CardinalityType, Zenon
<1>4. Cardinality(SUBSET T) = 2^(n + 1)
  <2>1. Cardinality(SUBSET T) = 2^Cardinality(T)
    BY <1>2, FS_SUBSET, Zenon
  <2> QED BY <2>1, <1>2, Zenon
<1>5. \A x \in without, y \in without : f[x] = f[y] => x = y
  <2> SUFFICES ASSUME NEW x \in without, NEW y \in without, x \cup {n + 1} = y \cup {n + 1}
               PROVE  x = y
    OBVIOUS
  <2>1. n + 1 \notin x /\ n + 1 \notin y
    BY <1>1
  <2> QED BY <2>1
<1>6. ExistsBijection(without, with)
  <2>1. f \in [without -> with]
    OBVIOUS
  <2>2. \A z \in with : \E x \in without : f[x] = z
    OBVIOUS
  <2> HIDE DEF f, with, without
  <2>3. f \in Bijection(without, with)
    BY <2>1, <2>2, <1>5, Fun_IsBij
  <2> QED BY <2>3, Zenon DEF ExistsBijection
<1>7. IsFiniteSet(with) /\ Cardinality(with) = 2^n
  BY <1>3, <1>6, FS_Bijection, Zenon
<1>8. SUBSET T = without \cup with
  <2>1. ASSUME NEW x \in SUBSET T PROVE x \in without \cup with
    <3>1. CASE n + 1 \in x
      <4>1. x \ {n + 1} \in without /\ x = (x \ {n + 1}) \cup {n + 1}
        BY <3>1
      <4> QED BY <4>1
    <3>2. CASE n + 1 \notin x
      BY <3>2
    <3> QED BY <3>1, <3>2
  <2>2. ASSUME NEW x \in without \cup with PROVE x \in SUBSET T
    OBVIOUS
  <2> QED BY <2>1, <2>2
<1>9. without \cap with = {}
  <2>1. \A x \in with : n + 1 \in x
    OBVIOUS
  <2>2. \A x \in without : n + 1 \notin x
    BY <1>1
  <2> QED BY <2>1, <2>2
<1> HIDE DEF with, without, T
<1>10. Cardinality(without \cup with) =
         Cardinality(without) + Cardinality(with) - Cardinality(without \cap with)
  BY <1>3, <1>7, FS_Union
<1>11. Cardinality(without \cap with) = 0
  BY <1>9, FS_EmptySet
<1>12. 2^(n + 1) = Cardinality(without) + Cardinality(with) - 0
  BY <1>4, <1>8, <1>10, <1>11, Zenon
<1> DEFINE c == Cardinality(without)
           d == Cardinality(with)
<1>13. c \in Nat /\ d \in Nat /\ 2^n = c /\ d = c /\ 2^(n + 1) = c + d - 0
  BY <1>3, <1>7, <1>12, Zenon
<1> HIDE DEF c, d
<1>14. c + d - 0 = c + c
  BY <1>13
<1> QED BY <1>13, <1>14, Zenon

LEMMA PowerStarts == 2^0 = 1
<1>1. Cardinality(SUBSET {}) = 2^Cardinality({})
  BY FS_EmptySet, FS_SUBSET, Zenon
<1>2. SUBSET {} = {{}}
  OBVIOUS
<1>3. Cardinality({{}}) = 1 /\ Cardinality({}) = 0
  BY FS_Singleton, FS_EmptySet, Zenon
<1> QED BY <1>1, <1>2, <1>3, Zenon

\* The sleep that the n-th failure in a row owes.
Pause(n) == InitialBackoff * 2^n

LEMMA PauseDoubles ==
    /\ Pause(0) = InitialBackoff
    /\ \A n \in Nat : Pause(n) \in Nat /\ Pause(n + 1) = 2 * Pause(n)
<1>1. Pause(0) = InitialBackoff
  <2>1. Pause(0) = InitialBackoff * 1
    BY PowerStarts, Zenon DEF Pause
  <2> QED BY <2>1, NumbersAssumption
<1>2. ASSUME NEW n \in Nat PROVE Pause(n) \in Nat /\ Pause(n + 1) = 2 * Pause(n)
  <2> DEFINE p == 2^n
             q == 2^(n + 1)
  <2>1. p \in Nat /\ q = p + p
    BY PowerDoubles, Zenon
  <2>2. Pause(n) = InitialBackoff * p /\ Pause(n + 1) = InitialBackoff * q
    BY Zenon DEF Pause
  <2> HIDE DEF p, q
  <2>3. InitialBackoff * p \in Nat /\ InitialBackoff * (p + p) = 2 * (InitialBackoff * p)
    BY <2>1, NumbersAssumption
  <2> QED BY <2>1, <2>2, <2>3, Zenon
<1> QED BY <1>1, <1>2

\* The failures so far have doubled the backoff once each, or it is at its
\* cap; the last one's doubling is done when the sleep is over.
Paced(l) ==
    /\ l.phase \in {"attempt", "send", "join"} =>
         l.backoff = MaxBackoff \/ l.backoff >= Pause(l.failures)
    /\ l.phase = "sleep" /\ l.failures > 0 =>
         l.backoff = MaxBackoff \/ l.backoff >= Pause(l.failures - 1)

LEMMA RetryPaced ==
    ASSUME Inv, Paced(sup), Retry
    PROVE  Paced(sup')
<1>1. PICK long \in BOOLEAN :
        sup' = [sup EXCEPT !.phase = AfterFailures(IF long THEN 0 ELSE sup.failures + 1),
                           !.failures = IF long THEN 0 ELSE sup.failures + 1,
                           !.backoff = IF long THEN InitialBackoff ELSE sup.backoff]
  BY DEF Retry
<1>2. /\ sup \in Locals /\ sup.phase \in {"attempt", "join"}
      /\ sup.failures \in Nat
  BY DEF Retry, Joins, Inv, TypeOK, Locals
<1>3. \A n : AfterFailures(n) \in {"sleep", "returned_err"}
  BY DEF AfterFailures
<1>4. CASE long
  <2>1. sup'.failures = 0 /\ sup'.phase \in {"sleep", "returned_err"}
    BY <1>1, <1>2, <1>3, <1>4 DEF Locals
  <2> QED BY <2>1 DEF Paced
<1>5. CASE ~long
  <2>1. /\ sup'.failures = sup.failures + 1 /\ sup'.backoff = sup.backoff
        /\ sup'.phase \in {"sleep", "returned_err"}
    BY <1>1, <1>2, <1>3, <1>5 DEF Locals
  <2>2. sup'.failures - 1 = sup.failures
    BY <2>1, <1>2
  <2>3. sup.backoff = MaxBackoff \/ sup.backoff >= Pause(sup.failures)
    BY <1>2 DEF Paced
  <2> QED BY <2>1, <2>2, <2>3, Zenon DEF Paced
<1> QED BY <1>4, <1>5

LEMMA WakePaced ==
    ASSUME Inv, Paced(sup), Wake
    PROVE  Paced(sup')
<1>1. /\ sup'.phase = "attempt" /\ sup'.failures = sup.failures
      /\ sup'.backoff = Doubled(sup.backoff)
  BY DEF Wake, Inv, TypeOK, Locals
<1>2. /\ sup.failures \in Nat /\ sup.backoff \in InitialBackoff..MaxBackoff
      /\ sup.phase = "sleep"
  BY DEF Wake, Inv, TypeOK, Locals
<1> SUFFICES Doubled(sup.backoff) = MaxBackoff \/ Doubled(sup.backoff) >= Pause(sup.failures)
  BY <1>1, Zenon DEF Paced
<1>3. CASE sup.failures = 0
  <2>1. Doubled(sup.backoff) >= InitialBackoff
    BY <1>2, DoubledBounds, NumbersAssumption
  <2> QED BY <2>1, <1>3, PauseDoubles
<1>4. CASE sup.failures # 0
  <2> DEFINE m == sup.failures - 1
  <2>1. m \in Nat /\ m + 1 = sup.failures /\ sup.failures > 0
    BY <1>2, <1>4
  <2>2. sup.backoff = MaxBackoff \/ sup.backoff >= Pause(m)
    BY <2>1, <1>2 DEF Paced
  <2>3. Pause(m) \in Nat /\ Pause(sup.failures) = 2 * Pause(m)
    BY <2>1, PauseDoubles
  <2> HIDE DEF m
  <2> QED BY <2>2, <2>3, <1>2, NumbersAssumption DEF Doubled
<1> QED BY <1>3, <1>4

\* BackoffKeepsPace: the n-th failure in a row is followed by a sleep of
\* 2^(n-1) initial backoffs or the cap, whatever came before.
THEOREM BackoffHolds == Spec => []BackoffKeepsPace
<1>1. Init => Paced(sup)
  <2> SUFFICES ASSUME Init PROVE Paced(sup)
    OBVIOUS
  <2>1. sup.phase = "attempt" /\ sup.failures = 0 /\ sup.backoff = InitialBackoff
    BY DEF Init, Start
  <2> QED BY <2>1, PauseDoubles, NumbersAssumption DEF Paced
<1>2. Inv /\ Paced(sup) /\ [Next]_vars => Paced(sup)'
  <2> SUFFICES ASSUME Inv, Paced(sup), [Next]_vars PROVE Paced(sup')
    OBVIOUS
  <2>1. ASSUME sup'.failures = sup.failures, sup'.backoff = sup.backoff,
               \/ sup'.phase \in Over
               \/ sup.phase \in {"attempt", "send", "join"}
                    /\ sup'.phase \in {"attempt", "send", "join"}
        PROVE  Paced(sup')
    BY <2>1 DEF Paced, Over
  <2>2. CASE TakeOrder \/ TakeCancel \/ TakeDisconnect \/ TakeOther \/ Send \/ SendFails
               \/ CallerDropped \/ CleanExit \/ Return
    <3>1. /\ sup'.failures = sup.failures /\ sup'.backoff = sup.backoff
          /\ \/ sup'.phase \in Over
             \/ sup.phase \in {"attempt", "send", "join"}
                  /\ sup'.phase \in {"attempt", "send", "join"}
      BY <2>2 DEF TakeOrder, TakeCancel, TakeDisconnect, TakeOther, Take, Send, SendFails,
         CallerDropped, CleanExit, Return, Joins, Over, Inv, TypeOK, Locals
    <3> QED BY <3>1, <2>1
  <2>3. CASE Retry
    BY <2>3, RetryPaced
  <2>4. CASE Wake
    BY <2>4, WakePaced
  <2>5. CASE Crash
    <3>1. sup'.phase = "attempt" /\ sup'.failures = 0 /\ sup'.backoff = InitialBackoff
      BY <2>5 DEF Crash, Start
    <3> QED BY <3>1, PauseDoubles, NumbersAssumption DEF Paced
  <2>6. CASE Operator \/ React \/ UNCHANGED vars
    <3>1. sup' = sup
      BY <2>6 DEF Operator, Ask, HangUp, React, HandleOrder, HandleCancel, HandleBank,
                  HandleMove, HandleDisconnect, HandleClosed, GoalEnds, Login, SessionLeaves,
                  SessionSilent, SessionLoggedOut, SessionFails, LoginRejected, Panic, vars
    <3> QED BY <3>1
  <2> QED BY <2>2, <2>3, <2>4, <2>5, <2>6 DEF Next, Supervise
<1>3. Paced(sup) => BackoffKeepsPace
  BY Zenon DEF Paced, Pause, BackoffKeepsPace
<1> QED BY <1>1, <1>2, <1>3, InvInductive, PTL DEF Spec
=============================================================================
