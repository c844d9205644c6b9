---------------------------- MODULE ReactorProofs ----------------------------
(* Proofs about Reactor, for any set of mobs and any bounds.                  *)
EXTENDS Reactor, SequenceTheorems, TLAPS

LEMMA QueueTyped ==
    ASSUME NEW S, NEW q \in Seq(S)
    PROVE  /\ \A x \in S : Append(q, x) \in Seq(S)
           /\ \A t \in Seq(S) : q \o t \in Seq(S)
           /\ q # <<>> => Head(q) \in S /\ Tail(q) \in Seq(S)
OBVIOUS

LEMMA ShortQueues ==
    ASSUME NEW S, NEW x \in S, NEW y \in S
    PROVE  <<>> \in Seq(S) /\ <<x>> \in Seq(S) /\ <<x, y>> \in Seq(S)
OBVIOUS

LEMMA RequestsTyped ==
    /\ \A k \in Calls : Msg(k) \in Orders
    /\ \A k \in Calls, t \in Targets : About(k, t) \in Orders
    /\ \A k \in News : Msg(k) \in Reports
    /\ \A k \in News, t \in Targets : About(k, t) \in Reports
BY DEF Msg, About, Orders, Reports, Mobs

-----------------------------------------------------------------------------
(* What the reactor makes of its goal.                                        *)

LEMMA IdleTyped ==
    ASSUME NEW d, ReactorOK(d)
    PROVE  ReactorOK(Idle(d)) /\ ~Engages(Idle(d)) /\ Idle(d).view = d.view
BY TargetsAssumption DEF ReactorOK, Reactors, Idle, Engages, Kinds, Mobs

LEMMA EngagedTyped ==
    ASSUME NEW d, ReactorOK(d), NEW t \in Targets
    PROVE  ReactorOK(Engaged(d, t))
BY DEF ReactorOK, Reactors, Engaged, Engages, Kinds, Mobs

LEMMA AimedTyped ==
    ASSUME NEW d, ReactorOK(d), NEW t \in Mobs
    PROVE  ReactorOK(Aimed(d, t)) /\ (~Engages(d) => Aimed(d, t) = d)
BY IdleTyped, EngagedTyped DEF Aimed, Mobs

LEMMA ViewTyped ==
    ASSUME NEW d, ReactorOK(d), NEW t, NEW v \in {"alive", "dead", "absent"}
    PROVE  ReactorOK([d EXCEPT !.view[t] = v]) /\ [d EXCEPT !.view[t] = v].goal = d.goal
BY DEF ReactorOK, Reactors, Engages

LEMMA GoalSeesTyped ==
    ASSUME NEW d, ReactorOK(d), NEW e \in Reports
    PROVE  ReactorOK(GoalSees(d, e)) /\ (~Engages(d) => ~Engages(GoalSees(d, e)))
<1>0. e.kind \in News /\ e.target \in Mobs
  BY DEF Reports
<1>1. CASE e.kind = "target"
  <2>1. GoalSees(d, e) = Aimed(d, e.target)
    BY <1>1 DEF GoalSees
  <2> QED BY <2>1, <1>0, AimedTyped
<1>2. CASE e.kind = "attack" /\ d.goal = "engaging"
  <2>1. GoalSees(d, e) = Engaged(d, d.target) /\ Engages(d) /\ d.target \in Targets
    BY <1>2 DEF GoalSees, Engages, ReactorOK
  <2> QED BY <2>1, EngagedTyped
<1>3. CASE (e.kind = "refused" /\ d.goal = "engaging") \/ e.kind = "died"
  <2>1. GoalSees(d, e) = Idle(d)
    BY <1>3 DEF GoalSees
  <2> QED BY <2>1, IdleTyped
<1>4. CASE e.kind = "zone"
  <2>1. GoalSees(d, e) = [Idle(d) EXCEPT !.view = [t \in Targets |-> "absent"]]
    BY <1>4 DEF GoalSees
  <2> QED BY <2>1, IdleTyped DEF ReactorOK, Reactors, Engages
<1>5. CASE e.kind \in {"dead", "absent"}
  <2>1. GoalSees(d, e) = [d EXCEPT !.view[e.target] = e.kind]
    BY <1>5 DEF GoalSees
  <2>2. e.kind \in {"alive", "dead", "absent"}
    BY <1>5
  <2>3. /\ ReactorOK([d EXCEPT !.view[e.target] = e.kind])
        /\ [d EXCEPT !.view[e.target] = e.kind].goal = d.goal
    BY <2>2, ViewTyped, Zenon
  <2> QED BY <2>1, <2>3, Zenon DEF Engages
<1>6. CASE e.kind = "forced"
  <2>1. GoalSees(d, e) = [d EXCEPT !.over = TRUE]
    BY <1>6 DEF GoalSees
  <2> QED BY <2>1 DEF ReactorOK, Reactors, Engages
<1>7. CASE /\ e.kind \notin {"target", "died", "zone", "dead", "absent", "forced"}
           /\ ~(e.kind = "attack" /\ d.goal = "engaging")
           /\ ~(e.kind = "refused" /\ d.goal = "engaging")
  BY <1>7 DEF GoalSees
<1> QED BY <1>1, <1>2, <1>3, <1>4, <1>5, <1>6, <1>7

LEMMA FishSeesTyped ==
    ASSUME NEW f \in Machine, NEW e \in Reports
    PROVE  FishSees(f, e) \in Machine
BY DEF FishSees, Machine, Fighting

LEMMA TickGoalTyped ==
    ASSUME NEW d, ReactorOK(d), NEW due \in BOOLEAN
    PROVE  ReactorOK(TickGoal(d, due)) /\ (~Engages(d) => ~Engages(TickGoal(d, due)))
<1>1. CASE TickGoal(d, due) = d
  BY <1>1
<1>2. CASE TickGoal(d, due) = Idle(d)
  BY <1>2, IdleTyped
<1>3. CASE TickGoal(d, due) = [d EXCEPT !.issued = d.issued \/ Strikes(d)]
  BY <1>3 DEF ReactorOK, Reactors, Engages
<1> QED BY <1>1, <1>2, <1>3 DEF TickGoal

LEMMA FishTyped ==
    ASSUME NEW d, ReactorOK(d), NEW f \in Machine
    PROVE  ReactorOK([d EXCEPT !.fish = f]) /\ [d EXCEPT !.fish = f].goal = d.goal
BY DEF ReactorOK, Reactors, Engages

\* The moves of the fishing machine send at most one request of its own.
Moves == {m \in Machine \X Seq(Orders) :
            m[2] = <<>> \/ \E k \in {"end", "check", "release"} : m[2] = <<Msg(k)>>}

LEMMA MovesTyped ==
    ASSUME NEW f \in Machine
    PROVE  /\ Plays(f) \subseteq Moves /\ RunsOut(f) \in Moves
           /\ Inputs(f) \subseteq Moves
<1>1. /\ <<>> \in Seq(Orders)
      /\ \A k \in Calls : <<Msg(k)>> \in Seq(Orders)
  BY RequestsTyped
<1>2. /\ \A g \in Machine : <<g, <<>>>> \in Moves
      /\ \A g \in Machine, k \in {"end", "check", "release"} : <<g, <<Msg(k)>>>> \in Moves
  BY <1>1 DEF Moves, Calls
<1>3. /\ "hook" \in Machine /\ "center" \in Machine /\ "arrow" \in Machine
      /\ "ending" \in Machine /\ "idle" \in Machine /\ "checking" \in Machine
      /\ "releasing" \in Machine
  BY DEF Machine, Fighting
<1>4. Plays(f) \subseteq Moves
  BY <1>2, <1>3 DEF Plays
<1>5. RunsOut(f) \in Moves
  BY <1>2, <1>3 DEF RunsOut
<1>6. Inputs(f) \subseteq Moves
  BY <1>2, <1>3 DEF Inputs
<1> QED BY <1>4, <1>5, <1>6

-----------------------------------------------------------------------------
(* Typing, action by action.                                                  *)

LEMMA PushTyped ==
    ASSUME TypeOK, NEW msgs \in Seq(Reports), Push(msgs)
    PROVE  down' \in Seq(Reports)
BY QueueTyped, Zenon DEF Push, TypeOK

LEMMA RequestTyped ==
    ASSUME TypeOK, NEW k, Request(k)
    PROVE  up' \in Seq(Orders) /\ Head(up) \in Orders
BY QueueTyped, Zenon DEF Request, TypeOK

LEMMA BudgetTyped ==
    ASSUME used \in Budget
    PROVE  /\ used.orders < MaxOrders => [used EXCEPT !.orders = @ + 1] \in Budget
           /\ MoreTrouble => [used EXCEPT !.faults = @ + 1] \in Budget
           /\ MoreTrouble => [used EXCEPT !.cuts = @ + 1] \in Budget
           /\ used.status < MaxStatus => [used EXCEPT !.status = @ + 1] \in Budget
BY BoundsAssumption DEF Budget, MoreTrouble

LEMMA EngageTyped ==
    ASSUME TypeOK, Engage
    PROVE  TypeOK'
<1>1. PICK t \in Targets :
          /\ Order
          /\ r' = [r EXCEPT !.goal = IF r.goal = "engaged" THEN r.goal ELSE "engaging",
                            !.target = t, !.issued = FALSE]
          /\ hist' = [hist EXCEPT !.off = FALSE, !.rash = hist.rash \/ ~EngageSettled]
          /\ up' = up
  BY DEF Engage
<1>2. ReactorOK(r')
  BY <1>1 DEF TypeOK, ReactorOK, Reactors, Engages, Kinds, Mobs
<1>3. used' \in Budget /\ srv' = srv /\ down' = down
  BY <1>1, BudgetTyped DEF Order, TypeOK
<1>4. hist' \in Histories
  BY <1>1, Zenon DEF TypeOK, Histories
<1> QED BY <1>1, <1>2, <1>3, <1>4 DEF TypeOK

LEMMA CancelTyped ==
    ASSUME TypeOK, Cancel
    PROVE  TypeOK'
<1>1. used' \in Budget /\ srv' = srv /\ down' = down
  BY BudgetTyped DEF Cancel, Order, TypeOK
<1>2. ReactorOK(r')
  BY IdleTyped DEF Cancel, TypeOK
<1>3. up' \in Seq(Orders)
  <2>1. CASE Reaches(r)
    <3>1. r.target \in Targets
      BY <2>1 DEF Reaches, TypeOK, ReactorOK
    <3>2. About("off", r.target) \in Orders
      BY <3>1, RequestsTyped DEF Calls
    <3> QED BY <2>1, <3>2, QueueTyped, Zenon DEF Cancel, TypeOK
  <2>2. CASE ~Reaches(r)
    BY <2>2 DEF Cancel, TypeOK
  <2> QED BY <2>1, <2>2
<1>4. hist' \in Histories
  BY Zenon DEF Cancel, TypeOK, Histories
<1> QED BY <1>1, <1>2, <1>3, <1>4 DEF TypeOK

LEMMA GoalOrdersTyped ==
    ASSUME TypeOK, Travel \/ Move
    PROVE  TypeOK'
<1>1. used' \in Budget /\ srv' = srv /\ down' = down /\ up' = up /\ hist' = hist
  BY BudgetTyped DEF Travel, Move, Order, TypeOK
<1>2. ReactorOK(r')
  <2>1. ReactorOK(Idle(r)) /\ ReactorOK([Idle(r) EXCEPT !.goal = "travel"])
    <3>1. ReactorOK(Idle(r)) /\ ~Engages(Idle(r))
      BY IdleTyped DEF TypeOK
    <3> QED BY <3>1 DEF ReactorOK, Reactors, Engages, Kinds
  <2>2. r' \in {r, Idle(r), [Idle(r) EXCEPT !.goal = "travel"]}
    BY DEF Travel, Move
  <2> QED BY <2>1, <2>2 DEF TypeOK
<1> QED BY <1>1, <1>2 DEF TypeOK

LEMMA FishTypedStep ==
    ASSUME TypeOK, Fish
    PROVE  TypeOK'
<1>1. used' \in Budget /\ srv' = srv /\ down' = down
  BY BudgetTyped DEF Fish, Order, TypeOK
<1>2. "casting" \in Machine /\ Msg("fish") \in Orders
  BY RequestsTyped DEF Machine, Calls
<1>3. ReactorOK(r')
  <2>1. ReactorOK([r EXCEPT !.fish = "casting"])
    BY <1>2, FishTyped, Zenon DEF TypeOK
  <2>2. r' = r \/ r' = [r EXCEPT !.fish = "casting"]
    BY DEF Fish
  <2> QED BY <2>1, <2>2, Zenon DEF TypeOK
<1>4. up' \in Seq(Orders)
  <2>1. Append(up, Msg("fish")) \in Seq(Orders)
    BY <1>2, QueueTyped, Zenon DEF TypeOK
  <2>2. up' = up \/ up' = Append(up, Msg("fish"))
    BY DEF Fish
  <2> QED BY <2>1, <2>2, Zenon DEF TypeOK
<1>5. hist' \in Histories
  BY Zenon DEF Fish, TypeOK, Histories
<1> QED BY <1>1, <1>3, <1>4, <1>5 DEF TypeOK

LEMMA InputTyped ==
    ASSUME TypeOK, Input
    PROVE  TypeOK'
<1>1. PICK m \in Inputs(r.fish) :
          Order /\ r' = [r EXCEPT !.fish = m[1]] /\ up' = up \o m[2] /\ hist' = hist
  BY DEF Input
<1>2. m[1] \in Machine /\ m[2] \in Seq(Orders)
  BY MovesTyped DEF Moves, TypeOK, ReactorOK, Reactors
<1>3. used' \in Budget /\ srv' = srv /\ down' = down
  BY <1>1, BudgetTyped DEF Order, TypeOK
<1>4. ReactorOK(r')
  BY <1>1, <1>2, FishTyped, Zenon DEF TypeOK
<1>5. up' \in Seq(Orders)
  BY <1>1, <1>2, QueueTyped, Zenon DEF TypeOK
<1> QED BY <1>1, <1>3, <1>4, <1>5 DEF TypeOK

LEMMA TickTyped ==
    ASSUME TypeOK, NEW due \in BOOLEAN, NEW move \in Moves, TickWith(due, move)
    PROVE  TypeOK'
<1>1. ReactorOK(r')
  <2>1. move[1] \in Machine
    BY DEF Moves
  <2>2. ReactorOK(TickGoal(r, due))
    BY TickGoalTyped DEF TypeOK
  <2> QED BY <2>1, <2>2, FishTyped, Zenon DEF TickWith
<1>2. up' \in Seq(Orders)
  <2>1. move[2] \in Seq(Orders)
    BY DEF Moves
  <2>2. (IF Strikes(r) THEN Append(up, About("attack", r.target)) ELSE up) \in Seq(Orders)
    <3>1. CASE Strikes(r)
      <4>1. r.target \in Targets
        BY <3>1 DEF Strikes, TypeOK, ReactorOK
      <4>2. About("attack", r.target) \in Orders
        BY <4>1, RequestsTyped DEF Calls
      <4> QED BY <3>1, <4>2, QueueTyped, Zenon DEF TypeOK
    <3>2. CASE ~Strikes(r)
      BY <3>2 DEF TypeOK
    <3> QED BY <3>1, <3>2
  <2> QED BY <2>1, <2>2, QueueTyped, Zenon DEF TickWith
<1>3. used' \in Budget
  <2>1. \/ MoreTrouble /\ used' = [used EXCEPT !.faults = used.faults + 1]
        \/ used' = [used EXCEPT !.faults = used.faults]
    BY Zenon DEF TickWith
  <2> QED BY <2>1, BudgetTyped DEF TypeOK, Budget
<1>4. srv' = srv /\ down' = down /\ hist' = hist
  BY DEF TickWith
<1> QED BY <1>1, <1>2, <1>3, <1>4 DEF TypeOK

LEMMA ObserveTyped ==
    ASSUME TypeOK, Observe
    PROVE  TypeOK'
<1>1. Head(down) \in Reports /\ down' \in Seq(Reports)
  BY QueueTyped, Zenon DEF Observe, TypeOK
<1>2. FishSees(r.fish, Head(down)) \in Machine
  BY <1>1, FishSeesTyped DEF TypeOK, ReactorOK, Reactors
<1>3. ReactorOK(r')
  BY <1>1, <1>2, GoalSeesTyped, FishTyped, Zenon DEF Observe, TypeOK
<1> QED BY <1>1, <1>3 DEF TypeOK, Observe

LEMMA ExpireTyped ==
    ASSUME TypeOK, Expire
    PROVE  TypeOK'
BY DEF TypeOK, Expire, ReactorOK, Reactors, Engages

LEMMA AcceptTyped ==
    ASSUME TypeOK, Accept
    PROVE  TypeOK'
<1>1. up' \in Seq(Orders) /\ Head(up).target \in Targets
  BY RequestTyped DEF Accept, TypeOK, ServerOK, Servers
<1>2. <<About("target", Head(up).target)>> \in Seq(Reports)
  BY <1>1, RequestsTyped, ShortQueues DEF News
<1>3. down' \in Seq(Reports)
  BY <1>2, PushTyped, Zenon DEF Accept
<1>4. ServerOK(srv')
  BY <1>1, TargetsAssumption DEF Accept, TypeOK, ServerOK, Servers, Mobs
<1> QED BY <1>1, <1>3, <1>4 DEF TypeOK, Accept

LEMMA RefuseTyped ==
    ASSUME TypeOK, Refuse
    PROVE  TypeOK'
<1>1. up' \in Seq(Orders)
  BY RequestTyped DEF Refuse
<1>2. Msg("refused") \in Reports
  BY RequestsTyped DEF News
<1>3. down' \in Seq(Reports)
  BY <1>2, QueueTyped, Zenon DEF Refuse, TypeOK
<1>4. hist' \in Histories
  BY Zenon DEF Refuse, TypeOK, Histories
<1> QED BY <1>1, <1>3, <1>4 DEF TypeOK, Refuse

(* The other answers change the server along and push a few reports.          *)
LEMMA AnswerTyped ==
    ASSUME TypeOK, NEW k \in Calls, Request(k), ServerOK(srv'), r' = r,
           hist' \in Histories, used' = used,
           UNCHANGED down \/ \E msgs \in Seq(Reports) : Push(msgs)
    PROVE  TypeOK'
<1>1. up' \in Seq(Orders)
  BY RequestTyped
<1>2. down' \in Seq(Reports)
  BY PushTyped, Zenon DEF TypeOK
<1> QED BY <1>1, <1>2 DEF TypeOK

LEMMA DisengageTyped ==
    ASSUME TypeOK, Disengage
    PROVE  TypeOK'
<1>1. ServerOK(srv')
  BY TargetsAssumption DEF Disengage, TypeOK, ServerOK, Servers, Mobs
<1>2. /\ Request("off") /\ r' = r /\ used' = used /\ hist' = hist
      /\ \/ down' = down
         \/ \E m \in {<<>>, <<Msg("target")>>} : Push(m \o <<Msg("none")>>)
  BY DEF Disengage
<1>3. /\ <<Msg("none")>> \in Seq(Reports)
      /\ \A m \in {<<>>, <<Msg("target")>>} : m \in Seq(Reports)
  BY RequestsTyped, ShortQueues DEF News
<1>4. UNCHANGED down \/ \E msgs \in Seq(Reports) : Push(msgs)
  BY <1>2, <1>3, QueueTyped, Zenon
<1>5. "off" \in Calls /\ hist' \in Histories
  BY <1>2 DEF Calls, TypeOK
<1> QED BY <1>1, <1>2, <1>4, <1>5, AnswerTyped, Zenon

LEMMA FishingAnswersTyped ==
    ASSUME TypeOK, Cast \/ Check \/ Resolve \/ Release
    PROVE  TypeOK'
<1>1. ServerOK(srv')
  BY TargetsAssumption
     DEF Cast, Check, Resolve, Release, TypeOK, ServerOK, Servers, Phases, Mobs
<1>2. r' = r /\ used' = used /\ hist' \in Histories
  BY DEF Cast, Check, Resolve, Release, TypeOK
<1>3. \E k \in Calls : Request(k)
  BY DEF Cast, Check, Resolve, Release, Calls
<1>4. \/ UNCHANGED down
      \/ \E a \in {"start", "uncoff", "bite", "done"} : Push(<<Msg(a)>>)
      \/ \E a, b \in {"none", "uncoff"} : Push(<<Msg(a), Msg(b)>>)
  <2>1. CASE Cast
    BY <2>1 DEF Cast
  <2>2. CASE Check
    BY <2>2 DEF Check
  <2>3. CASE Resolve
    BY <2>3 DEF Resolve
  <2>4. CASE Release
    BY <2>4 DEF Release
  <2> QED BY <2>1, <2>2, <2>3, <2>4
<1>5. /\ \A a \in {"start", "uncoff", "bite", "done"} : <<Msg(a)>> \in Seq(Reports)
      /\ \A a, b \in {"none", "uncoff"} : <<Msg(a), Msg(b)>> \in Seq(Reports)
  BY RequestsTyped, ShortQueues DEF News, Phases
<1>6. UNCHANGED down \/ \E msgs \in Seq(Reports) : Push(msgs)
  BY <1>4, <1>5, Zenon
<1> QED BY <1>1, <1>2, <1>3, <1>6, AnswerTyped, Zenon

LEMMA CutTyped ==
    ASSUME TypeOK, Cut
    PROVE  used' \in Budget /\ r' = r /\ hist' = hist
BY BudgetTyped DEF Cut, TypeOK

LEMMA MobDiesTyped ==
    ASSUME TypeOK, NEW t \in srv.alive, Cut, up' = up,
           srv' = [anim |-> IF srv.battle = t THEN "none" ELSE srv.anim,
                   battle |-> IF srv.battle = t THEN NoTarget ELSE srv.battle,
                   alive |-> srv.alive \ {t}],
           Push(<<About("dead", t)>> \o IF srv.battle = t THEN <<Msg("target")>> ELSE <<>>)
    PROVE  TypeOK'
<1>1. used' \in Budget /\ r' = r /\ hist' = hist
  BY CutTyped
<1>2. ServerOK(srv') /\ t \in Targets
  BY TargetsAssumption DEF TypeOK, ServerOK, Servers, Mobs
<1>3. /\ <<About("dead", t)>> \in Seq(Reports)
      /\ (IF srv.battle = t THEN <<Msg("target")>> ELSE <<>>) \in Seq(Reports)
  BY <1>2, RequestsTyped, ShortQueues DEF News
<1>4. <<About("dead", t)>> \o (IF srv.battle = t THEN <<Msg("target")>> ELSE <<>>) \in Seq(Reports)
  BY <1>3, QueueTyped, Zenon
<1>5. down' \in Seq(Reports)
  BY <1>4, PushTyped, Zenon
<1> QED BY <1>1, <1>2, <1>5 DEF TypeOK

\* Everything else that befalls the line, the mobs and the player.
LEMMA EventsTyped ==
    ASSUME TypeOK, Status \/ Despawn \/ Interrupt \/ Die \/ Zone \/ ForcedMove
    PROVE  TypeOK'
<1>1. r' = r /\ hist' = hist /\ used' \in Budget
  BY CutTyped, BudgetTyped
     DEF Status, Despawn, Interrupt, Die, Zone, ForcedMove, TypeOK
<1>2. ServerOK(srv')
  <2>1. CASE Interrupt
    BY <2>1, TargetsAssumption
       DEF Interrupt, TypeOK, ServerOK, Servers, Phases, Mobs
  <2>2. CASE Die \/ Zone
    <3>1. \/ srv' = [srv EXCEPT !.anim = "none", !.battle = NoTarget]
          \/ srv' = [anim |-> "none", battle |-> NoTarget, alive |-> {}]
      BY <2>2 DEF Die, Zone
    <3>2. CASE srv' = [srv EXCEPT !.anim = "none", !.battle = NoTarget]
      BY <3>2 DEF TypeOK, ServerOK, Servers, Mobs
    <3>3. CASE srv' = [anim |-> "none", battle |-> NoTarget, alive |-> {}]
      BY <3>3 DEF ServerOK, Servers, Mobs
    <3> QED BY <3>1, <3>2, <3>3
  <2>3. CASE Status \/ Despawn \/ ForcedMove
    <3>1. srv' = srv
      BY <2>3 DEF Status, Despawn, ForcedMove
    <3> QED BY <3>1 DEF TypeOK
  <2> QED BY <2>1, <2>2, <2>3
<1>3. up' \in Seq(Orders)
  <2>1. up' = up \/ up' = <<>>
    BY DEF Status, Despawn, Interrupt, Die, Zone, ForcedMove
  <2>2. <<>> \in Seq(Orders)
    OBVIOUS
  <2> QED BY <2>1, <2>2, Zenon DEF TypeOK
<1>4. \/ \E a \in News : Push(<<Msg(a)>>)
      \/ \E t \in Targets : Push(<<About("absent", t)>>)
      \/ \E a, b \in News : Push(<<Msg(a), Msg(b)>>)
  <2>1. CASE Status
    <3>1. srv.anim \in News /\ Push(<<Msg(srv.anim)>>)
      BY <2>1 DEF Status, TypeOK, ServerOK, Servers, News
    <3> QED BY <3>1, Zenon
  <2>2. CASE Despawn
    BY <2>2 DEF Despawn
  <2>3. CASE Interrupt
    BY <2>3 DEF Interrupt, News
  <2>4. CASE Die
    BY <2>4 DEF Die, News
  <2>5. CASE Zone
    BY <2>5 DEF Zone, News
  <2>6. CASE ForcedMove
    BY <2>6 DEF ForcedMove, News
  <2> QED BY <2>1, <2>2, <2>3, <2>4, <2>5, <2>6
<1>5. /\ \A a \in News : <<Msg(a)>> \in Seq(Reports)
      /\ \A t \in Targets : <<About("absent", t)>> \in Seq(Reports)
      /\ \A a, b \in News : <<Msg(a), Msg(b)>> \in Seq(Reports)
  BY RequestsTyped, ShortQueues DEF News
<1>6. down' \in Seq(Reports)
  BY <1>4, <1>5, PushTyped, Zenon
<1> QED BY <1>1, <1>2, <1>3, <1>6 DEF TypeOK

LEMMA LoseTyped ==
    ASSUME TypeOK, Lose
    PROVE  TypeOK'
<1>1. used' \in Budget /\ r' = r /\ srv' = srv /\ hist' = hist
  BY BudgetTyped DEF Lose, TypeOK
<1>2. up' \in Seq(Orders) /\ down' \in Seq(Reports)
  BY QueueTyped, Zenon DEF Lose, TypeOK
<1> QED BY <1>1, <1>2 DEF TypeOK

-----------------------------------------------------------------------------
(* Why a Cancel disengages.  While it stands (hist.off), every attack still   *)
(* under way has the Cancel's AttackOff behind it, a battle the server holds  *)
(* has one still under way, and no tick strikes again.                        *)

Offs(q) == {i \in DOMAIN q : q[i].kind = "off"}

Calm(q, battle) ==
    /\ \A j \in DOMAIN q : q[j].kind = "attack" => \E i \in Offs(q) : i > j
    /\ battle # NoTarget => Offs(q) # {}

CancelStands == hist.off => ~Engages(r) /\ (used.faults = 0 => Calm(up, srv.battle))

Inv == TypeOK /\ CancelStands

LEMMA CalmTail ==
    ASSUME NEW q \in Seq(Orders), q # <<>>, NEW b, NEW b2, Calm(q, b),
           Head(q).kind = "off" => b2 = NoTarget,
           b2 = b \/ b2 = NoTarget \/ Head(q).kind = "attack"
    PROVE  Calm(Tail(q), b2)
<1>1. /\ DOMAIN q = 1 .. Len(q) /\ Len(q) \in Nat /\ Len(q) >= 1
      /\ DOMAIN Tail(q) = 1 .. (Len(q) - 1) /\ Head(q) = q[1]
      /\ \A i \in DOMAIN Tail(q) : Tail(q)[i] = q[i + 1]
  OBVIOUS
<1>2. \A i \in Offs(q) : i > 1 => i - 1 \in Offs(Tail(q))
  BY <1>1 DEF Offs
<1>3. ASSUME NEW j \in DOMAIN Tail(q), Tail(q)[j].kind = "attack"
      PROVE  \E i \in Offs(Tail(q)) : i > j
  <2>1. j + 1 \in DOMAIN q /\ q[j + 1].kind = "attack"
    BY <1>1, <1>3
  <2>2. PICK i \in Offs(q) : i > j + 1
    BY <2>1 DEF Calm
  <2> QED BY <2>2, <1>1, <1>2 DEF Offs
<1>4. ASSUME b2 # NoTarget
      PROVE  Offs(Tail(q)) # {}
  <2>1. PICK i \in Offs(q) : i > 1 \/ q[1].kind # "attack"
    BY <1>1, <1>4 DEF Calm
  <2>2. q[1].kind # "off"
    BY <1>1, <1>4
  <2>3. i > 1
    BY <2>1, <2>2, <1>1 DEF Offs
  <2> QED BY <2>3, <1>2
<1> QED BY <1>3, <1>4 DEF Calm

LEMMA CalmAppend ==
    ASSUME NEW q \in Seq(Orders), NEW x \in Orders, NEW b
    PROVE  /\ Calm(q, b) /\ x.kind # "attack" => Calm(Append(q, x), b)
           /\ x.kind = "off" => Calm(Append(q, x), b)
<1>1. /\ DOMAIN q = 1 .. Len(q) /\ Len(q) \in Nat
      /\ DOMAIN Append(q, x) = 1 .. (Len(q) + 1)
      /\ Append(q, x)[Len(q) + 1] = x
      /\ \A i \in DOMAIN q : Append(q, x)[i] = q[i]
  OBVIOUS
<1>2. Offs(q) \subseteq Offs(Append(q, x))
  BY <1>1 DEF Offs
<1>3. ASSUME Calm(q, b), x.kind # "attack"
      PROVE  Calm(Append(q, x), b)
  BY <1>1, <1>2, <1>3 DEF Calm
<1>4. ASSUME x.kind = "off"
      PROVE  Calm(Append(q, x), b)
  <2>1. Len(q) + 1 \in Offs(Append(q, x))
    BY <1>1, <1>4 DEF Offs
  <2> QED BY <1>1, <1>4, <2>1 DEF Calm
<1> QED BY <1>3, <1>4

\* What a move of the fishing machine appends keeps the calm.
LEMMA CalmMove ==
    ASSUME NEW q \in Seq(Orders), NEW m \in Moves, NEW b, Calm(q, b)
    PROVE  Calm(q \o m[2], b)
<1>1. CASE m[2] = <<>>
  BY <1>1, ConcatEmptySeq
<1>2. CASE \E k \in {"end", "check", "release"} : m[2] = <<Msg(k)>>
  <2>1. PICK k \in {"end", "check", "release"} : m[2] = <<Msg(k)>>
    BY <1>2
  <2>2. Msg(k) \in Orders /\ Msg(k).kind # "attack"
    BY RequestsTyped DEF Msg, Calls
  <2>3. q \o m[2] = Append(q, Msg(k))
    BY <2>1, <2>2, AppendIsConcat
  <2> QED BY <2>2, <2>3, CalmAppend
<1> QED BY <1>1, <1>2 DEF Moves

LEMMA OperatorStep ==
    ASSUME Inv, Operator
    PROVE  CancelStands'
<1>1. CASE Engage
  BY <1>1, Zenon DEF Engage, CancelStands, TypeOK, Histories, Inv
<1>2. CASE Cancel
  <2>1. ~Engages(r')
    BY <1>2, IdleTyped DEF Cancel, Inv, TypeOK
  <2>2. srv' = srv /\ used'.faults = used.faults
    BY <1>2 DEF Cancel, Order, Inv, TypeOK, Budget
  <2>3. CASE Reaches(r)
    <3>1. r.target \in Targets
      BY <2>3 DEF Reaches, Inv, TypeOK, ReactorOK
    <3>2. About("off", r.target) \in Orders /\ About("off", r.target).kind = "off"
      BY <3>1, RequestsTyped DEF Calls, About
    <3>3. up' = Append(up, About("off", r.target))
      BY <1>2, <2>3 DEF Cancel
    <3>4. Calm(up', srv'.battle)
      BY <3>2, <3>3, CalmAppend DEF Inv, TypeOK
    <3> QED BY <2>1, <3>4 DEF CancelStands
  <2>4. CASE ~Reaches(r)
    <3>1. up' = up /\ hist'.off = hist.off
      BY <1>2, <2>4 DEF Cancel, Reaches, Inv, TypeOK, Histories
    <3> QED BY <2>1, <2>2, <3>1 DEF CancelStands, Inv
  <2> QED BY <2>3, <2>4
<1>3. CASE Travel \/ Move
  <2>1. ~Engages(r) => ~Engages(r')
    BY <1>3, IdleTyped DEF Travel, Move, Inv, TypeOK, Idle, Engages, ReactorOK, Reactors
  <2>2. up' = up /\ srv' = srv /\ used'.faults = used.faults /\ hist' = hist
    BY <1>3 DEF Travel, Move, Order, Inv, TypeOK, Budget
  <2> QED BY <2>1, <2>2 DEF CancelStands, Inv
<1>4. CASE Fish
  <2>1. r'.goal = r.goal
    BY <1>4 DEF Fish, Inv, TypeOK, ReactorOK, Reactors
  <2>2. srv' = srv /\ used'.faults = used.faults /\ hist'.off = hist.off
    BY <1>4 DEF Fish, Order, Inv, TypeOK, Budget, Histories
  <2>3. up' = up \/ up' = Append(up, Msg("fish"))
    BY <1>4 DEF Fish
  <2>4. Msg("fish") \in Orders /\ Msg("fish").kind # "attack"
    BY RequestsTyped DEF Calls, Msg
  <2>5. Calm(up, srv.battle) => Calm(up', srv'.battle)
    BY <2>2, <2>3, <2>4, CalmAppend DEF Inv, TypeOK
  <2> QED BY <2>1, <2>2, <2>5 DEF CancelStands, Engages, Inv
<1>5. CASE Input
  <2>1. PICK m \in Inputs(r.fish) :
            Order /\ r' = [r EXCEPT !.fish = m[1]] /\ up' = up \o m[2] /\ hist' = hist
    BY <1>5 DEF Input
  <2>2. m \in Moves
    BY MovesTyped DEF Inv, TypeOK, ReactorOK, Reactors
  <2>3. r'.goal = r.goal
    BY <2>1 DEF Inv, TypeOK, ReactorOK, Reactors
  <2>4. srv' = srv /\ used'.faults = used.faults
    BY <2>1 DEF Order, Inv, TypeOK, Budget
  <2>5. Calm(up, srv.battle) => Calm(up', srv'.battle)
    BY <2>1, <2>2, <2>4, CalmMove DEF Inv, TypeOK
  <2> QED BY <2>1, <2>3, <2>4, <2>5 DEF CancelStands, Engages, Inv
<1> QED BY <1>1, <1>2, <1>3, <1>4, <1>5 DEF Operator

LEMMA TickStep ==
    ASSUME Inv, NEW due \in BOOLEAN, NEW move \in Moves, TickWith(due, move)
    PROVE  CancelStands'
<1>1. srv' = srv /\ hist' = hist
  BY DEF TickWith
<1>2. used'.faults = 0 => used.faults = 0
  <2>1. \/ used' = [used EXCEPT !.faults = used.faults + 1]
        \/ used' = [used EXCEPT !.faults = used.faults]
    BY Zenon DEF TickWith
  <2> QED BY <2>1 DEF Inv, TypeOK, Budget
<1>3. SUFFICES ASSUME hist.off, ~Engages(r), used.faults = 0 => Calm(up, srv.battle)
               PROVE  ~Engages(r') /\ (used.faults = 0 => Calm(up', srv.battle))
  BY <1>1, <1>2 DEF CancelStands, Inv
<1>4. ~Engages(r')
  <2>1. ReactorOK(TickGoal(r, due)) /\ ~Engages(TickGoal(r, due)) /\ move[1] \in Machine
    BY <1>3, TickGoalTyped DEF Inv, TypeOK, Moves
  <2>2. [TickGoal(r, due) EXCEPT !.fish = move[1]].goal = TickGoal(r, due).goal
    BY <2>1, FishTyped, Zenon
  <2> QED BY <2>1, <2>2, Zenon DEF TickWith, Engages
<1>5. up' = up \o move[2]
  BY <1>3 DEF TickWith, Strikes
<1> QED BY <1>3, <1>4, <1>5, CalmMove DEF Inv, TypeOK

LEMMA ObserveStep ==
    ASSUME Inv, Observe
    PROVE  CancelStands'
<1>1. Head(down) \in Reports
  BY QueueTyped, Zenon DEF Observe, Inv, TypeOK
<1>2. FishSees(r.fish, Head(down)) \in Machine
  BY <1>1, FishSeesTyped DEF Inv, TypeOK, ReactorOK, Reactors
<1>3. ~Engages(r) => ~Engages(r')
  <2>1. /\ ReactorOK(GoalSees(r, Head(down)))
        /\ ~Engages(r) => ~Engages(GoalSees(r, Head(down)))
    BY <1>1, GoalSeesTyped DEF Inv, TypeOK
  <2>2. r'.goal = GoalSees(r, Head(down)).goal
    BY <1>2, <2>1, FishTyped, Zenon DEF Observe
  <2> QED BY <2>1, <2>2, Zenon DEF Engages
<1> QED BY <1>3 DEF Observe, CancelStands, Inv

LEMMA AnswersStep ==
    ASSUME Inv, Answers
    PROVE  CancelStands'
<1>1. /\ r' = r /\ used' = used /\ hist'.off = hist.off
      /\ \E k \in Calls : Request(k)
  BY DEF Answers, Accept, Refuse, Disengage, Cast, Check, Resolve, Release, Inv, TypeOK,
         Histories, Calls
<1>2. up # <<>> /\ up' = Tail(up)
  BY <1>1 DEF Request
<1>3. /\ Head(up).kind = "off" => srv'.battle = NoTarget
      /\ \/ srv'.battle = srv.battle \/ srv'.battle = NoTarget
         \/ Head(up).kind = "attack"
  <2>1. CASE Disengage
    BY <2>1 DEF Disengage, Inv, TypeOK, ServerOK, Servers, Request
  <2>2. CASE Accept \/ Refuse
    BY <2>2 DEF Accept, Refuse, Request
  <2>3. CASE Cast \/ Check \/ Resolve \/ Release
    BY <2>3 DEF Cast, Check, Resolve, Release, Inv, TypeOK, ServerOK, Servers, Request
  <2> QED BY <2>1, <2>2, <2>3 DEF Answers
<1>4. Calm(up, srv.battle) => Calm(up', srv'.battle)
  BY <1>2, <1>3, CalmTail DEF Inv, TypeOK
<1> QED BY <1>1, <1>4 DEF CancelStands, Inv

\* What else befalls the line, the mobs and the player starts no battle.
LEMMA EventsStep ==
    ASSUME Inv, Status \/ MobDies \/ Despawn \/ Interrupt \/ Die \/ Zone \/ ForcedMove
    PROVE  CancelStands'
<1>1. r' = r /\ hist' = hist /\ used'.faults = used.faults
  BY DEF Status, MobDies, Despawn, Interrupt, Die, Zone, ForcedMove, Cut, Inv, TypeOK, Budget
<1>2. /\ up' = up \/ (up' = <<>> /\ srv'.battle = NoTarget)
      /\ srv'.battle \in {srv.battle, NoTarget}
  <2>1. CASE MobDies
    BY <2>1 DEF MobDies
  <2>2. CASE Interrupt \/ Die
    BY <2>2 DEF Interrupt, Die, Inv, TypeOK, ServerOK, Servers
  <2>4. CASE Zone
    BY <2>4 DEF Zone
  <2>3. CASE Status \/ Despawn \/ ForcedMove
    BY <2>3 DEF Status, Despawn, ForcedMove
  <2> QED BY <2>1, <2>2, <2>3, <2>4
<1>3. Calm(<<>>, NoTarget)
  BY DEF Calm, Offs
<1>4. Calm(up, srv.battle) => Calm(up', srv'.battle)
  BY <1>2, <1>3 DEF Calm
<1> QED BY <1>1, <1>4 DEF CancelStands, Inv

LEMMA LoseStep ==
    ASSUME Inv, Lose
    PROVE  CancelStands'
BY DEF Lose, CancelStands, Inv, TypeOK, Budget

LEMMA StutterStep ==
    ASSUME Inv, UNCHANGED vars
    PROVE  Inv'
BY DEF vars, Inv, TypeOK, CancelStands, Engages

LEMMA TickMoves ==
    ASSUME Inv, Tick
    PROVE  \E due \in BOOLEAN, move \in Moves : TickWith(due, move)
<1>1. r.fish \in Machine
  BY DEF Inv, TypeOK, ReactorOK, Reactors
<1>2. Plays(r.fish) \cup {RunsOut(r.fish)} \subseteq Moves
  BY <1>1, MovesTyped
<1> QED BY <1>2, Zenon DEF Tick

-----------------------------------------------------------------------------
(* The inductive invariant: types, and a Cancel that stands.                  *)
LEMMA InvInductive ==
    ASSUME Inv, [Next]_vars
    PROVE  Inv'
<1>1. CASE Operator
  <2>1. TypeOK'
    BY <1>1, EngageTyped, CancelTyped, GoalOrdersTyped, FishTypedStep, InputTyped, Zenon
       DEF Operator, Inv
  <2> QED BY <1>1, <2>1, OperatorStep, Zenon DEF Inv
<1>2. CASE Tick
  <2>1. PICK due \in BOOLEAN, move \in Moves : TickWith(due, move)
    BY <1>2, TickMoves
  <2> QED BY <2>1, TickTyped, TickStep, Zenon DEF Inv
<1>3. CASE Expire
  <2>1. CancelStands'
    BY <1>3 DEF Expire, CancelStands, Inv, TypeOK, Engages, ReactorOK, Reactors
  <2> QED BY <1>3, <2>1, ExpireTyped, Zenon DEF Inv
<1>4. CASE Observe
  BY <1>4, ObserveTyped, ObserveStep, Zenon DEF Inv
<1>5. CASE Answers
  <2>1. TypeOK'
    BY <1>5, AcceptTyped, RefuseTyped, DisengageTyped, FishingAnswersTyped, Zenon
       DEF Answers, Inv
  <2> QED BY <1>5, <2>1, AnswersStep, Zenon DEF Inv
<1>6. CASE MobDies
  <2>1. TypeOK'
    BY <1>6, MobDiesTyped, Zenon DEF MobDies, Inv
  <2> QED BY <1>6, <2>1, EventsStep, Zenon DEF Inv
<1>7. CASE Status \/ Despawn \/ Interrupt \/ Die \/ Zone \/ ForcedMove
  BY <1>7, EventsTyped, EventsStep, Zenon DEF Inv
<1>8. CASE Lose
  BY <1>8, LoseTyped, LoseStep, Zenon DEF Inv
<1>9. CASE UNCHANGED vars
  BY <1>9, StutterStep
<1> QED BY <1>1, <1>2, <1>3, <1>4, <1>5, <1>6, <1>7, <1>8, <1>9, Zenon DEF Next

LEMMA InitInv == Init => Inv
<1> SUFFICES ASSUME Init PROVE Inv
  OBVIOUS
<1>1. ReactorOK(r)
  BY TargetsAssumption DEF Init, ReactorOK, Reactors, Engages, Kinds, Mobs, Machine
<1>2. ServerOK(srv)
  BY DEF Init, ServerOK, Servers, Mobs
<1>3. hist \in Histories /\ used \in Budget /\ ~hist.off
  BY BoundsAssumption DEF Init, Histories, Budget
<1>4. up \in Seq(Orders) /\ down \in Seq(Reports)
  BY DEF Init
<1> QED BY <1>1, <1>2, <1>3, <1>4 DEF Inv, TypeOK, CancelStands

(* For any mobs and bounds the reactor, the server and the lines between them *)
(* are well typed, and a goal has a mob exactly when it is an engagement.     *)
THEOREM TypeCorrect == Spec => []TypeOK
<1>1. Inv => TypeOK
  BY DEF Inv
<1> QED BY <1>1, InitInv, InvInductive, PTL DEF Spec

(* For any mobs and bounds: once every answer is in and nothing was lost, a   *)
(* Cancel that reached out has ended the battle, whether its AttackOff met an *)
(* attack not yet sent, not yet answered, accepted or re-aimed.               *)
THEOREM CancelWorks == Spec => []CancelDisengages
<1>1. Inv => CancelDisengages
  <2> SUFFICES ASSUME Inv, Quiet, hist.off PROVE srv.battle = NoTarget
    BY DEF CancelDisengages
  <2>1. Calm(up, srv.battle)
    BY DEF Quiet, CancelStands, Inv
  <2>2. Offs(up) = {}
    BY DEF Quiet, Offs
  <2> QED BY <2>1, <2>2 DEF Calm
<1> QED BY <1>1, InitInv, InvInductive, PTL DEF Spec

-----------------------------------------------------------------------------
(* Why the reactor and the server fight the same mob.  While nothing is lost, *)
(* rash or denied, an engagement is the server's battle, or an attack on its  *)
(* way to it, or an end of it is on its way to the reactor.                   *)

Sees(q, kinds) == \E i \in DOMAIN q : q[i].kind \in kinds

\* The reports that end any engagement.
IsEnd(e) == e.kind \in {"died", "zone"} \/ (e.kind = "target" /\ e.target = NoTarget)
Ends(q) == \E i \in DOMAIN q : IsEnd(q[i])
EndsAfter(q, i) == \E j \in DOMAIN q : j > i /\ IsEnd(q[j])

\* A mob told of, or an attack stance told of, is the battle's or is over.
TargetsTold(t, q, battle) == \A i \in DOMAIN q :
    q[i].kind = "target" /\ q[i].target # NoTarget =>
        q[i].target = t /\ (battle = t \/ EndsAfter(q, i))
StancesTold(t, q, battle) == \A i \in DOMAIN q :
    q[i].kind = "attack" => battle = t \/ EndsAfter(q, i)

Attacks(q) == {i \in DOMAIN q : q[i].kind = "attack"}

Joined(d, q, told, battle) ==
    Engages(d) =>
        /\ Offs(q) = {}
        /\ \A i \in Attacks(q) : q[i].target = d.target
        /\ TargetsTold(d.target, told, battle)
        /\ d.goal = "engaging" =>
              battle \in {NoTarget, d.target} /\ StancesTold(d.target, told, battle)
        /\ d.goal = "engaged" =>
              /\ battle # NoTarget \/ Ends(told)
              /\ d.issued => battle = d.target \/ Attacks(q) # {} \/ Ends(told)

Orderly == used.faults = 0 /\ ~hist.rash
BattleJoined == Orderly /\ ~hist.denied => Joined(r, up, down, srv.battle)

-----------------------------------------------------------------------------
(* Whose turn it is when the player fishes and nothing befalls him: for each  *)
(* stage of the machine, the request under way, the server's animation byte   *)
(* and what may still be told.                                                *)

FishCalls == {"fish", "check", "end", "release"}
FishNews == {"none", "attack", "uncoff", "start", "bite", "hooked", "done"}
Resting == {"none", "attack"}

\* Exactly one request of the machine is under way, of kind k; or none is.
Asks(q, k) ==
    /\ \A i \in DOMAIN q : q[i].kind \in FishCalls => q[i].kind = k
    /\ \A i, j \in DOMAIN q : q[i].kind \in FishCalls /\ q[j].kind \in FishCalls => i = j
    /\ k # "nothing" => \E i \in DOMAIN q : q[i].kind = k

Tells(q, kinds) == \A i \in DOMAIN q : q[i].kind \in FishNews => q[i].kind \in kinds

\* No report of the first kinds comes after one of the second.
Before(q, first, second) == \A i, j \in DOMAIN q :
    q[i].kind \in first /\ q[j].kind \in second => i < j

Stage(f, q, anim, told) ==
    \/ /\ f = "idle" /\ Asks(q, "nothing") /\ anim \in Resting
       /\ Tells(told, Resting \cup {"uncoff"})
    \/ f = "casting" /\ Asks(q, "fish") /\ anim \in Resting /\ Tells(told, Resting)
    \/ /\ f = "casting" /\ Asks(q, "nothing") /\ anim \in Resting
       /\ Tells(told, Resting \cup {"uncoff"}) /\ Sees(told, {"uncoff"})
    \/ /\ f = "casting" /\ Asks(q, "nothing") /\ anim = "start"
       /\ Tells(told, Resting \cup {"start"}) /\ Sees(told, {"start"})
       /\ Before(told, Resting, {"start"})
    \/ f = "waiting" /\ Asks(q, "nothing") /\ anim = "start" /\ Tells(told, {"start"})
    \/ f = "checking" /\ Asks(q, "check") /\ anim = "start" /\ Tells(told, {"start"})
    \/ /\ f = "checking" /\ Asks(q, "nothing") /\ anim = "hooked"
       /\ Tells(told, {"start", "bite", "hooked"})
    \/ f = "checking" /\ Asks(q, "nothing") /\ anim = "done" /\ Tells(told, {"start", "done"})
    \/ /\ f \in Fighting /\ Asks(q, "nothing") /\ anim = "hooked"
       /\ Tells(told, {"start", "bite", "hooked"})
    \/ /\ f = "ending" /\ Asks(q, "end") /\ anim = "hooked"
       /\ Tells(told, {"start", "bite", "hooked"})
    \/ /\ f \in {"ending", "finishing"} /\ Asks(q, "nothing") /\ anim = "done"
       /\ Tells(told, {"start", "bite", "hooked", "done"})
    \/ /\ f = "releasing" /\ Asks(q, "release") /\ anim = "done"
       /\ Tells(told, {"start", "bite", "hooked", "done"})
    \/ /\ f = "releasing" /\ Asks(q, "nothing") /\ anim \in Resting
       /\ Before(told, {"start", "bite", "hooked", "done"}, Resting \cup {"uncoff"})

InTurn == Orderly /\ used.cuts = 0 => Stage(r.fish, up, srv.anim, down)

LEMMA Taken ==
    ASSUME NEW S, NEW q \in Seq(S), q # <<>>
    PROVE  /\ Head(q) \in S /\ Tail(q) \in Seq(S)
           /\ Head(q) = q[1] /\ 1 \in DOMAIN q
           /\ \A i \in DOMAIN Tail(q) :
                /\ i \in Nat /\ i >= 1
                /\ i + 1 \in DOMAIN q /\ Tail(q)[i] = q[i + 1]
           /\ \A i \in DOMAIN q :
                /\ i \in Nat /\ i >= 1
                /\ i > 1 => i - 1 \in DOMAIN Tail(q) /\ Tail(q)[i - 1] = q[i]
<1>1. /\ DOMAIN q = 1 .. Len(q) /\ Len(q) \in Nat /\ Len(q) >= 1
      /\ DOMAIN Tail(q) = 1 .. (Len(q) - 1) /\ Head(q) = q[1]
      /\ \A i \in DOMAIN Tail(q) : Tail(q)[i] = q[i + 1]
      /\ Head(q) \in S /\ Tail(q) \in Seq(S)
  OBVIOUS
<1> QED BY <1>1

LEMMA Pushed ==
    ASSUME NEW S, NEW q \in Seq(S), NEW m \in Seq(S)
    PROVE  /\ q \o m \in Seq(S) /\ Len(q) \in Nat
           /\ \A i \in DOMAIN (q \o m) :
                \/ i \in DOMAIN q /\ (q \o m)[i] = q[i]
                \/ \E j \in DOMAIN m : i = Len(q) + j /\ (q \o m)[i] = m[j]
           /\ \A i \in DOMAIN q : i \in DOMAIN (q \o m) /\ (q \o m)[i] = q[i]
           /\ \A i \in DOMAIN q : i \in Nat /\ i >= 1 /\ i <= Len(q)
           /\ \A j \in DOMAIN m :
                j \in Nat /\ j >= 1 /\ Len(q) + j \in DOMAIN (q \o m) /\ (q \o m)[Len(q) + j] = m[j]
<1>1. /\ q \o m \in Seq(S) /\ Len(q) \in Nat /\ Len(m) \in Nat
      /\ DOMAIN q = 1 .. Len(q) /\ DOMAIN m = 1 .. Len(m)
      /\ DOMAIN (q \o m) = 1 .. Len(q) + Len(m)
  OBVIOUS
<1>2. \A i \in 1 .. Len(q) + Len(m) :
        (q \o m)[i] = IF i <= Len(q) THEN q[i] ELSE m[i - Len(q)]
  OBVIOUS
<1>3. \A i \in 1 .. Len(q) + Len(m) : i > Len(q) => i - Len(q) \in 1 .. Len(m)
  BY <1>1
<1>4. \A j \in 1 .. Len(m) : Len(q) + j \in 1 .. Len(q) + Len(m) /\ Len(q) + j > Len(q)
                             /\ Len(q) + j - Len(q) = j
  BY <1>1
<1>5. \A i \in 1 .. Len(q) : i \in 1 .. Len(q) + Len(m)
  BY <1>1
<1>6. \A j \in DOMAIN m : (q \o m)[Len(q) + j] = m[j]
  BY <1>1, <1>2, <1>4
<1>7. \A i \in DOMAIN (q \o m) :
        \/ i \in DOMAIN q /\ (q \o m)[i] = q[i]
        \/ \E j \in DOMAIN m : i = Len(q) + j /\ (q \o m)[i] = m[j]
  <2>1. SUFFICES ASSUME NEW i \in 1 .. Len(q) + Len(m)
                 PROVE  \/ i \in DOMAIN q /\ (q \o m)[i] = q[i]
                        \/ \E j \in DOMAIN m : i = Len(q) + j /\ (q \o m)[i] = m[j]
    BY <1>1
  <2>2. CASE i <= Len(q)
    BY <1>1, <1>2, <2>2
  <2>3. CASE i > Len(q)
    <3>1. i - Len(q) \in DOMAIN m /\ i = Len(q) + (i - Len(q))
      BY <1>1, <1>3, <2>3
    <3> QED BY <1>1, <1>2, <2>3, <3>1
  <2> QED BY <1>1, <2>2, <2>3
<1> QED BY <1>1, <1>2, <1>4, <1>5, <1>6, <1>7

\* What taking a report leaves of the claims about the line.
LEMMA ToldTaken ==
    ASSUME NEW q \in Seq(Reports), q # <<>>, NEW t, NEW b
    PROVE  /\ TargetsTold(t, q, b) =>
                /\ TargetsTold(t, Tail(q), b)
                /\ Head(q).kind = "target" /\ Head(q).target # NoTarget =>
                      Head(q).target = t /\ (b = t \/ Ends(Tail(q)))
           /\ StancesTold(t, q, b) =>
                /\ StancesTold(t, Tail(q), b)
                /\ Head(q).kind = "attack" => b = t \/ Ends(Tail(q))
           /\ Ends(q) /\ ~IsEnd(Head(q)) => Ends(Tail(q))
<1>1. /\ Head(q) = q[1] /\ 1 \in DOMAIN q
      /\ \A i \in DOMAIN Tail(q) :
            i \in Nat /\ i >= 1 /\ i + 1 \in DOMAIN q /\ Tail(q)[i] = q[i + 1]
      /\ \A i \in DOMAIN q :
            /\ i \in Nat /\ i >= 1
            /\ i > 1 => i - 1 \in DOMAIN Tail(q) /\ Tail(q)[i - 1] = q[i]
  BY Taken, Zenon
<1>2. ASSUME NEW i \in DOMAIN Tail(q), EndsAfter(q, i + 1)
      PROVE  EndsAfter(Tail(q), i)
  <2>1. PICK j \in DOMAIN q : j > i + 1 /\ IsEnd(q[j])
    BY <1>2 DEF EndsAfter
  <2>2. j - 1 \in DOMAIN Tail(q) /\ Tail(q)[j - 1] = q[j] /\ j - 1 > i
    BY <1>1, <2>1
  <2> QED BY <2>1, <2>2 DEF EndsAfter
<1>3. EndsAfter(q, 1) => Ends(Tail(q))
  BY <1>1 DEF EndsAfter, Ends
<1>4. ASSUME Ends(q), ~IsEnd(Head(q)) PROVE Ends(Tail(q))
  <2>1. PICK j \in DOMAIN q : IsEnd(q[j])
    BY <1>4 DEF Ends
  <2>2. j # 1
    BY <1>1, <1>4, <2>1
  <2>3. j - 1 \in DOMAIN Tail(q) /\ Tail(q)[j - 1] = q[j]
    BY <1>1, <2>2
  <2> QED BY <2>1, <2>3 DEF Ends
<1> QED BY <1>1, <1>2, <1>3, <1>4 DEF TargetsTold, StancesTold

\* What pushing reports makes of them; told of an end, all before is over.
LEMMA ToldPushed ==
    ASSUME NEW q \in Seq(Reports), NEW m \in Seq(Reports), NEW t, NEW b, NEW b2,
           b2 = b \/ b2 = t \/ Ends(m)
    PROVE  /\ TargetsTold(t, q, b) /\ TargetsTold(t, m, b2) => TargetsTold(t, q \o m, b2)
           /\ StancesTold(t, q, b) /\ StancesTold(t, m, b2) => StancesTold(t, q \o m, b2)
           /\ Ends(q) \/ Ends(m) => Ends(q \o m)
<1> DEFINE c == q \o m
<1>1. /\ Len(q) \in Nat
      /\ \A i \in DOMAIN c : \/ i \in DOMAIN q /\ c[i] = q[i]
                             \/ \E j \in DOMAIN m : i = Len(q) + j /\ c[i] = m[j]
      /\ \A i \in DOMAIN q : i \in DOMAIN c /\ c[i] = q[i]
      /\ \A i \in DOMAIN q : i \in Nat /\ i >= 1 /\ i <= Len(q)
      /\ \A j \in DOMAIN m : j \in Nat /\ j >= 1 /\ Len(q) + j \in DOMAIN c /\ c[Len(q) + j] = m[j]
  BY Pushed
<1> HIDE DEF c
<1>2. \A i \in DOMAIN q : EndsAfter(q, i) \/ Ends(m) => EndsAfter(c, i)
  BY <1>1 DEF EndsAfter, Ends
<1>3. \A j \in DOMAIN m : EndsAfter(m, j) => EndsAfter(c, Len(q) + j)
  BY <1>1 DEF EndsAfter
<1>4. Ends(q) \/ Ends(m) => Ends(c)
  BY <1>1 DEF Ends
<1>5. TargetsTold(t, q, b) /\ TargetsTold(t, m, b2) => TargetsTold(t, c, b2)
  <2> SUFFICES ASSUME TargetsTold(t, q, b), TargetsTold(t, m, b2), NEW i \in DOMAIN c,
                      c[i].kind = "target", c[i].target # NoTarget
               PROVE  c[i].target = t /\ (b2 = t \/ EndsAfter(c, i))
    BY DEF TargetsTold
  <2>1. CASE i \in DOMAIN q /\ c[i] = q[i]
    BY <1>2, <2>1 DEF TargetsTold
  <2>2. CASE \E j \in DOMAIN m : i = Len(q) + j /\ c[i] = m[j]
    BY <1>3, <2>2 DEF TargetsTold
  <2> QED BY <1>1, <2>1, <2>2
<1>6. StancesTold(t, q, b) /\ StancesTold(t, m, b2) => StancesTold(t, c, b2)
  <2> SUFFICES ASSUME StancesTold(t, q, b), StancesTold(t, m, b2), NEW i \in DOMAIN c,
                      c[i].kind = "attack"
               PROVE  b2 = t \/ EndsAfter(c, i)
    BY DEF StancesTold
  <2>1. CASE i \in DOMAIN q /\ c[i] = q[i]
    BY <1>2, <2>1 DEF StancesTold
  <2>2. CASE \E j \in DOMAIN m : i = Len(q) + j /\ c[i] = m[j]
    BY <1>3, <2>2 DEF StancesTold
  <2> QED BY <1>1, <2>1, <2>2
<1> QED BY <1>4, <1>5, <1>6 DEF c

\* Attacks and AttackOffs under way, when a request is taken or sent.
LEMMA LineTaken ==
    ASSUME NEW q \in Seq(Orders), q # <<>>
    PROVE  /\ Offs(q) = {} => Offs(Tail(q)) = {} /\ Head(q).kind # "off"
           /\ \A i \in Attacks(Tail(q)) : i + 1 \in Attacks(q) /\ Tail(q)[i] = q[i + 1]
           /\ Head(q).kind = "attack" => 1 \in Attacks(q) /\ Head(q) = q[1]
           /\ Head(q).kind # "attack" /\ Attacks(q) # {} => Attacks(Tail(q)) # {}
<1>1. /\ Head(q) = q[1] /\ 1 \in DOMAIN q
      /\ \A i \in DOMAIN Tail(q) :
            i \in Nat /\ i >= 1 /\ i + 1 \in DOMAIN q /\ Tail(q)[i] = q[i + 1]
      /\ \A i \in DOMAIN q :
            /\ i \in Nat /\ i >= 1
            /\ i > 1 => i - 1 \in DOMAIN Tail(q) /\ Tail(q)[i - 1] = q[i]
  BY Taken, Zenon
<1>2. /\ Offs(q) = {} => Offs(Tail(q)) = {} /\ Head(q).kind # "off"
      /\ \A i \in Attacks(Tail(q)) : i + 1 \in Attacks(q) /\ Tail(q)[i] = q[i + 1]
      /\ Head(q).kind = "attack" => 1 \in Attacks(q)
  BY <1>1 DEF Offs, Attacks
<1>3. ASSUME Head(q).kind # "attack", NEW j \in Attacks(q) PROVE Attacks(Tail(q)) # {}
  <2>1. j \in DOMAIN q /\ q[j].kind = "attack" /\ j # 1
    BY <1>1, <1>3 DEF Attacks
  <2>2. j - 1 \in DOMAIN Tail(q) /\ Tail(q)[j - 1] = q[j]
    BY <1>1, <2>1
  <2> QED BY <2>1, <2>2 DEF Attacks
<1> QED BY <1>1, <1>2, <1>3

LEMMA LinePushed ==
    ASSUME NEW q \in Seq(Orders), NEW m \in Seq(Orders),
           \A j \in DOMAIN m : m[j].kind \notin {"off", "attack"}
    PROVE  /\ Offs(q) = {} => Offs(q \o m) = {}
           /\ \A i \in Attacks(q \o m) : i \in Attacks(q) /\ (q \o m)[i] = q[i]
           /\ Attacks(q) # {} => Attacks(q \o m) # {}
<1> DEFINE c == q \o m
<1>1. /\ Len(q) \in Nat
      /\ \A i \in DOMAIN c : \/ i \in DOMAIN q /\ c[i] = q[i]
                             \/ \E j \in DOMAIN m : i = Len(q) + j /\ c[i] = m[j]
      /\ \A i \in DOMAIN q : i \in DOMAIN c /\ c[i] = q[i]
      /\ \A i \in DOMAIN q : i \in Nat /\ i >= 1 /\ i <= Len(q)
      /\ \A j \in DOMAIN m : j \in Nat /\ j >= 1 /\ Len(q) + j \in DOMAIN c /\ c[Len(q) + j] = m[j]
  BY ONLY q \in Seq(Orders), m \in Seq(Orders), Pushed
<1> HIDE DEF c
<1> QED BY <1>1 DEF Offs, Attacks, c

-----------------------------------------------------------------------------
(* The engagement, step by step.                                              *)

\* A step that starts no engagement and no attack, and tells of no mob.
SameAim(d, e) ==
    Engages(e) => Engages(d) /\ e.goal = d.goal /\ e.target = d.target /\ e.issued = d.issued
SameAttacks(q, q2) ==
    /\ Offs(q) = {} => Offs(q2) = {}
    /\ \A i \in Attacks(q2) : \E j \in Attacks(q) : q2[i].target = q[j].target
Innocent(m, d, b) == \A i \in DOMAIN m :
    /\ m[i].kind = "target" => m[i].target = NoTarget
    /\ m[i].kind = "attack" /\ d.goal = "engaging" => b = d.target

LEMMA JoinedKept ==
    ASSUME NEW d, NEW e, NEW q, NEW q2, NEW told \in Seq(Reports), NEW m \in Seq(Reports),
           NEW b, NEW b2, Joined(d, q, told, b),
           SameAim(d, e), SameAttacks(q, q2), Innocent(m, d, b2),
           Attacks(q) # {} => Attacks(q2) # {} \/ Ends(m),
           b2 = b \/ (b2 = NoTarget /\ Ends(m))
    PROVE  Joined(e, q2, told \o m, b2)
<1> SUFFICES ASSUME Engages(e) PROVE Joined(e, q2, told \o m, b2)
  BY DEF Joined
<1>1. /\ Engages(d) /\ e.goal = d.goal /\ e.target = d.target /\ e.issued = d.issued
  BY DEF SameAim
<1>2. /\ Offs(q) = {}
      /\ \A i \in Attacks(q) : q[i].target = d.target
      /\ TargetsTold(d.target, told, b)
      /\ d.goal = "engaging" => b \in {NoTarget, d.target} /\ StancesTold(d.target, told, b)
      /\ d.goal = "engaged" =>
            /\ b # NoTarget \/ Ends(told)
            /\ d.issued => b = d.target \/ Attacks(q) # {} \/ Ends(told)
  BY <1>1 DEF Joined
<1>3. TargetsTold(d.target, m, b2)
  BY DEF TargetsTold, Innocent
<1>4. d.goal = "engaging" => StancesTold(d.target, m, b2)
  BY DEF StancesTold, Innocent
<1>5. /\ TargetsTold(d.target, told \o m, b2)
      /\ d.goal = "engaging" => StancesTold(d.target, told \o m, b2)
      /\ Ends(told) \/ Ends(m) => Ends(told \o m)
  BY <1>2, <1>3, <1>4, ToldPushed
<1>6. Offs(q2) = {} /\ \A i \in Attacks(q2) : q2[i].target = e.target
  BY <1>1, <1>2 DEF SameAttacks
<1> QED BY <1>1, <1>2, <1>5, <1>6 DEF Joined

\* Neither losses, rashness nor denials are taken back.
LEMMA OrderlyBefore ==
    ASSUME TypeOK, Next
    PROVE  /\ Orderly' => Orderly
           /\ ~hist'.denied => ~hist.denied
           /\ used'.cuts = 0 => used.cuts = 0
<1>1. /\ used.faults \in Nat /\ used.cuts \in Nat /\ used \in Budget
      /\ hist \in Histories
  BY BoundsAssumption DEF TypeOK, Budget
<1>2. /\ used'.faults = 0 => used.faults = 0
      /\ used'.cuts = 0 => used.cuts = 0
  <2>1. \/ used' = used
        \/ \E n : \/ used' = [used EXCEPT !.orders = n]
                  \/ used' = [used EXCEPT !.status = n]
        \/ used' = [used EXCEPT !.faults = used.faults + 1]
        \/ used' = [used EXCEPT !.faults = used.faults]
        \/ used' = [used EXCEPT !.cuts = used.cuts + 1]
    BY Zenon DEF Next, Operator, Engage, Cancel, Travel, Move, Fish, Input, Order, Tick,
       TickWith, Expire, Observe, Answers, Accept, Refuse, Disengage, Cast, Check, Resolve,
       Release, Status, MobDies, Despawn, Interrupt, Die, Zone, ForcedMove, Cut, Lose
  <2> QED BY <1>1, <2>1 DEF Budget
<1>3. (hist.rash => hist'.rash) /\ (hist.denied => hist'.denied)
  <2>1. CASE UNCHANGED hist
    BY <2>1
  <2>2. CASE Engage
    BY <1>1, <2>2 DEF Engage, Histories
  <2>3. CASE Cancel
    BY <1>1, <2>3 DEF Cancel, Histories
  <2>4. CASE Fish
    BY <1>1, <2>4 DEF Fish, Histories
  <2>5. CASE Refuse
    BY <1>1, <2>5 DEF Refuse, Histories
  <2> QED BY <2>1, <2>2, <2>3, <2>4, <2>5
      DEF Next, Operator, Travel, Move, Input, Tick, TickWith, Expire, Observe,
          Answers, Accept, Disengage, Cast, Check, Resolve, Release, Status, MobDies,
          Despawn, Interrupt, Die, Zone, ForcedMove, Cut, Lose
<1> QED BY <1>2, <1>3 DEF Orderly

LEMMA EmptyPush ==
    /\ \A q \in Seq(Reports) : q \o <<>> = q
    /\ <<>> \in Seq(Reports)
    /\ \A d, b : Innocent(<<>>, d, b)
BY ConcatEmptySeq DEF Innocent

LEMMA OperatorJoined ==
    ASSUME TypeOK, Joined(r, up, down, srv.battle), Operator, ~hist'.rash
    PROVE  Joined(r', up', down', srv'.battle)
<1>1. srv' = srv /\ down' = down /\ down \in Seq(Reports) /\ up \in Seq(Orders) /\ ReactorOK(r)
  BY DEF Operator, Engage, Cancel, Travel, Move, Fish, Input, Order, TypeOK
<1>2. down' = down \o <<>> /\ <<>> \in Seq(Reports) /\ Innocent(<<>>, r, srv.battle)
  BY <1>1, EmptyPush
<1>3. CASE Engage
  <2>1. PICK t \in Targets :
            /\ r' = [r EXCEPT !.goal = IF r.goal = "engaged" THEN r.goal ELSE "engaging",
                              !.target = t, !.issued = FALSE]
            /\ hist' = [hist EXCEPT !.off = FALSE, !.rash = hist.rash \/ ~EngageSettled]
            /\ up' = up
    BY <1>3, Zenon DEF Engage
  <2>2. EngageSettled
    <3>1. hist'.rash = (hist.rash \/ ~EngageSettled)
      BY <2>1 DEF TypeOK, Histories
    <3> QED BY <3>1, Zenon
  <2>3. /\ Offs(up) = {} /\ Attacks(up) = {}
        /\ \A i \in DOMAIN down : down[i].kind \notin {"target", "attack"}
        /\ srv.battle = NoTarget \/ r.goal = "engaged"
    BY <2>2 DEF EngageSettled, AttackOpen, UnderWay, OnItsWay, Offs, Attacks
  <2>4. /\ r'.target = t /\ ~r'.issued
        /\ r'.goal = IF r.goal = "engaged" THEN "engaged" ELSE "engaging"
    BY <2>1, <1>1 DEF ReactorOK, Reactors
  <2>5. TargetsTold(t, down, srv.battle) /\ StancesTold(t, down, srv.battle)
    BY <2>3 DEF TargetsTold, StancesTold
  <2>6. r.goal = "engaged" => srv.battle # NoTarget \/ Ends(down)
    BY DEF Joined, Engages
  <2> QED BY <1>1, <2>1, <2>3, <2>4, <2>5, <2>6 DEF Joined
<1>4. CASE Cancel \/ Travel \/ Move
  <2>1. /\ ~Engages(Idle(r)) /\ ~Engages([Idle(r) EXCEPT !.goal = "travel"])
    <3>1. Idle(r) \in Reactors /\ ~Engages(Idle(r))
      BY <1>1, IdleTyped DEF ReactorOK
    <3> QED BY <3>1 DEF Reactors, Engages
  <2>2. CASE Move /\ r' = r
    BY <1>1, <2>2 DEF Move
  <2>3. CASE ~Engages(r')
    BY <2>3 DEF Joined
  <2> QED BY <1>4, <2>1, <2>2, <2>3 DEF Cancel, Travel, Move
<1>5. CASE Fish \/ Input
  <2>1. PICK m \in Seq(Orders) :
          /\ up' = up \o m /\ \A j \in DOMAIN m : m[j].kind \notin {"off", "attack"}
    <3>1. CASE Fish
      <4>1. Msg("fish") \in Orders /\ Msg("fish").kind = "fish"
        BY RequestsTyped DEF Msg, Calls
      <4>2. up' = up \/ up' = Append(up, Msg("fish"))
        BY <3>1 DEF Fish
      <4>3. Append(up, Msg("fish")) = up \o <<Msg("fish")>> /\ up = up \o <<>>
        BY <1>1, <4>1, AppendIsConcat, ConcatEmptySeq
      <4>4. /\ <<>> \in Seq(Orders) /\ <<Msg("fish")>> \in Seq(Orders)
            /\ \A j \in DOMAIN <<>> : FALSE
            /\ \A j \in DOMAIN <<Msg("fish")>> : <<Msg("fish")>>[j].kind = "fish"
        BY <4>1
      <4> QED BY <4>2, <4>3, <4>4
    <3>2. CASE Input
      <4>1. PICK m \in Inputs(r.fish) : up' = up \o m[2]
        BY <3>2 DEF Input
      <4>2. m[2] = <<>> \/ m[2] = <<Msg("end")>>
        BY <4>1 DEF Inputs
      <4>3. /\ <<>> \in Seq(Orders) /\ <<Msg("end")>> \in Seq(Orders)
            /\ \A j \in DOMAIN <<>> : FALSE
            /\ \A j \in DOMAIN <<Msg("end")>> : <<Msg("end")>>[j].kind = "end"
        BY RequestsTyped DEF Calls, Msg
      <4> QED BY <4>1, <4>2, <4>3
    <3> QED BY <1>5, <3>1, <3>2
  <2>2. r'.goal = r.goal /\ r'.target = r.target /\ r'.issued = r.issued
    BY <1>1, <1>5 DEF Fish, Input, ReactorOK, Reactors
  <2>3. SameAttacks(up, up') /\ (Attacks(up) # {} => Attacks(up') # {})
    BY <1>1, <2>1, LinePushed DEF SameAttacks
  <2>4. SameAim(r, r')
    BY <2>2 DEF SameAim, Engages
  <2>5. Joined(r', up', down \o <<>>, srv.battle)
    BY <1>1, <1>2, <2>3, <2>4, JoinedKept, Zenon
  <2> QED BY <1>1, <1>2, <2>5
<1> QED BY <1>3, <1>4, <1>5 DEF Operator

\* What the goal makes of a tick: it stands, ends, or its attack goes out.
LEMMA TickGoalFields ==
    ASSUME NEW d, ReactorOK(d), NEW due \in BOOLEAN
    PROVE  \/ ~Engages(TickGoal(d, due)) /\ ~Strikes(d)
           \/ /\ TickGoal(d, due).goal = d.goal /\ TickGoal(d, due).target = d.target
              /\ TickGoal(d, due).issued = (d.issued \/ Strikes(d))
<1>1. CASE d.over
  BY <1>1 DEF TickGoal, Strikes, ReactorOK, Reactors
<1> DEFINE over == \/ GivesUp(d, due)
                   \/ Engages(d) /\ d.view[d.target] # "alive"
                   \/ due /\ d.goal = "travel"
<1>2. CASE ~d.over /\ over
  <2>1. TickGoal(d, due) = Idle(d)
    BY <1>2 DEF TickGoal
  <2>2. ~Strikes(d)
    BY <1>2 DEF GivesUp, Strikes, Engages
  <2> QED BY <2>1, <2>2, IdleTyped
<1>3. CASE ~d.over /\ ~over
  <2>1. TickGoal(d, due) = [d EXCEPT !.issued = d.issued \/ Strikes(d)]
    BY <1>3 DEF TickGoal
  <2>2. d \in Reactors
    BY DEF ReactorOK
  <2>3. PICK x : x = (d.issued \/ Strikes(d))
    OBVIOUS
  <2>4. TickGoal(d, due) = [d EXCEPT !.issued = x]
    BY ONLY <2>1, <2>3, Zenon
  <2>5. /\ TickGoal(d, due).goal = d.goal /\ TickGoal(d, due).target = d.target
        /\ TickGoal(d, due).issued = x
    BY ONLY <2>2, <2>4 DEF Reactors
  <2> QED BY ONLY <2>3, <2>5, Zenon
<1> QED BY <1>1, <1>2, <1>3

LEMMA TickJoined ==
    ASSUME TypeOK, Joined(r, up, down, srv.battle),
           NEW due \in BOOLEAN, NEW move \in Moves, TickWith(due, move)
    PROVE  Joined(r', up', down', srv'.battle)
<1>1. /\ srv' = srv /\ down' = down /\ down \in Seq(Reports) /\ up \in Seq(Orders)
      /\ ReactorOK(r) /\ move[2] \in Seq(Orders) /\ move[1] \in Machine
  BY DEF TickWith, TypeOK, Moves
<1>2. /\ r'.goal = TickGoal(r, due).goal /\ r'.target = TickGoal(r, due).target
      /\ r'.issued = TickGoal(r, due).issued
  <2>1. ReactorOK(TickGoal(r, due))
    BY <1>1, TickGoalTyped
  <2>2. r' = [TickGoal(r, due) EXCEPT !.fish = move[1]]
    BY DEF TickWith
  <2> QED BY <2>1, <2>2 DEF ReactorOK, Reactors
<1>3. CASE ~Engages(TickGoal(r, due))
  BY <1>2, <1>3 DEF Joined, Engages
<1>4. CASE /\ TickGoal(r, due).goal = r.goal /\ TickGoal(r, due).target = r.target
           /\ TickGoal(r, due).issued = (r.issued \/ Strikes(r))
  <2>1. PICK q \in Seq(Orders) :
          /\ q = IF Strikes(r) THEN Append(up, About("attack", r.target)) ELSE up
          /\ up' = q \o move[2]
    <3>1. Strikes(r) => About("attack", r.target) \in Orders
      BY <1>1, RequestsTyped DEF Strikes, ReactorOK, Calls
    <3>2. (IF Strikes(r) THEN Append(up, About("attack", r.target)) ELSE up) \in Seq(Orders)
      BY <1>1, <3>1, QueueTyped
    <3>3. up' = (IF Strikes(r) THEN Append(up, About("attack", r.target)) ELSE up) \o move[2]
      BY DEF TickWith
    <3> QED BY <3>2, <3>3, Zenon
  <2>2. \A j \in DOMAIN move[2] : move[2][j].kind \notin {"off", "attack"}
    <3>1. move[2] = <<>> \/ \E k \in {"end", "check", "release"} : move[2] = <<Msg(k)>>
      BY DEF Moves
    <3>2. CASE move[2] = <<>>
      BY <3>2
    <3>3. CASE \E k \in {"end", "check", "release"} : move[2] = <<Msg(k)>>
      BY <3>3 DEF Msg
    <3> QED BY <3>1, <3>2, <3>3
  <2>3. /\ Offs(q) = {} => Offs(up') = {}
        /\ \A i \in Attacks(up') : i \in Attacks(q) /\ up'[i] = q[i]
        /\ Attacks(q) # {} => Attacks(up') # {}
    <3>1. q \in Seq(Orders) /\ up' = q \o move[2]
      BY <2>1
    <3> QED BY <1>1, <2>2, <3>1, LinePushed
  <2>4. CASE ~Strikes(r)
    <3>1. q = up /\ (r'.issued = r.issued)
      BY <1>1, <1>2, <1>4, <2>1, <2>4 DEF ReactorOK, Reactors
    <3>2. down = down \o <<>> /\ <<>> \in Seq(Reports) /\ Innocent(<<>>, r, srv.battle)
      BY <1>1, EmptyPush
    <3>3. SameAim(r, r')
      BY <1>2, <1>4, <3>1 DEF SameAim, Engages
    <3>4. SameAttacks(up, up') /\ (Attacks(up) # {} => Attacks(up') # {})
      BY <2>3, <3>1 DEF SameAttacks
    <3>5. Joined(r', up', down \o <<>>, srv.battle)
      BY <1>1, <3>2, <3>3, <3>4, JoinedKept, Zenon
    <3> QED BY <1>1, <3>2, <3>5
  <2>5. CASE Strikes(r)
    <3>1. /\ Engages(r) /\ r'.issued /\ r.target \in Targets /\ ~r.issued
          /\ r'.goal = r.goal /\ r'.target = r.target
      BY <1>1, <1>2, <1>4, <2>5 DEF Strikes, ReactorOK
    <3>2. q = Append(up, About("attack", r.target)) /\ About("attack", r.target) \in Orders
          /\ About("attack", r.target).kind = "attack" /\ About("attack", r.target).target = r.target
      BY <2>1, <2>5, <3>1, RequestsTyped DEF Calls, About
    <3>3. /\ Offs(up) = {} => Offs(q) = {}
          /\ \A i \in Attacks(q) : (i \in Attacks(up) /\ q[i] = up[i]) \/ q[i].target = r.target
          /\ Attacks(q) # {}
      <4>1. /\ DOMAIN up = 1 .. Len(up) /\ Len(up) \in Nat
            /\ DOMAIN q = 1 .. Len(up) + 1 /\ q[Len(up) + 1] = About("attack", r.target)
            /\ \A i \in DOMAIN up : q[i] = up[i]
        BY <1>1, <3>2
      <4> QED BY <3>2, <4>1 DEF Offs, Attacks
    <3>4. /\ Offs(up') = {} /\ Attacks(up') # {}
          /\ \A i \in Attacks(up') : up'[i].target = r.target
      BY <2>3, <3>1, <3>3 DEF Joined
    <3> QED BY <1>1, <3>1, <3>4 DEF Joined, Engages
  <2> QED BY <2>4, <2>5
<1> QED BY <1>1, <1>3, <1>4, TickGoalFields

\* What a report makes of the goal.
LEMMA GoalSeesFields ==
    ASSUME NEW d, ReactorOK(d), NEW e \in Reports, Engages(GoalSees(d, e))
    PROVE  /\ Engages(d) /\ ~IsEnd(e)
           /\ LET f == GoalSees(d, e)
              IN \/ f.goal = d.goal /\ f.target = d.target /\ f.issued = d.issued
                 \/ /\ e.kind = "target" /\ e.target # NoTarget
                    /\ f.goal = "engaged" /\ f.target = e.target
                 \/ /\ e.kind = "attack" /\ d.goal = "engaging"
                    /\ f.goal = "engaged" /\ f.target = d.target
<1>1. Engages(d)
  BY GoalSeesTyped
<1>2. d \in Reactors /\ d.target \in Targets /\ ~Engages(Idle(d))
  BY <1>1, IdleTyped DEF ReactorOK
<1>3. CASE e.kind = "target"
  <2>1. GoalSees(d, e) = Aimed(d, e.target)
    BY <1>3 DEF GoalSees
  <2>2. e.target # NoTarget
    BY <1>1, <1>2, <2>1, TargetsAssumption DEF Aimed
  <2>3. GoalSees(d, e) = d \/ GoalSees(d, e) = Engaged(d, e.target)
    BY <2>1, <2>2 DEF Aimed
  <2>4. Engaged(d, e.target).goal = "engaged" /\ Engaged(d, e.target).target = e.target
    BY <1>2 DEF Engaged, Reactors
  <2> QED BY <1>1, <1>3, <2>2, <2>3, <2>4 DEF IsEnd
<1>4. CASE e.kind = "attack" /\ d.goal = "engaging"
  <2>1. GoalSees(d, e) = Engaged(d, d.target)
    BY <1>4 DEF GoalSees
  <2>2. Engaged(d, d.target).goal = "engaged" /\ Engaged(d, d.target).target = d.target
    BY <1>2 DEF Engaged, Reactors
  <2> QED BY <1>1, <1>4, <2>1, <2>2 DEF IsEnd
<1>5. CASE e.kind = "died" \/ e.kind = "zone" \/ (e.kind = "refused" /\ d.goal = "engaging")
  <2>1. \/ GoalSees(d, e) = Idle(d)
        \/ GoalSees(d, e) = [Idle(d) EXCEPT !.view = [t \in Targets |-> "absent"]]
    BY <1>5 DEF GoalSees
  <2>2. ~Engages([Idle(d) EXCEPT !.view = [t \in Targets |-> "absent"]])
    BY <1>2 DEF Idle, Engages, Reactors
  <2> QED BY <1>2, <2>1, <2>2
<1>6. CASE e.kind \in {"dead", "absent"}
  <2>1. GoalSees(d, e) = [d EXCEPT !.view[e.target] = e.kind]
    BY <1>6 DEF GoalSees
  <2> QED BY <1>1, <1>2, <1>6, <2>1 DEF IsEnd, Reactors
<1>7. CASE e.kind = "forced"
  <2>1. GoalSees(d, e) = [d EXCEPT !.over = TRUE]
    BY <1>7 DEF GoalSees
  <2> QED BY <1>1, <1>2, <1>7, <2>1 DEF IsEnd, Reactors
<1>8. CASE /\ e.kind \notin {"target", "died", "zone", "dead", "absent", "forced"}
           /\ ~(e.kind = "attack" /\ d.goal = "engaging")
           /\ ~(e.kind = "refused" /\ d.goal = "engaging")
  <2>1. GoalSees(d, e) = d
    BY <1>8 DEF GoalSees
  <2> QED BY <1>1, <1>8, <2>1 DEF IsEnd
<1> QED BY <1>3, <1>4, <1>5, <1>6, <1>7, <1>8

LEMMA ObserveJoined ==
    ASSUME TypeOK, Joined(r, up, down, srv.battle), Observe
    PROVE  Joined(r', up', down', srv'.battle)
<1> SUFFICES ASSUME Engages(r') PROVE Joined(r', up', down', srv'.battle)
  BY DEF Joined
<1> DEFINE e == Head(down)
           d == GoalSees(r, e)
<1>1. /\ down # <<>> /\ down' = Tail(down) /\ UNCHANGED <<srv, up>> /\ ReactorOK(r)
      /\ down \in Seq(Reports) /\ e \in Reports
  BY QueueTyped DEF Observe, TypeOK
<1>2. /\ r'.goal = d.goal /\ r'.target = d.target /\ r'.issued = d.issued
  <2>1. ReactorOK(d)
    BY <1>1, GoalSeesTyped
  <2>2. r' = [d EXCEPT !.fish = FishSees(r.fish, e)]
    BY DEF Observe
  <2> HIDE DEF d
  <2> QED BY <2>1, <2>2 DEF ReactorOK, Reactors
<1>3. Engages(d)
  BY <1>2 DEF Engages
<1>4. /\ Engages(r) /\ ~IsEnd(e)
      /\ \/ d.goal = r.goal /\ d.target = r.target /\ d.issued = r.issued
         \/ e.kind = "target" /\ e.target # NoTarget /\ d.goal = "engaged" /\ d.target = e.target
         \/ e.kind = "attack" /\ r.goal = "engaging" /\ d.goal = "engaged" /\ d.target = r.target
  BY <1>1, <1>3, GoalSeesFields
<1> HIDE DEF d
<1>5. /\ Offs(up) = {}
      /\ \A i \in Attacks(up) : up[i].target = r.target
      /\ TargetsTold(r.target, down, srv.battle)
      /\ r.goal = "engaging" =>
            srv.battle \in {NoTarget, r.target} /\ StancesTold(r.target, down, srv.battle)
      /\ r.goal = "engaged" =>
            /\ srv.battle # NoTarget \/ Ends(down)
            /\ r.issued => srv.battle = r.target \/ Attacks(up) # {} \/ Ends(down)
  BY <1>4 DEF Joined
<1>6. /\ TargetsTold(r.target, Tail(down), srv.battle)
      /\ e.kind = "target" /\ e.target # NoTarget =>
            e.target = r.target /\ (srv.battle = r.target \/ Ends(Tail(down)))
      /\ r.goal = "engaging" =>
            /\ StancesTold(r.target, Tail(down), srv.battle)
            /\ e.kind = "attack" => srv.battle = r.target \/ Ends(Tail(down))
      /\ Ends(down) => Ends(Tail(down))
  BY <1>1, <1>4, <1>5, ToldTaken
<1>7. r.target \in Targets /\ r.target # NoTarget
  BY <1>1, <1>4, TargetsAssumption DEF ReactorOK
<1> HIDE DEF e
<1>8. CASE d.goal = r.goal /\ d.target = r.target /\ d.issued = r.issued
  BY <1>1, <1>2, <1>5, <1>6, <1>8 DEF Joined
<1>9. CASE d.goal = "engaged" /\ d.target = r.target /\ (srv.battle = r.target \/ Ends(Tail(down)))
  BY <1>1, <1>2, <1>5, <1>6, <1>7, <1>9 DEF Joined
<1> QED BY <1>4, <1>6, <1>8, <1>9

LEMMA AnswersJoined ==
    ASSUME TypeOK, Joined(r, up, down, srv.battle), Answers, ~hist'.denied
    PROVE  Joined(r', up', down', srv'.battle)
<1>1. /\ r' = r /\ up # <<>> /\ up' = Tail(up)
      /\ up \in Seq(Orders) /\ down \in Seq(Reports) /\ ReactorOK(r)
  BY DEF Answers, Accept, Refuse, Disengage, Cast, Check, Resolve, Release, Request, TypeOK
<1>2. /\ Offs(up) = {} => Offs(up') = {} /\ Head(up).kind # "off"
      /\ \A i \in Attacks(up') : i + 1 \in Attacks(up) /\ up'[i] = up[i + 1]
      /\ Head(up).kind = "attack" => 1 \in Attacks(up) /\ Head(up) = up[1]
      /\ Head(up).kind # "attack" /\ Attacks(up) # {} => Attacks(up') # {}
  BY <1>1, LineTaken
<1>3. SameAttacks(up, up')
  BY <1>2 DEF SameAttacks
<1>4. down \o <<>> = down /\ <<>> \in Seq(Reports) /\ \A i \in DOMAIN <<>> : FALSE
  BY <1>1, EmptyPush
<1>5. CASE Accept
  <2> SUFFICES ASSUME Engages(r) PROVE Joined(r', up', down', srv'.battle)
    BY <1>1 DEF Joined
  <2> DEFINE t == Head(up).target
             m == <<About("target", t)>>
  <2>1. /\ Head(up).kind = "attack" /\ t \in Targets /\ srv'.battle = t
        /\ down' = down \o m
    BY <1>5 DEF Accept, Request, Push, TypeOK, ServerOK, Servers
  <2>2. t = r.target /\ t # NoTarget
    BY <1>2, <2>1, TargetsAssumption DEF Joined
  <2>3. m \in Seq(Reports) /\ \A i \in DOMAIN m : m[i].kind = "target" /\ m[i].target = t
    BY <2>1, RequestsTyped DEF News, About
  <2> HIDE DEF t, m
  <2>4. TargetsTold(t, m, t) /\ StancesTold(t, m, t)
    BY <2>3 DEF TargetsTold, StancesTold
  <2>5. /\ TargetsTold(t, down, srv.battle)
        /\ r.goal = "engaging" => StancesTold(t, down, srv.battle)
    BY <2>2 DEF Joined
  <2>6. /\ TargetsTold(t, down', t)
        /\ r.goal = "engaging" => StancesTold(t, down', t)
    BY <1>1, <2>1, <2>3, <2>4, <2>5, ToldPushed
  <2>7. Offs(up') = {} /\ \A i \in Attacks(up') : up'[i].target = r.target
    BY <1>2 DEF Joined
  <2> QED BY <1>1, <2>1, <2>2, <2>6, <2>7 DEF Joined
<1>6. CASE Refuse
  <2> SUFFICES ASSUME Engages(r) PROVE Joined(r', up', down', srv'.battle)
    BY <1>1 DEF Joined
  <2>1. srv.battle = NoTarget /\ srv' = srv
    <3>1. hist'.denied = (hist.denied \/ srv.battle # NoTarget)
      BY <1>6 DEF Refuse, TypeOK, Histories
    <3> QED BY <1>6, <3>1, Zenon DEF Refuse
  <2>2. PICK m \in Seq(Reports) :
          down' = down \o m /\ \A i \in DOMAIN m : m[i].kind = "refused"
    <3>1. CASE down' = down
      BY <1>4, <3>1
    <3>2. CASE down' = Append(down, Msg("refused"))
      <4>1. Msg("refused") \in Reports /\ Msg("refused").kind = "refused"
        BY RequestsTyped DEF Msg, News
      <4>2. down' = down \o <<Msg("refused")>>
        BY <1>1, <3>2, <4>1, AppendIsConcat
      <4>3. /\ <<Msg("refused")>> \in Seq(Reports)
            /\ \A i \in DOMAIN <<Msg("refused")>> : <<Msg("refused")>>[i].kind = "refused"
        BY <4>1
      <4> QED BY <4>2, <4>3, Zenon
    <3> QED BY <1>6, <3>1, <3>2 DEF Refuse
  <2>3. r.goal = "engaged" => Ends(down)
    BY <2>1 DEF Joined
  <2>4. /\ TargetsTold(r.target, m, srv.battle) /\ StancesTold(r.target, m, srv.battle)
    BY <2>2 DEF TargetsTold, StancesTold
  <2>5. /\ TargetsTold(r.target, down, srv.battle)
        /\ r.goal = "engaging" => StancesTold(r.target, down, srv.battle)
    BY DEF Joined
  <2>6. /\ TargetsTold(r.target, down', srv.battle)
        /\ r.goal = "engaging" => StancesTold(r.target, down', srv.battle)
        /\ r.goal = "engaged" => Ends(down')
    BY <1>1, <2>2, <2>3, <2>4, <2>5, ToldPushed
  <2>7. Offs(up') = {} /\ \A i \in Attacks(up') : up'[i].target = r.target
    BY <1>2 DEF Joined
  <2> QED BY <1>1, <2>1, <2>6, <2>7 DEF Joined
<1>7. CASE Disengage
  <2>1. Head(up).kind = "off"
    BY <1>7 DEF Disengage, Request
  <2> QED BY <1>1, <1>2, <2>1 DEF Joined
<1>8. CASE Cast \/ Check \/ Resolve \/ Release
  <2>1. Head(up).kind # "attack" /\ srv'.battle = srv.battle
    BY <1>8 DEF Cast, Check, Resolve, Release, Request, TypeOK, ServerOK, Servers
  <2>2. PICK m \in Seq(Reports) :
          down' = down \o m /\ \A i \in DOMAIN m : m[i].kind \notin {"target", "attack"}
    <3>1. \/ down' = down
          \/ \E a \in {"start", "uncoff", "bite", "done"} : down' = down \o <<Msg(a)>>
          \/ \E a, b \in {"none", "uncoff"} : down' = down \o <<Msg(a), Msg(b)>>
      <4>1. CASE Cast
        BY <4>1 DEF Cast, Push
      <4>2. CASE Check
        BY <4>2 DEF Check, Push
      <4>3. CASE Resolve
        BY <4>3 DEF Resolve, Push
      <4>4. CASE Release
        BY <4>4 DEF Release, Push
      <4> QED BY <1>8, <4>1, <4>2, <4>3, <4>4
    <3>2. CASE down' = down
      BY <1>4, <3>2
    <3>3. CASE \E a \in {"start", "uncoff", "bite", "done"} : down' = down \o <<Msg(a)>>
      <4>1. PICK a \in {"start", "uncoff", "bite", "done"} : down' = down \o <<Msg(a)>>
        BY <3>3
      <4>2. Msg(a) \in Reports /\ Msg(a).kind \notin {"target", "attack"}
        BY RequestsTyped DEF News, Phases, Msg
      <4>3. /\ <<Msg(a)>> \in Seq(Reports)
            /\ \A i \in DOMAIN <<Msg(a)>> : <<Msg(a)>>[i].kind \notin {"target", "attack"}
        BY <4>2
      <4> QED BY <4>1, <4>3, Zenon
    <3>4. CASE \E a, b \in {"none", "uncoff"} : down' = down \o <<Msg(a), Msg(b)>>
      <4>1. PICK a, b \in {"none", "uncoff"} : down' = down \o <<Msg(a), Msg(b)>>
        BY <3>4
      <4>2. /\ Msg(a) \in Reports /\ Msg(a).kind \notin {"target", "attack"}
            /\ Msg(b) \in Reports /\ Msg(b).kind \notin {"target", "attack"}
        BY RequestsTyped DEF News, Phases, Msg
      <4>3. /\ <<Msg(a), Msg(b)>> \in Seq(Reports)
            /\ \A i \in DOMAIN <<Msg(a), Msg(b)>> :
                 <<Msg(a), Msg(b)>>[i].kind \notin {"target", "attack"}
        BY <4>2
      <4> QED BY <4>1, <4>3, Zenon
    <3> QED BY <3>1, <3>2, <3>3, <3>4
  <2>3. SameAim(r, r) /\ Innocent(m, r, srv.battle)
    BY <2>2 DEF SameAim, Innocent
  <2>4. Attacks(up) # {} => Attacks(up') # {}
    BY <1>2, <2>1
  <2>5. Joined(r, up', down \o m, srv.battle)
    BY <1>1, <1>3, <2>3, <2>4, JoinedKept, Zenon
  <2> QED BY <1>1, <2>1, <2>2, <2>5
<1> QED BY <1>5, <1>6, <1>7, <1>8 DEF Answers

\* What befalls the world tells of no battle that is not, and of every end.
LEMMA EventsJoined ==
    ASSUME TypeOK, Joined(r, up, down, srv.battle),
           Status \/ MobDies \/ Despawn \/ Interrupt \/ Die \/ Zone \/ ForcedMove
    PROVE  Joined(r', up', down', srv'.battle)
<1>1. /\ r' = r /\ up \in Seq(Orders) /\ down \in Seq(Reports) /\ ReactorOK(r)
      /\ ServerOK(srv)
  BY DEF Status, MobDies, Despawn, Interrupt, Die, Zone, ForcedMove, Cut, TypeOK
<1>2. PICK m \in Seq(Reports) :
        /\ down' = down \o m
        /\ up' = up \/ (up' = <<>> /\ Ends(m))
        /\ srv'.battle = srv.battle \/ (srv'.battle = NoTarget /\ Ends(m))
        /\ \A i \in DOMAIN m :
             /\ m[i].kind = "target" => m[i].target = NoTarget
             /\ m[i].kind = "attack" => srv'.battle = srv.battle /\ srv.battle # NoTarget
  <2>1. CASE Status
    <3>1. /\ srv.anim \in News /\ srv.anim # "target" /\ (srv.anim = "attack" => srv.battle # NoTarget)
          /\ down' = down \o <<Msg(srv.anim)>> /\ up' = up /\ srv' = srv
      BY <1>1, <2>1 DEF Status, Push, ServerOK, Servers, News, Phases
    <3>2. Msg(srv.anim) \in Reports /\ Msg(srv.anim).kind = srv.anim
      BY <3>1, RequestsTyped DEF Msg
    <3>3. /\ <<Msg(srv.anim)>> \in Seq(Reports)
          /\ \A i \in DOMAIN <<Msg(srv.anim)>> : <<Msg(srv.anim)>>[i].kind = srv.anim
      BY <3>2
    <3> QED BY <3>1, <3>3
  <2>2. CASE MobDies
    <3>1. PICK t \in srv.alive :
            /\ up' = up
            /\ srv'.battle = IF srv.battle = t THEN NoTarget ELSE srv.battle
            /\ down' = down \o (<<About("dead", t)>> \o
                                  IF srv.battle = t THEN <<Msg("target")>> ELSE <<>>)
      BY <2>2 DEF MobDies, Push
    <3>2. /\ About("dead", t) \in Reports /\ About("dead", t).kind = "dead"
          /\ Msg("target") \in Reports /\ IsEnd(Msg("target"))
          /\ Msg("target").kind = "target" /\ Msg("target").target = NoTarget
      BY <1>1, RequestsTyped DEF News, Msg, About, IsEnd, ServerOK, Servers
    <3>3. CASE srv.battle = t
      <4>1. down' = down \o <<About("dead", t), Msg("target")>>
        BY <3>1, <3>2, <3>3
      <4>2. /\ <<About("dead", t), Msg("target")>> \in Seq(Reports)
            /\ \A i \in DOMAIN <<About("dead", t), Msg("target")>> :
                 <<About("dead", t), Msg("target")>>[i] \in {About("dead", t), Msg("target")}
            /\ <<About("dead", t), Msg("target")>>[2] = Msg("target")
            /\ 2 \in DOMAIN <<About("dead", t), Msg("target")>>
        BY <3>2
      <4>3. Ends(<<About("dead", t), Msg("target")>>)
        BY <3>2, <4>2 DEF Ends
      <4> QED BY <3>1, <3>2, <3>3, <4>1, <4>2, <4>3
    <3>4. CASE srv.battle # t
      <4>1. down' = down \o <<About("dead", t)>>
        BY <3>1, <3>2, <3>4
      <4>2. /\ <<About("dead", t)>> \in Seq(Reports)
            /\ \A i \in DOMAIN <<About("dead", t)>> : <<About("dead", t)>>[i].kind = "dead"
        BY <3>2
      <4> QED BY <3>1, <3>4, <4>1, <4>2
    <3> QED BY <3>3, <3>4
  <2>3. CASE Die \/ Zone
    <3>1. PICK a \in {"died", "zone"} :
            /\ down' = down \o <<Msg(a), Msg("none")>> /\ srv'.battle = NoTarget
            /\ up' = up \/ up' = <<>>
      <4>1. CASE Die
        <5>1. down' = down \o <<Msg("died"), Msg("none")>> /\ srv'.battle = NoTarget /\ up' = up
          BY <1>1, <4>1 DEF Die, Push, ServerOK, Servers
        <5> QED BY <5>1
      <4>2. CASE Zone
        <5>1. /\ down' = down \o <<Msg("zone"), Msg("none")>> /\ srv'.battle = NoTarget
              /\ up' = up \/ up' = <<>>
          BY <1>1, <4>2 DEF Zone, Push
        <5> QED BY <5>1
      <4> QED BY <2>3, <4>1, <4>2
    <3>2. /\ Msg(a) \in Reports /\ Msg(a).kind \in {"died", "zone"} /\ IsEnd(Msg(a))
          /\ Msg("none") \in Reports /\ Msg("none").kind = "none"
      BY RequestsTyped DEF News, Msg, IsEnd
    <3>3. /\ <<Msg(a), Msg("none")>> \in Seq(Reports)
          /\ \A i \in DOMAIN <<Msg(a), Msg("none")>> :
               <<Msg(a), Msg("none")>>[i] \in {Msg(a), Msg("none")}
          /\ 1 \in DOMAIN <<Msg(a), Msg("none")>> /\ <<Msg(a), Msg("none")>>[1] = Msg(a)
      BY <3>2
    <3>4. Ends(<<Msg(a), Msg("none")>>)
      BY <3>2, <3>3 DEF Ends
    <3> QED BY <3>1, <3>2, <3>3, <3>4
  <2>4. CASE Despawn \/ ForcedMove \/ Interrupt
    <3>1. PICK e \in Reports :
            /\ e.kind \in {"absent", "forced", "uncoff"} /\ down' = down \o <<e>>
      <4>1. CASE Despawn
        <5>1. PICK t \in Targets : down' = down \o <<About("absent", t)>>
          BY <4>1 DEF Despawn, Push
        <5> QED BY <5>1, RequestsTyped DEF News, About
      <4>2. CASE ForcedMove \/ Interrupt
        <5>1. PICK a \in {"forced", "uncoff"} : down' = down \o <<Msg(a)>>
          BY <4>2 DEF ForcedMove, Interrupt, Push
        <5> QED BY <5>1, RequestsTyped DEF News, Msg
      <4> QED BY <2>4, <4>1, <4>2
    <3>2. up' = up /\ srv'.battle = srv.battle
      BY <1>1, <2>4 DEF Despawn, ForcedMove, Interrupt, ServerOK, Servers
    <3>3. <<e>> \in Seq(Reports) /\ \A i \in DOMAIN <<e>> : <<e>>[i] = e
      OBVIOUS
    <3> QED BY <3>1, <3>2, <3>3
  <2> QED BY <2>1, <2>2, <2>3, <2>4
<1> SUFFICES ASSUME Engages(r) PROVE Joined(r', up', down', srv'.battle)
  BY <1>1 DEF Joined
<1>3. /\ Offs(<<>>) = {} /\ Attacks(<<>>) = {}
  BY DEF Offs, Attacks
<1>4. SameAttacks(up, up') /\ (Attacks(up) # {} => Attacks(up') # {} \/ Ends(m))
  BY <1>2, <1>3 DEF SameAttacks
<1>5. r.goal = "engaging" => srv.battle \in {NoTarget, r.target}
  BY DEF Joined
<1>6. SameAim(r, r) /\ Innocent(m, r, srv'.battle)
  BY <1>2, <1>5 DEF SameAim, Innocent
<1>7. srv'.battle = srv.battle \/ (srv'.battle = NoTarget /\ Ends(m))
  BY <1>2
<1>8. Joined(r, up', down \o m, srv'.battle)
  BY <1>1, <1>4, <1>6, <1>7, JoinedKept, Zenon
<1> QED BY <1>1, <1>2, <1>8

LEMMA BattleJoinedStep ==
    ASSUME TypeOK, BattleJoined, [Next]_vars
    PROVE  BattleJoined'
<1>1. CASE UNCHANGED vars
  BY <1>1 DEF vars, BattleJoined, Orderly, Joined, Engages
<1>2. CASE Next
  <2> SUFFICES ASSUME Orderly', ~hist'.denied PROVE Joined(r', up', down', srv'.battle)
    BY DEF BattleJoined
  <2>1. Joined(r, up, down, srv.battle)
    BY <1>2, OrderlyBefore DEF BattleJoined
  <2>2. CASE Operator
    BY <2>1, <2>2, OperatorJoined DEF Orderly
  <2>3. CASE Tick
    <3>1. r.fish \in Machine
      BY DEF TypeOK, ReactorOK, Reactors
    <3>2. Plays(r.fish) \cup {RunsOut(r.fish)} \subseteq Moves
      BY <3>1, MovesTyped
    <3>3. \E due \in BOOLEAN, move \in Moves : TickWith(due, move)
      BY <2>3, <3>2, Zenon DEF Tick
    <3> QED BY <2>1, <3>3, TickJoined
  <2>4. CASE Expire
    <3>1. /\ r'.goal = r.goal /\ r'.target = r.target /\ r'.issued = r.issued
          /\ UNCHANGED <<srv, up, down>>
      BY <2>4 DEF Expire, TypeOK, ReactorOK, Reactors
    <3> QED BY <2>1, <3>1 DEF Joined, Engages
  <2>5. CASE Observe
    BY <2>1, <2>5, ObserveJoined
  <2>6. CASE Answers
    BY <2>1, <2>6, AnswersJoined
  <2>7. CASE Status \/ MobDies \/ Despawn \/ Interrupt \/ Die \/ Zone \/ ForcedMove
    BY <2>1, <2>7, EventsJoined
  <2>8. ~Lose
    BY BoundsAssumption DEF Lose, Orderly, TypeOK, Budget
  <2> QED BY <1>2, <2>2, <2>3, <2>4, <2>5, <2>6, <2>7, <2>8 DEF Next
<1> QED BY <1>1, <1>2

(* For any mobs and bounds: once every answer is in, a reactor that holds     *)
(* itself engaged is engaged on the server with the same mob, if nothing was  *)
(* lost, no order came before an earlier one had settled, and no re-aim was   *)
(* denied.                                                                    *)
THEOREM EngagedTogetherHolds == Spec => []EngagedTogether
<1>1. Init => BattleJoined
  BY DEF Init, BattleJoined, Joined, Engages
<1>2. TypeOK /\ BattleJoined => EngagedTogether
  <2> SUFFICES ASSUME TypeOK, BattleJoined, Quiet, ~hist.rash, ~hist.denied,
                      r.goal = "engaged", r.issued
               PROVE  srv.battle = r.target
    BY DEF EngagedTogether
  <2>1. Joined(r, up, down, srv.battle)
    BY DEF BattleJoined, Orderly, Quiet
  <2>2. Attacks(up) = {} /\ ~Ends(down)
    BY DEF Quiet, Attacks, Ends
  <2> QED BY <2>1, <2>2 DEF Joined, Engages
<1> QED BY <1>1, <1>2, BattleJoinedStep, TypeCorrect, PTL DEF Spec

-----------------------------------------------------------------------------
(* Fishing, step by step.                                                     *)

LEMMA AsksTaken ==
    ASSUME NEW q \in Seq(Orders), q # <<>>, NEW k \in FishCalls \cup {"nothing"}, Asks(q, k)
    PROVE  /\ Head(q).kind \notin FishCalls => Asks(Tail(q), k)
           /\ Head(q).kind \in FishCalls => Head(q).kind = k /\ Asks(Tail(q), "nothing")
<1>1. /\ Head(q) = q[1] /\ 1 \in DOMAIN q
      /\ \A i \in DOMAIN Tail(q) :
            i \in Nat /\ i >= 1 /\ i + 1 \in DOMAIN q /\ Tail(q)[i] = q[i + 1]
      /\ \A i \in DOMAIN q :
            /\ i \in Nat /\ i >= 1
            /\ i > 1 => i - 1 \in DOMAIN Tail(q) /\ Tail(q)[i - 1] = q[i]
  BY Taken, Zenon
<1>2. /\ \A i \in DOMAIN q : q[i].kind \in FishCalls => q[i].kind = k
      /\ \A i, j \in DOMAIN q : q[i].kind \in FishCalls /\ q[j].kind \in FishCalls => i = j
      /\ k # "nothing" => \E i \in DOMAIN q : q[i].kind = k
  BY DEF Asks
<1>3. ASSUME Head(q).kind \notin FishCalls PROVE Asks(Tail(q), k)
  <2>1. ASSUME k # "nothing" PROVE \E i \in DOMAIN Tail(q) : Tail(q)[i].kind = k
    <3>1. PICK i \in DOMAIN q : q[i].kind = k
      BY <1>2, <2>1
    <3>2. CASE i > 1
      <4>1. i - 1 \in DOMAIN Tail(q) /\ Tail(q)[i - 1].kind = k
        BY <1>1, <3>1, <3>2
      <4> QED BY <4>1
    <3>3. i # 1
      BY <1>1, <1>3, <2>1, <3>1
    <3> QED BY <1>1, <3>2, <3>3
  <2>2. \A i, j \in DOMAIN Tail(q) :
          Tail(q)[i].kind \in FishCalls /\ Tail(q)[j].kind \in FishCalls => i = j
    <3>1. \A i, j \in DOMAIN Tail(q) :
            Tail(q)[i].kind \in FishCalls /\ Tail(q)[j].kind \in FishCalls => i + 1 = j + 1
      BY <1>1, <1>2
    <3> QED BY <1>1, <3>1
  <2>3. \A i \in DOMAIN Tail(q) : Tail(q)[i].kind \in FishCalls => Tail(q)[i].kind = k
    BY <1>1, <1>2
  <2> QED BY <2>1, <2>2, <2>3 DEF Asks
<1>4. ASSUME Head(q).kind \in FishCalls PROVE Head(q).kind = k /\ Asks(Tail(q), "nothing")
  <2>1. \A i \in DOMAIN q : q[i].kind \in FishCalls => i = 1
    BY <1>1, <1>2, <1>4
  <2>2. \A i \in DOMAIN Tail(q) : Tail(q)[i].kind \notin FishCalls
    <3>1. \A i \in DOMAIN Tail(q) : i + 1 # 1
      BY <1>1
    <3> QED BY <1>1, <2>1, <3>1
  <2>3. Asks(Tail(q), "nothing")
    BY <2>2 DEF Asks
  <2> QED BY <1>1, <1>2, <1>4, <2>3
<1> QED BY <1>3, <1>4

LEMMA AsksPushed ==
    ASSUME NEW q \in Seq(Orders), NEW m \in Seq(Orders), NEW k, Asks(q, k),
           \A j \in DOMAIN m : m[j].kind \notin FishCalls
    PROVE  Asks(q \o m, k)
<1> DEFINE c == q \o m
<1>1. /\ Len(q) \in Nat
      /\ \A i \in DOMAIN c : \/ i \in DOMAIN q /\ c[i] = q[i]
                             \/ \E j \in DOMAIN m : i = Len(q) + j /\ c[i] = m[j]
      /\ \A i \in DOMAIN q : i \in DOMAIN c /\ c[i] = q[i]
      /\ \A i \in DOMAIN q : i \in Nat /\ i >= 1 /\ i <= Len(q)
      /\ \A j \in DOMAIN m : j \in Nat /\ j >= 1 /\ Len(q) + j \in DOMAIN c /\ c[Len(q) + j] = m[j]
  BY ONLY q \in Seq(Orders), m \in Seq(Orders), Pushed
<1> HIDE DEF c
<1>2. \A i \in DOMAIN c : c[i].kind \in FishCalls => i \in DOMAIN q /\ c[i] = q[i]
  BY <1>1
<1> QED BY <1>1, <1>2 DEF Asks, c

\* With none under way a request of the machine becomes the one that is.
LEMMA AsksOne ==
    ASSUME NEW q \in Seq(Orders), NEW k \in FishCalls, Asks(q, "nothing")
    PROVE  q \o <<Msg(k)>> \in Seq(Orders) /\ Asks(q \o <<Msg(k)>>, k)
<1> DEFINE m == <<Msg(k)>>
           c == q \o m
<1>1. m \in Seq(Orders) /\ DOMAIN m = {1} /\ m[1].kind = k
  BY RequestsTyped DEF FishCalls, Calls, Msg
<1> HIDE DEF m
<1>2. /\ c \in Seq(Orders)
      /\ \A i \in DOMAIN c : \/ i \in DOMAIN q /\ c[i] = q[i]
                             \/ \E j \in DOMAIN m : i = Len(q) + j /\ c[i] = m[j]
      /\ \A j \in DOMAIN m : Len(q) + j \in DOMAIN c /\ c[Len(q) + j] = m[j]
  BY ONLY q \in Seq(Orders), <1>1, Pushed
<1> HIDE DEF c
<1>3. \A i \in DOMAIN q : q[i].kind \notin FishCalls
  BY DEF Asks, FishCalls
<1>4. \A i \in DOMAIN c : c[i].kind \in FishCalls => i = Len(q) + 1 /\ c[i].kind = k
  BY <1>1, <1>2, <1>3
<1>5. Len(q) + 1 \in DOMAIN c /\ c[Len(q) + 1].kind = k
  BY <1>1, <1>2
<1>6. c \in Seq(Orders) /\ Asks(c, k)
  BY <1>2, <1>4, <1>5 DEF Asks
<1> QED BY <1>6 DEF c, m

LEMMA NewsTaken ==
    ASSUME NEW q \in Seq(Reports), q # <<>>
    PROVE  /\ \A K : Tells(q, K) =>
                /\ Tells(Tail(q), K)
                /\ Head(q).kind \in FishNews => Head(q).kind \in K
           /\ \A K : Sees(q, K) /\ Head(q).kind \notin K => Sees(Tail(q), K)
           /\ \A A, B : Before(q, A, B) =>
                /\ Before(Tail(q), A, B)
                /\ Head(q).kind \in B => ~Sees(Tail(q), A)
<1>1. /\ Head(q) = q[1] /\ 1 \in DOMAIN q
      /\ \A i \in DOMAIN Tail(q) :
            i \in Nat /\ i >= 1 /\ i + 1 \in DOMAIN q /\ Tail(q)[i] = q[i + 1]
      /\ \A i \in DOMAIN q :
            /\ i \in Nat /\ i >= 1
            /\ i > 1 => i - 1 \in DOMAIN Tail(q) /\ Tail(q)[i - 1] = q[i]
  BY Taken, Zenon
<1>2. ASSUME NEW K, Tells(q, K)
      PROVE  Tells(Tail(q), K) /\ (Head(q).kind \in FishNews => Head(q).kind \in K)
  BY <1>1, <1>2 DEF Tells
<1>3. ASSUME NEW K, Sees(q, K), Head(q).kind \notin K
      PROVE  Sees(Tail(q), K)
  <2>1. PICK i \in DOMAIN q : q[i].kind \in K
    BY <1>3 DEF Sees
  <2>2. i # 1
    BY <1>1, <1>3, <2>1
  <2>3. i - 1 \in DOMAIN Tail(q) /\ Tail(q)[i - 1].kind \in K
    BY <1>1, <2>1, <2>2
  <2> QED BY <2>3 DEF Sees
<1>4. ASSUME NEW A, NEW B, Before(q, A, B)
      PROVE  Before(Tail(q), A, B) /\ (Head(q).kind \in B => ~Sees(Tail(q), A))
  <2>1. \A i, j \in DOMAIN q : q[i].kind \in A /\ q[j].kind \in B => i < j
    BY <1>4 DEF Before
  <2>2. ASSUME NEW i \in DOMAIN Tail(q), NEW j \in DOMAIN Tail(q),
               Tail(q)[i].kind \in A, Tail(q)[j].kind \in B
        PROVE  i < j
    <3>1. i + 1 < j + 1
      BY <1>1, <2>1, <2>2
    <3> QED BY <1>1, <3>1
  <2>3. ASSUME Head(q).kind \in B, NEW i \in DOMAIN Tail(q), Tail(q)[i].kind \in A
        PROVE  FALSE
    <3>1. i + 1 < 1
      BY <1>1, <2>1, <2>3
    <3> QED BY <1>1, <3>1
  <2> QED BY <2>2, <2>3 DEF Before, Sees
<1> QED BY <1>2, <1>3, <1>4

LEMMA NewsPushed ==
    ASSUME NEW q \in Seq(Reports), NEW m \in Seq(Reports)
    PROVE  /\ \A K : Tells(q, K) /\ Tells(m, K) => Tells(q \o m, K)
           /\ \A K : Sees(q, K) \/ Sees(m, K) => Sees(q \o m, K)
           /\ \A A, B : /\ Before(q, A, B) /\ Before(m, A, B)
                        /\ ~Sees(m, A) \/ ~Sees(q, B)
                        => Before(q \o m, A, B)
<1> DEFINE c == q \o m
<1>1. /\ Len(q) \in Nat
      /\ \A i \in DOMAIN c : \/ i \in DOMAIN q /\ c[i] = q[i]
                             \/ \E j \in DOMAIN m : i = Len(q) + j /\ c[i] = m[j]
      /\ \A i \in DOMAIN q : i \in DOMAIN c /\ c[i] = q[i]
      /\ \A i \in DOMAIN q : i \in Nat /\ i >= 1 /\ i <= Len(q)
      /\ \A j \in DOMAIN m : j \in Nat /\ j >= 1 /\ Len(q) + j \in DOMAIN c /\ c[Len(q) + j] = m[j]
  BY ONLY q \in Seq(Reports), m \in Seq(Reports), Pushed
<1> HIDE DEF c
<1>2. ASSUME NEW K PROVE /\ Tells(q, K) /\ Tells(m, K) => Tells(c, K)
                         /\ Sees(q, K) \/ Sees(m, K) => Sees(c, K)
  BY <1>1 DEF Tells, Sees
<1>3. ASSUME NEW A, NEW B, Before(q, A, B), Before(m, A, B), ~Sees(m, A) \/ ~Sees(q, B),
             NEW i \in DOMAIN c, NEW j \in DOMAIN c, c[i].kind \in A, c[j].kind \in B
      PROVE  i < j
  <2>1. CASE i \in DOMAIN q /\ c[i] = q[i] /\ j \in DOMAIN q /\ c[j] = q[j]
    BY <1>3, <2>1 DEF Before
  <2>2. CASE i \in DOMAIN q /\ \E b \in DOMAIN m : j = Len(q) + b /\ c[j] = m[b]
    BY <1>1, <2>2
  <2>3. CASE /\ \E a \in DOMAIN m : i = Len(q) + a /\ c[i] = m[a]
             /\ j \in DOMAIN q /\ c[j] = q[j]
    BY <1>3, <2>3 DEF Sees
  <2>4. CASE /\ \E a \in DOMAIN m : i = Len(q) + a /\ c[i] = m[a]
             /\ \E b \in DOMAIN m : j = Len(q) + b /\ c[j] = m[b]
    <3>1. PICK a \in DOMAIN m, b \in DOMAIN m :
            i = Len(q) + a /\ c[i] = m[a] /\ j = Len(q) + b /\ c[j] = m[b]
      BY <2>4
    <3>2. a < b
      BY <1>3, <3>1 DEF Before
    <3> QED BY <1>1, <3>1, <3>2
  <2> QED BY <1>1, <2>1, <2>2, <2>3, <2>4
<1>4. \A A, B : /\ Before(q, A, B) /\ Before(m, A, B)
                /\ ~Sees(m, A) \/ ~Sees(q, B)
                => Before(c, A, B)
  BY <1>3 DEF Before
<1> QED BY <1>2, <1>4 DEF c

\* A claim about fewer kinds is the stronger one.
LEMMA TellsMore ==
    /\ \A q, K, L : Tells(q, K) /\ K \subseteq L => Tells(q, L)
    /\ \A q, K, L : Tells(q, K) /\ K \cap L = {} /\ L \subseteq FishNews => ~Sees(q, L)
    /\ \A q, A, B : ~Sees(q, A) \/ ~Sees(q, B) => Before(q, A, B)
BY DEF Tells, Sees, Before

\* A step of the battle, or a status, leaves the fishing where it is.
LEMMA StageKept ==
    ASSUME NEW f, NEW q, NEW q2, NEW a, NEW a2, NEW told \in Seq(Reports),
           NEW m \in Seq(Reports), Stage(f, q, a, told),
           \A k \in FishCalls \cup {"nothing"} : Asks(q, k) => Asks(q2, k),
           a2 = a \/ (a \in Resting /\ a2 \in Resting),
           Tells(m, IF a \in Resting THEN Resting ELSE {a})
    PROVE  Stage(f, q2, a2, told \o m)
<1>1. /\ \A K : Tells(told, K) /\ Tells(m, K) => Tells(told \o m, K)
      /\ \A K : Sees(told, K) \/ Sees(m, K) => Sees(told \o m, K)
      /\ \A A, B : /\ Before(told, A, B) /\ Before(m, A, B)
                   /\ ~Sees(m, A) \/ ~Sees(told, B)
                   => Before(told \o m, A, B)
  BY NewsPushed, Zenon
<1> DEFINE c == told \o m
<1> HIDE DEF c
<1>2. CASE a \in Resting
  <2>1. Tells(m, Resting) /\ a2 \in Resting
    BY <1>2
  <2>2. Tells(m, Resting \cup {"uncoff"})
    BY <2>1, TellsMore
  <2>3. ~Sees(m, {"start", "bite", "hooked", "done"})
    <3>1. /\ Resting \cap {"start", "bite", "hooked", "done"} = {}
          /\ {"start", "bite", "hooked", "done"} \subseteq FishNews
      BY DEF Resting, FishNews
    <3> QED BY <2>1, <3>1, TellsMore
  <2>4. Before(m, {"start", "bite", "hooked", "done"}, Resting \cup {"uncoff"})
    BY <2>3, TellsMore
  <2>5. /\ Tells(told, Resting) => Tells(c, Resting)
        /\ Tells(told, Resting \cup {"uncoff"}) => Tells(c, Resting \cup {"uncoff"})
        /\ Sees(told, {"uncoff"}) => Sees(c, {"uncoff"})
        /\ Before(told, {"start", "bite", "hooked", "done"}, Resting \cup {"uncoff"})
             => Before(c, {"start", "bite", "hooked", "done"}, Resting \cup {"uncoff"})
    BY <1>1, <2>1, <2>2, <2>3, <2>4 DEF c
  <2>6. a \notin {"start", "hooked", "done"}
    BY <1>2 DEF Resting
  <2>7. Stage(f, q2, a2, c)
    BY <2>1, <2>5, <2>6 DEF Stage, FishCalls
  <2> QED BY <2>7 DEF c
<1>3. CASE a \notin Resting
  <2>1. Tells(m, {a}) /\ a2 = a
    BY <1>3
  <2>2. \A K : a \in K => Tells(m, K)
    BY <2>1, TellsMore
  <2>3. ~Sees(m, Resting)
    <3>1. {a} \cap Resting = {} /\ Resting \subseteq FishNews
      BY <1>3 DEF Resting, FishNews
    <3> QED BY <2>1, <3>1, TellsMore
  <2>4. Before(m, Resting, {"start"})
    BY <2>3, TellsMore
  <2>5. /\ \A K : a \in K /\ Tells(told, K) => Tells(c, K)
        /\ Sees(told, {"start"}) => Sees(c, {"start"})
        /\ Before(told, Resting, {"start"}) => Before(c, Resting, {"start"})
    BY <1>1, <2>2, <2>3, <2>4 DEF c
  <2>6. Stage(f, q2, a, c)
    BY <1>3, <2>5 DEF Stage, FishCalls
  <2> QED BY <2>1, <2>6 DEF c
<1> QED BY <1>2, <1>3

\* What a move of the machine that is not an early end of a cast does.
LEMMA MoveStage ==
    ASSUME NEW f \in Machine, NEW q \in Seq(Orders), NEW a, NEW told, Stage(f, q, a, told),
           NEW move \in Plays(f) \cup {RunsOut(f)} \cup Inputs(f),
           f = "casting" => move[1] # "idle"
    PROVE  Stage(move[1], q \o move[2], a, told)
<1>1. q \o <<>> = q
  BY ConcatEmptySeq
<1>2. \/ move[1] = f /\ move[2] = <<>>
      \/ f \in Fighting /\ move[1] \in Fighting /\ move[2] = <<>>
      \/ f \in Fighting /\ move[1] = "ending" /\ move[2] = <<Msg("end")>>
      \/ f = "waiting" /\ move[1] = "checking" /\ move[2] = <<Msg("check")>>
      \/ f = "finishing" /\ move[1] = "releasing" /\ move[2] = <<Msg("release")>>
  <2>1. CASE move \in Plays(f)
    BY <2>1 DEF Plays, Fighting
  <2>2. CASE move = RunsOut(f)
    BY <2>2 DEF RunsOut, Fighting
  <2>3. CASE move \in Inputs(f)
    BY <2>3 DEF Inputs, Fighting
  <2> QED BY <2>1, <2>2, <2>3
<1>3. /\ Asks(q, "nothing") => Asks(q \o <<Msg("end")>>, "end")
      /\ Asks(q, "nothing") => Asks(q \o <<Msg("check")>>, "check")
      /\ Asks(q, "nothing") => Asks(q \o <<Msg("release")>>, "release")
  <2>1. "end" \in FishCalls /\ "check" \in FishCalls /\ "release" \in FishCalls
    BY DEF FishCalls
  <2> QED BY <2>1, AsksOne
<1>4. CASE move[2] = <<>>
  BY <1>1, <1>2, <1>4 DEF Stage, Fighting
<1>5. CASE f \in Fighting /\ move[1] = "ending" /\ move[2] = <<Msg("end")>>
  BY <1>3, <1>5 DEF Stage, Fighting
<1>6. CASE f = "waiting" /\ move[1] = "checking" /\ move[2] = <<Msg("check")>>
  BY <1>3, <1>6 DEF Stage, Fighting
<1>7. CASE f = "finishing" /\ move[1] = "releasing" /\ move[2] = <<Msg("release")>>
  <2>1. Asks(q, "nothing") /\ a = "done" /\ Tells(told, {"start", "bite", "hooked", "done"})
    BY <1>7 DEF Stage, Fighting
  <2> QED BY <1>3, <1>7, <2>1 DEF Stage
<1> QED BY <1>2, <1>4, <1>5, <1>6, <1>7

\* What the machine makes of the report it takes.
LEMMA ObserveStage ==
    ASSUME NEW f \in Machine, NEW q, NEW a, NEW told \in Seq(Reports), told # <<>>,
           Stage(f, q, a, told)
    PROVE  Stage(FishSees(f, Head(told)), q, a, Tail(told))
<1> DEFINE h == Head(told).kind
           t == Tail(told)
<1>1. /\ \A K : Tells(told, K) => Tells(t, K) /\ (h \in FishNews => h \in K)
      /\ \A K : Sees(told, K) /\ h \notin K => Sees(t, K)
      /\ \A A, B : Before(told, A, B) => Before(t, A, B) /\ (h \in B => ~Sees(t, A))
  BY NewsTaken
<1>2. /\ h = "start" /\ f \in {"casting", "idle"} => FishSees(f, Head(told)) = "waiting"
      /\ h = "uncoff" => FishSees(f, Head(told)) = "idle"
      /\ h = "bite" /\ f = "checking" => FishSees(f, Head(told)) = "hook"
      /\ h = "done" /\ f \in {"checking", "ending"} => FishSees(f, Head(told)) = "finishing"
      /\ h \in Resting /\ f \in {"checking", "ending", "finishing", "releasing"}
           => FishSees(f, Head(told)) = "idle"
      /\ h \in Resting /\ f \notin {"checking", "ending", "finishing", "releasing"}
           => FishSees(f, Head(told)) = f
      /\ h = "start" /\ f \notin {"casting", "idle"} => FishSees(f, Head(told)) = f
      /\ h = "bite" /\ f # "checking" => FishSees(f, Head(told)) = f
      /\ h = "done" /\ f \notin {"checking", "ending"} => FishSees(f, Head(told)) = f
      /\ h = "hooked" \/ h \notin FishNews => FishSees(f, Head(told)) = f
  BY DEF FishSees, Resting, FishNews
<1> HIDE DEF h, t
<1>3. /\ ~Sees(t, Resting) /\ Tells(t, Resting \cup {"start"}) => Tells(t, {"start"})
      /\ ~Sees(t, {"start", "bite", "hooked", "done"}) => Tells(t, Resting \cup {"uncoff"})
      /\ Tells(t, {"start", "done"}) => Tells(t, {"start", "bite", "hooked", "done"})
      /\ Tells(t, {"start", "bite", "hooked"}) => Tells(t, {"start", "bite", "hooked", "done"})
  BY DEF Tells, Sees, Resting, FishNews
<1> DEFINE g == FishSees(f, Head(told))
<1>4. CASE f = "idle"
  <2>1. g = "idle"
    BY <1>1, <1>2, <1>4 DEF Stage, Fighting, Resting, FishNews
  <2> QED BY <1>1, <1>4, <2>1 DEF Stage, Fighting, t
<1>5. CASE f = "casting"
  <2>1. CASE Asks(q, "fish") /\ a \in Resting /\ Tells(told, Resting)
    <3>1. g = "casting"
      BY <1>1, <1>2, <1>5, <2>1 DEF Resting, FishNews
    <3> QED BY <1>1, <2>1, <3>1 DEF Stage, t
  <2>2. CASE /\ Asks(q, "nothing") /\ a \in Resting /\ Tells(told, Resting \cup {"uncoff"})
             /\ Sees(told, {"uncoff"})
    <3>1. g = "casting" \/ g = "idle"
      BY <1>1, <1>2, <1>5, <2>2 DEF Resting, FishNews
    <3>2. g = "casting" => h # "uncoff"
      BY <1>2
    <3>3. Tells(t, Resting \cup {"uncoff"}) /\ (g = "casting" => Sees(t, {"uncoff"}))
      BY <1>1, <2>2, <3>2
    <3> QED BY <2>2, <3>1, <3>3 DEF Stage, t
  <2>3. CASE /\ Asks(q, "nothing") /\ a = "start" /\ Tells(told, Resting \cup {"start"})
             /\ Sees(told, {"start"}) /\ Before(told, Resting, {"start"})
    <3>1. CASE h = "start"
      <4>1. g = "waiting" /\ Tells(t, {"start"})
        BY <1>1, <1>2, <1>3, <1>5, <2>3, <3>1
      <4> QED BY <2>3, <4>1 DEF Stage, t
    <3>2. CASE h # "start"
      <4>1. g = "casting"
        BY <1>1, <1>2, <1>5, <2>3, <3>2 DEF Resting, FishNews
      <4>2. /\ Tells(t, Resting \cup {"start"}) /\ Sees(t, {"start"})
            /\ Before(t, Resting, {"start"})
        BY <1>1, <2>3, <3>2
      <4> QED BY <2>3, <4>1, <4>2 DEF Stage, t
    <3> QED BY <3>1, <3>2
  <2> QED BY <1>5, <2>1, <2>2, <2>3 DEF Stage, Fighting
<1>6. CASE f = "waiting"
  <2>1. Asks(q, "nothing") /\ a = "start" /\ Tells(told, {"start"})
    BY <1>6 DEF Stage, Fighting
  <2>2. g = "waiting"
    BY <1>1, <1>2, <1>6, <2>1
  <2> QED BY <1>1, <2>1, <2>2 DEF Stage, t
<1>7. CASE f = "checking"
  <2>1. CASE Asks(q, "check") /\ a = "start" /\ Tells(told, {"start"})
    <3>1. g = "checking"
      BY <1>1, <1>2, <1>7, <2>1
    <3> QED BY <1>1, <2>1, <3>1 DEF Stage, t
  <2>2. CASE /\ Asks(q, "nothing") /\ a = "hooked" /\ Tells(told, {"start", "bite", "hooked"})
    <3>1. g = "checking" \/ g \in Fighting
      BY <1>1, <1>2, <1>7, <2>2 DEF Fighting
    <3> QED BY <1>1, <2>2, <3>1 DEF Stage, t
  <2>3. CASE Asks(q, "nothing") /\ a = "done" /\ Tells(told, {"start", "done"})
    <3>1. g = "checking" \/ g = "finishing"
      BY <1>1, <1>2, <1>7, <2>3
    <3> QED BY <1>1, <1>3, <2>3, <3>1 DEF Stage, t
  <2> QED BY <1>7, <2>1, <2>2, <2>3 DEF Stage, Fighting
<1>8. CASE f \in Fighting
  <2>1. Asks(q, "nothing") /\ a = "hooked" /\ Tells(told, {"start", "bite", "hooked"})
    BY <1>8 DEF Stage, Fighting
  <2>2. g = f
    BY <1>1, <1>2, <1>8, <2>1 DEF Fighting
  <2> QED BY <1>1, <1>8, <2>1, <2>2 DEF Stage, t
<1>9. CASE f \in {"ending", "finishing"}
  <2>1. CASE f = "ending" /\ Asks(q, "end") /\ a = "hooked" /\ Tells(told, {"start", "bite", "hooked"})
    <3>1. g = "ending"
      BY <1>1, <1>2, <2>1
    <3> QED BY <1>1, <2>1, <3>1 DEF Stage, t
  <2>2. CASE Asks(q, "nothing") /\ a = "done" /\ Tells(told, {"start", "bite", "hooked", "done"})
    <3>1. g \in {"ending", "finishing"}
      BY <1>1, <1>2, <1>9, <2>2
    <3> QED BY <1>1, <2>2, <3>1 DEF Stage, t
  <2> QED BY <1>9, <2>1, <2>2 DEF Stage, Fighting
<1>10. CASE f = "releasing"
  <2>1. CASE Asks(q, "release") /\ a = "done" /\ Tells(told, {"start", "bite", "hooked", "done"})
    <3>1. g = "releasing"
      BY <1>1, <1>2, <1>10, <2>1
    <3> QED BY <1>1, <2>1, <3>1 DEF Stage, t
  <2>2. CASE /\ Asks(q, "nothing") /\ a \in Resting
             /\ Before(told, {"start", "bite", "hooked", "done"}, Resting \cup {"uncoff"})
    <3>1. CASE h \in Resting \cup {"uncoff"}
      <4>1. g = "idle" /\ Tells(t, Resting \cup {"uncoff"})
        BY <1>1, <1>2, <1>3, <1>10, <2>2, <3>1
      <4> QED BY <2>2, <4>1 DEF Stage, t
    <3>2. CASE h \notin Resting \cup {"uncoff"}
      <4>1. g = "releasing"
        BY <1>2, <1>10, <3>2 DEF Resting, FishNews
      <4> QED BY <1>1, <2>2, <4>1 DEF Stage, t
    <3> QED BY <3>1, <3>2
  <2> QED BY <1>10, <2>1, <2>2 DEF Stage, Fighting
<1> QED BY <1>4, <1>5, <1>6, <1>7, <1>8, <1>9, <1>10 DEF Machine, Fighting

LEMMA TurnOrders ==
    ASSUME TypeOK, Stage(r.fish, up, srv.anim, down), Operator, ~hist'.rash
    PROVE  Stage(r'.fish, up', srv'.anim, down')
<1>1. /\ srv' = srv /\ down' = down /\ down \in Seq(Reports) /\ up \in Seq(Orders)
      /\ ReactorOK(r) /\ r \in Reactors /\ r.fish \in Machine
  BY DEF Operator, Engage, Cancel, Travel, Move, Fish, Input, Order, TypeOK, ReactorOK, Reactors
<1>2. CASE Engage \/ Cancel \/ Travel \/ Move
  <2>1. r'.fish = r.fish
    BY <1>1, <1>2 DEF Engage, Cancel, Travel, Move, Idle, Reactors
  <2>2. PICK m \in Seq(Orders) :
          up' = up \o m /\ \A j \in DOMAIN m : m[j].kind \notin FishCalls
    <3>1. CASE up' = up
      <4>1. up' = up \o <<>> /\ <<>> \in Seq(Orders) /\ \A j \in DOMAIN <<>> : FALSE
        BY <1>1, <3>1, ConcatEmptySeq
      <4> QED BY <4>1, Zenon
    <3>2. CASE Reaches(r) /\ up' = Append(up, About("off", r.target))
      <4>1. About("off", r.target) \in Orders /\ About("off", r.target).kind \notin FishCalls
        BY <1>1, <3>2, RequestsTyped DEF Reaches, ReactorOK, Calls, About, FishCalls
      <4>2. up' = up \o <<About("off", r.target)>>
        BY <1>1, <3>2, <4>1, AppendIsConcat
      <4>3. /\ <<About("off", r.target)>> \in Seq(Orders)
            /\ \A j \in DOMAIN <<About("off", r.target)>> :
                 <<About("off", r.target)>>[j].kind \notin FishCalls
        BY <4>1
      <4> QED BY <4>2, <4>3, Zenon
    <3> QED BY <1>2, <3>1, <3>2 DEF Engage, Cancel, Travel, Move
  <2>3. \A k : Asks(up, k) => Asks(up', k)
    BY <1>1, <2>2, AsksPushed
  <2> QED BY <1>1, <2>1, <2>3 DEF Stage
<1>3. CASE Fish
  <2>1. CASE r.fish = "idle"
    <3>1. /\ r' = [r EXCEPT !.fish = "casting"] /\ up' = Append(up, Msg("fish"))
          /\ hist' = [hist EXCEPT !.rash = hist.rash \/ ~CastSettled]
      BY <1>3, <2>1, Zenon DEF Fish
    <3>2. CastSettled
      <4>1. hist'.rash = (hist.rash \/ ~CastSettled)
        BY <3>1 DEF TypeOK, Histories
      <4> QED BY <4>1, Zenon
    <3>3. down = <<>> /\ Asks(up, "nothing") /\ srv.anim \in Resting
      BY <2>1, <3>2 DEF CastSettled, Stage, Fighting
    <3>4. Msg("fish") \in Orders /\ "fish" \in FishCalls
      BY RequestsTyped DEF Calls, FishCalls
    <3>5. Asks(up', "fish")
      <4>1. up' = up \o <<Msg("fish")>>
        BY <1>1, <3>1, <3>4, AppendIsConcat
      <4> QED BY <1>1, <3>3, <3>4, <4>1, AsksOne
    <3>6. r'.fish = "casting" /\ Tells(down, Resting)
      BY <1>1, <3>1, <3>3 DEF Reactors, Tells
    <3> QED BY <1>1, <3>3, <3>5, <3>6 DEF Stage
  <2>2. CASE r.fish # "idle"
    BY <1>1, <1>3, <2>2 DEF Fish
  <2> QED BY <2>1, <2>2
<1>4. CASE Input
  <2>1. PICK m \in Inputs(r.fish) : r' = [r EXCEPT !.fish = m[1]] /\ up' = up \o m[2]
    BY <1>4 DEF Input
  <2>2. r.fish = "casting" => m[1] # "idle"
    BY <2>1 DEF Inputs, Fighting
  <2>3. r'.fish = m[1]
    BY <1>1, <2>1 DEF Reactors
  <2>4. Stage(m[1], up \o m[2], srv.anim, down)
    BY <1>1, <2>2, MoveStage
  <2> QED BY <1>1, <2>1, <2>3, <2>4
<1> QED BY <1>2, <1>3, <1>4 DEF Operator

\* A cast is not given up early: its answer is still to come.
LEMMA TurnTick ==
    ASSUME TypeOK, Stage(r.fish, up, srv.anim, down), NEW due \in BOOLEAN,
           NEW move \in Plays(r.fish) \cup {RunsOut(r.fish)}, TickWith(due, move),
           used'.faults = 0
    PROVE  Stage(r'.fish, up', srv'.anim, down')
<1>1. /\ srv' = srv /\ down' = down /\ down \in Seq(Reports) /\ up \in Seq(Orders)
      /\ ReactorOK(r) /\ r.fish \in Machine
  BY DEF TickWith, TypeOK, ReactorOK, Reactors
<1>2. r'.fish = move[1]
  <2>1. ReactorOK(TickGoal(r, due))
    BY <1>1, TickGoalTyped
  <2> QED BY <2>1 DEF TickWith, ReactorOK, Reactors
<1>3. r.fish = "casting" => move[1] # "idle"
  <2> SUFFICES ASSUME r.fish = "casting", move[1] = "idle" PROVE FALSE
    OBVIOUS
  <2>1. CastOpen
    <3>1. Asks(up, "fish") \/ Sees(down, {"uncoff"}) \/ Sees(down, {"start"})
      BY DEF Stage, Fighting
    <3> QED BY <3>1 DEF CastOpen, UnderWay, OnItsWay, Asks, Sees
  <2>2. used' = [used EXCEPT !.faults = used.faults + 1]
    BY <2>1, Zenon DEF TickWith
  <2> QED BY <2>2, BoundsAssumption DEF TypeOK, Budget
<1>4. PICK q \in Seq(Orders) : Stage(r.fish, q, srv.anim, down) /\ up' = q \o move[2]
  <2>1. CASE ~Strikes(r)
    <3>1. up' = up \o move[2]
      BY <2>1 DEF TickWith
    <3> QED BY <1>1, <3>1
  <2>2. CASE Strikes(r)
    <3>1. /\ About("attack", r.target) \in Orders
          /\ About("attack", r.target).kind \notin FishCalls
      BY <1>1, <2>2, RequestsTyped DEF Strikes, ReactorOK, Calls, About, FishCalls
    <3> DEFINE m == <<About("attack", r.target)>>
    <3>2. m \in Seq(Orders) /\ \A j \in DOMAIN m : m[j].kind \notin FishCalls
      BY <3>1
    <3>3. Append(up, About("attack", r.target)) = up \o m /\ up \o m \in Seq(Orders)
      BY <1>1, <3>1, <3>2, AppendIsConcat
    <3> HIDE DEF m
    <3>4. \A k : Asks(up, k) => Asks(up \o m, k)
      BY <1>1, <3>2, AsksPushed
    <3>5. Stage(r.fish, up \o m, srv.anim, down)
      BY <3>4 DEF Stage
    <3>6. up' = (up \o m) \o move[2]
      BY <2>2, <3>3 DEF TickWith
    <3> QED BY <3>3, <3>5, <3>6
  <2> QED BY <2>1, <2>2
<1>5. Stage(move[1], q \o move[2], srv.anim, down)
  BY <1>1, <1>3, <1>4, MoveStage
<1> QED BY <1>1, <1>2, <1>4, <1>5

\* An answer to a request of the battle.
LEMMA TurnBattle ==
    ASSUME TypeOK, Stage(r.fish, up, srv.anim, down), Accept \/ Refuse \/ Disengage
    PROVE  Stage(r'.fish, up', srv'.anim, down')
<1>1. /\ r' = r /\ up # <<>> /\ up' = Tail(up) /\ Head(up).kind \notin FishCalls
      /\ up \in Seq(Orders) /\ down \in Seq(Reports) /\ ServerOK(srv)
  BY DEF Accept, Refuse, Disengage, Request, TypeOK, FishCalls
<1>2. \A k \in FishCalls \cup {"nothing"} : Asks(up, k) => Asks(up', k)
  BY <1>1, AsksTaken
<1>3. PICK m \in Seq(Reports) :
        /\ down' = down \o m
        /\ Tells(m, IF srv.anim \in Resting THEN Resting ELSE {srv.anim})
        /\ srv'.anim = srv.anim \/ (srv.anim \in Resting /\ srv'.anim \in Resting)
  <2>1. down = down \o <<>> /\ <<>> \in Seq(Reports) /\ \A K : Tells(<<>>, K)
    BY <1>1, ConcatEmptySeq DEF Tells
  <2>2. CASE Accept
    <3>1. /\ About("target", Head(up).target) \in Reports
          /\ About("target", Head(up).target).kind \notin FishNews
      BY <1>1, <2>2, RequestsTyped DEF Accept, ServerOK, Servers, News, About, FishNews
    <3>2. /\ <<About("target", Head(up).target)>> \in Seq(Reports)
          /\ \A i \in DOMAIN <<About("target", Head(up).target)>> :
               <<About("target", Head(up).target)>>[i].kind \notin FishNews
      BY <3>1
    <3>3. \A K : Tells(<<About("target", Head(up).target)>>, K)
      BY <3>2 DEF Tells
    <3>4. /\ srv.anim \in Resting /\ srv'.anim \in Resting
          /\ down' = down \o <<About("target", Head(up).target)>>
      BY <1>1, <2>2 DEF Accept, Push, Resting, ServerOK, Servers
    <3> QED BY <3>2, <3>3, <3>4
  <2>3. CASE Refuse
    <3>1. srv' = srv /\ down' \in {down, Append(down, Msg("refused"))}
      BY <2>3 DEF Refuse
    <3>2. Msg("refused") \in Reports /\ Msg("refused").kind \notin FishNews
      BY RequestsTyped DEF News, Msg, FishNews
    <3>3. Append(down, Msg("refused")) = down \o <<Msg("refused")>>
      BY <1>1, <3>2, AppendIsConcat
    <3>4. /\ <<Msg("refused")>> \in Seq(Reports)
          /\ \A i \in DOMAIN <<Msg("refused")>> : <<Msg("refused")>>[i].kind \notin FishNews
      BY <3>2
    <3>5. \A K : Tells(<<Msg("refused")>>, K)
      BY <3>4 DEF Tells
    <3> QED BY <2>1, <3>1, <3>3, <3>4, <3>5
  <2>4. CASE Disengage /\ srv.battle = NoTarget
    BY <2>1, <2>4 DEF Disengage
  <2>5. CASE Disengage /\ srv.battle # NoTarget
    <3>1. PICK m \in {<<>>, <<Msg("target")>>} : down' = down \o (m \o <<Msg("none")>>)
      BY <2>5 DEF Disengage, Push
    <3>2. /\ Msg("target") \in Reports /\ Msg("target").kind \notin FishNews
          /\ Msg("none") \in Reports /\ Msg("none").kind \in Resting
      BY RequestsTyped DEF News, Msg, FishNews, Resting
    <3>3. /\ <<Msg("none")>> \in Seq(Reports) /\ <<Msg("target")>> \in Seq(Reports)
          /\ \A i \in DOMAIN <<Msg("none")>> : <<Msg("none")>>[i] = Msg("none")
          /\ \A i \in DOMAIN <<Msg("target")>> : <<Msg("target")>>[i] = Msg("target")
      BY <3>2
    <3>4. Tells(<<Msg("none")>>, Resting) /\ Tells(<<Msg("target")>>, Resting)
      BY <3>2, <3>3 DEF Tells
    <3>5. m \in Seq(Reports) /\ Tells(m, Resting)
      BY <2>1, <3>3, <3>4
    <3>6. srv.anim \in Resting /\ srv'.anim \in Resting
      BY <1>1, <2>5 DEF Disengage, ServerOK, Servers, Resting
    <3>7. m \o <<Msg("none")>> \in Seq(Reports) /\ Tells(m \o <<Msg("none")>>, Resting)
      BY <3>3, <3>4, <3>5, NewsPushed, Pushed
    <3> QED BY <3>1, <3>6, <3>7
  <2> QED BY <2>2, <2>3, <2>4, <2>5
<1>4. Stage(r.fish, up', srv'.anim, down \o m)
  BY <1>1, <1>2, <1>3, StageKept
<1> QED BY <1>1, <1>3, <1>4

\* An answer to a request of the machine.
LEMMA TurnAnswers ==
    ASSUME TypeOK, Stage(r.fish, up, srv.anim, down), Cast \/ Check \/ Resolve \/ Release
    PROVE  Stage(r'.fish, up', srv'.anim, down')
<1>1. /\ r' = r /\ up # <<>> /\ up' = Tail(up) /\ r.fish \in Machine
      /\ up \in Seq(Orders) /\ down \in Seq(Reports) /\ srv \in Servers
  BY DEF Cast, Check, Resolve, Release, Request, TypeOK, ServerOK, ReactorOK, Reactors
<1>2. \A k \in FishCalls \cup {"nothing"} :
        Asks(up, k) /\ Head(up).kind \in FishCalls
          => Head(up).kind = k /\ Asks(up', "nothing")
  BY <1>1, AsksTaken
<1>3. \A a \in {"start", "uncoff", "bite", "done"} :
        /\ <<Msg(a)>> \in Seq(Reports)
        /\ \A K : a \in K => Tells(<<Msg(a)>>, K) /\ Sees(<<Msg(a)>>, K)
        /\ \A K : a \notin K => ~Sees(<<Msg(a)>>, K)
  <2> SUFFICES ASSUME NEW a \in {"start", "uncoff", "bite", "done"}
               PROVE  /\ <<Msg(a)>> \in Seq(Reports)
                      /\ \A K : a \in K => Tells(<<Msg(a)>>, K) /\ Sees(<<Msg(a)>>, K)
                      /\ \A K : a \notin K => ~Sees(<<Msg(a)>>, K)
    OBVIOUS
  <2>1. Msg(a) \in Reports /\ Msg(a).kind = a
    BY RequestsTyped DEF News, Phases, Msg
  <2>2. /\ <<Msg(a)>> \in Seq(Reports) /\ 1 \in DOMAIN <<Msg(a)>>
        /\ \A i \in DOMAIN <<Msg(a)>> : <<Msg(a)>>[i].kind = a
    BY <2>1
  <2> QED BY <2>2 DEF Tells, Sees
<1>4. \A m \in Seq(Reports) :
        /\ \A K : Tells(down, K) /\ Tells(m, K) => Tells(down \o m, K)
        /\ \A K : Sees(down, K) \/ Sees(m, K) => Sees(down \o m, K)
        /\ \A A, B : /\ Before(down, A, B) /\ Before(m, A, B)
                     /\ ~Sees(m, A) \/ ~Sees(down, B)
                     => Before(down \o m, A, B)
  BY <1>1, NewsPushed
<1>5. CASE Cast
  <2>1. Head(up).kind = "fish" /\ "fish" \in FishCalls
    BY <1>5 DEF Cast, Request, FishCalls
  <2>2. r.fish = "casting" /\ srv.anim \in Resting /\ Tells(down, Resting) /\ Asks(up', "nothing")
    BY <1>2, <2>1 DEF Stage, FishCalls
  <2>3. CASE srv'.anim = "start" /\ down' = down \o <<Msg("start")>>
    <3>1. /\ Tells(down, Resting \cup {"start"}) /\ ~Sees(down, {"start"})
          /\ ~Sees(<<Msg("start")>>, Resting)
      BY <1>3, <2>2 DEF Tells, Sees, Resting, FishNews
    <3>2. Before(down, Resting, {"start"}) /\ Before(<<Msg("start")>>, Resting, {"start"})
      BY <3>1, TellsMore
    <3>3. /\ Tells(down', Resting \cup {"start"}) /\ Sees(down', {"start"})
          /\ Before(down', Resting, {"start"})
      BY <1>3, <1>4, <2>3, <3>1, <3>2
    <3> QED BY <1>1, <2>2, <2>3, <3>3 DEF Stage
  <2>4. CASE srv' = srv /\ down' = down \o <<Msg("uncoff")>>
    <3>1. Tells(down, Resting \cup {"uncoff"})
      BY <2>2 DEF Tells
    <3>2. Tells(down', Resting \cup {"uncoff"}) /\ Sees(down', {"uncoff"})
      BY <1>3, <1>4, <2>4, <3>1
    <3> QED BY <1>1, <2>2, <2>4, <3>2 DEF Stage
  <2> QED BY <1>1, <1>5, <2>3, <2>4 DEF Cast, Push, Servers
<1>6. CASE Check
  <2>1. Head(up).kind = "check" /\ "check" \in FishCalls
    BY <1>6 DEF Check, Request, FishCalls
  <2>2. r.fish = "checking" /\ srv.anim = "start" /\ Tells(down, {"start"}) /\ Asks(up', "nothing")
    BY <1>2, <2>1 DEF Stage, FishCalls
  <2>3. Tells(down, {"start", "bite", "hooked"}) /\ Tells(down, {"start", "done"})
    BY <2>2 DEF Tells
  <2>4. \/ srv'.anim = "hooked" /\ down' = down \o <<Msg("bite")>>
        \/ srv'.anim = "done" /\ down' = down \o <<Msg("done")>>
    <3>1. \/ srv' = [srv EXCEPT !.anim = "hooked"] /\ down' = down \o <<Msg("bite")>>
          \/ srv' = [srv EXCEPT !.anim = "done"] /\ down' = down \o <<Msg("done")>>
      BY <1>6, <2>2 DEF Check, Push
    <3> QED BY <1>1, <3>1 DEF Servers
  <2>5. \/ srv'.anim = "hooked" /\ Tells(down', {"start", "bite", "hooked"})
        \/ srv'.anim = "done" /\ Tells(down', {"start", "done"})
    <3>1. CASE srv'.anim = "hooked" /\ down' = down \o <<Msg("bite")>>
      <4>1. <<Msg("bite")>> \in Seq(Reports) /\ Tells(<<Msg("bite")>>, {"start", "bite", "hooked"})
        BY <1>3
      <4> QED BY <1>4, <2>3, <3>1, <4>1
    <3>2. CASE srv'.anim = "done" /\ down' = down \o <<Msg("done")>>
      <4>1. <<Msg("done")>> \in Seq(Reports) /\ Tells(<<Msg("done")>>, {"start", "done"})
        BY <1>3
      <4> QED BY <1>4, <2>3, <3>2, <4>1
    <3> QED BY <2>4, <3>1, <3>2
  <2> QED BY <1>1, <2>2, <2>5 DEF Stage
<1>7. CASE Resolve
  <2>1. Head(up).kind = "end" /\ "end" \in FishCalls
    BY <1>7 DEF Resolve, Request, FishCalls
  <2>2. /\ r.fish = "ending" /\ srv.anim = "hooked" /\ Tells(down, {"start", "bite", "hooked"})
        /\ Asks(up', "nothing")
    BY <1>2, <2>1 DEF Stage, FishCalls
  <2>3. Tells(down, {"start", "bite", "hooked", "done"})
    BY <2>2 DEF Tells
  <2>4. srv'.anim = "done" /\ down' = down \o <<Msg("done")>>
    BY <1>1, <1>7, <2>2 DEF Resolve, Push, Servers
  <2>5. Tells(down', {"start", "bite", "hooked", "done"})
    BY <1>3, <1>4, <2>3, <2>4
  <2> QED BY <1>1, <2>2, <2>4, <2>5 DEF Stage
<1>8. CASE Release
  <2> DEFINE A == {"start", "bite", "hooked", "done"}
             B == Resting \cup {"uncoff"}
  <2>1. Head(up).kind = "release" /\ "release" \in FishCalls
    BY <1>8 DEF Release, Request, FishCalls
  <2>2. r.fish = "releasing" /\ srv.anim = "done" /\ Tells(down, A) /\ Asks(up', "nothing")
    BY <1>2, <2>1 DEF Stage, FishCalls
  <2>3. PICK x, y \in {"none", "uncoff"} : down' = down \o <<Msg(x), Msg(y)>>
    BY <1>8, <2>2 DEF Release, Push
  <2>4. srv'.anim = "none"
    BY <1>1, <1>8, <2>2 DEF Release, Servers
  <2>5. /\ Msg(x) \in Reports /\ Msg(x).kind \in {"none", "uncoff"}
        /\ Msg(y) \in Reports /\ Msg(y).kind \in {"none", "uncoff"}
    BY RequestsTyped DEF News, Msg
  <2>6. /\ <<Msg(x), Msg(y)>> \in Seq(Reports)
        /\ \A i \in DOMAIN <<Msg(x), Msg(y)>> : <<Msg(x), Msg(y)>>[i].kind \in {"none", "uncoff"}
    BY <2>5
  <2>7. ~Sees(<<Msg(x), Msg(y)>>, A) /\ ~Sees(down, B)
    BY <2>2, <2>6 DEF Sees, Tells, Resting, FishNews
  <2>8. Before(down, A, B) /\ Before(<<Msg(x), Msg(y)>>, A, B)
    BY <2>7, TellsMore
  <2>9. Before(down', A, B)
    BY <1>4, <2>3, <2>6, <2>7, <2>8
  <2> QED BY <1>1, <2>2, <2>4, <2>9 DEF Stage, Resting
<1> QED BY <1>5, <1>6, <1>7, <1>8

LEMMA InTurnStep ==
    ASSUME TypeOK, InTurn, [Next]_vars
    PROVE  InTurn'
<1>1. CASE UNCHANGED vars
  BY <1>1 DEF vars, InTurn, Orderly
<1>2. CASE Next
  <2> SUFFICES ASSUME Orderly', used'.cuts = 0 PROVE Stage(r'.fish, up', srv'.anim, down')
    BY DEF InTurn
  <2>1. Stage(r.fish, up, srv.anim, down)
    BY <1>2, OrderlyBefore DEF InTurn
  <2>2. CASE Operator
    BY <2>1, <2>2, TurnOrders DEF Orderly
  <2>3. CASE Tick
    BY <2>1, <2>3, TurnTick DEF Tick, Orderly
  <2>4. CASE Expire
    <3>1. r'.fish = r.fish /\ UNCHANGED <<srv, up, down>>
      BY <2>4 DEF Expire, TypeOK, ReactorOK, Reactors
    <3> QED BY <2>1, <3>1
  <2>5. CASE Observe
    <3>1. Head(down) \in Reports
      BY <2>5, QueueTyped, Zenon DEF Observe, TypeOK
    <3>2. r'.fish = FishSees(r.fish, Head(down))
      <4>1. ReactorOK(GoalSees(r, Head(down)))
        BY <3>1, GoalSeesTyped DEF TypeOK
      <4> QED BY <2>5, <4>1 DEF Observe, ReactorOK, Reactors
    <3>3. /\ down # <<>> /\ down' = Tail(down) /\ up' = up /\ srv' = srv
          /\ down \in Seq(Reports) /\ r.fish \in Machine
      BY <2>5 DEF Observe, TypeOK, ReactorOK, Reactors
    <3> QED BY <2>1, <3>2, <3>3, ObserveStage
  <2>6. CASE Accept \/ Refuse \/ Disengage
    BY <2>1, <2>6, TurnBattle
  <2>7. CASE Cast \/ Check \/ Resolve \/ Release
    BY <2>1, <2>7, TurnAnswers
  <2>8. CASE Status
    <3>1. /\ r' = r /\ up' = up /\ srv' = srv /\ down' = down \o <<Msg(srv.anim)>>
          /\ down \in Seq(Reports) /\ srv.anim \in News
      BY <2>8 DEF Status, Push, TypeOK, ServerOK, Servers, News
    <3>2. Msg(srv.anim) \in Reports /\ Msg(srv.anim).kind = srv.anim
      BY <3>1, RequestsTyped DEF Msg
    <3>3. /\ <<Msg(srv.anim)>> \in Seq(Reports)
          /\ \A i \in DOMAIN <<Msg(srv.anim)>> : <<Msg(srv.anim)>>[i].kind = srv.anim
      BY <3>2
    <3>4. Tells(<<Msg(srv.anim)>>, IF srv.anim \in Resting THEN Resting ELSE {srv.anim})
      BY <3>3 DEF Tells
    <3> QED BY <2>1, <3>1, <3>3, <3>4, StageKept
  <2>9. ~Cut
    BY BoundsAssumption DEF Cut, TypeOK, Budget
  <2>10. ~Lose
    BY BoundsAssumption DEF Lose, Orderly, TypeOK, Budget
  <2> QED BY <1>2, <2>2, <2>3, <2>4, <2>5, <2>6, <2>7, <2>8, <2>9, <2>10
      DEF Next, Answers, MobDies, Despawn, Interrupt, Die, Zone, ForcedMove
<1> QED BY <1>1, <1>2

(* For any mobs and bounds: while nothing is lost, nothing befalls the player *)
(* and no cast is rash, the next request of the fishing machine finds the     *)
(* server in the stage the machine takes it to be in.                         *)
THEOREM FishingInTurnHolds == Spec => []FishingInTurn
<1>1. Init => InTurn
  <2>1. Init => Asks(<<>>, "nothing") /\ Tells(<<>>, Resting \cup {"uncoff"})
    BY DEF Asks, Tells
  <2> QED BY <2>1 DEF Init, InTurn, Stage, Resting
<1>2. TypeOK /\ InTurn => FishingInTurn
  <2> SUFFICES ASSUME TypeOK, InTurn, Orderly, used.cuts = 0, up # <<>>
               PROVE  /\ Head(up).kind = "check" => srv.anim = "start"
                      /\ Head(up).kind = "end" => srv.anim = "hooked"
                      /\ Head(up).kind = "release" => srv.anim = "done"
    BY DEF FishingInTurn, Orderly
  <2>1. \A k \in FishCalls \cup {"nothing"} :
          Asks(up, k) => (Head(up).kind \in FishCalls => Head(up).kind = k)
    BY AsksTaken DEF TypeOK
  <2> QED BY <2>1 DEF InTurn, Stage, FishCalls
<1> QED BY <1>1, <1>2, InTurnStep, TypeCorrect, PTL DEF Spec
=============================================================================
