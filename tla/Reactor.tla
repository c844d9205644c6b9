------------------------------- MODULE Reactor -------------------------------
(* The reactor's goal (reactor.rs) and its fishing machine (fishing.rs)       *)
(* against the server's battle and fishing state.  Requests leave through the *)
(* session as datagrams; answers come back as packets, broadcast as events    *)
(* which a slow reactor may miss.  The server is external: its answers are    *)
(* those the comments of the client describe.                                 *)
EXTENDS Integers, Sequences

CONSTANTS Targets, NoTarget,  \* mobs; TargetChanged { target_id: None }
          AutoPlay,   \* automates_player_input: the agent profile
          MaxOrders,  \* bound: commands of the operator
          MaxTrouble, \* bound: datagrams or events lost, answers later than a timeout,
                      \* mobs dead or out of sight, interrupts, zone changes
          MaxStatus   \* bound: statuses the server sends while others are under way

ASSUME TargetsAssumption == NoTarget \notin Targets
ASSUME PlayAssumption == AutoPlay \in BOOLEAN
ASSUME BoundsAssumption ==
    MaxOrders \in Nat /\ MaxTrouble \in Nat /\ MaxStatus \in Nat

VARIABLES r,     \* the reactor: goal, override, entity table, fishing machine
          srv,   \* the server: animation byte, battle target, mobs alive
          up,    \* requests under way
          down,  \* packets and events under way
          hist,  \* history: see Histories
          used   \* what the bounds have allowed so far
vars == <<r, srv, up, down, hist, used>>

Msg(kind) == [kind |-> kind, target |-> NoTarget]
About(kind, t) == [kind |-> kind, target |-> t]

Phases == {"start", "hooked", "done"}   \* FISHING_START, phase 1, phases 2 to 6
Fighting == {"hook", "center", "arrow"}

-----------------------------------------------------------------------------
Init ==
    /\ r = [goal |-> "idle", target |-> NoTarget, issued |-> FALSE, over |-> FALSE,
            view |-> [t \in Targets |-> "alive"], fish |-> "idle"]
    /\ srv = [anim |-> "none", battle |-> NoTarget, alive |-> Targets]
    /\ up = <<>> /\ down = <<>>
    /\ hist = [off |-> FALSE, rash |-> FALSE, denied |-> FALSE]
    /\ used = [orders |-> 0, faults |-> 0, cuts |-> 0, status |-> 0]

Idle(d) == [d EXCEPT !.goal = "idle", !.target = NoTarget, !.issued = FALSE]
Engages(d) == d.goal \in {"engaging", "engaged"}

UnderWay(kinds) == \E i \in DOMAIN up : up[i].kind \in kinds
OnItsWay(kinds) == \E i \in DOMAIN down : down[i].kind \in kinds

AttackOpen == UnderWay({"attack"}) \/ OnItsWay({"target", "refused", "attack"})
CastOpen == UnderWay({"fish"}) \/ OnItsWay({"start", "uncoff"})

(* Nothing of an earlier engagement or cast is still to be told.              *)
EngageSettled == ~AttackOpen /\ ~UnderWay({"off"})
                 /\ (srv.battle = NoTarget \/ r.goal = "engaged")
CastSettled == up = <<>> /\ down = <<>> /\ srv.anim \notin Phases

-----------------------------------------------------------------------------
(* handle_command                                                             *)

Order ==
    /\ used.orders < MaxOrders
    /\ used' = [used EXCEPT !.orders = @ + 1]
    /\ UNCHANGED <<srv, down>>

(* An engaged reactor re-aims at once; any other goal becomes a request.      *)
Engage == \E t \in Targets :
    /\ Order
    /\ r' = [r EXCEPT !.goal = IF @ = "engaged" THEN @ ELSE "engaging",
                      !.target = t, !.issued = FALSE]
    /\ hist' = [hist EXCEPT !.off = FALSE, !.rash = @ \/ ~EngageSettled]
    /\ UNCHANGED up

\* Mutant of Reaches: only a goal the server has accepted is taken back there.
ReachesAccepted(d) == d.goal = "engaged" /\ d.view[d.target] # "absent"

(* Cancel tells the server if the goal is an engagement with a known target.  *)
Reaches(d) == Engages(d) /\ d.view[d.target] # "absent"

Cancel ==
    /\ Order
    /\ r' = Idle(r)
    /\ up' = IF Reaches(r) THEN Append(up, About("off", r.target)) ELSE up
    /\ hist' = [hist EXCEPT !.off = @ \/ (Engages(r) /\ r.view[r.target] # "absent")]

(* Follow, PathTo with a route, BankWhenFull: they replace any goal, and the  *)
(* server is not told.                                                        *)
Travel ==
    /\ Order
    /\ r' = [Idle(r) EXCEPT !.goal = "travel"]
    /\ UNCHANGED <<up, hist>>

(* Move is dropped under an override and leaves an engagement alone.          *)
Move ==
    /\ Order
    /\ r' = IF r.over \/ Engages(r) THEN r ELSE Idle(r)
    /\ UNCHANGED <<up, hist>>

Fish ==
    /\ Order
    /\ IF r.fish = "idle"
       THEN /\ r' = [r EXCEPT !.fish = "casting"]
            /\ up' = Append(up, Msg("fish"))
            /\ hist' = [hist EXCEPT !.rash = @ \/ ~CastSettled]
       ELSE UNCHANGED <<r, up, hist>>

(* FishingInput: a hook, an arrow that lands the fish, one that does not, or  *)
(* a cancel.                                                                  *)
Inputs(f) ==
    (IF f \in Fighting THEN {<<"ending", <<Msg("end")>>>>} ELSE {<<f, <<>>>>})
      \cup (IF f \in {"hook", "arrow"} THEN {<<"center", <<>>>>} ELSE {})

Input == \E m \in Inputs(r.fish) :
    /\ Order
    /\ r' = [r EXCEPT !.fish = m[1]]
    /\ up' = up \o m[2]
    /\ UNCHANGED hist

-----------------------------------------------------------------------------
(* tick: the goal unless an override is active, then the fishing machine.     *)

Strikes(d) == ~d.over /\ Engages(d) /\ ~d.issued /\ d.view[d.target] = "alive"

\* ENGAGE_ACCEPT_TIMEOUT
GivesUp(d, due) == due /\ d.goal = "engaging" /\ d.issued

\* Mutant of TickGoal: a pending engage waits for its answer.
TickGoalPatient(d, due) ==
    IF d.over THEN d
    ELSE IF (Engages(d) /\ d.view[d.target] # "alive") \/ (due /\ d.goal = "travel")
         THEN Idle(d)
         ELSE [d EXCEPT !.issued = @ \/ Strikes(d)]

TickGoal(d, due) ==
    IF d.over THEN d
    ELSE IF \/ GivesUp(d, due)
            \/ Engages(d) /\ d.view[d.target] # "alive"
            \/ due /\ d.goal = "travel"
         THEN Idle(d)
         ELSE [d EXCEPT !.issued = @ \/ Strikes(d)]

(* What a clock of the fishing machine does when it runs out: the watchdog,   *)
(* the hook delay, the fight's limit, the resolution.                         *)
RunsOut(f) == CASE f = "casting" -> <<"idle", <<>>>>
                [] f = "waiting" -> <<"checking", <<Msg("check")>>>>
                [] f \in Fighting -> <<"ending", <<Msg("end")>>>>
                [] f = "finishing" -> <<"releasing", <<Msg("release")>>>>
                [] OTHER -> <<f, <<>>>>

(* Within a fight: the automatic hook, an arrow shown, missed or hit.         *)
Plays(f) == {<<f, <<>>>>}
            \cup (IF f = "hook" /\ AutoPlay THEN {<<"center", <<>>>>} ELSE {})
            \cup (IF f = "center" THEN {<<"arrow", <<>>>>} ELSE {})
            \cup (IF f = "arrow" THEN {<<"center", <<>>>>} ELSE {})
            \cup (IF f = "arrow" /\ AutoPlay THEN {<<"ending", <<Msg("end")>>>>} ELSE {})

MoreTrouble == used.faults + used.cuts < MaxTrouble

TickWith(due, move) ==
    /\ r' = [TickGoal(r, due) EXCEPT !.fish = move[1]]
    /\ up' = (IF Strikes(r) THEN Append(up, About("attack", r.target)) ELSE up) \o move[2]
    /\ LET late == \/ ~r.over /\ GivesUp(r, due) /\ AttackOpen
                   \/ r.fish = "casting" /\ move[1] = "idle" /\ CastOpen
       IN /\ late => MoreTrouble
          /\ used' = [used EXCEPT !.faults = IF late THEN @ + 1 ELSE @]
    /\ UNCHANGED <<srv, down, hist>>

Tick == \E due \in BOOLEAN, move \in Plays(r.fish) \cup {RunsOut(r.fish)} :
    TickWith(due, move)
ClocksRunOut == TickWith(TRUE, RunsOut(r.fish))

\* The override of a ForcedMove expires.
Expire ==
    /\ r.over /\ r' = [r EXCEPT !.over = FALSE]
    /\ UNCHANGED <<srv, up, down, hist, used>>

-----------------------------------------------------------------------------
(* observe_event                                                              *)

Engaged(d, t) == [d EXCEPT !.goal = "engaged", !.target = t, !.issued = TRUE]

Aimed(d, t) ==
    IF ~Engages(d) \/ (d.goal = "engaged" /\ t = d.target) THEN d
    ELSE IF t = NoTarget THEN Idle(d) ELSE Engaged(d, t)

\* Mutant of GoalSees: the player's death leaves the goal standing.
GoalSeesNoDeath(d, e) ==
    CASE e.kind = "target" -> Aimed(d, e.target)
      [] e.kind = "attack" /\ d.goal = "engaging" -> Engaged(d, d.target)
      [] e.kind = "refused" /\ d.goal = "engaging" -> Idle(d)
      [] e.kind = "zone" -> [Idle(d) EXCEPT !.view = [t \in Targets |-> "absent"]]
      [] e.kind \in {"dead", "absent"} -> [d EXCEPT !.view[e.target] = e.kind]
      [] e.kind = "forced" -> [d EXCEPT !.over = TRUE]
      [] OTHER -> d

GoalSees(d, e) ==
    CASE e.kind = "target" -> Aimed(d, e.target)
      [] e.kind = "attack" /\ d.goal = "engaging" -> Engaged(d, d.target)
      [] e.kind = "refused" /\ d.goal = "engaging" -> Idle(d)
      [] e.kind = "died" -> Idle(d)
      [] e.kind = "zone" -> [Idle(d) EXCEPT !.view = [t \in Targets |-> "absent"]]
      [] e.kind \in {"dead", "absent"} -> [d EXCEPT !.view[e.target] = e.kind]
      [] e.kind = "forced" -> [d EXCEPT !.over = TRUE]
      [] OTHER -> d

\* Mutants of FishSees: the resolution of a fight is not waited for; and every
\* FISHING_START is a new cast.
FishSeesNoEnd(f, e) ==
    CASE e.kind = "start" /\ f \in {"casting", "idle"} -> "waiting"
      [] e.kind = "uncoff" -> "idle"
      [] e.kind = "bite" /\ f = "checking" -> "hook"
      [] e.kind = "done" /\ f = "checking" -> "finishing"
      [] e.kind \in {"none", "attack"}
           /\ f \in {"checking", "finishing", "releasing"} -> "idle"
      [] OTHER -> f
FishSeesStartAgain(f, e) ==
    CASE e.kind = "start" -> "waiting"
      [] e.kind = "uncoff" -> "idle"
      [] e.kind = "bite" /\ f = "checking" -> "hook"
      [] e.kind = "done" /\ f \in {"checking", "ending"} -> "finishing"
      [] e.kind \in {"none", "attack"}
           /\ f \in {"checking", "ending", "finishing", "releasing"} -> "idle"
      [] OTHER -> f

(* on_cast, on_phase, on_hooked and abort of the fishing machine.             *)
FishSees(f, e) ==
    CASE e.kind = "start" /\ f \in {"casting", "idle"} -> "waiting"
      [] e.kind = "uncoff" -> "idle"
      [] e.kind = "bite" /\ f = "checking" -> "hook"
      [] e.kind = "done" /\ f \in {"checking", "ending"} -> "finishing"
      [] e.kind \in {"none", "attack"}
           /\ f \in {"checking", "ending", "finishing", "releasing"} -> "idle"
      [] OTHER -> f

Observe ==
    /\ down # <<>> /\ down' = Tail(down)
    /\ r' = [GoalSees(r, Head(down)) EXCEPT !.fish = FishSees(r.fish, Head(down))]
    /\ UNCHANGED <<srv, up, hist, used>>

-----------------------------------------------------------------------------
(* The server, its packets, and what gets lost.                               *)

Request(kind) == up # <<>> /\ Head(up).kind = kind /\ up' = Tail(up)
Push(msgs) == down' = down \o msgs

Accept ==
    /\ Request("attack") /\ srv.anim \notin Phases /\ Head(up).target \in srv.alive
    /\ srv' = [srv EXCEPT !.anim = "attack", !.battle = Head(up).target]
    /\ Push(<<About("target", Head(up).target)>>)
    /\ UNCHANGED <<r, hist, used>>

\* Refused with a message, or dropped by the packet validator without one.
Refuse ==
    /\ Request("attack")
    /\ down' \in {down, Append(down, Msg("refused"))}
    /\ hist' = [hist EXCEPT !.denied = @ \/ srv.battle # NoTarget]
    /\ UNCHANGED <<r, srv, used>>

Disengage ==
    /\ Request("off")
    /\ IF srv.battle = NoTarget THEN UNCHANGED <<srv, down>>
       ELSE /\ srv' = [srv EXCEPT !.anim = "none", !.battle = NoTarget]
            /\ \E m \in {<<>>, <<Msg("target")>>} : Push(m \o <<Msg("none")>>)
    /\ UNCHANGED <<r, hist, used>>

Cast ==
    /\ Request("fish")
    /\ \/ /\ srv.anim = "none"
          /\ srv' = [srv EXCEPT !.anim = "start"] /\ Push(<<Msg("start")>>)
       \/ UNCHANGED srv /\ Push(<<Msg("uncoff")>>)
    /\ UNCHANGED <<r, hist, used>>

Check ==
    /\ Request("check")
    /\ \/ /\ srv.anim = "start"
          /\ \/ srv' = [srv EXCEPT !.anim = "hooked"] /\ Push(<<Msg("bite")>>)
             \/ srv' = [srv EXCEPT !.anim = "done"] /\ Push(<<Msg("done")>>)
       \/ srv.anim # "start" /\ UNCHANGED <<srv, down>>
    /\ UNCHANGED <<r, hist, used>>

Resolve ==
    /\ Request("end")
    /\ IF srv.anim = "hooked"
       THEN srv' = [srv EXCEPT !.anim = "done"] /\ Push(<<Msg("done")>>)
       ELSE UNCHANGED <<srv, down>>
    /\ UNCHANGED <<r, hist, used>>

Release ==
    /\ Request("release")
    /\ IF srv.anim = "done"
       THEN /\ srv' = [srv EXCEPT !.anim = "none"]
            /\ \E m \in {<<Msg("none"), Msg("uncoff")>>, <<Msg("uncoff"), Msg("none")>>} : Push(m)
       ELSE UNCHANGED <<srv, down>>
    /\ UNCHANGED <<r, hist, used>>

\* 0x037, sent for many reasons, carries the animation byte.
Status ==
    /\ IF up = <<>> /\ down = <<>> THEN UNCHANGED used
       ELSE used.status < MaxStatus /\ used' = [used EXCEPT !.status = @ + 1]
    /\ Push(<<Msg(srv.anim)>>)
    /\ UNCHANGED <<r, srv, up, hist>>

Cut ==
    /\ MoreTrouble
    /\ used' = [used EXCEPT !.cuts = @ + 1]
    /\ UNCHANGED <<r, hist>>

MobDies == \E t \in srv.alive :
    /\ Cut /\ UNCHANGED up
    /\ LET fought == srv.battle = t
       IN /\ srv' = [anim |-> IF fought THEN "none" ELSE srv.anim,
                     battle |-> IF fought THEN NoTarget ELSE srv.battle,
                     alive |-> srv.alive \ {t}]
          /\ Push(<<About("dead", t)>> \o IF fought THEN <<Msg("target")>> ELSE <<>>)

\* The mob leaves the client's sight; the server fights on.
Despawn == \E t \in Targets :
    Cut /\ Push(<<About("absent", t)>>) /\ UNCHANGED <<srv, up>>

Interrupt ==
    /\ Cut /\ srv.anim \in Phases /\ UNCHANGED up
    /\ srv' = [srv EXCEPT !.anim = "none"]
    /\ Push(<<Msg("uncoff")>>)

\* The player dies: a 0x037 with the death timer and a cleared animation.
Die ==
    /\ Cut /\ UNCHANGED up
    /\ srv' = [srv EXCEPT !.anim = "none", !.battle = NoTarget]
    /\ Push(<<Msg("died"), Msg("none")>>)

\* What was sent to the old zone may get lost; the new one tells its status.
Zone ==
    /\ Cut /\ up' \in {up, <<>>}
    /\ srv' = [anim |-> "none", battle |-> NoTarget, alive |-> {}]
    /\ Push(<<Msg("zone"), Msg("none")>>)

ForcedMove == Cut /\ Push(<<Msg("forced")>>) /\ UNCHANGED <<srv, up>>

\* A datagram is lost, or the event receiver lags.
Lose ==
    /\ MoreTrouble
    /\ used' = [used EXCEPT !.faults = @ + 1]
    /\ \/ up # <<>> /\ up' = Tail(up) /\ UNCHANGED down
       \/ down # <<>> /\ down' = Tail(down) /\ UNCHANGED up
    /\ UNCHANGED <<r, srv, hist>>

Operator == Engage \/ Cancel \/ Travel \/ Move \/ Fish \/ Input
Answers == Accept \/ Refuse \/ Disengage \/ Cast \/ Check \/ Resolve \/ Release
Next == Operator \/ Tick \/ Expire \/ Observe \/ Answers \/ Status \/ MobDies
        \/ Despawn \/ Interrupt \/ Die \/ Zone \/ ForcedMove \/ Lose
Spec == Init /\ [][Next]_vars

(* The reactor ticks until its clocks run out and reads its events, and the   *)
(* server answers and tells its status now and then; the operator need not do *)
(* anything, and no mob has to die.                                           *)
FairSpec ==
    /\ Spec /\ WF_vars(ClocksRunOut) /\ WF_vars(Expire) /\ WF_vars(Observe)
    /\ WF_vars(Answers) /\ WF_vars(Status)
-----------------------------------------------------------------------------
Kinds == {"idle", "travel", "engaging", "engaged"}
Machine == {"idle", "casting", "waiting", "checking", "ending", "finishing",
            "releasing"} \cup Fighting
Calls == {"attack", "off", "fish", "check", "end", "release"}
News == {"target", "refused", "died", "zone", "dead", "absent", "forced", "uncoff",
         "bite", "none", "attack"} \cup Phases
Mobs == Targets \cup {NoTarget}

Reactors == [goal : Kinds, target : Mobs, issued : BOOLEAN, over : BOOLEAN,
             view : [Targets -> {"alive", "dead", "absent"}], fish : Machine]
Servers == [anim : {"none", "attack"} \cup Phases, battle : Mobs, alive : SUBSET Targets]
(* off: the last engagement was given up by a Cancel that reached out; rash:  *)
(* an order was given before an earlier one had settled; denied: a re-aim was *)
(* not granted.                                                               *)
Histories == [off : BOOLEAN, rash : BOOLEAN, denied : BOOLEAN]
Budget == [orders : 0 .. MaxOrders, faults : 0 .. MaxTrouble, cuts : 0 .. MaxTrouble,
           status : 0 .. MaxStatus]

Orders == [kind : Calls, target : Mobs]
Reports == [kind : News, target : Mobs]

ReactorOK(d) == d \in Reactors /\ (Engages(d) <=> d.target \in Targets)
ServerOK(s) == s \in Servers /\ (s.battle # NoTarget <=> s.anim = "attack")

(* Types; a goal has a mob exactly when it is an engagement, and the server's *)
(* animation byte says whether it fights.                                     *)
TypeOK ==
    /\ ReactorOK(r) /\ ServerOK(srv)
    /\ up \in Seq(Orders) /\ down \in Seq(Reports)
    /\ hist \in Histories /\ used \in Budget

Quiet == up = <<>> /\ down = <<>> /\ used.faults = 0

(* Once every answer is in, a reactor that holds itself engaged is engaged on *)
(* the server, with the same mob, through accepts, refusals, timeouts,        *)
(* re-aims, deaths and stale statuses.                                        *)
EngagedTogether ==
    Quiet /\ ~hist.rash /\ ~hist.denied /\ r.goal = "engaged" /\ r.issued
      /\ r.view[r.target] = "alive"
      => srv.battle = r.target

(* A Cancel of an engagement leaves nothing swinging, whether it meets an     *)
(* attack that was not sent, not answered or accepted ("a goal-only cancel    *)
(* would leave the server auto-swinging on the abandoned target").            *)
CancelDisengages == Quiet /\ hist.off => srv.battle = NoTarget

(* The server is never asked out of turn: a hook check finds a cast, the end  *)
(* of a fight a fish on the line, a release a finished fight.                 *)
FishingInTurn ==
    used.faults = 0 /\ used.cuts = 0 /\ ~hist.rash /\ up # <<>> =>
      /\ Head(up).kind = "check" => srv.anim = "start"
      /\ Head(up).kind = "end" => srv.anim = "hooked"
      /\ Head(up).kind = "release" => srv.anim = "done"

(* A request to engage does not stay open, whatever is lost, blocked or late. *)
EngageSettles == []<>(r.goal # "engaging")

(* Nobody stays in the fishing pose: machine and server come to rest again,   *)
(* through rejections, interrupts, deaths and zone changes.                   *)
FishingEnds == []<>(\/ used.faults > 0 \/ hist.rash
                    \/ r.fish = "idle" /\ srv.anim \notin Phases)

(* A Cancel reaches out to a server that fights, whatever goal it meets: TLC  *)
(* finds it violated by a Travel in between.                                  *)
CancelReaches == [][Cancel /\ Quiet /\ srv.battle # NoTarget => up' # up]_vars

(* A goal becomes Engaged only after its own Attack went out: TLC finds it    *)
(* violated by the accept of an Engage that a newer one has replaced.         *)
PromotedWhenSent == [][r.goal = "engaging" /\ r'.goal = "engaged" => r.issued]_vars
=============================================================================
