------------------------------ MODULE CastBar -------------------------------
(* A spell on its way: the lock keepalive_loop keeps on new actions, the cast *)
(* bar it shows between the server's answers, and the timer, the walking and  *)
(* the next action that end either.  Requests and answers travel in order;    *)
(* the server is external, and as slow or quick as it likes.                  *)
EXTENDS Naturals, Sequences

CONSTANTS Timed, Instants, \* spells with a cast time, and without one
          Ability,         \* a job ability, weapon skill or shot
          Pos, None,       \* a position the player walked to; no spell
          MaxUses,         \* bound: actions of the player or the agent
          MaxWalks         \* bound: steps he takes

Spells == Timed \cup Instants
ASSUME ActsAssumption ==
    /\ Timed \cap Instants = {} /\ Ability \notin Spells
    /\ Pos \notin Spells \cup {Ability} /\ None \notin Spells \cup {Ability, Pos}
ASSUME BoundsAssumption == MaxUses \in Nat /\ MaxWalks \in Nat

VARIABLES fly,    \* cast_in_flight: action, bar started, lock_until passed
          bar,    \* self_casting, once the folder has read the events sent
          recast, \* spell_recast_until: spells not to be cast again yet
          walked, \* a position not reported yet
          srv,    \* the spell the server is casting
          up,     \* requests under way
          down,   \* BATTLE2 about the player under way; it does not name the spell
          hist,   \* history: see Histories
          used    \* what the bounds have allowed so far
vars == <<fly, bar, recast, walked, srv, up, down, hist, used>>

Armed(a) == [act |-> a, started |-> FALSE, due |-> FALSE]
NoFly == Armed(None)
HasBar == fly.act \in Timed
Locked == fly.act # None /\ ~fly.due

Init ==
    /\ fly = NoFly /\ bar = None /\ recast = {} /\ walked = FALSE
    /\ srv = None /\ up = <<>> /\ down = <<>>
    /\ hist = [overlap |-> FALSE, replaced |-> FALSE]
    /\ used = [uses |-> 0, walks |-> 0]

-----------------------------------------------------------------------------
(* The command arms of the loop.                                              *)

\* Something about a spell is still to be served or read.
Busy == srv # None \/ down # <<>> \/ \E i \in DOMAIN up : up[i] \in Spells

\* The lock is armed at send; a spell without a cast time neither asks for it
\* nor arms it.
Use == \E a \in Spells \cup {Ability} :
    /\ used.uses < MaxUses /\ used' = [used EXCEPT !.uses = @ + 1]
    /\ a \in Instants \/ ~Locked
    /\ a \notin recast
    /\ recast' = recast \cup ({a} \cap Spells)
    /\ up' = Append(up, a)
    /\ IF a \in Instants THEN UNCHANGED <<fly, hist>>
       ELSE /\ fly' = Armed(a)
            /\ hist' = [overlap |-> hist.overlap \/ (a \in Timed /\ Busy),
                        replaced |-> hist.replaced \/ fly.started]
    /\ UNCHANGED <<bar, walked, srv, down>>

\* SelfCastEnded is sent for a bar that had started.
Ended == IF fly.started THEN None ELSE bar

\* Mutant of Drop: the cast is dropped without a word.
DropSilently == fly' = NoFly /\ UNCHANGED bar
Drop == fly' = NoFly /\ bar' = Ended

(* Walking breaks off a spell, not the lock of an ability.                    *)
Move ==
    /\ used.walks < MaxWalks /\ used' = [used EXCEPT !.walks = @ + 1]
    /\ walked' = TRUE
    /\ IF HasBar THEN Drop ELSE UNCHANGED <<fly, bar>>
    /\ UNCHANGED <<recast, srv, up, down, hist>>

-----------------------------------------------------------------------------
(* The tick arm, every 100 ms, and the clocks it reads.                       *)

\* Mutant of RunOut: a bar that has started waits for the server.
RunOutUnstarted == fly.act # None /\ fly.due /\ ~fly.started
RunOut == fly.act # None /\ fly.due

\* The position goes with a keepalive when one is due.
Report ==
    \/ walked /\ walked' = FALSE /\ up' = Append(up, Pos)
    \/ UNCHANGED <<walked, up>>

Tick ==
    /\ RunOut \/ walked
    /\ IF RunOut THEN Drop ELSE UNCHANGED <<fly, bar>>
    /\ Report
    /\ UNCHANGED <<recast, srv, down, hist, used>>

LockPasses ==
    /\ Locked /\ fly' = [fly EXCEPT !.due = TRUE]
    /\ UNCHANGED <<bar, recast, walked, srv, up, down, hist, used>>

RecastPasses == \E s \in recast :
    /\ recast' = recast \ {s}
    /\ UNCHANGED <<fly, bar, walked, srv, up, down, hist, used>>

-----------------------------------------------------------------------------
(* apply_self_battle2_to_cast.                                                *)

\* Mutant of Breaks: an interrupt, which is a start of another routine, is not
\* told from one.
BreaksNot == {"finish"}
Breaks == {"finish", "interrupt"}

\* A start prolongs the lock to the whole cast time from now.
Observe ==
    /\ down # <<>> /\ down' = Tail(down)
    /\ IF ~HasBar THEN UNCHANGED <<fly, bar>>
       ELSE IF Head(down) \in Breaks THEN Drop
       ELSE IF fly.started THEN UNCHANGED <<fly, bar>>
       ELSE fly' = [fly EXCEPT !.started = TRUE, !.due = FALSE] /\ bar' = fly.act
    /\ UNCHANGED <<recast, walked, srv, up, hist, used>>

\* Another zone: a loop and a snapshot of their own, and other keys.
Zone ==
    /\ fly' = NoFly /\ bar' = None /\ recast' = {} /\ walked' = FALSE
    /\ srv' = None /\ up' = <<>> /\ down' = <<>>
    /\ hist' = [overlap |-> FALSE, replaced |-> FALSE]
    /\ UNCHANGED used

-----------------------------------------------------------------------------
(* The server casts one spell at a time.  A request may be lost, refused, or  *)
(* have nothing to do with spells.                                            *)

Serve ==
    /\ up # <<>> /\ up' = Tail(up)
    /\ LET a == Head(up)
       IN \/ UNCHANGED <<srv, down>>
          \/ /\ a \in Timed /\ srv = None
             /\ srv' = a /\ down' = Append(down, "start")
          \/ /\ a \in Instants /\ srv = None
             /\ down' = down \o <<"start", "finish">> /\ UNCHANGED srv
          \/ /\ a = Pos /\ srv # None
             /\ srv' = None /\ down' = Append(down, "interrupt")
    /\ UNCHANGED <<fly, bar, recast, walked, hist, used>>

Complete ==
    /\ srv # None /\ srv' = None
    /\ \E m \in {"finish", "interrupt"} : down' = Append(down, m)
    /\ UNCHANGED <<fly, bar, recast, walked, up, hist, used>>

Next == Use \/ Move \/ Tick \/ LockPasses \/ RecastPasses \/ Observe \/ Zone
        \/ Serve \/ Complete
Spec == Init /\ [][Next]_vars

(* The loop ticks and time passes; no answer has to come.                     *)
FairSpec == Spec /\ WF_vars(Tick) /\ WF_vars(LockPasses)
-----------------------------------------------------------------------------
Flights == [act : Timed \cup {Ability, None}, started : BOOLEAN, due : BOOLEAN]
(* overlap: a spell was sent while another was still cast, asked for or       *)
(* answered; replaced: an action took the place of a cast whose bar was on    *)
(* screen, its lock run out and the tick not come.                            *)
Histories == [overlap : BOOLEAN, replaced : BOOLEAN]

(* Types; only a spell in flight has a bar.                                   *)
TypeOK ==
    /\ fly \in Flights /\ bar \in Timed \cup {None} /\ recast \subseteq Spells
    /\ walked \in BOOLEAN /\ srv \in Timed \cup {None}
    /\ up \in Seq(Spells \cup {Ability, Pos})
    /\ down \in Seq({"start", "finish", "interrupt"})
    /\ hist \in Histories /\ used \in [uses : 0 .. MaxUses, walks : 0 .. MaxWalks]
    /\ fly.started => fly.act \in Timed

(* A bar on screen is that of the spell in flight, through timers, walks and  *)
(* answers in any order ("CastInFlight is the authoritative owner").          *)
BarOwned == ~hist.replaced /\ bar # None => fly.started /\ fly.act = bar

(* The same in the words of the snapshot, "None when idle", at all times: an  *)
(* action accepted after the lock ran out and before the tick leaves the bar  *)
(* of the cast it replaces on screen.                                         *)
IdleShowsNone == fly.act = None => bar = None

(* Everything read, the bar of a spell in flight is on screen exactly when    *)
(* the server is casting it: answers name no spell, and those of instant      *)
(* spells, of refused ones and of casts walked away from are read for it too. *)
BarMirrors ==
    ~hist.overlap /\ ~hist.replaced /\ up = <<>> /\ down = <<>> /\ fly.act \in Timed =>
        bar = srv

(* No bar stays on screen, whether or not the server ends the cast.           *)
BarEnds == []<>(bar = None \/ hist.replaced)
=============================================================================
