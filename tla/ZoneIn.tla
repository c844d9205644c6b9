------------------------------- MODULE ZoneIn --------------------------------
(* One zone-in and the stay that follows, from run_map_session's bootstrap to *)
(* the session's end: the flood drains, the requests between them, the ticks  *)
(* of the keepalive loop, the zone-line request and the server's LOGOUT.  The *)
(* server is external.  Datagrams arrive in order and once (see MapLink for   *)
(* copies, overtaking and sync numbers), unless they are lost.                *)
EXTENDS Integers, Sequences

CONSTANTS Lines, NoLine,  \* zone lines; pending_maprect = None
          MaxLost,   \* bound: datagrams lost, or not sent as the link is down
          MaxLate,   \* bound: waits that run out before the answer is in
          MaxOld,    \* bound: datagrams of the last zone still in the socket
          MaxEvents, \* bound: server events begun
          MaxWarps,  \* bound: zone changes nobody asked for
          MaxAsks,   \* bound: zone changes the player asks for
          MaxPos     \* bound: position updates counted

ASSUME LinesAssumption == NoLine \notin Lines
ASSUME BoundsAssumption ==
    /\ MaxLost \in Nat /\ MaxLate \in Nat /\ MaxOld \in Nat /\ MaxEvents \in Nat
    /\ MaxWarps \in Nat /\ MaxAsks \in Nat /\ MaxPos \in Nat

VARIABLES c,     \* the locals of run_map_session and keepalive_loop, and where it is
          srv,   \* the server's session
          up,    \* datagrams to the server
          down,  \* datagrams to the client
          used   \* what the bounds have allowed so far
vars == <<c, srv, up, down, used>>

Requests == {"LOGIN", "GAMEOK", "GROUP", "STATUS", "ZT", "RESRDY", "END", "POS", "MAPRECT"}
Pushes == {"ENTERZONE", "SEED", "EVENT", "LOGOUT"}
NoStamp == -1   \* server_seq_applied = None
Draining == {"drain", "gameok", "group"}
Ended == {"zoned", "silent", "failed"}

Datagram(subs, ack, line) == [subs |-> subs, ack |-> ack, line |-> line]
Bundle(stamp, subs) == [stamp |-> stamp, subs |-> subs, old |-> FALSE]
OldBundle == [stamp |-> 0, subs |-> {}, old |-> TRUE]

-----------------------------------------------------------------------------
(* The first LOGIN is out; the socket may hold what the last zone sent.       *)
Init ==
    /\ c = [at |-> "boot", ack |-> 0, sent |-> 0, applied |-> NoStamp,
            seeded |-> FALSE, enter |-> FALSE, owed |-> FALSE, deferred |-> FALSE,
            zt |-> FALSE, resrdy |-> FALSE, shown |-> FALSE, capped |-> FALSE,
            maprect |-> NoLine, via |-> NoLine, pos |-> 0]
    /\ srv = [spid |-> 0, got |-> {}, event |-> FALSE, seed |-> FALSE,
              queue |-> {}, cached |-> {}, gone |-> FALSE, line |-> NoLine]
    /\ up = <<Datagram({"LOGIN"}, 0, NoLine)>>
    /\ down \in {[i \in 1 .. n |-> OldBundle] : n \in 0 .. MaxOld}
    /\ used = [lost |-> 0, late |-> 0, events |-> 0, warps |-> 0, asks |-> 0]

\* Every request sent so far has its answer read.
Answered == up = <<>> /\ \A i \in DOMAIN down : down[i].stamp = c.ack

Spend(ok, inTime, asks) ==
    /\ used' = [used EXCEPT !.lost = IF ok THEN @ ELSE @ + 1,
                            !.late = IF inTime THEN @ ELSE @ + 1,
                            !.asks = @ + asks]
    /\ used'.lost <= MaxLost /\ used'.late <= MaxLate

Put(subs, ack, line, ok) ==
    up' = IF ok /\ subs # {} THEN Append(up, Datagram(subs, ack, line)) ELSE up

(* The bootstrap is sent a second time before anything is read.               *)
Again ==
    /\ c.at = "boot"
    /\ c' = [c EXCEPT !.at = "drain"]
    /\ Put({"LOGIN"}, 0, NoLine, TRUE)
    /\ UNCHANGED <<srv, down, used>>

(* What drain_zone_flood and the loop do with a datagram, LOGOUT apart: the   *)
(* drains have no branch for it.                                              *)
Apply(b) == [c EXCEPT !.ack = b.stamp,
                      !.seeded = @ \/ "SEED" \in b.subs,
                      !.enter = @ \/ "ENTERZONE" \in b.subs,
                      !.owed = @ \/ "EVENT" \in b.subs]

\* Mutant of Request: the group list is asked for whatever is pending.
RequestAtOnce(d) == CASE d.at = "drain" -> {"GAMEOK"}
                      [] d.at = "gameok" -> {"GROUP"}
                      [] d.at = "group" -> {"STATUS"}

(* Once a drain is over the next request goes out: GAMEOK, GROUP_LIST_REQ     *)
(* unless an event is pending, CLISTATUS; then the loop.                      *)
Request(d) == CASE d.at = "drain" -> {"GAMEOK"}
                [] d.at = "gameok" -> IF d.owed THEN {} ELSE {"GROUP"}
                [] d.at = "group" -> {"STATUS"}

After(d) ==
    CASE d.at = "drain" -> [d EXCEPT !.at = "gameok", !.sent = d.ack]
      [] d.at = "gameok" -> [d EXCEPT !.at = "group", !.sent = d.ack, !.deferred = d.owed]
      [] d.at = "group" -> [d EXCEPT !.at = "loop", !.sent = d.ack, !.shown = d.seeded]

Proceed(d, inTime) == \E ok \in BOOLEAN :
    /\ Request(d) = {} => ok
    /\ Spend(ok, inTime, 0)
    /\ Put(Request(d), d.ack, NoLine, ok)
    /\ c' = IF ok THEN After(d) ELSE [d EXCEPT !.at = "failed"]
    /\ UNCHANGED srv

(* A drain behind a request ends with the first other stamp.                  *)
Satisfied(d) == d.at # "drain" /\ d.ack # d.sent

\* Mutant of DrainReceive: a drain keeps the ack it started with.
DrainReceiveOldAck ==
    /\ c.at \in Draining /\ down # <<>> /\ ~Head(down).old
    /\ down' = Tail(down)
    /\ LET d == Apply(Head(down))
       IN IF Satisfied(d) THEN Proceed([d EXCEPT !.ack = c.ack], TRUE)
                          ELSE c' = d /\ UNCHANGED <<srv, up, used>>

(* A datagram of the last zone does not decrypt, and an error ends a drain.   *)
DrainReceive ==
    /\ c.at \in Draining /\ down # <<>>
    /\ down' = Tail(down)
    /\ IF Head(down).old THEN Proceed(c, TRUE)
       ELSE LET d == Apply(Head(down))
            IN IF Satisfied(d) THEN Proceed(d, TRUE)
                               ELSE c' = d /\ UNCHANGED <<srv, up, used>>

\* 500 ms without a datagram; before GAMEOK only once seeded.
DrainIdle ==
    /\ c.at \in Draining /\ (c.at = "drain" => c.seeded)
    /\ Proceed(c, up = <<>> /\ down = <<>>)
    /\ UNCHANGED down

\* FLOOD_DRAIN_CAP
DrainCap ==
    /\ c.at \in Draining
    /\ Proceed([c EXCEPT !.capped = TRUE], up = <<>> /\ down = <<>>)
    /\ UNCHANGED down

-----------------------------------------------------------------------------
(* The keepalive loop.                                                        *)

\* Mutant of Includes: the position goes out once seeded.
IncludesEarly(d) == d.seeded

Includes(d) == d.enter /\ d.seeded

\* Mutant of Transitions: ZONE_TRANSITION follows the first position.
TransitionsLate(d) == d.enter /\ ~d.zt /\ d.pos > 0

Transitions(d) == d.enter /\ ~d.zt

Sent(condition, request) == IF condition THEN {request} ELSE {}

(* One tick: watchdog, ZONE_TRANSITION, SendResRdy, the flush of a pending    *)
(* event, the deferred GROUP_LIST_REQ and the position, in one datagram.  The *)
(* flags are set whether or not it can be sent.                               *)
TickWith(expire, flush, ok) ==
    /\ c.at = "loop"
    /\ expire => c.maprect # NoLine
    /\ flush => c.owed
    /\ LET zt == Transitions(c)
           resrdy == (c.zt \/ zt) /\ c.seeded /\ ~c.resrdy /\ ~c.owed
           owed == c.owed /\ ~flush
           group == c.deferred /\ ~owed
           pos == Includes(c) /\ c.pos < MaxPos
           subs == Sent(zt, "ZT") \cup Sent(resrdy, "RESRDY") \cup Sent(flush, "END")
                     \cup Sent(group, "GROUP") \cup Sent(pos, "POS")
       IN /\ c' = [c EXCEPT !.zt = @ \/ zt, !.resrdy = @ \/ resrdy, !.owed = owed,
                            !.deferred = @ /\ ~group, !.pos = IF pos THEN @ + 1 ELSE @,
                            !.maprect = IF expire THEN NoLine ELSE @]
          /\ subs = {} => ok
          /\ Put(subs, c.ack, NoLine, ok)
          /\ Spend(ok, Answered \/ (subs = {} /\ ~expire), 0)
    /\ UNCHANGED <<srv, down>>

Tick == \E expire, flush, ok \in BOOLEAN : TickWith(expire, flush, ok)

(* is_fresh_bundle; MapLink has its numbers wrap.                             *)
IsFresh(b) == b.stamp > c.applied

\* Mutant of LogoutBy: the line is not handed on.
LogoutByNobody(b) == [c EXCEPT !.at = "zoned", !.ack = b.stamp]

LogoutBy(b) == [c EXCEPT !.at = "zoned", !.ack = b.stamp, !.via = c.maprect]

(* Any bundle's number is the next ack; only a fresh one is applied.          *)
Heed(b) == IF b.old THEN c
           ELSE IF ~IsFresh(b) THEN [c EXCEPT !.ack = b.stamp]
           ELSE [IF "LOGOUT" \in b.subs THEN LogoutBy(b) ELSE Apply(b)
                 EXCEPT !.applied = b.stamp]

Receive ==
    /\ c.at = "loop" /\ down # <<>>
    /\ down' = Tail(down) /\ c' = Heed(Head(down))
    /\ UNCHANGED <<srv, up, used>>

(* RequestZoneChange and MogHouseExit, once the own CHAR_PC is known.         *)
Ask == \E line \in Lines, ok \in BOOLEAN :
    /\ c.at = "loop" /\ c.seeded /\ used.asks < MaxAsks
    /\ c' = IF ok THEN [c EXCEPT !.maprect = line] ELSE c
    /\ Put({"MAPRECT"}, c.ack, line, ok)
    /\ Spend(ok, Answered, 1)
    /\ UNCHANGED <<srv, down>>

\* MAP_SILENCE_TIMEOUT
Silence ==
    /\ c.at = "loop" /\ srv.gone /\ up = <<>> /\ down = <<>>
    /\ c' = [c EXCEPT !.at = "silent"]
    /\ UNCHANGED <<srv, up, down, used>>

-----------------------------------------------------------------------------
(* The server and the network.                                                *)

Reply(subs, spid) == down' = Append(down, Bundle(spid, subs))

Blocked == {"GROUP", "RESRDY", "MAPRECT"}   \* while the player is InEvent
Handled(d) == IF srv.event /\ "END" \notin d.subs THEN d.subs \ Blocked ELSE d.subs
Answer(subs) == Sent("GAMEOK" \in subs, "ENTERZONE") \cup Sent("MAPRECT" \in subs, "LOGOUT")

(* A LOGIN, or a datagram with the current ack, is processed and answered     *)
(* under the next number, with what was pushed since the last answer.         *)
ServerTake ==
    /\ up # <<>> /\ up' = Tail(up) /\ ~srv.gone
    /\ LET d == Head(up)
           subs == Handled(d)
           bundle == Answer(subs) \cup srv.queue
       IN /\ "LOGIN" \in d.subs \/ d.ack = srv.spid
          /\ srv' = [srv EXCEPT !.spid = @ + 1, !.got = @ \cup subs,
                                !.event = @ /\ "END" \notin subs,
                                !.queue = {}, !.cached = bundle,
                                !.gone = "LOGOUT" \in bundle,
                                !.line = IF "MAPRECT" \in subs THEN d.line ELSE @]
          /\ Reply(bundle, srv.spid + 1)
    /\ UNCHANGED <<c, used>>

\* The retransmit guard: a wrong ack gets the last datagram again.
ServerEat ==
    /\ up # <<>> /\ up' = Tail(up) /\ ~srv.gone
    /\ "LOGIN" \notin Head(up).subs /\ Head(up).ack # srv.spid
    /\ Reply(srv.cached, srv.spid)
    /\ UNCHANGED <<c, srv, used>>

ServerDeaf ==
    /\ up # <<>> /\ up' = Tail(up) /\ srv.gone
    /\ UNCHANGED <<c, srv, down, used>>

Awake == srv.spid > 0 /\ ~srv.gone

(* Pushes wait for the next answer: the server's id "only advances when it    *)
(* accepts one of our c2s", and no number reaches the loop twice.             *)
Push(sub) == srv.queue \cup {sub}

PushSeed ==
    /\ Awake /\ ~srv.seed
    /\ srv' = [srv EXCEPT !.seed = TRUE, !.queue = Push("SEED")]
    /\ UNCHANGED <<c, up, down, used>>

PushEvent ==
    /\ Awake /\ ~srv.event /\ used.events < MaxEvents
    /\ srv' = [srv EXCEPT !.event = TRUE, !.queue = Push("EVENT")]
    /\ used' = [used EXCEPT !.events = @ + 1]
    /\ UNCHANGED <<c, up, down>>

Warp ==
    /\ Awake /\ used.warps < MaxWarps
    /\ srv' = [srv EXCEPT !.queue = Push("LOGOUT")]
    /\ used' = [used EXCEPT !.warps = @ + 1]
    /\ UNCHANGED <<c, up, down>>

\* 5 s without a request: only positions keep a session that is in alive.
LinkDead ==
    /\ Awake /\ up = <<>> /\ down = <<>>
    /\ \/ c.at = "drain" /\ ~c.seeded
       \/ c.at = "loop" /\ ~Includes(c)
       \/ c.at \in Ended
    /\ srv' = [srv EXCEPT !.gone = TRUE]
    /\ UNCHANGED <<c, up, down, used>>

Lose ==
    /\ used.lost < MaxLost
    /\ \/ up # <<>> /\ up' = Tail(up) /\ UNCHANGED down
       \/ down # <<>> /\ down' = Tail(down) /\ UNCHANGED up
    /\ used' = [used EXCEPT !.lost = @ + 1]
    /\ UNCHANGED <<c, srv>>

Client == Again \/ DrainReceive \/ DrainIdle \/ DrainCap \/ Tick \/ Receive \/ Ask \/ Silence
Server == ServerTake \/ ServerEat \/ ServerDeaf \/ PushSeed \/ PushEvent \/ Warp \/ LinkDead
Next == Client \/ Server \/ Lose
Spec == Init /\ [][Next]_vars

(* Timeouts run out, ticks come, what arrived is read, and the server answers *)
(* and gives a silent session up; nobody has to ask, push or warp.            *)
FairSpec ==
    /\ Spec /\ WF_vars(Again) /\ WF_vars(DrainReceive) /\ WF_vars(DrainIdle \/ DrainCap)
    /\ WF_vars(Tick) /\ WF_vars(Receive) /\ WF_vars(Silence)
    /\ WF_vars(ServerTake \/ ServerEat \/ ServerDeaf) /\ WF_vars(LinkDead)
-----------------------------------------------------------------------------
Locals ==
    [at : {"boot", "loop"} \cup Draining \cup Ended, ack : Nat, sent : Nat,
     applied : Nat \cup {NoStamp}, seeded : BOOLEAN, enter : BOOLEAN, owed : BOOLEAN,
     deferred : BOOLEAN, zt : BOOLEAN, resrdy : BOOLEAN, shown : BOOLEAN, capped : BOOLEAN,
     maprect : Lines \cup {NoLine}, via : Lines \cup {NoLine}, pos : 0 .. MaxPos]
Sessions ==
    [spid : Nat, got : SUBSET Requests, event : BOOLEAN, seed : BOOLEAN,
     queue : SUBSET Pushes, cached : SUBSET Pushes, gone : BOOLEAN, line : Lines \cup {NoLine}]
Datagrams == [subs : SUBSET Requests, ack : Nat, line : Lines \cup {NoLine}]
Bundles == [stamp : Nat, subs : SUBSET Pushes, old : BOOLEAN]
Budget == [lost : 0 .. MaxLost, late : 0 .. MaxLate, events : 0 .. MaxEvents,
           warps : 0 .. MaxWarps, asks : 0 .. MaxAsks]

TypeOK ==
    /\ c \in Locals
    /\ srv \in Sessions
    /\ up \in Seq(Datagrams)
    /\ down \in Seq(Bundles)
    /\ used \in Budget

Clean == used.lost = 0 /\ used.late = 0 /\ MaxOld = 0

(* Whatever is lost, late or retransmitted, no position reaches the server    *)
(* before it has let the player in (keepalive_loop: a position sent earlier   *)
(* "would write the client's own position back to the server mid-login").     *)
PosAwaitsZone == "POS" \in srv.got => "GAMEOK" \in srv.got

(* If nothing was lost or late, the server hears of the end of the transition *)
(* before, or with, the first position, and a session shown as InZone is one  *)
(* whose GAMEOK it accepted: what the drains between the requests are for.    *)
TransitionInOrder ==
    Clean => /\ "POS" \in srv.got => "ZT" \in srv.got
             /\ ~srv.gone /\ c.shown => "GAMEOK" \in srv.got

(* The next zone is entered through the line whose request the server granted *)
(* (reconnect_via_zoneline), events, refusals and a second request            *)
(* notwithstanding.                                                           *)
ViaIsAsked == Clean /\ used.warps = 0 /\ c.at = "zoned" => c.via = srv.line

(* If nothing is lost or late, a group list request or SendResRdy leaves only *)
(* while the client has no event open, or in the datagram of its END ("the    *)
(* server sees the event end before the request").  The server, which drops   *)
(* both in an event, refuses one only for an event it has not yet told of.    *)
Shadowed == {"GROUP", "RESRDY"}
Crossed == /\ "EVENT" \in srv.queue
           /\ \E i \in DOMAIN up : up[i].subs \cap Shadowed # {}
AsksOutsideEvents ==
    Clean /\ srv.event /\ ~srv.gone /\ ~Crossed =>
        \A i \in DOMAIN up : up[i].subs \cap Shadowed # {} => "END" \in up[i].subs

(* If nothing is lost or late, no request of the handshake is eaten by the    *)
(* server's guard.  All are served in the end, save GROUP_LIST_REQ and        *)
(* SendResRdy, each sent once, when an event began while one was under way or *)
(* when the event is never ended.                                             *)
HandshakeServed ==
    /\ <>(c.at \in Ended \/ ~Clean \/ {"GAMEOK", "STATUS", "ZT"} \subseteq srv.got)
    /\ \/ <>(c.at \in Ended \/ ~Clean \/ Crossed \/ Shadowed \subseteq srv.got)
       \/ <>[]c.owed

(* Nobody stays between two zones: in the end the player is in, with a known  *)
(* position, or the session is over, whatever was lost or late.               *)
LimboEnds == <>[](c.at \in Ended \/ (c.enter /\ c.seeded))

(* GROUP_LIST_REQ is never refused for an event: "by then the event's dialog  *)
(* packets already sit in pending_event_end".                                 *)
GroupListServed == [][up # <<>> /\ up' = Tail(up) /\ "GROUP" \in Head(up).subs /\ Clean
                        => "GROUP" \in srv'.got \/ srv.gone]_vars

(* The drain before GAMEOK ends at its deadline or, seeded, when the socket   *)
(* is idle: "otherwise only after the self position seed (CHAR_PC) has        *)
(* landed".                                                                   *)
DrainWaitsForSeed ==
    [][c.at = "drain" /\ c'.at = "gameok" => c'.seeded \/ c'.capped]_vars
=============================================================================
