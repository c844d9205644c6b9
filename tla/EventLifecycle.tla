--------------------------- MODULE EventLifecycle ---------------------------
(***************************************************************************)
(* Server events (cutscenes and NPC dialogs) as one map session of         *)
(* kuluu-session drives them.  The keepalive loop owns an event VM session *)
(* (DialogSession), the list of events that still owe the server a 0x05B   *)
(* EVENT_END (pending_event_end, auto_event_end), the CutsceneScope that   *)
(* pins the player and the watch that releases an event the player walked  *)
(* away from.  The player answers the box the UI shows through a command   *)
(* queue, the server starts, chains, acknowledges and cancels events, and  *)
(* the link between them goes down or loses datagrams.                     *)
(*                                                                         *)
(* The bytecode is data: what a script does next is a choice among every   *)
(* outcome DialogRunner::run can report for the park it is in.             *)
(***************************************************************************)
EXTENDS Naturals, Sequences

CONSTANTS
    Events,       \* (unique_no, event_id) pairs the server may start
    NoEvent,      \* no event
    MenuBox,      \* the box of a client-local menu (local_menu.rs)
    UserDriven,   \* cfg.user_driven_events: a player at a UI, not an agent
    TagKinds,     \* the answers a pending tag may wait for
    Grace,        \* PENDING_EVENT_END_GRACE, in session ticks
    TagGrace,     \* TAG_ACK_GRACE, in session ticks
    Menus,        \* whether local menus are opened
    MaxTriggers,  \* bound: events the server starts
    MaxCancels,   \* bound: events the server drops by itself
    MaxLost,      \* bound: client datagrams lost on the way
    MaxOutages,   \* bound: times the link goes down
    MaxResend,    \* bound: times an owner child re-emits a held tag
    CmdCap,       \* bound: commands waiting in the channel
    NetCap        \* bound: datagrams in flight, each way

Replies == {"ack", "reply"}

ASSUME EventsAssumption == NoEvent \notin Events /\ MenuBox \notin Events /\ NoEvent # MenuBox
ASSUME TagAssumption == TagKinds \subseteq (SUBSET Replies) \ {{}}
ASSUME BoundAssumption ==
    /\ UserDriven \in BOOLEAN /\ Menus \in BOOLEAN
    /\ Grace \in Nat /\ TagGrace \in Nat
    /\ {MaxTriggers, MaxCancels, MaxLost, MaxOutages, MaxResend, CmdCap, NetCap} \subseteq Nat

VARIABLES
    s,         \* the keepalive loop's locals, and what its events made the UI show
    link,      \* whether UDP send_to succeeds
    cmds,      \* the AgentCommand channel
    toServer,  \* datagrams to the server: sets of subpackets
    toClient,  \* subpackets to the client, retransmitted until they arrive
    srv,       \* the server's currentEvent for the character
    used       \* how much of each bound is spent

vars == <<s, link, cmds, toServer, toClient, srv, used>>

Places == 0..1          \* any two places are further apart than EVENT_WALKAWAY_YALMS
Frames == {"frame", "auto"}
Boxes  == Events \cup {NoEvent, MenuBox}

(***************************************************************************)
(* DialogSession: the running script and what it is parked on.  need is    *)
(* what a held tag still waits for, ctl is controls_player_position, age   *)
(* counts the ticks the liveness check saw nothing move.                   *)
(***************************************************************************)
NoDialog == [ev |-> NoEvent, park |-> "idle", need |-> {}, ctl |-> FALSE, age |-> 0]

Parked(e) ==
    [ev: {e}, park: Frames \cup {"wait"}, need: {{}}, ctl: BOOLEAN, age: {0}]
      \cup [ev: {e}, park: {"tag"}, need: TagKinds, ctl: BOOLEAN, age: {0}]

Outcome(d) == IF d.park \in Frames THEN "frame" ELSE d.park

\* What running the script of e may report; a scene never gives back the
\* player's position once it has taken it.
Run(e, ctl) ==
    { [out |-> Outcome(d), dlg |-> d] : d \in {x \in Parked(e) : ctl => x.ctl} }
      \cup { [out |-> o, dlg |-> NoDialog] : o \in {"ended", "stopped"} }

Unmoved(d) == [out |-> "wait", dlg |-> d]
Reemit(d)  == [out |-> "tag", dlg |-> [d EXCEPT !.age = 0]]
Stalled    == [out |-> "stopped", dlg |-> NoDialog]
Over(r)    == r.dlg = NoDialog

\* Mutations of ByTick: the liveness check never gives a tag up, or counts on.
ByTickDeaf(d) ==
    IF d.park = "tag" THEN {Unmoved([d EXCEPT !.age = TagGrace])} ELSE Run(d.ev, d.ctl)
ByTickCounts(d) ==
    IF d.park = "tag" THEN {Unmoved([d EXCEPT !.age = @ + 1])} ELSE Run(d.ev, d.ctl)

ByTick(d) ==
    CASE d.park = "frame" -> {Unmoved(d)}
      [] d.park = "auto"  -> {Unmoved(d)} \cup Run(d.ev, d.ctl)
      [] d.park = "wait"  -> Run(d.ev, d.ctl)
      [] d.park = "tag"   ->
           (IF d.age < TagGrace THEN {Unmoved([d EXCEPT !.age = @ + 1])} ELSE {Stalled})
             \cup (IF used.resend < MaxResend THEN {Reemit(d)} ELSE {})

ByChoice(d) == IF d.park = "tag" THEN {Reemit(d)} ELSE Run(d.ev, d.ctl)

ByCancel(d) ==
    CASE d.park \in Frames -> Run(d.ev, d.ctl)
      [] d.park = "wait"   -> {Unmoved(d), Stalled}
      [] d.park = "tag"    -> {Reemit(d), Stalled}

(***************************************************************************)
(* Subpackets.                                                             *)
(***************************************************************************)
EndOf(E)      == [k: {"END"}, ev: E, need: {{}}]
TagOf(e, n)   == {[k |-> "TAG", ev |-> e, need |-> n]}
Ended(msgs)   == {m.ev : m \in {x \in msgs : x.k = "END"}}

(***************************************************************************)
(* Pieces of the handlers, each from a state of the loop to the next one.  *)
(***************************************************************************)

\* MapClient::send_encrypted: nothing leaves while the link is down.
Wire(t, msgs) == IF msgs = {} \/ ~link THEN t ELSE [t EXCEPT !.out = Append(@, msgs)]

\* CutsceneScope.  open is the scope and, with it, what the renderer holds:
\* the pinned player, the locked camera and the fades its cues left behind.
OpenScope(t)  == [t EXCEPT !.open = TRUE]
CloseScope(t) == [t EXCEPT !.open = FALSE]

\* cutscene.end followed by AgentEvent::EventEnded
Finish(t) == [CloseScope(t) EXCEPT !.box = NoEvent]

More(bag, e) == [bag EXCEPT ![e] = @ + 1]
None(bag, e) == [bag EXCEPT ![e] = 0]
Push(t, e) == [t EXCEPT !.pending = More(t.pending, e), !.strolled = FALSE]
Take(t, e) == [t EXCEPT !.pending = None(t.pending, e)]
Owed(bag)  == {e \in Events : bag[e] > 0}
Nothing    == [e \in Events |-> 0]

\* Mutation: take_pending_event_end leaves the entry in place.
PrepareKeepsEntry(t, r, place) == [t EXCEPT !.dlg = r.dlg, !.pos = place]

\* event_transport::prepare: run the script, take the pending entry when it
\* ended; moved tells whether scene actions (scripted positions) go out too.
Prepare(t, r, place) ==
    [t EXCEPT !.dlg = r.dlg,
              !.pos = place,
              !.pending = IF Over(r) THEN None(t.pending, t.dlg.ev) ELSE t.pending]

PreparedEnd(t, r) == IF Over(r) /\ t.pending[t.dlg.ev] > 0 THEN EndOf({t.dlg.ev}) ELSE {}

\* PreparedStep::send fails: there is a payload and the link is down
SendFails(t, r, moved) == ~link /\ (moved \/ PreparedEnd(t, r) # {})

\* Mutation: DialogDismissed goes out after the frame it makes room for.
ShowDismissesLast(t, d, r) ==
    IF Over(r) THEN Finish(t)
    ELSE IF r.out = "tag" THEN Wire([t EXCEPT !.box = NoEvent], TagOf(d.ev, r.dlg.need))
    ELSE IF d.park \in Frames THEN [t EXCEPT !.box = NoEvent]
    ELSE IF r.out = "frame" THEN [t EXCEPT !.box = d.ev] ELSE t

\* What a handler does with the outcome of a step that was sent; d is the
\* dialog before the step.
Show(t, d, r) ==
    LET u == IF d.park \in Frames /\ r.dlg.park \notin Frames
             THEN [t EXCEPT !.box = NoEvent] ELSE t
    IN  IF Over(r) THEN Finish(t)
        ELSE IF r.out = "frame" THEN [t EXCEPT !.box = d.ev]
        ELSE IF r.out = "tag" THEN Wire(u, TagOf(d.ev, r.dlg.need))
        ELSE u

Drive(t, r, place) == Show(Wire(Prepare(t, r, place), PreparedEnd(t, r)), t.dlg, r)

\* A scripted position needs a scene that has taken the player's position.
MayMove(t, r, place) == place # t.pos => t.dlg.ctl \/ r.dlg.ctl \/ Over(r)

\* Mutation: an event the VM finished at once is not queued for release.
BeginForgets(t, e, r) ==
    LET u == [Push(OpenScope(t), e) EXCEPT !.dlg = r.dlg]
    IN  IF Over(r) THEN [CloseScope(t) EXCEPT !.dlg = NoDialog]
        ELSE IF r.out = "frame" THEN [u EXCEPT !.box = e]
        ELSE IF r.out = "tag" THEN Wire(u, TagOf(e, r.dlg.need)) ELSE u

\* begin_server_event: an event the VM keeps is pinned, one it finished or
\* cannot drive is released by the next tick
Begin(t, e, r) ==
    LET u == [Push(OpenScope(t), e) EXCEPT !.dlg = r.dlg]
    IN  IF Over(r) THEN [CloseScope(t) EXCEPT !.dlg = NoDialog, !.auto = More(t.auto, e)]
        ELSE IF r.out = "frame" THEN [u EXCEPT !.box = e]
        ELSE IF r.out = "tag" THEN Wire(u, TagOf(e, r.dlg.need))
        ELSE u

(***************************************************************************)
(* The tick: pending_event_end_since and its anchor, the walk-away and     *)
(* watchdog tests, and the flush, in the order of the tick branch.         *)
(***************************************************************************)
NoWatch == [age |-> 0, anchor |-> 2]     \* the Nones; 2 is no place

Watched(t) ==
    LET empty == Owed(t.pending) = {}
        w     == t.watch
    IN  [t EXCEPT !.watch =
            IF empty THEN NoWatch
            ELSE IF w = NoWatch THEN [age |-> 0, anchor |-> t.pos]
            ELSE [w EXCEPT !.age = IF w.age > Grace THEN w.age ELSE w.age + 1]]

Expired(t) == t.watch # NoWatch /\ t.watch.age > Grace
WalkedAway(t) ==
    UserDriven /\ ~t.dlg.ctl /\ t.watch # NoWatch /\ t.watch.anchor # t.pos

\* Mutations of Flushes: a live script does not hold the drain back; the
\* watchdog never fires.
FlushesOverScript(t) ==
    t.dlg.park # "tag" /\ Owed(t.pending) # {} /\ (WalkedAway(t) \/ ~UserDriven \/ Expired(t))
FlushesOnWalkOnly(t) == t.dlg.park # "tag" /\ Owed(t.pending) # {} /\ WalkedAway(t)

\* flush_pending_event_end decides to drain
Flushes(t) ==
    /\ t.dlg.park # "tag"
    /\ Owed(t.pending) # {}
    /\ WalkedAway(t) \/ ((~UserDriven \/ Expired(t)) /\ t.dlg = NoDialog)

\* Mutation: walking away drains the event and leaves its script running.
FlushKeepsScript(t) ==
    IF ~Flushes(t) THEN t ELSE [Finish(t) EXCEPT !.pending = Nothing, !.watch = NoWatch]

Flush(t) ==
    IF ~Flushes(t) THEN t
    ELSE [Finish(t) EXCEPT
            !.pending = Nothing,
            !.watch = NoWatch,
            !.dlg = IF WalkedAway(t) /\ t.dlg # NoDialog /\ t.pending[t.dlg.ev] > 0
                    THEN NoDialog ELSE @]

\* One datagram carries what auto_event_end and the flush drained; when its
\* send fails both are gone all the same.
Release(t) ==
    LET u == Watched(t)
        released == Owed(u.auto) \cup (IF Flushes(u) THEN Owed(u.pending) ELSE {})
    IN  Wire([Flush(u) EXCEPT !.auto = Nothing], EndOf(released))

-----------------------------------------------------------------------------
Dialogs ==
    [ev: Events \cup {NoEvent}, park: Frames \cup {"idle", "wait", "tag"},
     need: SUBSET Replies, ctl: BOOLEAN, age: 0..TagGrace]
Datagrams == SUBSET [k: {"END", "TAG"}, ev: Events, need: SUBSET Replies]
Locals ==
    [dlg: Dialogs, pending: [Events -> Nat], auto: [Events -> Nat],
     open: BOOLEAN, box: Boxes, menu: BOOLEAN, pos: Places, dead: BOOLEAN,
     watch: [age: 0..(Grace + 1), anchor: 0..2], out: Seq(Datagrams),
     live: SUBSET Events, strolled: BOOLEAN]
ToClient ==
    [k: {"EVENT"}, ev: Events] \cup [k: {"CANCEL"} \cup Replies, ev: Events \cup {NoEvent}]

\* Every trigger in flight names an event, and the liveness check of a held
\* tag never counts past its grace.
TypeOK ==
    /\ s \in Locals
    /\ link \in BOOLEAN
    /\ cmds \in Seq([k: {"choice", "end"}, ev: Boxes])
    /\ toServer \in Seq(Datagrams)
    /\ toClient \in Seq(ToClient)
    /\ srv \in Events \cup {NoEvent}
    /\ used \in [triggers: Nat, cancels: Nat, lost: Nat, outages: Nat, resend: Nat]

\* The loop starts after the zone-in flood, which may have left one event
\* tracked by the legacy raw dialog (emit_event_dialog) and no script.
Init ==
    /\ \E E \in {{}} \cup {{e} : e \in Events} :
         /\ s = [dlg |-> NoDialog,
                 pending |-> [e \in Events |-> IF e \in E THEN 1 ELSE 0],
                 auto |-> Nothing,
                 open |-> FALSE,
                 box |-> IF E = {} THEN NoEvent ELSE CHOOSE e \in E : TRUE,
                 menu |-> FALSE, pos |-> 0, dead |-> FALSE,
                 watch |-> NoWatch, out |-> <<>>,
                 live |-> E, strolled |-> FALSE]
         /\ srv = IF E = {} THEN NoEvent ELSE CHOOSE e \in E : TRUE
         /\ used = [triggers |-> IF E = {} THEN 0 ELSE 1,
                    cancels |-> 0, lost |-> 0, outages |-> 0, resend |-> 0]
    /\ link = TRUE
    /\ cmds = <<>> /\ toServer = <<>> /\ toClient = <<>>

\* A handler ran from s to t: hand its datagrams to the network.
Commit(t) ==
    /\ s' = [t EXCEPT !.out = <<>>, !.live = @ \ UNION {Ended(t.out[i]) : i \in DOMAIN t.out}]
    /\ toServer' = toServer \o t.out

\* `?` on a failed PreparedStep::send leaves keepalive_loop at once, past the
\* cutscene.end that follows the loop.
Abort(t) == Commit([t EXCEPT !.dead = TRUE])

Running == ~s.dead /\ Len(toServer) < NetCap

-----------------------------------------------------------------------------
(* The command branch.                                                     *)

Consume(k) == cmds # <<>> /\ Head(cmds).k = k /\ cmds' = Tail(cmds)

\* EndEvent and EndEventBack: a local menu goes first and is closed, or
\* backs out one level
EndMenu ==
    /\ Running /\ Consume("end") /\ s.menu
    /\ \E back \in BOOLEAN :
         Commit([s EXCEPT !.menu = back, !.box = IF back THEN MenuBox ELSE NoEvent])
    /\ UNCHANGED <<link, toClient, srv, used>>

\* A script or a choice is driven by a command: `?` on a failed send.
DriveOrAbort(results) ==
    \E r \in results, place \in Places :
      /\ MayMove(s, r, place)
      /\ IF SendFails(s, r, place # s.pos) THEN Abort(Prepare(s, r, place))
         ELSE Commit(Drive(s, r, place))

EndScript ==
    /\ Running /\ Consume("end") /\ ~s.menu /\ s.dlg # NoDialog
    /\ DriveOrAbort(ByCancel(s.dlg))
    /\ UNCHANGED <<link, toClient, srv, used>>

\* No script: every pinned event is ended, and with none there is nothing
\* to end
EndPinned ==
    /\ Running /\ Consume("end") /\ ~s.menu /\ s.dlg = NoDialog
    /\ Commit(Finish(Wire([s EXCEPT !.pending = Nothing], EndOf(Owed(s.pending)))))
    /\ UNCHANGED <<link, toClient, srv, used>>

\* EndEventChoice goes to the local menu, which shows its next frame or ends
ChooseInMenu ==
    /\ Running /\ Consume("choice") /\ s.menu
    /\ \E more \in BOOLEAN :
         Commit([s EXCEPT !.menu = more, !.box = IF more THEN MenuBox ELSE NoEvent])
    /\ UNCHANGED <<link, toClient, srv, used>>

ChooseInScript ==
    /\ Running /\ Consume("choice") /\ ~s.menu /\ s.dlg # NoDialog
    /\ DriveOrAbort(ByChoice(s.dlg))
    /\ UNCHANGED <<link, toClient, srv, used>>

\* With no script the command's own event is ended, pinned or not
ChooseRaw ==
    /\ Running /\ Consume("choice") /\ ~s.menu /\ s.dlg = NoDialog
    /\ LET e == Head(cmds).ev IN
         Commit(Finish(IF e \in Events THEN Take(Wire(s, EndOf({e})), e) ELSE s))
    /\ UNCHANGED <<link, toClient, srv, used>>

-----------------------------------------------------------------------------
(* The tick branch, every SESSION_TICK_PERIOD.                             *)

TickQuiet ==
    /\ Running /\ s.dlg = NoDialog
    /\ Commit(Release(s))
    /\ UNCHANGED <<link, cmds, toClient, srv, used>>

TickScript ==
    /\ Running /\ s.dlg # NoDialog
    /\ \E r \in ByTick(s.dlg), place \in Places :
         /\ MayMove(s, r, place)
         /\ IF SendFails(s, r, place # s.pos) THEN Abort(Prepare(s, r, place))
            ELSE Commit(Release(Drive(s, r, place)))
         /\ used' = [used EXCEPT !.resend = IF r.out = "tag" /\ s.dlg.park = "tag"
                                            THEN @ + 1 ELSE @]
    /\ UNCHANGED <<link, cmds, toClient, srv>>

-----------------------------------------------------------------------------
(* The receive branch, one subpacket at a time.                            *)

Arrives(k) == toClient # <<>> /\ Head(toClient).k = k /\ toClient' = Tail(toClient)

\* EVENT, EVENTSTR or EVENTNUM
ReceiveEvent ==
    /\ Running /\ Arrives("EVENT")
    /\ LET e == Head(toClient).ev
           t == [s EXCEPT !.live = @ \cup {e}] IN
       \E r \in Run(e, FALSE) : Commit(Begin(t, e, r))
    /\ UNCHANGED <<link, cmds, srv, used>>

\* Mutation: the cancel drops the event and leaves the cutscene scope open.
ReceiveCancelKeepsScope ==
    /\ Running /\ Arrives("CANCEL")
    /\ Commit([s EXCEPT !.dlg = NoDialog, !.pending = Nothing, !.live = {}, !.box = NoEvent])
    /\ UNCHANGED <<link, cmds, srv, used>>

\* EVENTUCOFF CancelEvent: receive clears the dialog, handle_eventucoff the rest
ReceiveCancel ==
    /\ Running /\ Arrives("CANCEL")
    /\ Commit(Finish([s EXCEPT !.dlg = NoDialog, !.pending = Nothing, !.live = {}]))
    /\ UNCHANGED <<link, cmds, srv, used>>

\* server_ack_matches: the answer a held tag waits for; ev is the event whose
\* UPDATE_PENDING the server answered, NoEvent when it answered an EVENT_END.
Matches == s.dlg.park = "tag" /\ Head(toClient).k \in s.dlg.need

ReceiveStray ==
    /\ Running /\ \E k \in Replies : Arrives(k)
    /\ ~Matches
    /\ UNCHANGED <<s, link, cmds, toServer, srv, used>>

ReceiveHalf ==
    /\ Running /\ \E k \in Replies : Arrives(k)
    /\ Matches /\ s.dlg.need # {Head(toClient).k}
    /\ Commit([s EXCEPT !.dlg.need = @ \ {Head(toClient).k}])
    /\ UNCHANGED <<link, cmds, srv, used>>

\* The tag is answered: run on.  A failed send keeps what prepare already
\* did and drops the outcome.
ReceiveAnswer ==
    /\ Running /\ \E k \in Replies : Arrives(k)
    /\ Matches /\ s.dlg.need = {Head(toClient).k}
    /\ \E r \in Run(s.dlg.ev, s.dlg.ctl), place \in Places :
         /\ MayMove(s, r, place)
         /\ Commit(IF SendFails(s, r, place # s.pos) THEN Prepare(s, r, place)
                   ELSE Drive(s, r, place))
    /\ UNCHANGED <<link, cmds, srv, used>>

\* OPENMOGMENU and AgentCommand::OpenMogMenu: not over a server event's dialog
OpenMenu ==
    /\ Running /\ Menus /\ s.dlg = NoDialog
    /\ s' = [s EXCEPT !.menu = TRUE, !.box = MenuBox]
    /\ UNCHANGED <<link, cmds, toServer, toClient, srv, used>>

\* The player walks: AgentCommand::Move
Stroll ==
    /\ Running
    /\ \E place \in Places \ {s.pos} : s' = [s EXCEPT !.pos = place, !.strolled = TRUE]
    /\ UNCHANGED <<link, cmds, toServer, toClient, srv, used>>

\* LOGOUT with a zone change, sent once the character is out of its event:
\* the loop ends, and the next map session starts with fresh locals.
ChangeZone ==
    /\ Running /\ srv = NoEvent
    /\ s' = [CloseScope(s) EXCEPT !.dlg = NoDialog, !.pending = Nothing, !.auto = Nothing,
                                  !.menu = FALSE, !.watch = NoWatch, !.live = {}]
    /\ toServer' = <<>> /\ toClient' = <<>>
    /\ UNCHANGED <<link, cmds, srv, used>>

Loop ==
    \/ EndMenu \/ EndScript \/ EndPinned \/ ChooseInMenu \/ ChooseInScript \/ ChooseRaw
    \/ TickQuiet \/ TickScript
    \/ ReceiveEvent \/ ReceiveCancel \/ ReceiveStray \/ ReceiveHalf \/ ReceiveAnswer
    \/ OpenMenu \/ Stroll \/ ChangeZone

-----------------------------------------------------------------------------
(* The player and the agent: answer the box on screen, or /endevent.       *)

Command ==
    /\ ~s.dead /\ Len(cmds) < CmdCap
    /\ cmds' \in {Append(cmds, [k |-> "end", ev |-> NoEvent])}
                   \cup (IF s.box = NoEvent THEN {}
                         ELSE {Append(cmds, [k |-> "choice", ev |-> s.box])})
    /\ UNCHANGED <<s, link, toServer, toClient, srv, used>>

-----------------------------------------------------------------------------
(* The network and the server.                                             *)

LinkDown ==
    /\ ~s.dead /\ link /\ used.outages < MaxOutages
    /\ link' = FALSE /\ used' = [used EXCEPT !.outages = @ + 1]
    /\ UNCHANGED <<s, cmds, toServer, toClient, srv>>

LinkUp ==
    /\ ~s.dead /\ ~link /\ link' = TRUE
    /\ UNCHANGED <<s, cmds, toServer, toClient, srv, used>>

Lose ==
    /\ ~s.dead /\ toServer # <<>> /\ used.lost < MaxLost
    /\ toServer' = Tail(toServer) /\ used' = [used EXCEPT !.lost = @ + 1]
    /\ UNCHANGED <<s, link, cmds, toClient, srv>>

ServerRoom == ~s.dead /\ Len(toClient) < NetCap

Say(k, e) == <<[k |-> k, ev |-> e]>>

Trigger ==
    /\ ServerRoom /\ srv = NoEvent /\ used.triggers < MaxTriggers
    /\ \E e \in Events : srv' = e /\ toClient' = toClient \o Say("EVENT", e)
    /\ used' = [used EXCEPT !.triggers = @ + 1]
    /\ UNCHANGED <<s, link, cmds, toServer>>

Drop ==
    /\ ServerRoom /\ srv # NoEvent /\ used.cancels < MaxCancels
    /\ srv' = NoEvent /\ toClient' = toClient \o Say("CANCEL", NoEvent)
    /\ used' = [used EXCEPT !.cancels = @ + 1]
    /\ UNCHANGED <<s, link, cmds, toServer>>

Names(k) == {m \in Head(toServer) : m.k = k /\ m.ev = srv}

\* OnEventFinish: the event is over, or chains into the next one, whose
\* trigger precedes the EventRecvPending of this EVENT_END
ServeEnd ==
    /\ ServerRoom /\ toServer # <<>> /\ Names("END") # {}
    /\ toServer' = Tail(toServer)
    /\ \/ /\ srv' = NoEvent
          /\ toClient' = toClient \o Say("ack", NoEvent)
          /\ UNCHANGED used
       \/ /\ used.triggers < MaxTriggers
          /\ used' = [used EXCEPT !.triggers = @ + 1]
          /\ \E e \in Events :
               /\ srv' = e
               /\ toClient' = toClient \o Say("EVENT", e) \o Say("ack", NoEvent)
    /\ UNCHANGED <<s, link, cmds>>

\* OnEventUpdate: the answers the tag waits for, EVENTUCOFF last
ServeTag ==
    /\ ServerRoom /\ toServer # <<>> /\ Names("END") = {} /\ Names("TAG") # {}
    /\ toServer' = Tail(toServer)
    /\ \E m \in Names("TAG") :
         toClient' = toClient \o (IF "reply" \in m.need THEN Say("reply", m.ev) ELSE <<>>)
                              \o (IF "ack" \in m.need THEN Say("ack", m.ev) ELSE <<>>)
    /\ UNCHANGED <<s, link, cmds, srv, used>>

\* EventPara is not currentEvent's: PacketValidator drops the subpackets; or
\* the datagram is a tag's and lies outside the dispatch window, see MapLink
ServeNone ==
    /\ ~s.dead /\ toServer # <<>> /\ Names("END") = {}
    /\ toServer' = Tail(toServer)
    /\ UNCHANGED <<s, link, cmds, toClient, srv, used>>

Server == Trigger \/ Drop \/ ServeEnd \/ ServeTag \/ ServeNone

Next == Loop \/ Command \/ LinkDown \/ LinkUp \/ Lose \/ Server

\* The tick is a tokio interval in a select that starves no branch; what the
\* server does with a datagram it received it does at once.
Fairness ==
    /\ WF_vars(TickQuiet \/ TickScript)
    /\ WF_vars(ServeEnd \/ ServeTag \/ ServeNone)
    /\ WF_vars(ReceiveEvent \/ ReceiveCancel \/ ReceiveStray \/ ReceiveHalf \/ ReceiveAnswer)

Spec == Init /\ [][Next]_vars
FairSpec == Spec /\ Fairness

-----------------------------------------------------------------------------
(* What should hold.                                                       *)

InFlight(k) == {e \in Events : \E i \in DOMAIN toServer : \E m \in toServer[i] : m.k = k /\ m.ev = e}

\* Events whose EVENT_END the step put on the wire
EndsSent == UNION {Ended(toServer'[i]) : i \in (Len(toServer) + 1)..Len(toServer')}

\* A running script's event still owes its EVENT_END and still pins the
\* player: whatever cancels, zone changes, flushes and choices happened, the
\* END that prepare appends when the script ends finds its pending entry
\* (take_pending_event_end), and no handler has closed its scope.
ScriptStands == s.dlg # NoDialog => s.pending[s.dlg.ev] > 0 /\ s.open

\* The player is pinned, or the screen still faded, only while a script runs
\* or an event is pinned, so that something will release it.
PinHasOwner == ~s.dead /\ s.open => s.dlg # NoDialog \/ Owed(s.pending) # {}

\* A script that waits for an answer has its box on screen.
FrameIsShown == ~s.dead /\ s.dlg.park \in Frames => s.box = s.dlg.ev

\* The character never sticks InEvent: whatever event the server waits for,
\* the client will hear of it, owes its END or has sent it.
EventHasOwner ==
    srv # NoEvent /\ ~s.dead =>
      \/ \E i \in DOMAIN toClient : toClient[i] = [k |-> "EVENT", ev |-> srv]
      \/ s.pending[srv] > 0 \/ s.auto[srv] > 0
      \/ srv \in InFlight("END")

\* Every EVENT_END is for an event the client was given and has not given back.
NoStrayEnd == [][EndsSent \subseteq s.live]_vars

\* An event parked on a manual frame is given up without a command only when
\* the player walked since it came.
WalkAwayIsWalked ==
    [][s.dlg.park = "frame" /\ s.dlg.ev \in EndsSent /\ UNCHANGED cmds => s.strolled]_vars

\* A held tag is released by the answer to its own update.
TagAnsweredByOwn ==
    [][s.dlg.park = "tag" /\ toClient # <<>> /\ toClient' = Tail(toClient) /\ s'.dlg # s.dlg
         /\ Head(toClient).k \in Replies => Head(toClient).ev = s.dlg.ev]_vars

\* A session that is over has left no pin and no fade behind.
OverIsReleased == s.dead => ~s.open

\* A live script keeps its event open on the server: no END goes out for it
\* while the script goes on, whatever flushes, drains and choices happen.
LiveScriptKeepsEvent ==
    [][s.dlg # NoDialog /\ s'.dlg # NoDialog /\ s'.dlg.ev = s.dlg.ev
         => s.dlg.ev \notin EndsSent]_vars

\* A held tag is answered or given up: a script that stays in tags for good
\* gets answer after answer.
TagResolves ==
    <>[](s.dlg.park = "tag" /\ ~s.dead) => []<><<ReceiveAnswer>>_vars

\* An event nobody plays is released.
PinnedIsReleased ==
    Owed(s.pending) # {} /\ s.dlg = NoDialog ~> (Owed(s.pending) = {} \/ s.dlg # NoDialog \/ s.dead)

=============================================================================
