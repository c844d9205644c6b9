----------------------------- MODULE DeliveryBox -----------------------------
(* The delivery box: the driver of delivery_box.rs, the session's recipient   *)
(* (session/mod.rs), the panel's own gates (text_input/delivery.rs) and the   *)
(* menu that waits beneath the panel, against the server's box.  Requests and *)
(* replies travel in order; the server is external.                           *)
EXTENDS Integers, Sequences, FiniteSets

CONSTANTS Names, Chars, NoName, \* names typed; those of characters; none
          NSlots,     \* pbx::SLOT_COUNT, 8 in the code
          MaxOrders,  \* bound: commands of the player or the agent
          MaxParcels, \* bound: parcels at the start and sent to the player later
          MaxTrouble  \* bound: requests lost or answered with an error

ASSUME NamesAssumption == NoName \notin Names /\ Chars \subseteq Names
ASSUME BoundsAssumption ==
    NSlots \in Nat \ {0} /\ MaxOrders \in Nat /\ MaxParcels \in Nat /\ MaxTrouble \in Nat

VARIABLES c,    \* the client: driver, session and panel
          srv,  \* the server's boxes and what waits outside them
          up,   \* requests under way
          down, \* replies under way
          hist, \* history: see Histories
          used  \* what the bounds have allowed so far
vars == <<c, srv, up, down, hist, used>>

Boxes == {"in", "out"}
Other(b) == IF b = "in" THEN "out" ELSE "in"
Slots == 1 .. NSlots
NoSlot == 0
Empty == [s \in Slots |-> "none"]
Filled(box) == Cardinality({x \in Boxes \X Slots : box[x[1]][x[2]] # "none"})
Free(cells) == {s \in Slots : cells[s] = "none"}

Ask(cmd, box, slot, name) == [cmd |-> cmd, box |-> box, slot |-> slot, name |-> name]
OnSlot(cmd, box, slot) == Ask(cmd, box, slot, NoName)
OnBox(cmd, box) == Ask(cmd, box, NoSlot, NoName)
Reply(cmd, box, slot, cell, count) ==
    [cmd |-> cmd, box |-> box, slot |-> slot, cell |-> cell, count |-> count, ok |-> TRUE]
Done(cmd, box, slot, cell) == Reply(cmd, box, slot, cell, 0)
Failed(m) == [Done(m.cmd, m.box, m.slot, "none") EXCEPT !.ok = FALSE]

-----------------------------------------------------------------------------
Init ==
    /\ c = [open |-> "none", slots |-> Empty, take |-> NoSlot, reopening |-> FALSE,
            asked |-> NoName, locked |-> NoName, name |-> NoName, status |-> "unset",
            menu |-> "shown"]
    /\ srv \in [open : {"none"}, queue : 0 .. MaxParcels, taken : {{}}, accepted : {{}},
                box : {[b \in Boxes |-> IF b = "in" THEN i ELSE o] :
                            i \in [Slots -> {"none", "parcel"}],
                            o \in [Slots -> {"none", "staged", "sent"}]}]
    /\ up = <<>> /\ down = <<>>
    /\ hist = [takes |-> FALSE, names |-> FALSE, again |-> FALSE, news |-> FALSE]
    /\ used = [orders |-> 0, lost |-> 0, errors |-> 0, parcels |-> srv.queue + Filled(srv.box)]
    /\ used.parcels <= MaxParcels

-----------------------------------------------------------------------------
(* Commands, taken at the gates of the panel that the player sees; only       *)
(* MenuOpen and Open, which the agent gives as well, need no open box.        *)

Order ==
    /\ used.orders < MaxOrders
    /\ used' = [used EXCEPT !.orders = @ + 1]
    /\ UNCHANGED <<srv, down>>
\* A change of box is under way.
Leaving == \/ \E i \in DOMAIN up : up[i].cmd \in {"open", "close"}
           \/ \E i \in DOMAIN down : down[i].cmd \in {"open", "close"}
\* An Accept is on its way, or its answer.
Taking == \/ \E i \in DOMAIN up : up[i].cmd = "accept"
          \/ \E i \in DOMAIN down : down[i].cmd = "accept"
Submit(m) == up' = Append(up, m) /\ UNCHANGED hist

\* Mutant of RequestOpen: a take of the box before survives.
RequestOpenOver(d) == [d EXCEPT !.reopening = TRUE]
RequestOpen(d) == [d EXCEPT !.take = NoSlot, !.reopening = TRUE]

(* The mog menu's Receive / Send rows hand the display to the panel.          *)
MenuOpen == \E b \in Boxes :
    /\ Order /\ c.menu = "shown"
    /\ c' = [RequestOpen(c) EXCEPT !.menu = "suspended"]
    /\ Submit(OnBox("open", b))

Open == \E b \in Boxes :
    /\ Order
    /\ c' = [RequestOpen(c) EXCEPT !.locked = NoName]
    /\ Submit(OnBox("open", b))

(* Esc on the panel.                                                          *)
Close ==
    /\ Order /\ c.open # "none"
    /\ c' = [c EXCEPT !.locked = NoName]
    /\ Submit(OnBox("close", c.open))

(* The panel's switch between the boxes.                                      *)
Toggle ==
    /\ Order /\ c.open # "none"
    /\ c' = [RequestOpen(c) EXCEPT !.locked = NoName]
    /\ up' = up \o <<OnBox("close", c.open), OnBox("open", Other(c.open))>>
    /\ UNCHANGED hist

(* Take: Accept first, Get on its answer.                                     *)
Take == \E s \in Slots :
    /\ Order /\ c.open = "in" /\ c.slots[s] # "none"
    /\ c' = [c EXCEPT !.take = s]
    /\ up' = Append(up, OnSlot("accept", "in", s))
    /\ hist' = [hist EXCEPT !.takes = @ \/ Taking]

Reject == \E s \in Slots :
    /\ Order /\ c.open = "in" /\ c.slots[s] # "none" /\ UNCHANGED c
    /\ Submit(OnSlot("reject", "in", s))

(* A typed name is checked by the server before it is locked.                 *)
Query == \E n \in Names :
    /\ Order /\ c.open = "out"
    /\ c' = [c EXCEPT !.asked = n, !.name = n, !.status = "pending"]
    /\ up' = Append(up, Ask("query", "out", NoSlot, n))
    /\ hist' = [hist EXCEPT !.names = @ \/ c.asked # NoName \/ Leaving]

(* The session puts the locked recipient into a Set.                          *)
Set == \E s \in Slots :
    /\ Order /\ c.open = "out" /\ c.status = "ok" /\ c.slots[s] = "none" /\ UNCHANGED c
    /\ Submit(Ask("set", "out", s, c.locked))

(* Send, cancel or take back what lies in the outbox.                         *)
Staged == \E s \in Slots, cmd \in {"send", "cancel", "get"} :
    /\ Order /\ c.open = "out" /\ UNCHANGED c
    /\ c.slots[s] = IF cmd = "cancel" THEN "sent" ELSE "staged"
    /\ cmd = "send" => c.status = "ok"
    /\ Submit(OnSlot(cmd, "out", s))

-----------------------------------------------------------------------------
(* on_result, and what the session does with its outcome.                     *)

\* Mutants: an opened box does not end the wait for it; a closed box leaves
\* its slots behind; a parcel received is not stored.
OpenedWaiting(d, b) ==
    [d EXCEPT !.open = b, !.slots = Empty, !.name = NoName, !.status = "unset"]
ClosedFull(d) ==
    [d EXCEPT !.open = "none", !.take = NoSlot, !.name = NoName, !.status = "unset"]
FillingNoRecv == {"work", "set", "send", "cancel"}

(* The two sides of a box, in the driver and in the panel's snapshot.         *)
Opened(d, b) ==
    [d EXCEPT !.open = b, !.reopening = FALSE, !.slots = Empty,
              !.name = NoName, !.status = "unset"]
Closed(d) ==
    [d EXCEPT !.open = "none", !.slots = Empty, !.take = NoSlot,
              !.name = NoName, !.status = "unset"]
Filling == {"work", "recv", "set", "send", "cancel"}

(* A successful answer; the slot it names follows the server's cell.          *)
Stored(d, m) ==
    CASE m.cmd = "open" -> Opened(d, m.box)
      [] m.cmd \in Filling -> [d EXCEPT !.slots[m.slot] = m.cell]
      [] m.cmd \in {"confirm", "get", "reject"} -> [d EXCEPT !.slots[m.slot] = "none"]
      [] m.cmd = "accept" -> [d EXCEPT !.take = NoSlot]
      [] m.cmd = "query" -> [d EXCEPT !.status = "ok"]
      [] m.cmd = "close" -> Closed(d)
      [] OTHER -> d

(* on_error: a refused name leaves the panel's line empty.                    *)
Refused(d, m) ==
    IF m.cmd = "query" THEN [d EXCEPT !.take = NoSlot, !.name = NoName, !.status = "no"]
    ELSE [d EXCEPT !.take = NoSlot]

\* Mutant of Locks: whatever the server says of the name.
LocksAny(d, m) ==
    IF m.cmd = "query" /\ d.asked # NoName
    THEN [d EXCEPT !.locked = d.asked, !.asked = NoName]
    ELSE d

(* The session settles the name it asked about.                               *)
Locks(d, m) ==
    IF m.cmd = "query" /\ d.asked # NoName
    THEN [d EXCEPT !.locked = IF m.ok THEN d.asked ELSE NoName, !.asked = NoName]
    ELSE d

Follow(d, m) == Locks(IF m.ok THEN Stored(d, m) ELSE Refused(d, m), m)

FirstFree(cells) == CHOOSE s \in Free(cells) : \A t \in Free(cells) : s <= t

\* Mutant of Sends: a parcel received ends the sequence.
SendsOnce(d, m) ==
    IF ~m.ok THEN <<>> ELSE
    CASE m.cmd = "open" -> <<OnBox("work", m.box)>>
      [] (m.cmd = "work" /\ m.slot = NSlots) \/ m.cmd = "confirm" ->
            <<OnBox("check", m.box)>>
      [] m.cmd = "check" /\ m.count > 0 /\ m.box = "out" -> <<OnBox("confirm", "out")>>
      [] m.cmd = "check" /\ m.count > 0 /\ m.box = "in" /\ Free(d.slots) # {} ->
            <<OnSlot("recv", "in", FirstFree(d.slots))>>
      [] m.cmd = "accept" /\ d.take # NoSlot -> <<OnSlot("get", m.box, d.take)>>
      [] OTHER -> <<>>

(* Open leads to Work, the last row to Check, a count to Recv or Confirm,     *)
(* those to Check again, and an Accept to Get.                                *)
Sends(d, m) ==
    IF ~m.ok THEN <<>> ELSE
    CASE m.cmd = "open" -> <<OnBox("work", m.box)>>
      [] (m.cmd = "work" /\ m.slot = NSlots) \/ m.cmd \in {"recv", "confirm"} ->
            <<OnBox("check", m.box)>>
      [] m.cmd = "check" /\ m.count > 0 /\ m.box = "out" -> <<OnBox("confirm", "out")>>
      [] m.cmd = "check" /\ m.count > 0 /\ m.box = "in" /\ Free(d.slots) # {} ->
            <<OnSlot("recv", "in", FirstFree(d.slots))>>
      [] m.cmd = "accept" /\ d.take # NoSlot -> <<OnSlot("get", m.box, d.take)>>
      [] OTHER -> <<>>

Settles(d, m) ==
    \/ ~m.ok
    \/ m.cmd \in {"get", "reject", "set", "send", "cancel", "query", "close"}
    \/ m.cmd \in {"check", "accept"} /\ Sends(d, m) = <<>>

(* With no box open or asked for, the menu takes the display back.            *)
Resumes(d, m) == Settles(c, m) /\ d.open = "none" /\ ~d.reopening

Observe ==
    /\ down # <<>> /\ down' = Tail(down)
    /\ LET m == Head(down)
           d == Follow(c, m)
       IN /\ c' = IF Resumes(d, m) THEN [d EXCEPT !.menu = "shown"] ELSE d
          /\ up' = up \o Sends(c, m)
    /\ UNCHANGED <<srv, hist, used>>

-----------------------------------------------------------------------------
(* The server answers a request, drops it without a packet, or refuses it.    *)

Request(cmds) == up # <<>> /\ Head(up).cmd \in cmds /\ up' = Tail(up)
Tell(msgs) == down' = down \o msgs
Idle == UNCHANGED <<c, used>>
Cells == srv.box[srv.open]
Put(s, cell) == srv' = [srv EXCEPT !.box[srv.open][s] = cell]

\* With a box open the request may be ignored.
ServeOpen ==
    /\ Request({"open"}) /\ Idle
    /\ \/ /\ srv' = [srv EXCEPT !.open = Head(up).box, !.accepted = {}]
          /\ Tell(<<Done("open", Head(up).box, NoSlot, "none")>>)
          /\ hist' = [hist EXCEPT !.again = @ \/ srv.open # "none", !.news = FALSE]
       \/ /\ srv.open # "none" /\ UNCHANGED <<srv, down>>
          /\ hist' = [hist EXCEPT !.again = TRUE]

ServeClose ==
    /\ Request({"close"}) /\ Idle /\ UNCHANGED hist
    /\ IF srv.open = "none" THEN UNCHANGED <<srv, down>>
       ELSE /\ srv' = [srv EXCEPT !.open = "none", !.accepted = {}]
            /\ Tell(<<Done("close", Head(up).box, NoSlot, "none")>>)

Rows(b) == [s \in Slots |-> Done("work", b, s, Cells[s])]

ServeList ==
    /\ Request({"work", "check"}) /\ Idle /\ UNCHANGED <<srv, hist>>
    /\ LET m == Head(up)
       IN IF srv.open = "none" THEN UNCHANGED down
          ELSE IF m.cmd = "work" THEN Tell(Rows(m.box))
          ELSE IF m.box # srv.open THEN UNCHANGED down
          ELSE Tell(<<Reply("check", m.box, NoSlot, "none",
                            IF m.box = "in" THEN srv.queue
                            ELSE IF srv.taken = {} THEN 0 ELSE 1)>>)

ServeRecv ==
    /\ Request({"recv"}) /\ Idle /\ UNCHANGED hist
    /\ LET s == Head(up).slot
       IN IF srv.open = "in" /\ srv.queue > 0 /\ Cells[s] = "none"
          THEN /\ srv' = [srv EXCEPT !.box["in"][s] = "parcel", !.queue = @ - 1]
               /\ Tell(<<Done("recv", "in", s, "parcel")>>)
          ELSE UNCHANGED <<srv, down>>

ServeConfirm ==
    /\ Request({"confirm"}) /\ Idle /\ UNCHANGED hist
    /\ IF srv.open = "out" /\ srv.taken # {}
       THEN \E s \in srv.taken :
            /\ srv' = [srv EXCEPT !.box["out"][s] = "none", !.taken = @ \ {s}]
            /\ Tell(<<Done("confirm", "out", s, "none")>>)
       ELSE UNCHANGED <<srv, down>>

ServeAccept ==
    /\ Request({"accept"}) /\ Idle /\ UNCHANGED hist
    /\ IF srv.open = "in"
       THEN /\ srv' = [srv EXCEPT !.accepted = @ \cup {Head(up).slot}]
            /\ Tell(<<Done("accept", "in", Head(up).slot, "none")>>)
       ELSE UNCHANGED <<srv, down>>

(* Get and Reject empty a cell; a queue behind it is not looked at.           *)
ServeRemove ==
    /\ Request({"get", "reject"}) /\ Idle
    /\ hist' = [hist EXCEPT !.news = @ \/ srv.queue > 0]
    /\ LET m == Head(up)
       IN IF srv.open = m.box /\ Cells[m.slot] \in {"parcel", "staged"}
          THEN Put(m.slot, "none") /\ Tell(<<Done(m.cmd, m.box, m.slot, "none")>>)
          ELSE UNCHANGED <<srv, down>>

Turns == [set |-> [from |-> "none", to |-> "staged"],
          send |-> [from |-> "staged", to |-> "sent"],
          cancel |-> [from |-> "sent", to |-> "staged"]]

ServeStaged ==
    /\ Request(DOMAIN Turns) /\ Idle /\ UNCHANGED hist
    /\ LET m == Head(up)
       IN IF /\ srv.open = "out" /\ Cells[m.slot] = Turns[m.cmd].from
             /\ m.slot \notin srv.taken
             /\ m.cmd = "set" => m.name \in Chars
          THEN /\ Put(m.slot, Turns[m.cmd].to)
               /\ Tell(<<Done(m.cmd, "out", m.slot, Turns[m.cmd].to)>>)
          ELSE UNCHANGED <<srv, down>>

ServeQuery ==
    /\ Request({"query"}) /\ Idle /\ UNCHANGED <<srv, hist>>
    /\ Tell(<<IF Head(up).name \in Chars THEN Done("query", "out", NoSlot, "none")
              ELSE Failed(Head(up))>>)

Trouble == used.lost + used.errors < MaxTrouble

Fail ==
    /\ Trouble /\ Request({"open", "accept", "get", "reject", "send", "query"})
    /\ used' = [used EXCEPT !.errors = @ + 1]
    /\ Tell(<<Failed(Head(up))>>)
    /\ hist' = [hist EXCEPT !.again = @ \/ (Head(up).cmd = "open" /\ srv.open # "none")]
    /\ UNCHANGED <<c, srv>>

Lose ==
    /\ Trouble /\ up # <<>> /\ up' = Tail(up)
    /\ used' = [used EXCEPT !.lost = @ + 1]
    /\ UNCHANGED <<c, srv, down, hist>>

\* Somebody sends the player a parcel; a recipient takes one of his.
Arrive ==
    /\ used.parcels < MaxParcels
    /\ used' = [used EXCEPT !.parcels = @ + 1]
    /\ srv' = [srv EXCEPT !.queue = @ + 1]
    /\ hist' = [hist EXCEPT !.news = TRUE]
    /\ UNCHANGED <<c, up, down>>

Delivered == \E s \in Slots :
    /\ srv.box["out"][s] = "sent" /\ s \notin srv.taken
    /\ srv' = [srv EXCEPT !.taken = @ \cup {s}]
    /\ hist' = [hist EXCEPT !.news = TRUE]
    /\ UNCHANGED <<c, up, down, used>>

Orders == MenuOpen \/ Open \/ Close \/ Toggle \/ Take \/ Reject \/ Query \/ Set \/ Staged
Serve == ServeOpen \/ ServeClose \/ ServeList \/ ServeRecv \/ ServeConfirm \/ ServeAccept
         \/ ServeRemove \/ ServeStaged \/ ServeQuery
Next == Orders \/ Observe \/ Serve \/ Fail \/ Lose \/ Arrive \/ Delivered
Spec == Init /\ [][Next]_vars

(* The server answers and the session reads; nobody has to do anything else.  *)
FairSpec == Spec /\ WF_vars(Observe) /\ WF_vars(Serve)
-----------------------------------------------------------------------------
Openings == Boxes \cup {"none"}
Stats == {"none", "parcel", "staged", "sent"}
Asks == {"open", "close", "work", "check", "recv", "confirm", "accept", "reject", "get",
         "set", "send", "cancel", "query"}
Typed == Names \cup {NoName}

Clients == [open : Openings, slots : [Slots -> Stats], take : Slots \cup {NoSlot},
            reopening : BOOLEAN, asked : Typed, locked : Typed, name : Typed,
            status : {"unset", "pending", "ok", "no"}, menu : {"shown", "suspended"}]
Servers == [open : Openings, queue : Nat, taken : SUBSET Slots, accepted : SUBSET Slots,
            box : [Boxes -> [Slots -> Stats]]]
(* takes: a take was begun before the Accept of another was answered; names:  *)
(* a name was asked for while another was, or while the box was changing;     *)
(* again: the server was asked to open a box with one open; news: since the   *)
(* server opened the box a parcel has come, been taken or left room.          *)
Histories == [takes : BOOLEAN, names : BOOLEAN, again : BOOLEAN, news : BOOLEAN]
Budget == [orders : 0 .. MaxOrders, parcels : 0 .. MaxParcels, lost : 0 .. MaxTrouble,
           errors : 0 .. MaxTrouble]

(* Types; a recipient has taken only what was sent, and the slots of a closed *)
(* box are empty.                                                             *)
TypeOK ==
    /\ c \in Clients /\ srv \in Servers /\ hist \in Histories /\ used \in Budget
    /\ up \in Seq([cmd : Asks, box : Boxes, slot : Slots \cup {NoSlot}, name : Typed])
    /\ down \in Seq([cmd : Asks, box : Boxes, slot : Slots \cup {NoSlot}, cell : Stats,
                     count : Nat, ok : BOOLEAN])
    /\ \A s \in srv.taken : srv.box["out"][s] = "sent"
    /\ c.open = "none" => c.slots = Empty

Quiet == up = <<>> /\ down = <<>> /\ used.lost = 0

(* Once every answer is in, the panel shows the box the server has open, cell *)
(* by cell, through switches, refusals, rows of a box left meanwhile and      *)
(* requests the server drops.                                                 *)
MirrorAgrees ==
    Quiet => c.open = srv.open /\ (c.open # "none" => c.slots = srv.box[c.open])

(* A Get reaches an open inbox only for a slot accepted since that box was    *)
(* opened, never for a take of an earlier opening ("Accept first, Get on its  *)
(* ack"): for takes one at a time whatever is lost or refused, for any takes  *)
(* while nothing is.                                                          *)
GetAfterAccept ==
    /\ hist.takes => used.lost + used.errors = 0
    /\ up # <<>> /\ srv.open = "in"
    =>
        (Head(up).cmd = "get" /\ Head(up).box = "in" => Head(up).slot \in srv.accepted)

(* The recipient put into a Set is a character the server vouched for, and    *)
(* the one the panel shows as checked.                                        *)
RecipientChecked ==
    ~hist.names =>
        /\ c.locked \in Chars \cup {NoName}
        /\ c.status = "ok" /\ ~Leaving /\ used.lost = 0 /\ ~hist.again => c.locked = c.name

(* An opened box is drained: parcels waiting come into free slots, delivered  *)
(* ones leave the outbox ("a positive Check auto-drains the queue").          *)
Drained ==
    Quiet /\ used.errors = 0 /\ ~hist.news =>
        /\ c.open = "in" => srv.queue = 0 \/ Free(c.slots) = {}
        /\ c.open = "out" => srv.taken = {}

(* The display is never left with neither the panel nor the menu beneath it.  *)
MenuReturns == []<>(\/ c.menu = "shown" \/ c.open # "none"
                    \/ used.lost + used.errors > 0 \/ hist.again)
=============================================================================
