------------------------- MODULE DeliveryBoxProofs --------------------------
(* For any slots, names and bounds: the panel shows the box the server has    *)
(* open, a Get follows the Accept of its slot, the recipient put into a Set   *)
(* is one the server vouched for, and an opened box is drained.               *)
EXTENDS DeliveryBox, FiniteSetTheorems, SequenceTheorems, WellFoundedInduction, TLAPS

Ups == [cmd : Asks, box : Boxes, slot : Slots \cup {NoSlot}, name : Typed]
Downs == [cmd : Asks, box : Boxes, slot : Slots \cup {NoSlot}, cell : Stats,
          count : Nat, ok : BOOLEAN]
OnCell == {"recv", "accept", "reject", "get", "set", "send", "cancel"}
Emptying == {"confirm", "get", "reject"}

\* Requests and answers about a cell name one.
GoodUps == {m \in Ups : m.cmd \in OnCell => m.slot \in Slots}
GoodDowns == {m \in Downs : m.ok /\ m.cmd \in Filling \cup Emptying => m.slot \in Slots}

Types ==
    /\ c \in Clients /\ srv \in Servers /\ hist \in Histories /\ used \in Budget
    /\ up \in Seq(GoodUps) /\ down \in Seq(GoodDowns)
    /\ \A s \in srv.taken : srv.box["out"][s] = "sent"
    /\ c.open = "none" => c.slots = Empty

(* After the messages of q before place k, something that was v is x: the     *)
(* last message in hit before k makes it x, or there is none and it was x.    *)
Latest(q, hit, val, v, k, x) ==
    \/ \E j \in 1 .. k - 1 : /\ q[j] \in hit /\ val[q[j]] = x
                             /\ \A i \in j + 1 .. k - 1 : q[i] \notin hit
    \/ (\A i \in 1 .. k - 1 : q[i] \notin hit) /\ v = x

\* The answers that open or close the panel, and those that change a cell.
OpenHit == {m \in GoodDowns : m.ok /\ m.cmd \in {"open", "close"}}
OpenVal == [m \in GoodDowns |-> IF m.cmd = "open" THEN m.box ELSE "none"]
Fills == {m \in GoodDowns : m.ok /\ m.cmd \in Filling}
CellHit(s) == OpenHit \cup
    {m \in GoodDowns : m.ok /\ m.cmd \in Filling \cup Emptying /\ m.slot = s}
CellVal == [m \in GoodDowns |-> IF m.cmd \in Filling THEN m.cell ELSE "none"]

(* Once the answers under way are read, the box open is the server's ...      *)
OpenFollows(q, open, target) == Latest(q, OpenHit, OpenVal, open, Len(q) + 1, target)

(* ... a cell is filled only in an open box ...                               *)
FillsOpen(q, open) ==
    \A k \in DOMAIN q : q[k] \in Fills =>
        \E b \in Boxes : Latest(q, OpenHit, OpenVal, open, k, b)

(* ... and its cells are the server's, unless a listing is still to come.     *)
WorkDue(asks, q) == \/ \E i \in DOMAIN asks : asks[i].cmd = "work"
                    \/ \E i \in DOMAIN q : q[i] \in OpenHit /\ q[i].cmd = "open"
CellsFollow(q, slots, cells) ==
    \A s \in Slots : Latest(q, CellHit(s), CellVal, slots[s], Len(q) + 1, cells[s])

Faithful ==
    /\ OpenFollows(down, c.open, srv.open) /\ FillsOpen(down, c.open)
    /\ used.lost = 0 /\ srv.open # "none" =>
        WorkDue(up, down) \/ CellsFollow(down, c.slots, srv.box[srv.open])

Inv == Types /\ Faithful

-----------------------------------------------------------------------------
(* Latest, as messages are read and written.                                  *)

\* Reading the head of the queue: it hits, or nothing of v changes.
LEMMA LatestRead ==
    ASSUME NEW S, NEW q \in Seq(S), q # <<>>, NEW hit, NEW val, NEW v, NEW x,
           NEW k \in 2 .. Len(q) + 1, Latest(q, hit, val, v, k, x)
    PROVE  Latest(Tail(q), hit, val, IF q[1] \in hit THEN val[q[1]] ELSE v, k - 1, x)
<1>1. \A i \in 1 .. k - 2 : Tail(q)[i] = q[i + 1]
  OBVIOUS
<1>2. CASE \E j \in 1 .. k - 1 : /\ q[j] \in hit /\ val[q[j]] = x
                                 /\ \A i \in j + 1 .. k - 1 : q[i] \notin hit
  <2>1. PICK j \in 1 .. k - 1 : /\ q[j] \in hit /\ val[q[j]] = x
                                /\ \A i \in j + 1 .. k - 1 : q[i] \notin hit
    BY <1>2
  <2>2. CASE j = 1
    <3>1. \A i \in 1 .. (k - 1) - 1 : Tail(q)[i] \notin hit
      BY <1>1, <2>1, <2>2
    <3> QED BY <2>1, <2>2, <3>1 DEF Latest
  <2>3. CASE j # 1
    <3>1. j - 1 \in 1 .. (k - 1) - 1 /\ Tail(q)[j - 1] = q[j]
      BY <1>1, <2>3
    <3>2. \A i \in (j - 1) + 1 .. (k - 1) - 1 : Tail(q)[i] \notin hit
      BY <1>1, <2>1, <2>3
    <3> QED BY <2>1, <3>1, <3>2 DEF Latest
  <2> QED BY <2>2, <2>3
<1>3. CASE (\A i \in 1 .. k - 1 : q[i] \notin hit) /\ v = x
  <2>1. q[1] \notin hit
    BY <1>3
  <2>2. \A i \in 1 .. (k - 1) - 1 : Tail(q)[i] \notin hit
    BY <1>1, <1>3
  <2> QED BY <1>3, <2>1, <2>2 DEF Latest
<1> QED BY <1>2, <1>3 DEF Latest

\* Messages after place k do not matter.
LEMMA LatestPrefix ==
    ASSUME NEW q, NEW r, NEW k \in Nat \ {0}, NEW hit, NEW val, NEW v, NEW x,
           \A i \in 1 .. k - 1 : r[i] = q[i], Latest(q, hit, val, v, k, x)
    PROVE  Latest(r, hit, val, v, k, x)
BY DEF Latest

\* Messages that do not hit change nothing.
LEMMA LatestPasses ==
    ASSUME NEW S, NEW q \in Seq(S), NEW r \in Seq(S), NEW hit, NEW val, NEW v, NEW x,
           NEW k \in 1 .. Len(r) + 1, \A i \in 1 .. k - 1 : r[i] \notin hit,
           Latest(q, hit, val, v, Len(q) + 1, x)
    PROVE  Latest(q \o r, hit, val, v, Len(q) + k, x)
<1>1. \A i \in 1 .. Len(q) : (q \o r)[i] = q[i]
  OBVIOUS
<1>2. \A i \in Len(q) + 1 .. (Len(q) + k) - 1 : (q \o r)[i] \notin hit
  <2> SUFFICES ASSUME NEW i \in Len(q) + 1 .. (Len(q) + k) - 1 PROVE (q \o r)[i] \notin hit
    OBVIOUS
  <2>1. (q \o r)[i] = r[i - Len(q)] /\ i - Len(q) \in 1 .. k - 1
    OBVIOUS
  <2> QED BY <2>1
<1> DEFINE n == Len(q)
<1>3. n \in Nat /\ k \in Nat \ {0}
  OBVIOUS
<1>4. CASE \E j \in 1 .. n : /\ q[j] \in hit /\ val[q[j]] = x
                             /\ \A i \in j + 1 .. n : q[i] \notin hit
  <2>1. PICK j \in 1 .. n : /\ q[j] \in hit /\ val[q[j]] = x
                            /\ \A i \in j + 1 .. n : q[i] \notin hit
    BY <1>4
  <2>2. /\ j \in 1 .. (n + k) - 1 /\ (q \o r)[j] \in hit /\ val[(q \o r)[j]] = x
        /\ \A i \in j + 1 .. (n + k) - 1 : (q \o r)[i] \notin hit
    BY <1>1, <1>2, <1>3, <2>1
  <2> QED BY <2>2 DEF Latest
<1>5. CASE (\A i \in 1 .. n : q[i] \notin hit) /\ v = x
  <2>1. \A i \in 1 .. (n + k) - 1 : (q \o r)[i] \notin hit
    BY <1>1, <1>2, <1>3, <1>5
  <2> QED BY <1>5, <2>1 DEF Latest
<1>6. Latest(q, hit, val, v, n + 1, x) /\ (n + 1) - 1 = n
  BY <1>3
<1> HIDE DEF n
<1>7. \/ \E j \in 1 .. n : /\ q[j] \in hit /\ val[q[j]] = x
                         /\ \A i \in j + 1 .. n : q[i] \notin hit
      \/ (\A i \in 1 .. n : q[i] \notin hit) /\ v = x
  BY <1>6 DEF Latest
<1> QED BY <1>4, <1>5, <1>7 DEF n

\* The last message that hits decides.
LEMMA LatestHits ==
    ASSUME NEW S, NEW q \in Seq(S), NEW r \in Seq(S), NEW hit, NEW val, NEW v,
           NEW j \in 1 .. Len(r), r[j] \in hit, \A i \in j + 1 .. Len(r) : r[i] \notin hit
    PROVE  Latest(q \o r, hit, val, v, Len(q \o r) + 1, val[r[j]])
<1>1. /\ Len(q) + j \in 1 .. (Len(q \o r) + 1) - 1 /\ (q \o r)[Len(q) + j] = r[j]
      /\ Len(q \o r) = Len(q) + Len(r)
  OBVIOUS
<1>2. \A i \in (Len(q) + j) + 1 .. (Len(q \o r) + 1) - 1 : (q \o r)[i] \notin hit
  <2> SUFFICES ASSUME NEW i \in (Len(q) + j) + 1 .. (Len(q \o r) + 1) - 1
               PROVE  (q \o r)[i] \notin hit
    OBVIOUS
  <2>1. (q \o r)[i] = r[i - Len(q)] /\ i - Len(q) \in j + 1 .. Len(r)
    BY <1>1
  <2> QED BY <2>1
<1> QED BY <1>1, <1>2 DEF Latest

-----------------------------------------------------------------------------
(* Types.                                                                     *)

\* Heads, tails and concatenations of queues keep their type.
LEMMA QueueTyped ==
    ASSUME NEW S, NEW q \in Seq(S)
    PROVE  /\ \A x \in S : <<x>> \in Seq(S) /\ Len(<<x>>) = 1 /\ <<x>>[1] = x
           /\ \A x \in S, y \in S : <<x, y>> \in Seq(S)
           /\ <<>> \in Seq(S) /\ Len(<<>>) = 0 /\ q \o <<>> = q
           /\ \A r \in Seq(S) : q \o r \in Seq(S)
           /\ q # <<>> => Head(q) \in S /\ Tail(q) \in Seq(S) /\ Head(q) = q[1]
BY ConcatProperties, ConcatEmptySeq

\* Among the free cells there is a first one.
LEMMA LeastFree ==
    ASSUME NEW T, T \subseteq Nat, T # {}
    PROVE  \E x \in T : \A y \in T : x <= y
<1> DEFINE R == {ss \in Nat \X Nat : ss[1] < ss[2]}
<1>1. IsWellFoundedOn(R, Nat)
  BY NatLessThanWellFounded DEF OpToRel
<1> HIDE DEF R
<1>2. PICK x \in T : \A y \in T : ~ (<<y, x>> \in R)
  BY <1>1, WFMin
<1>3. \A y \in T : ~ (y < x)
  BY <1>2 DEF R
<1> QED BY <1>3

\* With room in the box its first free slot is one of its slots.
LEMMA FirstFreeTyped ==
    ASSUME NEW cells, Free(cells) # {}
    PROVE  FirstFree(cells) \in Slots /\ cells[FirstFree(cells)] = "none"
<1>1. Free(cells) \subseteq Nat
  BY BoundsAssumption DEF Free, Slots
<1>2. \E s \in Free(cells) : \A t \in Free(cells) : s <= t
  BY <1>1, LeastFree
<1>3. FirstFree(cells) \in Free(cells)
  BY <1>2 DEF FirstFree
<1> QED BY <1>3 DEF Free

\* The requests the client makes are typed and name their slot.
LEMMA AsksTyped ==
    /\ \A b \in Boxes, cmd \in {"open", "close", "work", "check", "confirm"} :
            OnBox(cmd, b) \in GoodUps
    /\ \A b \in Boxes, s \in Slots,
          cmd \in {"accept", "reject", "get", "recv", "send", "cancel"} :
            OnSlot(cmd, b, s) \in GoodUps
    /\ \A n \in Typed, s \in Slots : Ask("set", "out", s, n) \in GoodUps
    /\ \A n \in Names : Ask("query", "out", NoSlot, n) \in GoodUps
BY DEF OnBox, OnSlot, Ask, GoodUps, Ups, Asks, OnCell, Typed, NoSlot, Boxes

\* An error answers the request as it was.
LEMMA FailedTyped ==
    ASSUME NEW m \in GoodUps
    PROVE  Failed(m) \in GoodDowns /\ ~Failed(m).ok
<1>1. PICK d : d = Done(m.cmd, m.box, m.slot, "none")
  OBVIOUS
<1>2. d \in Downs /\ d.ok
  BY <1>1 DEF Done, Reply, GoodUps, Ups, Downs, Stats
<1>3. [d EXCEPT !.ok = FALSE] \in GoodDowns /\ ~[d EXCEPT !.ok = FALSE].ok
  BY <1>2 DEF GoodDowns, Downs
<1> QED BY <1>1, <1>3 DEF Failed

\* An error hits nothing.
LEMMA ErrorsPass ==
    ASSUME NEW m, ~m.ok
    PROVE  m \notin OpenHit /\ m \notin Fills /\ \A s : m \notin CellHit(s)
BY DEF OpenHit, Fills, CellHit

-----------------------------------------------------------------------------
(* Commands leave box, slots and answers alone.                               *)

\* A listing asked for stays due as requests are added.
LEMMA WorkDueGrows ==
    ASSUME NEW S, NEW a \in Seq(S), NEW r \in Seq(S), NEW q, WorkDue(a, q)
    PROVE  WorkDue(a \o r, q)
<1>1. \A i \in DOMAIN a : i \in DOMAIN (a \o r) /\ (a \o r)[i] = a[i]
  OBVIOUS
<1> QED BY <1>1 DEF WorkDue

\* A command that leaves box and slots alone keeps the invariant.
LEMMA OrderKeepsInv ==
    ASSUME Inv, Order, c' \in Clients, c'.open = c.open, c'.slots = c.slots,
           NEW r \in Seq(GoodUps), up' = up \o r, hist' \in Histories
    PROVE  Inv'
<1>0. /\ used \in Budget /\ used.orders < MaxOrders
      /\ used' = [used EXCEPT !.orders = used.orders + 1]
  BY DEF Order, Inv, Types
<1>1. used' \in Budget /\ used'.lost = used.lost /\ UNCHANGED <<srv, down>>
  <2>1. used.orders + 1 \in 0 .. MaxOrders
    BY <1>0, BoundsAssumption DEF Budget
  <2> QED BY <1>0, <2>1 DEF Order, Budget
<1>2. up' \in Seq(GoodUps) /\ (WorkDue(up, down) => WorkDue(up', down))
  BY WorkDueGrows, QueueTyped DEF Inv, Types
<1>3. Types'
  BY <1>1, <1>2 DEF Inv, Types
<1>4. Faithful'
  BY <1>1, <1>2 DEF Inv, Faithful
<1> QED BY <1>3, <1>4 DEF Inv

\* The histories of takes and names stay typed.
LEMMA OverlapTyped ==
    ASSUME hist \in Histories, NEW b
    PROVE  /\ [hist EXCEPT !.takes = hist.takes \/ b] \in Histories
           /\ [hist EXCEPT !.names = hist.names \/ b] \in Histories
<1>1. PICK x \in BOOLEAN : x = (hist.takes \/ b)
  OBVIOUS
<1>2. PICK y \in BOOLEAN : y = (hist.names \/ b)
  OBVIOUS
<1>3. [hist EXCEPT !.takes = x] \in Histories /\ [hist EXCEPT !.names = y] \in Histories
  BY DEF Histories
<1> QED BY <1>1, <1>2, <1>3, Zenon

\* Each command of the player or the agent.
LEMMA OrdersStep ==
    ASSUME Inv, Orders
    PROVE  Inv'
<1>1. /\ c \in Clients /\ hist \in Histories /\ up \in Seq(GoodUps)
      /\ c.open # "none" => c.open \in Boxes /\ Other(c.open) \in Boxes
  BY DEF Inv, Types, Clients, Openings, Boxes, Other
<1>2. /\ RequestOpen(c) \in Clients /\ RequestOpen(c).open = c.open
      /\ RequestOpen(c).slots = c.slots
  BY <1>1 DEF RequestOpen, Clients
<1>3. ASSUME NEW m \in GoodUps, up' = Append(up, m), Order, c' \in Clients,
             c'.open = c.open, c'.slots = c.slots, hist' \in Histories
      PROVE  Inv'
  <2>1. up' = up \o <<m>> /\ <<m>> \in Seq(GoodUps)
    BY <1>1, <1>3, AppendIsConcat, QueueTyped
  <2> QED BY <1>3, <2>1, OrderKeepsInv
<1>4. CASE MenuOpen
  <2>1. PICK b \in Boxes : /\ Order /\ Submit(OnBox("open", b))
                           /\ c' = [RequestOpen(c) EXCEPT !.menu = "suspended"]
    BY <1>4 DEF MenuOpen
  <2>2. c' \in Clients /\ c'.open = c.open /\ c'.slots = c.slots
    BY <1>2, <2>1 DEF Clients
  <2> QED BY <1>1, <1>3, <2>1, <2>2, AsksTyped DEF Submit
<1>5. CASE Open
  <2>1. PICK b \in Boxes : /\ Order /\ Submit(OnBox("open", b))
                           /\ c' = [RequestOpen(c) EXCEPT !.locked = NoName]
    BY <1>5 DEF Open
  <2>2. c' \in Clients /\ c'.open = c.open /\ c'.slots = c.slots
    BY <1>2, <2>1 DEF Clients, Typed
  <2> QED BY <1>1, <1>3, <2>1, <2>2, AsksTyped DEF Submit
<1>6. CASE Close
  <2>1. /\ Order /\ Submit(OnBox("close", c.open)) /\ c.open # "none"
        /\ c' = [c EXCEPT !.locked = NoName]
    BY <1>6 DEF Close
  <2>2. c' \in Clients /\ c'.open = c.open /\ c'.slots = c.slots
    BY <1>1, <2>1 DEF Clients, Typed
  <2> QED BY <1>1, <1>3, <2>1, <2>2, AsksTyped DEF Submit
<1>7. CASE Toggle
  <2>1. /\ Order /\ UNCHANGED hist /\ c.open # "none"
        /\ c' = [RequestOpen(c) EXCEPT !.locked = NoName]
        /\ up' = up \o <<OnBox("close", c.open), OnBox("open", Other(c.open))>>
    BY <1>7 DEF Toggle
  <2>2. c' \in Clients /\ c'.open = c.open /\ c'.slots = c.slots
    BY <1>2, <2>1 DEF Clients, Typed
  <2>3. OnBox("close", c.open) \in GoodUps /\ OnBox("open", Other(c.open)) \in GoodUps
    BY <1>1, <2>1, AsksTyped
  <2>4. <<OnBox("close", c.open), OnBox("open", Other(c.open))>> \in Seq(GoodUps)
    BY <1>1, <2>3, QueueTyped, Zenon
  <2> QED BY <1>1, <2>1, <2>2, <2>4, OrderKeepsInv
<1>8. CASE Take
  <2>1. PICK s \in Slots : /\ Order /\ c' = [c EXCEPT !.take = s]
                           /\ up' = Append(up, OnSlot("accept", "in", s))
                           /\ hist' = [hist EXCEPT !.takes = hist.takes \/ Taking]
    BY <1>8 DEF Take
  <2>2. c' \in Clients /\ c'.open = c.open /\ c'.slots = c.slots
    BY <1>1, <2>1 DEF Clients
  <2>3. hist' \in Histories
    BY <1>1, <2>1, OverlapTyped, Zenon
  <2>4. OnSlot("accept", "in", s) \in GoodUps
    BY AsksTyped DEF Boxes
  <2> QED BY <1>3, <2>1, <2>2, <2>3, <2>4
<1>9. CASE Reject
  <2>1. PICK s \in Slots : Order /\ UNCHANGED c /\ Submit(OnSlot("reject", "in", s))
    BY <1>9 DEF Reject
  <2>2. OnSlot("reject", "in", s) \in GoodUps
    BY AsksTyped DEF Boxes
  <2> QED BY <1>1, <1>3, <2>1, <2>2 DEF Submit
<1>10. CASE Query
  <2>1. PICK n \in Names :
            /\ Order /\ c' = [c EXCEPT !.asked = n, !.name = n, !.status = "pending"]
            /\ up' = Append(up, Ask("query", "out", NoSlot, n))
            /\ hist' = [hist EXCEPT !.names = hist.names \/ (c.asked # NoName \/ Leaving)]
    BY <1>10 DEF Query
  <2>2. c' \in Clients /\ c'.open = c.open /\ c'.slots = c.slots
    BY <1>1, <2>1 DEF Clients, Typed
  <2>3. hist' \in Histories
    BY <1>1, <2>1, OverlapTyped, Zenon
  <2> QED BY <1>3, <2>1, <2>2, <2>3, AsksTyped
<1>11. CASE Set
  <2>1. PICK s \in Slots : Order /\ UNCHANGED c /\ Submit(Ask("set", "out", s, c.locked))
    BY <1>11 DEF Set
  <2>2. Ask("set", "out", s, c.locked) \in GoodUps
    BY <1>1, AsksTyped DEF Clients
  <2> QED BY <1>1, <1>3, <2>1, <2>2 DEF Submit
<1>12. CASE Staged
  <2>1. PICK s \in Slots, cmd \in {"send", "cancel", "get"} :
            Order /\ UNCHANGED c /\ Submit(OnSlot(cmd, "out", s))
    BY <1>12 DEF Staged
  <2>2. OnSlot(cmd, "out", s) \in GoodUps
    BY <2>1, AsksTyped DEF Boxes
  <2> QED BY <1>1, <1>3, <2>1, <2>2 DEF Submit
<1> QED BY <1>4, <1>5, <1>6, <1>7, <1>8, <1>9, <1>10, <1>11, <1>12 DEF Orders

-----------------------------------------------------------------------------
(* Reading an answer.                                                         *)

\* What an answer makes of the panel's box and of its cells.
LEMMA FollowTyped ==
    ASSUME NEW p \in Clients, NEW m \in GoodDowns
    PROVE  /\ Follow(p, m) \in Clients
           /\ Follow(p, m).open = IF m \in OpenHit THEN OpenVal[m] ELSE p.open
           /\ \A s \in Slots :
                Follow(p, m).slots[s] = IF m \in CellHit(s) THEN CellVal[m] ELSE p.slots[s]
<1> DEFINE Right(d) ==
        /\ d \in Clients /\ d.open = IF m \in OpenHit THEN OpenVal[m] ELSE p.open
        /\ \A s \in Slots : d.slots[s] = IF m \in CellHit(s) THEN CellVal[m] ELSE p.slots[s]
<1>0. Empty \in [Slots -> Stats] /\ \A s \in Slots : Empty[s] = "none"
  BY DEF Empty, Stats
<1>1. ASSUME ~m.ok PROVE Right(Refused(p, m))
  <2>1. m \notin OpenHit /\ \A s : m \notin CellHit(s)
    BY <1>1, ErrorsPass
  <2>2. /\ Refused(p, m) \in Clients /\ Refused(p, m).open = p.open
        /\ Refused(p, m).slots = p.slots
    BY DEF Refused, Clients, Typed
  <2> QED BY <2>1, <2>2
<1>2. ASSUME m.ok PROVE Right(Stored(p, m))
  <2>1. CASE m.cmd = "open"
    <3>1. /\ m \in OpenHit /\ OpenVal[m] = m.box /\ CellVal[m] = "none"
          /\ \A s \in Slots : m \in CellHit(s)
      BY <1>2, <2>1 DEF OpenHit, OpenVal, CellHit, CellVal, Filling
    <3>2. Stored(p, m) = Opened(p, m.box)
      BY <2>1 DEF Stored, Filling
    <3>3. m.box \in Openings
      BY DEF GoodDowns, Downs, Openings
    <3>4. /\ Opened(p, m.box) \in Clients /\ Opened(p, m.box).open = m.box
          /\ Opened(p, m.box).slots = Empty
      BY <1>0, <3>3 DEF Opened, Clients, Typed
    <3> QED BY <1>0, <3>1, <3>2, <3>4
  <2>2. CASE m.cmd = "close"
    <3>1. /\ m \in OpenHit /\ OpenVal[m] = "none" /\ CellVal[m] = "none"
          /\ \A s \in Slots : m \in CellHit(s)
      BY <1>2, <2>2 DEF OpenHit, OpenVal, CellHit, CellVal, Filling
    <3>2. Stored(p, m) = Closed(p)
      BY <2>2 DEF Stored, Filling
    <3>4. /\ Closed(p) \in Clients /\ Closed(p).open = "none" /\ Closed(p).slots = Empty
      BY <1>0 DEF Closed, Clients, Typed, Openings
    <3> QED BY <1>0, <3>1, <3>2, <3>4
  <2>3. CASE m.cmd \in Filling
    <3>1. /\ m \notin OpenHit /\ CellVal[m] = m.cell /\ m.slot \in Slots /\ m.cell \in Stats
          /\ \A s \in Slots : m \in CellHit(s) <=> s = m.slot
      BY <1>2, <2>3 DEF OpenHit, CellHit, CellVal, Filling, GoodDowns, Downs
    <3>2. Stored(p, m) = [p EXCEPT !.slots[m.slot] = m.cell]
      BY <2>3 DEF Stored, Filling
    <3>3. [p.slots EXCEPT ![m.slot] = m.cell] \in [Slots -> Stats]
      BY <3>1 DEF Clients
    <3>4. [p EXCEPT !.slots = [p.slots EXCEPT ![m.slot] = m.cell]]
            = [p EXCEPT !.slots[m.slot] = m.cell]
      OBVIOUS
    <3>5. PICK f \in [Slots -> Stats] : f = [p.slots EXCEPT ![m.slot] = m.cell]
      BY <3>3
    <3>6. Stored(p, m) = [p EXCEPT !.slots = f]
      BY <3>2, <3>4, <3>5, Zenon
    <3>7. Stored(p, m) \in Clients /\ Stored(p, m).open = p.open /\ Stored(p, m).slots = f
      BY <3>6 DEF Clients
    <3>8. \A s \in Slots : f[s] = IF s = m.slot THEN m.cell ELSE p.slots[s]
      BY <3>5 DEF Clients
    <3> QED BY <3>1, <3>7, <3>8
  <2>4. CASE m.cmd \in Emptying
    <3>1. /\ m \notin OpenHit /\ CellVal[m] = "none" /\ m.slot \in Slots
          /\ \A s \in Slots : m \in CellHit(s) <=> s = m.slot
      BY <1>2, <2>4 DEF OpenHit, CellHit, CellVal, Filling, Emptying, GoodDowns, Downs
    <3>2. Stored(p, m) = [p EXCEPT !.slots[m.slot] = "none"]
      BY <2>4 DEF Stored, Filling, Emptying
    <3>3. [p.slots EXCEPT ![m.slot] = "none"] \in [Slots -> Stats]
      BY <3>1 DEF Clients, Stats
    <3>4. [p EXCEPT !.slots = [p.slots EXCEPT ![m.slot] = "none"]]
            = [p EXCEPT !.slots[m.slot] = "none"]
      OBVIOUS
    <3>5. PICK f \in [Slots -> Stats] : f = [p.slots EXCEPT ![m.slot] = "none"]
      BY <3>3
    <3>6. Stored(p, m) = [p EXCEPT !.slots = f]
      BY <3>2, <3>4, <3>5, Zenon
    <3>7. Stored(p, m) \in Clients /\ Stored(p, m).open = p.open /\ Stored(p, m).slots = f
      BY <3>6 DEF Clients
    <3>8. \A s \in Slots : f[s] = IF s = m.slot THEN "none" ELSE p.slots[s]
      BY <3>5 DEF Clients
    <3> QED BY <3>1, <3>7, <3>8
  <2>5. CASE m.cmd \notin {"open", "close"} \cup Filling \cup Emptying
    <3>1. m \notin OpenHit /\ \A s : m \notin CellHit(s)
      BY <2>5 DEF OpenHit, CellHit
    <3>2. /\ Stored(p, m) \in Clients /\ Stored(p, m).open = p.open
          /\ Stored(p, m).slots = p.slots
      BY <2>5 DEF Stored, Filling, Emptying, Clients
    <3> QED BY <3>1, <3>2
  <2> QED BY <2>1, <2>2, <2>3, <2>4, <2>5
<1>3. ASSUME NEW d, Right(d) PROVE Right(Locks(d, m))
  <2>1. /\ Locks(d, m) \in Clients /\ Locks(d, m).open = d.open
        /\ Locks(d, m).slots = d.slots
    BY <1>3 DEF Locks, Clients, Typed
  <2> QED BY <1>3, <2>1
<1> HIDE DEF Right
<1>4. Right(Follow(p, m))
  BY <1>1, <1>2, <1>3 DEF Follow
<1> QED BY <1>4 DEF Right

\* What an answer makes the client send; an opened box is always listed.
LEMMA SendsTyped ==
    ASSUME NEW p \in Clients, NEW m \in GoodDowns
    PROVE  /\ Sends(p, m) \in Seq(GoodUps)
           /\ m \in OpenHit /\ m.cmd = "open" =>
                1 \in DOMAIN Sends(p, m) /\ Sends(p, m)[1].cmd = "work"
<1>1. m.box \in Boxes /\ "in" \in Boxes /\ "out" \in Boxes
  BY DEF GoodDowns, Downs, Boxes
<1>2. \A x \in GoodUps : <<x>> \in Seq(GoodUps)
  OBVIOUS
<1>3. \/ Sends(p, m) = <<>>
      \/ \E cmd \in {"work", "check"} : Sends(p, m) = <<OnBox(cmd, m.box)>>
      \/ Sends(p, m) = <<OnBox("confirm", "out")>>
      \/ Free(p.slots) # {} /\ Sends(p, m) = <<OnSlot("recv", "in", FirstFree(p.slots))>>
      \/ p.take \in Slots /\ Sends(p, m) = <<OnSlot("get", m.box, p.take)>>
  BY DEF Sends, Clients
<1>4. Sends(p, m) \in Seq(GoodUps)
  <2>1. CASE Sends(p, m) = <<>>
    BY <2>1
  <2>2. CASE \E cmd \in {"work", "check"} : Sends(p, m) = <<OnBox(cmd, m.box)>>
    BY <1>1, <1>2, <2>2, AsksTyped
  <2>3. CASE Sends(p, m) = <<OnBox("confirm", "out")>>
    BY <1>1, <1>2, <2>3, AsksTyped
  <2>4. CASE Free(p.slots) # {} /\ Sends(p, m) = <<OnSlot("recv", "in", FirstFree(p.slots))>>
    <3>1. OnSlot("recv", "in", FirstFree(p.slots)) \in GoodUps
      BY <1>1, <2>4, AsksTyped, FirstFreeTyped
    <3> QED BY <1>2, <2>4, <3>1
  <2>5. CASE p.take \in Slots /\ Sends(p, m) = <<OnSlot("get", m.box, p.take)>>
    <3>1. OnSlot("get", m.box, p.take) \in GoodUps
      BY <1>1, <2>5, AsksTyped
    <3> QED BY <1>2, <2>5, <3>1
  <2> QED BY <1>3, <2>1, <2>2, <2>3, <2>4, <2>5
<1>5. ASSUME m \in OpenHit, m.cmd = "open"
      PROVE  1 \in DOMAIN Sends(p, m) /\ Sends(p, m)[1].cmd = "work"
  <2>1. Sends(p, m) = <<OnBox("work", m.box)>>
    BY <1>5 DEF Sends, OpenHit
  <2> QED BY <2>1 DEF OnBox, Ask
<1> QED BY <1>4, <1>5

\* An answer is read.
LEMMA ObserveStep ==
    ASSUME Inv, Observe
    PROVE  Inv'
<1> DEFINE m == Head(down)
           d == Follow(c, m)
<1>1. /\ down \in Seq(GoodDowns) /\ down # <<>> /\ m \in GoodDowns /\ m = down[1]
      /\ down' = Tail(down) /\ down' \in Seq(GoodDowns) /\ Len(down') = Len(down) - 1
      /\ Len(down) \in Nat \ {0} /\ c \in Clients /\ up \in Seq(GoodUps)
      /\ \A i \in DOMAIN down' : i + 1 \in DOMAIN down /\ down'[i] = down[i + 1]
      /\ UNCHANGED <<srv, hist, used>>
  BY DEF Observe, Inv, Types
<1>2. c' = (IF Resumes(d, m) THEN [d EXCEPT !.menu = "shown"] ELSE d) /\ up' = up \o Sends(c, m)
  BY DEF Observe
<1> HIDE DEF m
<1>3. /\ d \in Clients /\ d.open = IF m \in OpenHit THEN OpenVal[m] ELSE c.open
      /\ \A s \in Slots : d.slots[s] = IF m \in CellHit(s) THEN CellVal[m] ELSE c.slots[s]
  BY <1>1, FollowTyped
<1> HIDE DEF d
<1>4. c' \in Clients /\ c'.open = d.open /\ c'.slots = d.slots
  BY <1>2, <1>3 DEF Clients
<1>5. Sends(c, m) \in Seq(GoodUps) /\ up' \in Seq(GoodUps)
  BY <1>1, <1>2, SendsTyped, QueueTyped
<1>6. c'.open = "none" => c'.slots = Empty
  <2> SUFFICES ASSUME c'.open = "none" PROVE c'.slots = Empty
    OBVIOUS
  <2>1. \A s \in Slots : c'.slots[s] = "none"
    <3>1. CASE m \in OpenHit
      BY <1>3, <1>4, <3>1 DEF CellHit, OpenHit, CellVal, Filling
    <3>2. CASE m \notin OpenHit
      <4>1. c.open = "none" /\ \A s \in Slots : c.slots[s] = "none"
        BY <1>3, <1>4, <3>2 DEF Inv, Types, Empty
      <4>2. m \notin Fills
        <5> SUFFICES ASSUME m \in Fills PROVE FALSE
          OBVIOUS
        <5>1. 1 \in DOMAIN down /\ down[1] \in Fills
          BY <1>1
        <5>2. PICK b \in Boxes : Latest(down, OpenHit, OpenVal, c.open, 1, b)
          BY <5>1 DEF Inv, Faithful, FillsOpen
        <5>3. c.open = b
          BY <5>2 DEF Latest
        <5> QED BY <4>1, <5>3 DEF Boxes
      <4>3. \A s \in Slots : m \in CellHit(s) => CellVal[m] = "none"
        BY <3>2, <4>2, <1>1 DEF CellHit, CellVal, Fills
      <4> QED BY <1>3, <1>4, <4>1, <4>3
    <3> QED BY <3>1, <3>2
  <2> QED BY <1>4, <2>1 DEF Clients, Empty
<1>7. Types'
  BY <1>1, <1>4, <1>5, <1>6 DEF Inv, Types
<1>8. OpenFollows(down', c'.open, srv.open)
  <2>1. Latest(down, OpenHit, OpenVal, c.open, Len(down) + 1, srv.open)
    BY DEF Inv, Faithful, OpenFollows
  <2>2. Len(down) + 1 \in 2 .. Len(down) + 1 /\ (Len(down) + 1) - 1 = Len(down') + 1
    BY <1>1
  <2>3. Latest(Tail(down), OpenHit, OpenVal,
               IF down[1] \in OpenHit THEN OpenVal[down[1]] ELSE c.open, (Len(down) + 1) - 1, srv.open)
    BY <1>1, <2>1, <2>2, LatestRead
  <2> QED BY <1>1, <1>3, <1>4, <2>2, <2>3 DEF OpenFollows
<1>9. FillsOpen(down', c'.open)
  <2> SUFFICES ASSUME NEW k \in DOMAIN down', down'[k] \in Fills
               PROVE  \E b \in Boxes : Latest(down', OpenHit, OpenVal, c'.open, k, b)
    BY DEF FillsOpen
  <2>1. k + 1 \in DOMAIN down /\ down[k + 1] \in Fills
    BY <1>1
  <2>2. PICK b \in Boxes : Latest(down, OpenHit, OpenVal, c.open, k + 1, b)
    BY <2>1 DEF Inv, Faithful, FillsOpen
  <2>3. k + 1 \in 2 .. Len(down) + 1 /\ (k + 1) - 1 = k
    BY <1>1
  <2>4. Latest(Tail(down), OpenHit, OpenVal,
               IF down[1] \in OpenHit THEN OpenVal[down[1]] ELSE c.open, (k + 1) - 1, b)
    BY <1>1, <2>2, <2>3, LatestRead
  <2>5. Latest(down', OpenHit, OpenVal, c'.open, k, b)
    BY <1>1, <1>3, <1>4, <2>3, <2>4
  <2> QED BY <2>5
<1>10. WorkDue(up, down) => WorkDue(up', down')
  <2>1. CASE \E i \in DOMAIN up : up[i].cmd = "work"
    <3>1. WorkDue(up, down')
      BY <2>1 DEF WorkDue
    <3> QED BY <1>1, <1>2, <1>5, <3>1, WorkDueGrows
  <2>2. CASE \E i \in DOMAIN down : down[i] \in OpenHit /\ down[i].cmd = "open"
    <3>1. PICK i \in DOMAIN down : down[i] \in OpenHit /\ down[i].cmd = "open"
      BY <2>2
    <3>2. CASE i = 1
      <4>1. 1 \in DOMAIN Sends(c, m) /\ Sends(c, m)[1].cmd = "work"
        BY <1>1, <3>1, <3>2, SendsTyped
      <4>2. Len(up) + 1 \in DOMAIN up' /\ up'[Len(up) + 1] = Sends(c, m)[1]
        BY <1>1, <1>2, <1>5, <4>1
      <4> QED BY <4>1, <4>2 DEF WorkDue
    <3>3. CASE i # 1
      <4>1. i - 1 \in DOMAIN down' /\ down'[i - 1] = down[i]
        BY <1>1, <3>3
      <4> QED BY <3>1, <4>1 DEF WorkDue
    <3> QED BY <3>2, <3>3
  <2> QED BY <2>1, <2>2 DEF WorkDue
<1>11. ASSUME NEW cells, CellsFollow(down, c.slots, cells)
       PROVE  CellsFollow(down', c'.slots, cells)
  <2> SUFFICES ASSUME NEW s \in Slots
               PROVE  Latest(down', CellHit(s), CellVal, c'.slots[s], Len(down') + 1, cells[s])
    BY DEF CellsFollow
  <2>1. Latest(down, CellHit(s), CellVal, c.slots[s], Len(down) + 1, cells[s])
    BY <1>11 DEF CellsFollow
  <2>2. Len(down) + 1 \in 2 .. Len(down) + 1 /\ (Len(down) + 1) - 1 = Len(down') + 1
    BY <1>1
  <2>3. Latest(Tail(down), CellHit(s), CellVal,
               IF down[1] \in CellHit(s) THEN CellVal[down[1]] ELSE c.slots[s],
               (Len(down) + 1) - 1, cells[s])
    BY <1>1, <2>1, <2>2, LatestRead
  <2> QED BY <1>1, <1>3, <1>4, <2>2, <2>3
<1>12. Faithful'
  BY <1>1, <1>8, <1>9, <1>10, <1>11 DEF Inv, Faithful
<1> QED BY <1>7, <1>12 DEF Inv

-----------------------------------------------------------------------------
(* The server's answers.                                                      *)

\* Answers that neither open nor close, to an open box if they fill a cell.
LEMMA RepliesKeepOpen ==
    ASSUME Inv, NEW r \in Seq(GoodDowns),
           \A i \in DOMAIN r : r[i] \notin OpenHit /\ (r[i] \in Fills => srv.open # "none")
    PROVE  /\ OpenFollows(down \o r, c.open, srv.open)
           /\ FillsOpen(down \o r, c.open)
<1>1. /\ down \in Seq(GoodDowns) /\ down \o r \in Seq(GoodDowns)
      /\ Len(down \o r) = Len(down) + Len(r) /\ Len(down) \in Nat /\ Len(r) \in Nat
      /\ \A i \in 1 .. Len(down) : (down \o r)[i] = down[i]
      /\ \A i \in Len(down) + 1 .. Len(down) + Len(r) : (down \o r)[i] = r[i - Len(down)]
  BY DEF Inv, Types
<1>2. Latest(down, OpenHit, OpenVal, c.open, Len(down) + 1, srv.open)
  BY DEF Inv, Faithful, OpenFollows
<1>3. ASSUME NEW k \in 1 .. Len(r) + 1
      PROVE  Latest(down \o r, OpenHit, OpenVal, c.open, Len(down) + k, srv.open)
  <2>1. \A i \in 1 .. k - 1 : r[i] \notin OpenHit
    OBVIOUS
  <2> QED BY <1>1, <1>2, <2>1, LatestPasses
<1>4. OpenFollows(down \o r, c.open, srv.open)
  <2>1. Len(r) + 1 \in 1 .. Len(r) + 1 /\ Len(down) + (Len(r) + 1) = Len(down \o r) + 1
    BY <1>1
  <2>2. Latest(down \o r, OpenHit, OpenVal, c.open, Len(down) + (Len(r) + 1), srv.open)
    BY <1>3, <2>1
  <2> QED BY <2>1, <2>2 DEF OpenFollows
<1>5. FillsOpen(down \o r, c.open)
  <2> SUFFICES ASSUME NEW k \in DOMAIN (down \o r), (down \o r)[k] \in Fills
               PROVE  \E b \in Boxes : Latest(down \o r, OpenHit, OpenVal, c.open, k, b)
    BY DEF FillsOpen
  <2>1. CASE k \in 1 .. Len(down)
    <3>1. k \in DOMAIN down /\ down[k] \in Fills
      BY <1>1, <2>1
    <3>2. PICK b \in Boxes : Latest(down, OpenHit, OpenVal, c.open, k, b)
      BY <3>1 DEF Inv, Faithful, FillsOpen
    <3>3. k \in Nat \ {0} /\ \A i \in 1 .. k - 1 : (down \o r)[i] = down[i]
      BY <1>1, <2>1
    <3> QED BY <3>2, <3>3, LatestPrefix
  <2>2. CASE k \notin 1 .. Len(down)
    <3> DEFINE j == k - Len(down)
    <3>1. j \in DOMAIN r /\ r[j] \in Fills /\ j \in 1 .. Len(r) + 1 /\ Len(down) + j = k
      BY <1>1, <2>2
    <3>2. srv.open \in Boxes
      BY <3>1 DEF Inv, Types, Servers, Openings
    <3> HIDE DEF j
    <3>3. Latest(down \o r, OpenHit, OpenVal, c.open, Len(down) + j, srv.open)
      BY <1>3, <3>1
    <3> QED BY <3>1, <3>2, <3>3
  <2> QED BY <2>1, <2>2
<1> QED BY <1>4, <1>5

\* A request leaves; a listing it did not ask for stays due.
LEMMA WorkStaysDue ==
    ASSUME Inv, up # <<>>, Head(up).cmd # "work", NEW r \in Seq(GoodDowns), WorkDue(up, down)
    PROVE  WorkDue(Tail(up), down \o r)
<1>1. /\ up \in Seq(GoodUps) /\ down \in Seq(GoodDowns)
  BY DEF Inv, Types
<1>2. CASE \E i \in DOMAIN up : up[i].cmd = "work"
  <2>1. PICK i \in DOMAIN up : up[i].cmd = "work"
    BY <1>2
  <2>2. i # 1
    BY <1>1, <2>1
  <2>3. i - 1 \in DOMAIN Tail(up) /\ Tail(up)[i - 1] = up[i]
    BY <1>1, <2>2
  <2> QED BY <2>1, <2>3 DEF WorkDue
<1>3. CASE \E i \in DOMAIN down : down[i] \in OpenHit /\ down[i].cmd = "open"
  <2>1. PICK i \in DOMAIN down : down[i] \in OpenHit /\ down[i].cmd = "open"
    BY <1>3
  <2>2. i \in DOMAIN (down \o r) /\ (down \o r)[i] = down[i]
    BY <1>1
  <2> QED BY <2>1, <2>2 DEF WorkDue
<1> QED BY <1>2, <1>3 DEF WorkDue

\* What every answer leaves typed.
Serves(r) ==
    /\ up # <<>> /\ up' = Tail(up) /\ UNCHANGED c /\ down' = down \o r
    /\ used' \in Budget /\ used'.lost = used.lost /\ hist' \in Histories
    /\ srv' \in Servers /\ \A s \in srv'.taken : srv'.box["out"][s] = "sent"

\* They keep the types.
LEMMA ServesTyped ==
    ASSUME Inv, NEW r \in Seq(GoodDowns), Serves(r)
    PROVE  Types'
<1>1. up' \in Seq(GoodUps) /\ down' \in Seq(GoodDowns)
  BY QueueTyped DEF Inv, Types, Serves
<1> QED BY <1>1 DEF Inv, Types, Serves

\* At most one answer, which leaves the box open and its cells as they are now.
LEMMA AnswerKeepsInv ==
    ASSUME Inv, NEW r \in Seq(GoodDowns), Serves(r), Len(r) <= 1, srv'.open = srv.open,
           \A i \in DOMAIN r : r[i] \notin OpenHit /\ (r[i] \in Fills => srv.open # "none"),
           srv.open # "none" =>
             /\ Head(up).cmd # "work"
             /\ \A s \in Slots : srv'.box[srv.open][s] =
                    IF Len(r) = 1 /\ r[1] \in CellHit(s) THEN CellVal[r[1]]
                    ELSE srv.box[srv.open][s]
    PROVE  Inv'
<1>1. Types'
  BY ServesTyped
<1>2. OpenFollows(down', c'.open, srv'.open) /\ FillsOpen(down', c'.open)
  BY RepliesKeepOpen DEF Serves
<1>3. ASSUME srv.open # "none", CellsFollow(down, c.slots, srv.box[srv.open])
      PROVE  CellsFollow(down \o r, c.slots, srv'.box[srv.open])
  <2> SUFFICES ASSUME NEW s \in Slots
               PROVE  Latest(down \o r, CellHit(s), CellVal, c.slots[s], Len(down \o r) + 1,
                             srv'.box[srv.open][s])
    BY DEF CellsFollow
  <2>0. down \in Seq(GoodDowns) /\ Len(r) \in {0, 1}
    <3>1. down \in Seq(GoodDowns)
      BY DEF Inv, Types
    <3>2. Len(r) \in Nat
      OBVIOUS
    <3>3. \A n \in Nat : n <= 1 => n \in {0, 1}
      OBVIOUS
    <3> QED BY <3>1, <3>2, <3>3, Zenon
  <2>1. CASE Len(r) = 1 /\ r[1] \in CellHit(s)
    <3>1. 1 \in 1 .. Len(r) /\ \A i \in 1 + 1 .. Len(r) : r[i] \notin CellHit(s)
      BY <2>1
    <3>2. Latest(down \o r, CellHit(s), CellVal, c.slots[s], Len(down \o r) + 1, CellVal[r[1]])
      BY <2>0, <2>1, <3>1, LatestHits
    <3> QED BY <1>3, <2>1, <3>2
  <2>2. CASE ~(Len(r) = 1 /\ r[1] \in CellHit(s))
    <3>1. Latest(down, CellHit(s), CellVal, c.slots[s], Len(down) + 1, srv.box[srv.open][s])
      BY <1>3 DEF CellsFollow
    <3>2. /\ Len(r) + 1 \in 1 .. Len(r) + 1
          /\ \A i \in 1 .. (Len(r) + 1) - 1 : r[i] \notin CellHit(s)
          /\ Len(down) + (Len(r) + 1) = Len(down \o r) + 1
      BY <2>0, <2>2
    <3>3. Latest(down \o r, CellHit(s), CellVal, c.slots[s], Len(down) + (Len(r) + 1),
                 srv.box[srv.open][s])
      BY <2>0, <3>1, <3>2, LatestPasses
    <3> QED BY <1>3, <2>2, <3>2, <3>3
  <2> QED BY <2>1, <2>2
<1>4. Faithful'
  BY <1>2, <1>3, WorkStaysDue DEF Inv, Faithful, Serves
<1> QED BY <1>1, <1>4 DEF Inv

\* The server drops the request, or has no box open.
LEMMA SilentKeepsInv ==
    ASSUME Inv, Serves(<<>>), UNCHANGED srv, srv.open = "none" \/ Head(up).cmd # "work"
    PROVE  Inv'
<1>0. <<>> \in Seq(GoodDowns) /\ Len(<<>>) = 0 /\ DOMAIN <<>> = {}
  OBVIOUS
<1>1. PICK r \in Seq(GoodDowns) : r = <<>> /\ Len(r) = 0 /\ DOMAIN r = {}
  BY <1>0, Zenon
<1>2. Serves(r)
  BY <1>1
<1>3. /\ Len(r) <= 1 /\ Len(r) # 1 /\ srv'.open = srv.open /\ srv'.box = srv.box
      /\ \A i \in DOMAIN r : r[i] \notin OpenHit /\ (r[i] \in Fills => srv.open # "none")
  BY <1>1
<1> QED BY <1>2, <1>3, AnswerKeepsInv

\* Nothing that changes a cell is answered.
LEMMA ReplyKeepsInv ==
    ASSUME Inv, NEW m \in GoodDowns, Serves(<<m>>), srv'.open = srv.open, srv'.box = srv.box,
           m \notin OpenHit, m \notin Fills, \A s \in Slots : m \notin CellHit(s),
           srv.open = "none" \/ Head(up).cmd # "work"
    PROVE  Inv'
<1>0. <<m>> \in Seq(GoodDowns)
  OBVIOUS
<1>1. PICK r \in Seq(GoodDowns) : r = <<m>>
  BY <1>0, Zenon
<1>2. Serves(r) /\ Len(r) = 1 /\ r[1] = m /\ DOMAIN r = {1} /\ Len(r) <= 1
  BY <1>1
<1>3. \A i \in DOMAIN r : r[i] \notin OpenHit /\ (r[i] \in Fills => srv.open # "none")
  BY <1>2
<1>4. \A s \in Slots : srv'.box[srv.open][s] =
            IF Len(r) = 1 /\ r[1] \in CellHit(s) THEN CellVal[r[1]] ELSE srv.box[srv.open][s]
  BY <1>2
<1> QED BY <1>2, <1>3, <1>4, AnswerKeepsInv

\* One cell of the open box changes and the answer says so.
LEMMA CellKeepsInv ==
    ASSUME Inv, NEW m \in GoodDowns, Serves(<<m>>), srv'.open = srv.open, srv.open # "none",
           m.ok, m.cmd \in Filling \cup Emptying, Head(up).cmd # "work",
           srv'.box = [srv.box EXCEPT ![srv.open][m.slot] = CellVal[m]]
    PROVE  Inv'
<1>0. <<m>> \in Seq(GoodDowns)
  OBVIOUS
<1>1. PICK r \in Seq(GoodDowns) : r = <<m>>
  BY <1>0, Zenon
<1>4. Serves(r) /\ Len(r) = 1 /\ r[1] = m /\ DOMAIN r = {1} /\ Len(r) <= 1
  BY <1>1
<1>2. m \notin OpenHit /\ \A s \in Slots : m \in CellHit(s) <=> s = m.slot
  BY DEF OpenHit, CellHit, Filling, Emptying
<1>3. \A s \in Slots : srv'.box[srv.open][s] =
            IF s = m.slot THEN CellVal[m] ELSE srv.box[srv.open][s]
  BY DEF Inv, Types, Servers, Openings
<1>5. \A i \in DOMAIN r : r[i] \notin OpenHit /\ (r[i] \in Fills => srv.open # "none")
  BY <1>2, <1>4
<1>6. \A s \in Slots : srv'.box[srv.open][s] =
            IF Len(r) = 1 /\ r[1] \in CellHit(s) THEN CellVal[r[1]] ELSE srv.box[srv.open][s]
  BY <1>2, <1>3, <1>4
<1> QED BY <1>4, <1>5, <1>6, AnswerKeepsInv

-----------------------------------------------------------------------------
(* The server's steps.                                                        *)

\* The histories stay typed.
LEMMA HistoryTyped ==
    ASSUME hist \in Histories, NEW b, NEW f \in BOOLEAN
    PROVE  /\ [hist EXCEPT !.again = hist.again \/ b] \in Histories
           /\ [hist EXCEPT !.again = hist.again \/ b, !.news = f] \in Histories
           /\ [hist EXCEPT !.news = hist.news \/ b] \in Histories
           /\ [hist EXCEPT !.again = f] \in Histories
           /\ [hist EXCEPT !.news = f] \in Histories
<1>1. PICK x \in BOOLEAN : x = (hist.again \/ b)
  OBVIOUS
<1>2. PICK y \in BOOLEAN : y = (hist.news \/ b)
  OBVIOUS
<1>3. /\ [hist EXCEPT !.again = x] \in Histories
      /\ [hist EXCEPT !.again = x, !.news = f] \in Histories
      /\ [hist EXCEPT !.news = y] \in Histories
      /\ [hist EXCEPT !.again = f] \in Histories
      /\ [hist EXCEPT !.news = f] \in Histories
  BY DEF Histories
<1> QED BY <1>1, <1>2, <1>3, Zenon

\* The server's own state, and the request it has before it.
LEMMA ServedTyped ==
    ASSUME Inv, up # <<>>
    PROVE  /\ Head(up) \in GoodUps /\ Head(up).box \in Boxes
           /\ srv \in Servers /\ srv.open \in Openings /\ hist \in Histories /\ used \in Budget
           /\ \A s \in srv.taken : s \in Slots /\ srv.box["out"][s] = "sent"
           /\ \A b \in Boxes, s \in Slots : srv.box[b][s] \in Stats
           /\ srv.queue \in Nat
<1>1. Head(up) \in GoodUps
  BY DEF Inv, Types
<1> QED BY <1>1 DEF Inv, Types, Servers, GoodUps, Ups

\* The box opens or closes: the last answer under way says which it is.
LEMMA HitStep ==
    ASSUME Inv, NEW m \in OpenHit, Serves(<<m>>), srv'.open = OpenVal[m]
    PROVE  Inv'
<1>1. m \in GoodDowns /\ m \notin Fills
  BY DEF OpenHit, Fills, Filling
<1>2. PICK r \in Seq(GoodDowns) : r = <<m>>
  <2>1. <<m>> \in Seq(GoodDowns)
    BY <1>1
  <2> QED BY <2>1, Zenon
<1>3. Serves(r) /\ Len(r) = 1 /\ r[1] = m
  BY <1>2
<1>4. /\ down \in Seq(GoodDowns) /\ down' = down \o r /\ c' = c
      /\ 1 \in 1 .. Len(r) /\ Len(down) \in Nat
  BY <1>3 DEF Inv, Types, Serves
<1>5. /\ DOMAIN down' = 1 .. Len(down) + 1 /\ down'[Len(down) + 1] = m
      /\ \A i \in 1 .. Len(down) : down'[i] = down[i]
  <2>1. DOMAIN (down \o r) = 1 .. Len(down) + 1 /\ (down \o r)[Len(down) + 1] = r[1]
    BY <1>3, <1>4, ConcatProperties
  <2>2. \A i \in 1 .. Len(down) : (down \o r)[i] = down[i]
    BY <1>4, ConcatProperties
  <2> QED BY <1>3, <1>4, <2>1, <2>2, Zenon
<1>6. OpenFollows(down', c'.open, srv'.open)
  <2>1. r[1] \in OpenHit /\ \A i \in 1 + 1 .. Len(r) : r[i] \notin OpenHit
    BY <1>3
  <2>2. Latest(down \o r, OpenHit, OpenVal, c.open, Len(down \o r) + 1, OpenVal[r[1]])
    BY <1>4, <2>1, LatestHits
  <2> QED BY <1>3, <1>4, <2>2 DEF OpenFollows
<1>7. FillsOpen(down', c'.open)
  <2> SUFFICES ASSUME NEW k \in DOMAIN down', down'[k] \in Fills
               PROVE  \E b \in Boxes : Latest(down', OpenHit, OpenVal, c.open, k, b)
    BY <1>4 DEF FillsOpen
  <2>1. k \in 1 .. Len(down) + 1 /\ k # Len(down) + 1
    BY <1>1, <1>5
  <2>2. k \in DOMAIN down /\ k \in Nat \ {0} /\ \A i \in 1 .. k : down'[i] = down[i]
    BY <1>4, <1>5, <2>1
  <2>3. PICK b \in Boxes : Latest(down, OpenHit, OpenVal, c.open, k, b)
    BY <1>5, <2>2 DEF Inv, Faithful, FillsOpen
  <2>4. \A i \in 1 .. k - 1 : down'[i] = down[i]
    BY <2>2
  <2> QED BY <2>2, <2>3, <2>4, LatestPrefix
<1>8. srv'.open = "none" \/ WorkDue(up', down')
  <2>1. CASE m.cmd = "open"
    <3>1. Len(down) + 1 \in DOMAIN down'
      BY <1>4, <1>5
    <3> QED BY <1>5, <2>1, <3>1 DEF WorkDue
  <2>2. CASE m.cmd # "open"
    BY <1>1, <2>2 DEF OpenVal
  <2> QED BY <2>1, <2>2
<1>9. Types'
  BY <1>3, ServesTyped
<1>10. Faithful'
  BY <1>6, <1>7, <1>8 DEF Faithful
<1> QED BY <1>9, <1>10 DEF Inv

\* The server opens a box, again or not.
LEMMA OpenStep ==
    ASSUME Inv, ServeOpen
    PROVE  Inv'
<1> DEFINE m == Done("open", Head(up).box, NoSlot, "none")
<1>1. up # <<>> /\ Head(up).cmd = "open" /\ up' = Tail(up) /\ UNCHANGED <<c, used>>
  BY DEF ServeOpen, Request, Idle
<1>2. CASE /\ srv.open # "none" /\ UNCHANGED <<srv, down>>
           /\ hist' = [hist EXCEPT !.again = TRUE]
  <2>1. hist' \in Histories
    BY <1>1, <1>2, HistoryTyped, ServedTyped
  <2>2. down' = down \o <<>>
    BY <1>2, QueueTyped DEF Inv, Types
  <2>3. Serves(<<>>)
    BY <1>1, <1>2, <2>1, <2>2 DEF Serves, Inv, Types
  <2> QED BY <1>1, <1>2, <2>3, SilentKeepsInv
<1>3. CASE /\ srv' = [srv EXCEPT !.open = Head(up).box, !.accepted = {}]
           /\ Tell(<<m>>)
           /\ hist' = [hist EXCEPT !.again = hist.again \/ (srv.open # "none"), !.news = FALSE]
  <2>1. Head(up).box \in Boxes
    BY <1>1, ServedTyped
  <2>2. m \in OpenHit /\ OpenVal[m] = Head(up).box
    BY <2>1 DEF Done, Reply, GoodDowns, Downs, Asks, NoSlot, Stats, Filling, Emptying,
                OpenHit, OpenVal
  <2> HIDE DEF m
  <2>3. /\ srv' \in Servers /\ srv'.open = Head(up).box /\ srv'.taken = srv.taken
        /\ srv'.box = srv.box
    BY <1>1, <1>3, <2>1, ServedTyped DEF Servers, Openings
  <2>4. hist' \in Histories
    BY <1>1, <1>3, HistoryTyped, ServedTyped
  <2>5. Serves(<<m>>)
    BY <1>1, <1>3, <2>3, <2>4 DEF Serves, Inv, Types, Tell
  <2> QED BY <2>2, <2>3, <2>5, HitStep
<1> QED BY <1>2, <1>3 DEF ServeOpen

\* The server closes its box.
LEMMA CloseStep ==
    ASSUME Inv, ServeClose
    PROVE  Inv'
<1> DEFINE m == Done("close", Head(up).box, NoSlot, "none")
<1>1. /\ up # <<>> /\ Head(up).cmd = "close" /\ up' = Tail(up) /\ UNCHANGED <<c, used, hist>>
  BY DEF ServeClose, Request, Idle
<1>2. CASE srv.open = "none" /\ UNCHANGED <<srv, down>>
  <2>1. down' = down \o <<>>
    BY <1>2, QueueTyped DEF Inv, Types
  <2>2. Serves(<<>>)
    BY <1>1, <1>2, <2>1 DEF Serves, Inv, Types
  <2> QED BY <1>1, <1>2, <2>2, SilentKeepsInv
<1>3. CASE srv' = [srv EXCEPT !.open = "none", !.accepted = {}] /\ Tell(<<m>>)
  <2>1. Head(up).box \in Boxes
    BY <1>1, ServedTyped
  <2>2. m \in OpenHit /\ OpenVal[m] = "none"
    BY <2>1 DEF Done, Reply, GoodDowns, Downs, Asks, NoSlot, Stats, Filling, Emptying,
                OpenHit, OpenVal
  <2> HIDE DEF m
  <2>3. /\ srv' \in Servers /\ srv'.open = "none" /\ srv'.taken = srv.taken
        /\ srv'.box = srv.box
    BY <1>1, <1>3, ServedTyped DEF Servers, Openings
  <2>4. Serves(<<m>>)
    BY <1>1, <1>3, <2>3 DEF Serves, Inv, Types, Tell
  <2> QED BY <2>2, <2>3, <2>4, HitStep
<1> QED BY <1>2, <1>3 DEF ServeClose

\* A request is dropped without an answer.
LEMMA DropStep ==
    ASSUME Inv, up # <<>>, up' = Tail(up), UNCHANGED <<c, used, srv, down>>, hist' \in Histories,
           srv.open = "none" \/ Head(up).cmd # "work"
    PROVE  Inv'
<1>1. down' = down \o <<>>
  BY QueueTyped DEF Inv, Types
<1>2. Serves(<<>>)
  BY <1>1 DEF Serves, Inv, Types
<1> QED BY <1>2, SilentKeepsInv

\* The rows of a listing: one for each cell of the open box.
LEMMA RowsTyped ==
    ASSUME Inv, NEW b \in Boxes, srv.open # "none"
    PROVE  /\ Rows(b) \in Seq(GoodDowns) /\ Len(Rows(b)) = NSlots
           /\ \A i \in 1 .. NSlots : /\ Rows(b)[i] \notin OpenHit
                                     /\ CellVal[Rows(b)[i]] = Cells[i]
                                     /\ \A s \in Slots : Rows(b)[i] \in CellHit(s) <=> s = i
<1>1. \A i \in Slots : Rows(b)[i] = Done("work", b, i, Cells[i]) /\ Cells[i] \in Stats
  BY DEF Rows, Cells, Inv, Types, Servers, Openings
<1>2. \A i \in Slots : /\ Rows(b)[i] \in GoodDowns /\ Rows(b)[i].ok /\ Rows(b)[i].cmd = "work"
                        /\ Rows(b)[i].slot = i /\ Rows(b)[i].cell = Cells[i]
  <2>1. ASSUME NEW i \in Slots, NEW x \in Stats
        PROVE  /\ Done("work", b, i, x) \in GoodDowns /\ Done("work", b, i, x).ok
               /\ Done("work", b, i, x).cmd = "work" /\ Done("work", b, i, x).slot = i
               /\ Done("work", b, i, x).cell = x
    BY DEF Done, Reply, GoodDowns, Downs, Asks
  <2> QED BY <1>1, <2>1
<1>3. Rows(b) \in [1 .. NSlots -> GoodDowns] /\ NSlots \in Nat
  BY <1>2, BoundsAssumption DEF Rows, Slots
<1>4. Rows(b) \in Seq(GoodDowns) /\ Len(Rows(b)) = NSlots
  <2>1. \A f \in [1 .. NSlots -> GoodDowns] : f \in Seq(GoodDowns) /\ Len(f) = NSlots
    BY <1>3, SeqDef
  <2> QED BY <1>3, <2>1
<1>5. \A m \in GoodDowns : m.ok /\ m.cmd = "work" =>
            /\ m \notin OpenHit /\ CellVal[m] = m.cell
            /\ \A s \in Slots : m \in CellHit(s) <=> s = m.slot
  BY DEF OpenHit, CellVal, CellHit, Filling
<1> QED BY <1>2, <1>4, <1>5 DEF Slots

\* A listing or a count is answered.
LEMMA ListStep ==
    ASSUME Inv, ServeList
    PROVE  Inv'
<1> DEFINE m == Head(up)
<1>1. /\ up # <<>> /\ m.cmd \in {"work", "check"} /\ up' = Tail(up)
      /\ UNCHANGED <<c, used, srv, hist>>
  BY DEF ServeList, Request, Idle
<1>2. /\ m.box \in Boxes /\ srv \in Servers /\ srv.open \in Openings /\ srv.queue \in Nat
      /\ hist \in Histories /\ down \in Seq(GoodDowns)
  BY <1>1, ServedTyped DEF Inv, Types
<1>3. CASE UNCHANGED down /\ (srv.open = "none" \/ m.cmd # "work")
  BY <1>1, <1>2, <1>3, DropStep
<1>4. CASE srv.open # "none" /\ m.cmd = "work" /\ down' = down \o Rows(m.box)
  <2>1. PICK r \in Seq(GoodDowns) :
            /\ r = Rows(m.box) /\ Len(r) = NSlots
            /\ \A i \in 1 .. NSlots : /\ r[i] \notin OpenHit /\ CellVal[r[i]] = Cells[i]
                                      /\ \A s \in Slots : r[i] \in CellHit(s) <=> s = i
    BY <1>2, <1>4, RowsTyped
  <2>2. Serves(r)
    BY <1>1, <1>4, <2>1 DEF Serves, Inv, Types
  <2>3. Types'
    BY <2>2, ServesTyped
  <2>4. OpenFollows(down', c'.open, srv'.open) /\ FillsOpen(down', c'.open)
    BY <1>1, <1>4, <2>1, RepliesKeepOpen
  <2>5. CellsFollow(down', c'.slots, srv'.box[srv'.open])
    <3> SUFFICES ASSUME NEW s \in Slots
                 PROVE  Latest(down \o r, CellHit(s), CellVal, c.slots[s], Len(down \o r) + 1,
                               Cells[s])
      BY <1>1, <1>4, <2>1 DEF CellsFollow, Cells
    <3>1. s \in 1 .. Len(r) /\ r[s] \in CellHit(s) /\ CellVal[r[s]] = Cells[s]
      BY <2>1 DEF Slots
    <3>2. \A i \in s + 1 .. Len(r) : r[i] \notin CellHit(s)
      BY <2>1, BoundsAssumption DEF Slots
    <3>3. Latest(down \o r, CellHit(s), CellVal, c.slots[s], Len(down \o r) + 1, CellVal[r[s]])
      BY <1>2, <3>1, <3>2, LatestHits
    <3> QED BY <3>1, <3>3
  <2>6. Faithful'
    BY <2>4, <2>5 DEF Faithful
  <2> QED BY <2>3, <2>6 DEF Inv
<1>5. CASE \E n \in Nat : m.cmd = "check" /\ Tell(<<Reply("check", m.box, NoSlot, "none", n)>>)
  <2>1. PICK n \in Nat : m.cmd = "check" /\ Tell(<<Reply("check", m.box, NoSlot, "none", n)>>)
    BY <1>5
  <2> DEFINE a == Reply("check", m.box, NoSlot, "none", n)
  <2>2. /\ a \in GoodDowns /\ a \notin OpenHit /\ a \notin Fills
        /\ \A s \in Slots : a \notin CellHit(s)
    BY <1>2 DEF Reply, GoodDowns, Downs, Asks, NoSlot, Stats, OpenHit, Fills, Filling, Emptying,
                CellHit
  <2> HIDE DEF a
  <2>3. Serves(<<a>>)
    BY <1>1, <2>1 DEF Serves, Inv, Types, Tell, a
  <2>4. m.cmd # "work"
    BY <2>1
  <2> QED BY <1>1, <2>2, <2>3, <2>4, ReplyKeepsInv
<1>6. \/ UNCHANGED down /\ (srv.open = "none" \/ m.cmd # "work")
      \/ srv.open # "none" /\ m.cmd = "work" /\ down' = down \o Rows(m.box)
      \/ \E n \in Nat : m.cmd = "check" /\ Tell(<<Reply("check", m.box, NoSlot, "none", n)>>)
  <2>1. CASE srv.open = "none"
    BY <2>1 DEF ServeList
  <2>2. CASE srv.open # "none" /\ m.cmd = "work"
    BY <2>2 DEF ServeList, Tell
  <2>3. CASE srv.open # "none" /\ m.cmd # "work" /\ m.box # srv.open
    BY <2>3 DEF ServeList
  <2>4. CASE srv.open # "none" /\ m.cmd # "work" /\ m.box = srv.open
    <3> DEFINE n == IF m.box = "in" THEN srv.queue ELSE IF srv.taken = {} THEN 0 ELSE 1
    <3>1. n \in Nat
      BY <1>2
    <3>2. Tell(<<Reply("check", m.box, NoSlot, "none", n)>>)
      BY <2>4 DEF ServeList
    <3>3. m.cmd = "check"
      BY <1>1, <2>4
    <3> QED BY <3>1, <3>2, <3>3
  <2> QED BY <2>1, <2>2, <2>3, <2>4
<1> QED BY <1>3, <1>4, <1>5, <1>6

\* A waiting parcel comes into the inbox.
LEMMA RecvStep ==
    ASSUME Inv, ServeRecv
    PROVE  Inv'
<1> DEFINE s == Head(up).slot
           m == Done("recv", "in", s, "parcel")
<1>1. /\ up # <<>> /\ Head(up).cmd = "recv" /\ up' = Tail(up) /\ UNCHANGED <<c, used, hist>>
  BY DEF ServeRecv, Request, Idle
<1>2. CASE UNCHANGED <<srv, down>>
  BY <1>1, <1>2, DropStep DEF Inv, Types
<1>3. CASE /\ srv.open = "in" /\ srv.queue > 0 /\ Cells[s] = "none"
           /\ srv' = [srv EXCEPT !.box["in"][s] = "parcel", !.queue = srv.queue - 1]
           /\ Tell(<<m>>)
  <2>1. s \in Slots /\ srv \in Servers /\ srv.queue \in Nat
        /\ \A t \in srv.taken : srv.box["out"][t] = "sent"
    BY <1>1, ServedTyped DEF GoodUps, OnCell
  <2>2. m \in GoodDowns /\ m.ok /\ m.cmd = "recv" /\ m.slot = s /\ m.cell = "parcel"
    BY <2>1 DEF Done, Reply, GoodDowns, Downs, Asks, Boxes, Stats
  <2> HIDE DEF m
  <2>3. CellVal[m] = "parcel" /\ m.cmd \in Filling \cup Emptying
    BY <2>2 DEF CellVal, Filling
  <2>4. PICK f \in [Boxes -> [Slots -> Stats]] : f = [srv.box EXCEPT !["in"][s] = "parcel"]
    <3>1. [srv.box EXCEPT !["in"][s] = "parcel"] \in [Boxes -> [Slots -> Stats]]
      BY <2>1 DEF Servers, Boxes, Stats
    <3> QED BY <3>1
  <2>5. srv' = [srv EXCEPT !.box = f, !.queue = srv.queue - 1]
    <3>1. [srv EXCEPT !.box["in"][s] = "parcel", !.queue = srv.queue - 1]
            = [srv EXCEPT !.box = [srv.box EXCEPT !["in"][s] = "parcel"], !.queue = srv.queue - 1]
      OBVIOUS
    <3> QED BY <1>3, <2>4, <3>1, Zenon
  <2>6. /\ srv' \in Servers /\ srv'.box = f /\ srv'.open = srv.open /\ srv'.taken = srv.taken
    <3>1. PICK n \in Nat : n = srv.queue - 1
      BY <1>3, <2>1
    <3>2. srv' = [srv EXCEPT !.box = f, !.queue = n]
      BY <2>5, <3>1, Zenon
    <3> QED BY <2>1, <3>2 DEF Servers
  <2>7. f["out"] = srv.box["out"]
    BY <2>4, <2>1 DEF Servers, Boxes
  <2>8. Serves(<<m>>)
    BY <1>1, <1>3, <2>1, <2>6, <2>7 DEF Serves, Inv, Types, Tell
  <2> QED BY <1>1, <1>3, <2>2, <2>3, <2>4, <2>6, <2>8, CellKeepsInv
<1> QED BY <1>2, <1>3 DEF ServeRecv

\* A delivered parcel leaves the outbox.
LEMMA ConfirmStep ==
    ASSUME Inv, ServeConfirm
    PROVE  Inv'
<1>1. /\ up # <<>> /\ Head(up).cmd = "confirm" /\ up' = Tail(up) /\ UNCHANGED <<c, used, hist>>
  BY DEF ServeConfirm, Request, Idle
<1>2. CASE UNCHANGED <<srv, down>>
  BY <1>1, <1>2, DropStep DEF Inv, Types
<1>3. CASE srv.open = "out" /\ \E s \in srv.taken :
            /\ srv' = [srv EXCEPT !.box["out"][s] = "none", !.taken = srv.taken \ {s}]
            /\ Tell(<<Done("confirm", "out", s, "none")>>)
  <2>0. PICK s \in srv.taken :
            /\ srv' = [srv EXCEPT !.box["out"][s] = "none", !.taken = srv.taken \ {s}]
            /\ Tell(<<Done("confirm", "out", s, "none")>>)
    BY <1>3
  <2> DEFINE m == Done("confirm", "out", s, "none")
  <2>1. s \in Slots /\ srv \in Servers /\ \A t \in srv.taken : srv.box["out"][t] = "sent"
    BY <1>1, ServedTyped
  <2>2. m \in GoodDowns /\ m.ok /\ m.cmd = "confirm" /\ m.slot = s
    BY <2>1 DEF Done, Reply, GoodDowns, Downs, Asks, Boxes, Stats
  <2> HIDE DEF m
  <2>3. CellVal[m] = "none" /\ m.cmd \in Filling \cup Emptying
    BY <2>2 DEF CellVal, Filling, Emptying
  <2>4. PICK f \in [Boxes -> [Slots -> Stats]] : f = [srv.box EXCEPT !["out"][s] = "none"]
    <3>1. [srv.box EXCEPT !["out"][s] = "none"] \in [Boxes -> [Slots -> Stats]]
      BY <2>1 DEF Servers, Boxes, Stats
    <3> QED BY <3>1
  <2>5. srv' = [srv EXCEPT !.box = f, !.taken = srv.taken \ {s}]
    <3>1. [srv EXCEPT !.box["out"][s] = "none", !.taken = srv.taken \ {s}]
            = [srv EXCEPT !.box = [srv.box EXCEPT !["out"][s] = "none"], !.taken = srv.taken \ {s}]
      OBVIOUS
    <3> QED BY <2>0, <2>4, <3>1, Zenon
  <2>6. /\ srv' \in Servers /\ srv'.box = f /\ srv'.open = srv.open
        /\ srv'.taken = srv.taken \ {s}
    <3>1. PICK u \in SUBSET Slots : u = srv.taken \ {s}
      BY <2>1 DEF Servers
    <3>2. srv' = [srv EXCEPT !.box = f, !.taken = u]
      BY <2>5, <3>1, Zenon
    <3>3. srv' \in Servers /\ srv'.box = f /\ srv'.open = srv.open /\ srv'.taken = u
      BY <2>1, <3>2 DEF Servers
    <3> QED BY <3>1, <3>3, Zenon
  <2>7. \A t \in Slots : t # s => f["out"][t] = srv.box["out"][t]
    BY <2>1, <2>4 DEF Servers, Boxes
  <2>8. \A t \in srv'.taken : srv'.box["out"][t] = "sent"
    BY <2>1, <2>6, <2>7 DEF Servers
  <2>9. Serves(<<m>>)
    BY <1>1, <2>0, <2>6, <2>8 DEF Serves, Inv, Types, Tell, m
  <2> QED BY <1>1, <1>3, <2>2, <2>3, <2>4, <2>6, <2>9, CellKeepsInv
<1> QED BY <1>2, <1>3 DEF ServeConfirm

\* A parcel is accepted.
LEMMA AcceptStep ==
    ASSUME Inv, ServeAccept
    PROVE  Inv'
<1> DEFINE s == Head(up).slot
           m == Done("accept", "in", s, "none")
<1>1. /\ up # <<>> /\ Head(up).cmd = "accept" /\ up' = Tail(up) /\ UNCHANGED <<c, used, hist>>
  BY DEF ServeAccept, Request, Idle
<1>2. CASE UNCHANGED <<srv, down>>
  BY <1>1, <1>2, DropStep DEF Inv, Types
<1>3. CASE srv' = [srv EXCEPT !.accepted = srv.accepted \cup {s}] /\ Tell(<<m>>)
  <2>1. s \in Slots /\ srv \in Servers
    BY <1>1, ServedTyped DEF GoodUps, OnCell
  <2>2. /\ m \in GoodDowns /\ m \notin OpenHit /\ m \notin Fills
        /\ \A t \in Slots : m \notin CellHit(t)
    BY <2>1 DEF Done, Reply, GoodDowns, Downs, Asks, Boxes, Stats, OpenHit, Fills, Filling,
                Emptying, CellHit
  <2> HIDE DEF m
  <2>3. PICK u \in SUBSET Slots : u = srv.accepted \cup {s}
    BY <2>1 DEF Servers
  <2>4. srv' = [srv EXCEPT !.accepted = u]
    BY <1>3, <2>3, Zenon
  <2>5. /\ srv' \in Servers /\ srv'.open = srv.open /\ srv'.box = srv.box
        /\ srv'.taken = srv.taken
    BY <2>1, <2>4 DEF Servers
  <2>6. Serves(<<m>>)
    BY <1>1, <1>3, <2>5 DEF Serves, Inv, Types, Tell
  <2> QED BY <1>1, <2>2, <2>5, <2>6, ReplyKeepsInv
<1> QED BY <1>2, <1>3 DEF ServeAccept

\* A cell of a box, of no parcel a recipient took, gets a new content.
LEMMA PutTyped ==
    ASSUME Inv, NEW b \in Boxes, NEW s \in Slots, NEW x \in Stats,
           srv' = [srv EXCEPT !.box[b][s] = x], b = "out" => s \notin srv.taken
    PROVE  /\ srv' \in Servers /\ srv'.open = srv.open
           /\ srv'.box = [srv.box EXCEPT ![b][s] = x]
           /\ \A t \in srv'.taken : srv'.box["out"][t] = "sent"
<1>1. srv \in Servers /\ \A t \in srv.taken : t \in Slots /\ srv.box["out"][t] = "sent"
  BY DEF Inv, Types, Servers
<1>2. PICK f \in [Boxes -> [Slots -> Stats]] : f = [srv.box EXCEPT ![b][s] = x]
  <2>1. [srv.box EXCEPT ![b][s] = x] \in [Boxes -> [Slots -> Stats]]
    BY <1>1 DEF Servers
  <2> QED BY <2>1
<1>3. srv' = [srv EXCEPT !.box = f]
  <2>1. [srv EXCEPT !.box[b][s] = x] = [srv EXCEPT !.box = [srv.box EXCEPT ![b][s] = x]]
    OBVIOUS
  <2> QED BY <1>2, <2>1, Zenon
<1>4. srv' \in Servers /\ srv'.box = f /\ srv'.open = srv.open /\ srv'.taken = srv.taken
  BY <1>1, <1>3 DEF Servers
<1>5. \A t \in srv.taken : f["out"][t] = srv.box["out"][t]
  <2> SUFFICES ASSUME NEW t \in srv.taken PROVE f["out"][t] = srv.box["out"][t]
    OBVIOUS
  <2>1. t \in Slots /\ (b = "out" => t # s)
    BY <1>1
  <2> QED BY <1>1, <1>2, <2>1 DEF Servers, Boxes
<1> QED BY <1>1, <1>2, <1>4, <1>5

\* A parcel is got or rejected.
LEMMA RemoveStep ==
    ASSUME Inv, ServeRemove
    PROVE  Inv'
<1> DEFINE n == Head(up)
           m == Done(n.cmd, n.box, n.slot, "none")
<1>1. /\ up # <<>> /\ n.cmd \in {"get", "reject"} /\ up' = Tail(up) /\ UNCHANGED <<c, used>>
      /\ hist' = [hist EXCEPT !.news = hist.news \/ (srv.queue > 0)]
  BY DEF ServeRemove, Request, Idle
<1>2. hist' \in Histories /\ used \in Budget
  BY <1>1, ServedTyped, HistoryTyped
<1>3. CASE UNCHANGED <<srv, down>>
  BY <1>1, <1>2, <1>3, DropStep
<1>4. CASE /\ srv.open = n.box /\ Cells[n.slot] \in {"parcel", "staged"}
           /\ Put(n.slot, "none") /\ Tell(<<m>>)
  <2>1. /\ n.slot \in Slots /\ n.box \in Boxes /\ n.box # "none"
        /\ \A t \in srv.taken : srv.box["out"][t] = "sent"
    BY <1>1, ServedTyped DEF GoodUps, OnCell, Boxes
  <2>2. m \in GoodDowns /\ m.ok /\ m.cmd \in {"get", "reject"} /\ m.slot = n.slot
    BY <1>1, <2>1 DEF Done, Reply, GoodDowns, Downs, Asks, Stats
  <2> HIDE DEF m
  <2>3. CellVal[m] = "none" /\ m.cmd \in Filling \cup Emptying
    BY <2>2 DEF CellVal, Filling, Emptying
  <2>4. n.box = "out" => n.slot \notin srv.taken
    BY <1>4, <2>1 DEF Cells
  <2>5. srv' = [srv EXCEPT !.box[n.box][n.slot] = "none"]
    BY <1>4 DEF Put
  <2> HIDE DEF n
  <2>6. /\ srv' \in Servers /\ srv'.open = srv.open
        /\ srv'.box = [srv.box EXCEPT ![n.box][n.slot] = "none"]
        /\ \A t \in srv'.taken : srv'.box["out"][t] = "sent"
    BY <2>1, <2>4, <2>5, PutTyped DEF Stats
  <2>7. Serves(<<m>>)
    BY <1>1, <1>2, <1>4, <2>6 DEF Serves, Tell
  <2>8. Head(up).cmd # "work" /\ srv.open # "none"
    BY <1>1, <1>4, <2>1 DEF n
  <2> QED BY <1>4, <2>2, <2>3, <2>6, <2>7, <2>8, CellKeepsInv
<1> QED BY <1>3, <1>4 DEF ServeRemove

\* A parcel is set, sent or cancelled.
LEMMA StagedStep ==
    ASSUME Inv, ServeStaged
    PROVE  Inv'
<1> DEFINE n == Head(up)
           x == Turns[n.cmd].to
           m == Done(n.cmd, "out", n.slot, x)
<1>1. /\ up # <<>> /\ n.cmd \in {"set", "send", "cancel"} /\ up' = Tail(up)
      /\ UNCHANGED <<c, used, hist>>
  BY DEF ServeStaged, Request, Idle, Turns
<1>2. CASE UNCHANGED <<srv, down>>
  BY <1>1, <1>2, DropStep DEF Inv, Types
<1>3. CASE srv.open = "out" /\ n.slot \notin srv.taken /\ Put(n.slot, x) /\ Tell(<<m>>)
  <2>1. n.slot \in Slots /\ x \in Stats
    BY <1>1, ServedTyped DEF GoodUps, OnCell, Turns, Stats
  <2> HIDE DEF x
  <2>2. /\ m \in GoodDowns /\ m.ok /\ m.cmd \in {"set", "send", "cancel"} /\ m.slot = n.slot
        /\ m.cell = x
    BY <1>1, <2>1 DEF Done, Reply, GoodDowns, Downs, Asks, Boxes
  <2> HIDE DEF m
  <2>3. CellVal[m] = x /\ m.cmd \in Filling \cup Emptying
    BY <2>2 DEF CellVal, Filling
  <2>4. srv' = [srv EXCEPT !.box["out"][n.slot] = x]
    BY <1>3 DEF Put
  <2>5. Head(up).cmd # "work"
    BY <1>1
  <2> HIDE DEF n
  <2>6. /\ srv' \in Servers /\ srv'.open = srv.open
        /\ srv'.box = [srv.box EXCEPT !["out"][n.slot] = x]
        /\ \A t \in srv'.taken : srv'.box["out"][t] = "sent"
    BY <1>3, <2>1, <2>4, PutTyped DEF Boxes
  <2>7. Serves(<<m>>)
    BY <1>1, <1>3, <2>6 DEF Serves, Inv, Types, Tell
  <2> QED BY <1>3, <2>2, <2>3, <2>5, <2>6, <2>7, CellKeepsInv
<1> QED BY <1>2, <1>3 DEF ServeStaged

\* An error of the server.
LEMMA ErrorStep ==
    ASSUME Inv, up # <<>>, Serves(<<Failed(Head(up))>>), UNCHANGED srv, Head(up).cmd # "work"
    PROVE  Inv'
<1>1. Head(up) \in GoodUps
  BY ServedTyped
<1>2. PICK m \in GoodDowns : m = Failed(Head(up)) /\ ~m.ok
  BY <1>1, FailedTyped
<1>3. m \notin OpenHit /\ m \notin Fills /\ \A s : m \notin CellHit(s)
  BY <1>2, ErrorsPass
<1>4. Serves(<<m>>)
  BY <1>2
<1> QED BY <1>3, <1>4, ReplyKeepsInv

\* A name is checked.
LEMMA QueryStep ==
    ASSUME Inv, ServeQuery
    PROVE  Inv'
<1>1. /\ up # <<>> /\ Head(up).cmd = "query" /\ up' = Tail(up)
      /\ UNCHANGED <<c, used, srv, hist>>
  BY DEF ServeQuery, Request, Idle
<1>2. CASE Tell(<<Failed(Head(up))>>)
  <2>1. Serves(<<Failed(Head(up))>>)
    BY <1>1, <1>2 DEF Serves, Inv, Types, Tell
  <2> QED BY <1>1, <2>1, ErrorStep
<1>3. CASE Tell(<<Done("query", "out", NoSlot, "none")>>)
  <2> DEFINE m == Done("query", "out", NoSlot, "none")
  <2>1. /\ m \in GoodDowns /\ m \notin OpenHit /\ m \notin Fills
        /\ \A t \in Slots : m \notin CellHit(t)
    BY DEF Done, Reply, GoodDowns, Downs, Asks, Boxes, Stats, OpenHit, Fills, Filling,
           Emptying, CellHit, NoSlot
  <2>2. Serves(<<m>>)
    BY <1>1, <1>3 DEF Serves, Inv, Types, Tell
  <2> HIDE DEF m
  <2> QED BY <1>1, <2>1, <2>2, ReplyKeepsInv
<1> QED BY <1>2, <1>3 DEF ServeQuery

\* The server refuses.
LEMMA FailStep ==
    ASSUME Inv, Fail
    PROVE  Inv'
<1>1. /\ up # <<>> /\ Head(up).cmd # "work" /\ up' = Tail(up) /\ UNCHANGED <<c, srv>>
      /\ used' = [used EXCEPT !.errors = used.errors + 1]
      /\ hist' = [hist EXCEPT !.again = hist.again \/ (Head(up).cmd = "open" /\ srv.open # "none")]
      /\ used.lost + used.errors < MaxTrouble /\ Tell(<<Failed(Head(up))>>)
  BY DEF Fail, Request, Trouble
<1>2. hist' \in Histories /\ used \in Budget
  BY <1>1, ServedTyped, HistoryTyped
<1>3. PICK n \in 0 .. MaxTrouble : n = used.errors + 1
  BY <1>1, <1>2, BoundsAssumption DEF Budget
<1>4. used' = [used EXCEPT !.errors = n]
  BY <1>1, <1>3, Zenon
<1>5. used' \in Budget /\ used'.lost = used.lost
  BY <1>2, <1>4 DEF Budget
<1>6. Serves(<<Failed(Head(up))>>)
  BY <1>1, <1>2, <1>5 DEF Serves, Inv, Types, Tell
<1> QED BY <1>1, <1>6, ErrorStep

-----------------------------------------------------------------------------
(* Nothing is read or answered.                                               *)

\* A request is lost: the cells are promised no longer.
LEMMA LoseStep ==
    ASSUME Inv, Lose
    PROVE  Inv'
<1>1. /\ up # <<>> /\ up' = Tail(up) /\ UNCHANGED <<c, srv, down, hist>>
      /\ used' = [used EXCEPT !.lost = used.lost + 1] /\ used.lost + used.errors < MaxTrouble
  BY DEF Lose, Trouble
<1>2. used \in Budget /\ up' \in Seq(GoodUps)
  BY <1>1, QueueTyped DEF Inv, Types
<1>3. PICK n \in 0 .. MaxTrouble : n = used.lost + 1 /\ n # 0
  BY <1>1, <1>2, BoundsAssumption DEF Budget
<1>4. used' = [used EXCEPT !.lost = n]
  BY <1>1, <1>3, Zenon
<1>5. used' \in Budget /\ used'.lost # 0
  BY <1>2, <1>3, <1>4 DEF Budget
<1>6. Types'
  BY <1>1, <1>2, <1>5 DEF Inv, Types
<1>7. Faithful'
  BY <1>1, <1>5 DEF Inv, Faithful
<1> QED BY <1>6, <1>7 DEF Inv

\* A parcel arrives outside the box.
LEMMA ArriveStep ==
    ASSUME Inv, Arrive
    PROVE  Inv'
<1>1. /\ UNCHANGED <<c, up, down>> /\ used.parcels < MaxParcels
      /\ used' = [used EXCEPT !.parcels = used.parcels + 1]
      /\ srv' = [srv EXCEPT !.queue = srv.queue + 1] /\ hist' = [hist EXCEPT !.news = TRUE]
  BY DEF Arrive
<1>2. used \in Budget /\ hist \in Histories /\ srv \in Servers
  BY DEF Inv, Types
<1>3. PICK n \in 0 .. MaxParcels : n = used.parcels + 1
  BY <1>1, <1>2, BoundsAssumption DEF Budget
<1>4. used' = [used EXCEPT !.parcels = n]
  BY <1>1, <1>3, Zenon
<1>5. used' \in Budget /\ used'.lost = used.lost /\ hist' \in Histories
  BY <1>1, <1>2, <1>4 DEF Budget, Histories
<1>6. PICK k \in Nat : k = srv.queue + 1
  BY <1>2 DEF Servers
<1>7. srv' = [srv EXCEPT !.queue = k]
  BY <1>1, <1>6, Zenon
<1>8. /\ srv' \in Servers /\ srv'.open = srv.open /\ srv'.box = srv.box
      /\ srv'.taken = srv.taken
  BY <1>2, <1>7 DEF Servers
<1>9. Types'
  BY <1>1, <1>5, <1>8 DEF Inv, Types
<1>10. Faithful'
  BY <1>1, <1>5, <1>8 DEF Inv, Faithful
<1> QED BY <1>9, <1>10 DEF Inv

\* A recipient takes a parcel.
LEMMA DeliveredStep ==
    ASSUME Inv, Delivered
    PROVE  Inv'
<1>1. PICK s \in Slots :
        /\ srv.box["out"][s] = "sent" /\ srv' = [srv EXCEPT !.taken = srv.taken \cup {s}]
        /\ hist' = [hist EXCEPT !.news = TRUE] /\ UNCHANGED <<c, up, down, used>>
  BY DEF Delivered
<1>2. hist \in Histories /\ srv \in Servers /\ \A t \in srv.taken : srv.box["out"][t] = "sent"
  BY DEF Inv, Types
<1>3. PICK u \in SUBSET Slots : u = srv.taken \cup {s}
  BY <1>2 DEF Servers
<1>4. srv' = [srv EXCEPT !.taken = u]
  BY <1>1, <1>3, Zenon
<1>5. /\ srv' \in Servers /\ srv'.open = srv.open /\ srv'.box = srv.box /\ srv'.taken = u
  BY <1>2, <1>4 DEF Servers
<1>6. hist' \in Histories
  BY <1>1, <1>2 DEF Histories
<1>7. \A t \in srv'.taken : srv'.box["out"][t] = "sent"
  BY <1>1, <1>2, <1>3, <1>5
<1>8. Types'
  BY <1>1, <1>5, <1>6, <1>7 DEF Inv, Types
<1>9. Faithful'
  BY <1>1, <1>5 DEF Inv, Faithful
<1> QED BY <1>8, <1>9 DEF Inv

-----------------------------------------------------------------------------
(* The theorems.                                                              *)

\* Nothing is open and nothing under way.
LEMMA InitInv ==
    ASSUME Init
    PROVE  Inv
<1>1. /\ up = <<>> /\ down = <<>> /\ c.open = "none" /\ c.slots = Empty /\ srv.open = "none"
      /\ up \in Seq(GoodUps) /\ down \in Seq(GoodDowns)
      /\ Len(down) = 0 /\ DOMAIN down = {}
  BY DEF Init
<1>2. c \in Clients
  <2>1. Empty \in [Slots -> Stats]
    BY DEF Empty, Stats
  <2> QED BY <2>1 DEF Init, Clients, Openings, Typed
<1>3. hist \in Histories
  BY DEF Init, Histories
<1>4. srv \in Servers /\ srv.taken = {}
  <2>1. /\ srv \in [open : {"none"}, queue : 0 .. MaxParcels, taken : {{}}, accepted : {{}},
                     box : {[b \in Boxes |-> IF b = "in" THEN i ELSE o] :
                                i \in [Slots -> {"none", "parcel"}],
                                o \in [Slots -> {"none", "staged", "sent"}]}]
    BY DEF Init
  <2>2. PICK i \in [Slots -> {"none", "parcel"}], o \in [Slots -> {"none", "staged", "sent"}] :
            srv.box = [b \in Boxes |-> IF b = "in" THEN i ELSE o]
    BY <2>1
  <2>3. i \in [Slots -> Stats] /\ o \in [Slots -> Stats]
    BY DEF Stats
  <2>4. srv.box \in [Boxes -> [Slots -> Stats]]
    BY <2>2, <2>3
  <2> QED BY <2>1, <2>4, BoundsAssumption DEF Servers, Openings
<1>5. used \in Budget
  <2>1. /\ used = [orders |-> 0, lost |-> 0, errors |-> 0, parcels |-> srv.queue + Filled(srv.box)]
        /\ used.parcels <= MaxParcels /\ srv.queue \in Nat
    BY <1>4 DEF Init, Servers
  <2>2. Filled(srv.box) \in Nat
    <3>1. IsFiniteSet(Boxes) /\ IsFiniteSet(Slots)
      <4>1. IsFiniteSet({"in"}) /\ IsFiniteSet({"in"} \cup {"out"})
        BY FS_EmptySet, FS_Singleton, FS_Union
      <4>2. Boxes = {"in"} \cup {"out"}
        BY DEF Boxes
      <4> QED BY <4>1, <4>2, FS_Interval, BoundsAssumption DEF Slots
    <3>2. IsFiniteSet(Boxes \X Slots)
      BY <3>1, FS_Product
    <3>3. {x \in Boxes \X Slots : srv.box[x[1]][x[2]] # "none"} \subseteq Boxes \X Slots
      OBVIOUS
    <3> QED BY <3>2, <3>3, FS_Subset, FS_CardinalityType DEF Filled
  <2>3. PICK n \in Nat : n = srv.queue + Filled(srv.box)
    BY <2>1, <2>2
  <2>4. used = [orders |-> 0, lost |-> 0, errors |-> 0, parcels |-> n]
    BY <2>1, <2>3, Zenon
  <2>5. n \in 0 .. MaxParcels
    BY <2>1, <2>4, BoundsAssumption
  <2> QED BY <2>4, <2>5, BoundsAssumption DEF Budget
<1>6. Types
  BY <1>1, <1>2, <1>3, <1>4, <1>5 DEF Types
<1>7. Faithful
  BY <1>1 DEF Faithful, OpenFollows, FillsOpen, Latest
<1> QED BY <1>6, <1>7 DEF Inv

\* The invariant behind both theorems: once the answers under way are read,
\* the panel's box is the server's, and so are its cells unless a listing is
\* still to come.
THEOREM InvInductive == Spec => []Inv
<1>1. Init => Inv
  BY InitInv
<1>2. Inv /\ [Next]_vars => Inv'
  <2> SUFFICES ASSUME Inv, [Next]_vars PROVE Inv'
    OBVIOUS
  <2>1. CASE Next
    BY <2>1, OrdersStep, ObserveStep, OpenStep, CloseStep, ListStep, RecvStep, ConfirmStep,
       AcceptStep, RemoveStep, StagedStep, QueryStep, FailStep, LoseStep, ArriveStep,
       DeliveredStep, Zenon DEF Next, Serve
  <2>2. CASE UNCHANGED vars
    BY <2>2 DEF vars, Inv, Types, Faithful
  <2> QED BY <2>1, <2>2
<1> QED BY <1>1, <1>2, PTL DEF Spec

\* The state keeps its types, and the slots of a closed box are empty, for any
\* slots, names and bounds.
THEOREM TypeCorrect == Spec => []TypeOK
<1>1. Inv => TypeOK
  <2> SUFFICES ASSUME Inv PROVE TypeOK
    OBVIOUS
  <2>1. \A S, T : S \subseteq T => Seq(S) \subseteq Seq(T)
    OBVIOUS
  <2>2. up \in Seq(Ups) /\ down \in Seq(Downs)
    <3>1. GoodUps \subseteq Ups /\ GoodDowns \subseteq Downs
      BY DEF GoodUps, GoodDowns
    <3> QED BY <2>1, <3>1 DEF Inv, Types
  <2> QED BY <2>2 DEF Inv, Types, TypeOK, Ups, Downs
<1> QED BY <1>1, InvInductive, PTL

\* Once every answer is in, the panel (on_result of delivery_box.rs) shows the
\* box the server has open, cell by cell, for any slots, names and bounds.
THEOREM MirrorHolds == Spec => []MirrorAgrees
<1>1. Inv => MirrorAgrees
  <2> SUFFICES ASSUME Inv, Quiet
               PROVE  c.open = srv.open /\ (c.open # "none" => c.slots = srv.box[c.open])
    BY DEF MirrorAgrees
  <2>1. up = <<>> /\ down = <<>> /\ used.lost = 0 /\ Len(down) = 0 /\ ~WorkDue(up, down)
    BY DEF Quiet, WorkDue
  <2>2. c.open = srv.open
    BY <2>1 DEF Inv, Faithful, OpenFollows, Latest
  <2>3. ASSUME c.open # "none" PROVE c.slots = srv.box[c.open]
    <3>1. CellsFollow(down, c.slots, srv.box[srv.open])
      BY <2>1, <2>2, <2>3 DEF Inv, Faithful
    <3>2. \A s \in Slots : c.slots[s] = srv.box[srv.open][s]
      BY <2>1, <3>1 DEF CellsFollow, Latest
    <3>3. c.slots \in [Slots -> Stats] /\ srv.box[srv.open] \in [Slots -> Stats]
      BY <2>2, <2>3 DEF Inv, Types, Clients, Servers, Openings
    <3> QED BY <2>2, <3>2, <3>3
  <2> QED BY <2>2, <2>3
<1> QED BY <1>1, InvInductive, PTL

-----------------------------------------------------------------------------
(* The shapes of the steps, as far as takes and names go.                     *)

Turning == {"open", "close"}
Marks == Turning \cup {"query"}
InGet(m) == m.cmd = "get" /\ m.box = "in"

(* A command other than Take and Query: it adds requests, ends the take if it *)
(* asks for a box, and may drop the recipient when the box changes.           *)
Commands(r) ==
    /\ r \in Seq(GoodUps) /\ up' = up \o r /\ UNCHANGED <<srv, down, hist>>
    /\ \A i \in 1 .. Len(r) : r[i].cmd \notin {"accept", "query", "work"} /\ ~InGet(r[i])
    /\ c'.slots = c.slots
    /\ c'.take = NoSlot \/ (c'.take = c.take /\ \A i \in 1 .. Len(r) : r[i].cmd # "open")
    /\ c'.asked = c.asked /\ c'.name = c.name /\ c'.status = c.status /\ c'.open = c.open
    /\ c'.locked = c.locked
       \/ (c'.locked = NoName /\ \E i \in 1 .. Len(r) : r[i].cmd \in Turning)

Takes(s) ==
    /\ s \in Slots /\ up' = up \o <<OnSlot("accept", "in", s)>> /\ UNCHANGED <<srv, down>>
    /\ c' = [c EXCEPT !.take = s] /\ hist' = [hist EXCEPT !.takes = hist.takes \/ Taking]

Queries(n) ==
    /\ n \in Names /\ up' = up \o <<Ask("query", "out", NoSlot, n)>> /\ UNCHANGED <<srv, down>>
    /\ c.open = "out" /\ c' = [c EXCEPT !.asked = n, !.name = n, !.status = "pending"]
    /\ hist' = [hist EXCEPT !.names = hist.names \/ (c.asked # NoName \/ Leaving)]

(* The first request leaves: answered, refused, dropped or lost.              *)
Answers(r) ==
    /\ up # <<>> /\ up' = Tail(up) /\ r \in Seq(GoodDowns) /\ down' = down \o r /\ UNCHANGED c
    /\ \A i \in 1 .. Len(r) : r[i].cmd = Head(up).cmd
    /\ Head(up).cmd # "work" => Len(r) \in {0, 1}
    /\ Head(up).cmd = "query" => \A i \in 1 .. Len(r) : r[i].ok => Head(up).name \in Chars
    /\ Head(up).cmd \notin Turning => srv'.open = srv.open
    /\ Head(up).cmd # "open" /\ srv'.open = "in" =>
            srv.open = "in" /\ srv.accepted \subseteq srv'.accepted
    /\ Head(up).cmd = "accept" /\ srv.open = "in" /\ used'.lost + used'.errors = 0 =>
            Head(up).slot \in srv'.accepted
    /\ Head(up).cmd = "accept" =>
            \A i \in 1 .. Len(r) : r[i].ok => Head(up).slot \in srv'.accepted
    /\ Head(up).cmd \in Turning /\ srv.open # "none" /\ used'.lost = 0 /\ ~hist'.again =>
            \E i \in 1 .. Len(r) : r[i] \in OpenHit
    /\ hist'.takes = hist.takes /\ hist'.names = hist.names /\ (hist.again => hist'.again)

(* The first answer is read.                                                  *)
Reads(m, r) ==
    /\ down # <<>> /\ m = Head(down) /\ m \in GoodDowns /\ down' = Tail(down)
    /\ r \in Seq(GoodUps) /\ up' = up \o r /\ UNCHANGED <<srv, hist, used>>
    /\ \A i \in 1 .. Len(r) :
          /\ r[i].cmd \notin Marks \cup {"accept"}
          /\ InGet(r[i]) => m.cmd = "accept" /\ m.ok /\ c.take # NoSlot /\ r[i].slot = c.take
    /\ c'.take = NoSlot \/ (c'.take = c.take /\ m.cmd # "accept")
    /\ IF m \in OpenHit
       THEN /\ c'.open = OpenVal[m] /\ c'.name = NoName /\ c'.status = "unset"
            /\ c'.asked = c.asked /\ c'.locked = c.locked
       ELSE IF m.cmd = "query"
       THEN /\ c'.open = c.open /\ c'.asked = NoName
            /\ c'.status = (IF m.ok THEN "ok" ELSE "no") /\ (m.ok => c'.name = c.name)
            /\ c.asked # NoName => c'.locked = IF m.ok THEN c.asked ELSE NoName
       ELSE /\ c'.open = c.open /\ c'.name = c.name /\ c'.status = c.status
            /\ c'.asked = c.asked /\ c'.locked = c.locked

\* What a queue is after its first message left, ...
LEMMA Popped ==
    ASSUME NEW S, NEW q \in Seq(S), q # <<>>
    PROVE  /\ Tail(q) \in Seq(S) /\ Len(q) \in Nat \ {0} /\ Len(Tail(q)) = Len(q) - 1
           /\ Head(q) \in S /\ Head(q) = q[1]
           /\ \A i \in 1 .. Len(q) - 1 : Tail(q)[i] = q[i + 1]
OBVIOUS

\* ... and with others behind it.
LEMMA Joined ==
    ASSUME NEW S, NEW q \in Seq(S), NEW r \in Seq(S)
    PROVE  /\ q \o r \in Seq(S) /\ Len(q) \in Nat /\ Len(r) \in Nat
           /\ Len(q \o r) = Len(q) + Len(r)
           /\ \A i \in 1 .. Len(q) : (q \o r)[i] = q[i]
           /\ \A i \in 1 .. Len(r) : (q \o r)[Len(q) + i] = r[i]
           /\ \A i \in Len(q) + 1 .. Len(q) + Len(r) :
                    i - Len(q) \in 1 .. Len(r) /\ (q \o r)[i] = r[i - Len(q)]
OBVIOUS

Command(m) ==
    /\ up' = Append(up, m) /\ UNCHANGED <<srv, down, hist>>
    /\ m.cmd \notin {"accept", "query", "work"} /\ ~InGet(m) /\ c'.slots = c.slots
    /\ c'.take = NoSlot \/ (c'.take = c.take /\ m.cmd # "open")
    /\ c'.asked = c.asked /\ c'.name = c.name /\ c'.status = c.status /\ c'.open = c.open
    /\ c'.locked = c.locked \/ (c'.locked = NoName /\ m.cmd \in Turning)

\* A command of one request.
LEMMA OneCommand ==
    ASSUME Inv, NEW m \in GoodUps, Command(m)
    PROVE  \E r : Commands(r)
<1>1. up \in Seq(GoodUps)
  BY DEF Inv, Types
<1>2. up' = up \o <<m>> /\ <<m>> \in Seq(GoodUps)
  BY <1>1, AppendIsConcat, QueueTyped DEF Command
<1>3. Len(<<m>>) = 1 /\ <<m>>[1] = m
  OBVIOUS
<1>4. PICK r : r = <<m>>
  OBVIOUS
<1>5. Len(r) = 1 /\ r[1] = m /\ r \in Seq(GoodUps) /\ up' = up \o r
  BY <1>2, <1>3, <1>4
<1>6. Commands(r)
  BY <1>5 DEF Commands, Command
<1> QED BY <1>6

\* The commands of the player and the agent.
LEMMA OrdersShape ==
    ASSUME Inv, Orders
    PROVE  (\E r : Commands(r)) \/ (\E s : Takes(s)) \/ (\E n : Queries(n))
<1>1. /\ c \in Clients /\ up \in Seq(GoodUps)
      /\ c.open # "none" => c.open \in Boxes /\ Other(c.open) \in Boxes
  BY DEF Inv, Types, Clients, Openings, Boxes, Other
<1>2. /\ RequestOpen(c).take = NoSlot /\ RequestOpen(c).asked = c.asked
      /\ RequestOpen(c).name = c.name /\ RequestOpen(c).status = c.status
      /\ RequestOpen(c).open = c.open /\ RequestOpen(c).locked = c.locked
      /\ RequestOpen(c).slots = c.slots /\ RequestOpen(c) \in Clients
  BY <1>1 DEF RequestOpen, Clients
<1>3. ASSUME NEW cmd, NEW b PROVE OnBox(cmd, b).cmd = cmd
  BY DEF OnBox, Ask
<1>4. ASSUME NEW cmd, NEW b, NEW s PROVE OnSlot(cmd, b, s).cmd = cmd /\ OnSlot(cmd, b, s).box = b
  BY DEF OnSlot, Ask
<1>5. CASE MenuOpen
  <2>1. PICK b \in Boxes : /\ Order /\ Submit(OnBox("open", b))
                           /\ c' = [RequestOpen(c) EXCEPT !.menu = "suspended"]
    BY <1>5 DEF MenuOpen
  <2>2. /\ c'.take = NoSlot /\ c'.asked = c.asked /\ c'.name = c.name /\ c'.status = c.status
        /\ c'.open = c.open /\ c'.locked = c.locked /\ c'.slots = c.slots
    BY <1>2, <2>1 DEF Clients
  <2>3. PICK m : m = OnBox("open", b)
    OBVIOUS
  <2>4. m \in GoodUps /\ m.cmd = "open"
    BY <1>3, <2>3, AsksTyped
  <2>5. Command(m)
    BY <2>1, <2>2, <2>3, <2>4 DEF Command, Submit, Order, InGet, Turning
  <2> QED BY <2>4, <2>5, OneCommand
<1>6. CASE Open
  <2>1. PICK b \in Boxes : /\ Order /\ Submit(OnBox("open", b))
                           /\ c' = [RequestOpen(c) EXCEPT !.locked = NoName]
    BY <1>6 DEF Open
  <2>2. /\ c'.take = NoSlot /\ c'.asked = c.asked /\ c'.name = c.name /\ c'.status = c.status
        /\ c'.open = c.open /\ c'.locked = NoName /\ c'.slots = c.slots
    BY <1>2, <2>1 DEF Clients
  <2>3. PICK m : m = OnBox("open", b)
    OBVIOUS
  <2>4. m \in GoodUps /\ m.cmd = "open"
    BY <1>3, <2>3, AsksTyped
  <2>5. Command(m)
    BY <2>1, <2>2, <2>3, <2>4 DEF Command, Submit, Order, InGet, Turning
  <2> QED BY <2>4, <2>5, OneCommand
<1>7. CASE Close
  <2>1. /\ Order /\ Submit(OnBox("close", c.open)) /\ c.open # "none"
        /\ c' = [c EXCEPT !.locked = NoName]
    BY <1>7 DEF Close
  <2>2. /\ c'.take = c.take /\ c'.asked = c.asked /\ c'.name = c.name /\ c'.status = c.status
        /\ c'.open = c.open /\ c'.locked = NoName /\ c'.slots = c.slots
    BY <1>1, <2>1 DEF Clients
  <2>3. PICK m : m = OnBox("close", c.open)
    OBVIOUS
  <2>4. m \in GoodUps /\ m.cmd = "close"
    BY <1>1, <1>3, <2>1, <2>3, AsksTyped
  <2>5. Command(m)
    BY <2>1, <2>2, <2>3, <2>4 DEF Command, Submit, Order, InGet, Turning
  <2> QED BY <2>4, <2>5, OneCommand
<1>8. CASE Toggle
  <2>1. /\ Order /\ UNCHANGED hist /\ c.open # "none"
        /\ c' = [RequestOpen(c) EXCEPT !.locked = NoName]
        /\ up' = up \o <<OnBox("close", c.open), OnBox("open", Other(c.open))>>
    BY <1>8 DEF Toggle
  <2>2. /\ c'.take = NoSlot /\ c'.asked = c.asked /\ c'.name = c.name /\ c'.status = c.status
        /\ c'.open = c.open /\ c'.locked = NoName /\ c'.slots = c.slots
    BY <1>2, <2>1 DEF Clients
  <2>3. PICK m, n : m = OnBox("close", c.open) /\ n = OnBox("open", Other(c.open))
    OBVIOUS
  <2>4. m \in GoodUps /\ n \in GoodUps /\ m.cmd = "close" /\ n.cmd = "open"
    BY <1>1, <1>3, <2>1, <2>3, AsksTyped
  <2>5. Len(<<m, n>>) = 2 /\ <<m, n>>[1] = m /\ <<m, n>>[2] = n /\ <<m, n>> \in Seq(GoodUps)
    BY <2>4
  <2>6. PICK r : r = <<m, n>>
    OBVIOUS
  <2>7. /\ r \in Seq(GoodUps) /\ up' = up \o r /\ Len(r) = 2 /\ r[1] = m /\ r[2] = n
    BY <2>1, <2>3, <2>5, <2>6
  <2>8. \A i \in 1 .. Len(r) : r[i].cmd \in Turning
    BY <2>4, <2>7 DEF Turning
  <2>9. \A i \in 1 .. Len(r) : r[i].cmd \notin {"accept", "query", "work"} /\ ~InGet(r[i])
    BY <2>8 DEF Turning, InGet
  <2>10. \E i \in 1 .. Len(r) : r[i].cmd \in Turning
    BY <2>7, <2>8
  <2>11. Commands(r)
    BY <2>1, <2>2, <2>7, <2>9, <2>10 DEF Commands, Order
  <2> QED BY <2>11
<1>9. CASE Take
  <2>1. PICK s \in Slots : /\ Order /\ c' = [c EXCEPT !.take = s]
                           /\ up' = Append(up, OnSlot("accept", "in", s))
                           /\ hist' = [hist EXCEPT !.takes = hist.takes \/ Taking]
    BY <1>9 DEF Take
  <2>2. OnSlot("accept", "in", s) \in GoodUps
    BY AsksTyped DEF Boxes
  <2>3. up' = up \o <<OnSlot("accept", "in", s)>>
    BY <1>1, <2>1, <2>2, AppendIsConcat
  <2>4. Takes(s)
    BY <2>1, <2>3 DEF Takes, Order
  <2> QED BY <2>4
<1>10. CASE Reject
  <2>1. PICK s \in Slots : Order /\ UNCHANGED c /\ Submit(OnSlot("reject", "in", s))
    BY <1>10 DEF Reject
  <2>2. PICK m : m = OnSlot("reject", "in", s)
    OBVIOUS
  <2>3. m \in GoodUps /\ m.cmd = "reject"
    BY <1>4, <2>2, AsksTyped DEF Boxes
  <2>4. Command(m)
    BY <2>1, <2>2, <2>3 DEF Command, Submit, Order, InGet
  <2> QED BY <2>3, <2>4, OneCommand
<1>11. CASE Query
  <2>1. PICK n \in Names :
            /\ Order /\ c' = [c EXCEPT !.asked = n, !.name = n, !.status = "pending"]
            /\ up' = Append(up, Ask("query", "out", NoSlot, n)) /\ c.open = "out"
            /\ hist' = [hist EXCEPT !.names = hist.names \/ (c.asked # NoName \/ Leaving)]
    BY <1>11 DEF Query
  <2>2. Ask("query", "out", NoSlot, n) \in GoodUps
    BY AsksTyped
  <2>3. up' = up \o <<Ask("query", "out", NoSlot, n)>>
    BY <1>1, <2>1, <2>2, AppendIsConcat
  <2>4. Queries(n)
    BY <2>1, <2>3 DEF Queries, Order
  <2> QED BY <2>4
<1>12. CASE Set
  <2>1. PICK s \in Slots : Order /\ UNCHANGED c /\ Submit(Ask("set", "out", s, c.locked))
    BY <1>12 DEF Set
  <2>2. PICK m : m = Ask("set", "out", s, c.locked)
    OBVIOUS
  <2>3. m \in GoodUps /\ m.cmd = "set"
    BY <1>1, <2>2, AsksTyped DEF Clients, Ask
  <2>4. Command(m)
    BY <2>1, <2>2, <2>3 DEF Command, Submit, Order, InGet
  <2> QED BY <2>3, <2>4, OneCommand
<1>13. CASE Staged
  <2>1. PICK s \in Slots, cmd \in {"send", "cancel", "get"} :
            Order /\ UNCHANGED c /\ Submit(OnSlot(cmd, "out", s))
    BY <1>13 DEF Staged
  <2>2. PICK m : m = OnSlot(cmd, "out", s)
    OBVIOUS
  <2>3. m \in GoodUps /\ m.cmd = cmd /\ m.box = "out"
    BY <1>4, <2>1, <2>2, AsksTyped DEF Boxes
  <2>4. m.cmd \notin {"accept", "query", "open", "work"} /\ ~InGet(m)
    BY <2>1, <2>3 DEF InGet
  <2>5. Command(m)
    BY <2>1, <2>2, <2>3, <2>4 DEF Command, Submit, Order
  <2> QED BY <2>3, <2>5, OneCommand
<1> QED BY <1>5, <1>6, <1>7, <1>8, <1>9, <1>10, <1>11, <1>12, <1>13 DEF Orders

\* Reading an answer.
LEMMA ObserveShape ==
    ASSUME Inv, Observe
    PROVE  \E m, r : Reads(m, r)
<1> DEFINE m == Head(down)
           d == Follow(c, m)
           Clean(x) == /\ x.cmd \notin Marks \cup {"accept"}
                       /\ InGet(x) => m.cmd = "accept" /\ m.ok /\ c.take # NoSlot /\ x.slot = c.take
<1>1. /\ down # <<>> /\ m \in GoodDowns /\ down' = Tail(down) /\ c \in Clients
      /\ up' = up \o Sends(c, m) /\ UNCHANGED <<srv, hist, used>>
      /\ c' = (IF Resumes(d, m) THEN [d EXCEPT !.menu = "shown"] ELSE d)
  BY DEF Observe, Inv, Types
<1> HIDE DEF m
<1>2. Sends(c, m) \in Seq(GoodUps)
  BY <1>1, SendsTyped
<1>3. \A i \in 1 .. Len(Sends(c, m)) : Clean(Sends(c, m)[i])
  <2>1. \/ Sends(c, m) = <<>>
        \/ \E cmd \in {"work", "check"} : Sends(c, m) = <<OnBox(cmd, m.box)>>
        \/ Sends(c, m) = <<OnBox("confirm", "out")>>
        \/ Sends(c, m) = <<OnSlot("recv", "in", FirstFree(c.slots))>>
        \/ /\ m.cmd = "accept" /\ m.ok /\ c.take # NoSlot
           /\ Sends(c, m) = <<OnSlot("get", m.box, c.take)>>
    <3>1. CASE ~m.ok
      <4>1. Sends(c, m) = <<>>
        BY <3>1 DEF Sends
      <4> QED BY <4>1
    <3>2. CASE m.ok /\ m.cmd = "accept"
      <4>1. Sends(c, m) = IF c.take # NoSlot THEN <<OnSlot("get", m.box, c.take)>> ELSE <<>>
        BY <3>2 DEF Sends
      <4> QED BY <3>2, <4>1
    <3>3. CASE m.ok /\ m.cmd # "accept"
      BY <3>3 DEF Sends
    <3> QED BY <3>1, <3>2, <3>3
  <2>2. \A x : Len(<<x>>) = 1 /\ <<x>>[1] = x
    OBVIOUS
  <2>3. ASSUME NEW x, Sends(c, m) = <<x>>, Clean(x)
        PROVE  \A i \in 1 .. Len(Sends(c, m)) : Clean(Sends(c, m)[i])
    <3>1. Len(Sends(c, m)) = 1 /\ Sends(c, m)[1] = x
      BY <2>2, <2>3
    <3> QED BY <2>3, <3>1
  <2>4. CASE Sends(c, m) = <<>>
    BY <2>4
  <2>5. CASE \E cmd \in {"work", "check"} : Sends(c, m) = <<OnBox(cmd, m.box)>>
    <3>1. PICK cmd \in {"work", "check"} : Sends(c, m) = <<OnBox(cmd, m.box)>>
      BY <2>5
    <3>2. Clean(OnBox(cmd, m.box))
      BY DEF OnBox, Ask, Marks, Turning, InGet
    <3> QED BY <2>3, <3>1, <3>2
  <2>6. CASE Sends(c, m) = <<OnBox("confirm", "out")>>
    <3>1. Clean(OnBox("confirm", "out"))
      BY DEF OnBox, Ask, Marks, Turning, InGet
    <3> QED BY <2>3, <2>6, <3>1
  <2>7. CASE Sends(c, m) = <<OnSlot("recv", "in", FirstFree(c.slots))>>
    <3>1. Clean(OnSlot("recv", "in", FirstFree(c.slots)))
      BY DEF OnSlot, Ask, Marks, Turning, InGet
    <3> QED BY <2>3, <2>7, <3>1
  <2>8. CASE /\ m.cmd = "accept" /\ m.ok /\ c.take # NoSlot
             /\ Sends(c, m) = <<OnSlot("get", m.box, c.take)>>
    <3>1. Clean(OnSlot("get", m.box, c.take))
      BY <2>8 DEF OnSlot, Ask, Marks, Turning, InGet
    <3> QED BY <2>3, <2>8, <3>1
  <2> QED BY <2>1, <2>4, <2>5, <2>6, <2>7, <2>8
<1> HIDE DEF d
<1>4. /\ d \in Clients => /\ c'.open = d.open /\ c'.take = d.take /\ c'.asked = d.asked
                          /\ c'.name = d.name /\ c'.status = d.status /\ c'.locked = d.locked
  BY <1>1 DEF Clients
<1>5. d \in Clients
  BY <1>1, FollowTyped DEF d
<1>6. d = Locks(IF m.ok THEN Stored(c, m) ELSE Refused(c, m), m)
  BY DEF d, Follow
<1>7. PICK e : e = IF m.ok THEN Stored(c, m) ELSE Refused(c, m)
  OBVIOUS
<1>8. d = Locks(e, m)
  BY <1>6, <1>7, Zenon
<1>9. /\ e \in Clients /\ e.asked = c.asked /\ e.locked = c.locked
      /\ e.take = NoSlot \/ (e.take = c.take /\ m.cmd # "accept")
      /\ IF m \in OpenHit THEN e.open = OpenVal[m] /\ e.name = NoName /\ e.status = "unset"
         ELSE IF m.cmd = "query"
         THEN e.open = c.open /\ e.status = (IF m.ok THEN "ok" ELSE "no") /\ (m.ok => e.name = c.name)
         ELSE e.open = c.open /\ e.name = c.name /\ e.status = c.status
  <2>1. CASE ~m.ok
    <3>1. e = Refused(c, m) /\ m \notin OpenHit
      BY <1>7, <2>1, ErrorsPass
    <3> QED BY <1>1, <2>1, <3>1 DEF Refused, Clients, Typed
  <2>2. CASE m.ok /\ m.cmd \in Turning
    <3>1. m \in OpenHit
      BY <1>1, <2>2 DEF OpenHit, Turning
    <3>2. CASE m.cmd = "open"
      <4>1. e = Opened(c, m.box) /\ OpenVal[m] = m.box /\ m.box \in Openings
        BY <1>1, <1>7, <2>2, <3>2 DEF Stored, OpenVal, Filling, GoodDowns, Downs, Openings
      <4>2. Empty \in [Slots -> Stats]
        BY DEF Empty, Stats
      <4> QED BY <1>1, <3>1, <3>2, <4>1, <4>2 DEF Opened, Clients, Typed
    <3>3. CASE m.cmd = "close"
      <4>1. e = Closed(c) /\ OpenVal[m] = "none"
        BY <1>1, <1>7, <2>2, <3>3 DEF Stored, OpenVal, Filling
      <4>2. Empty \in [Slots -> Stats]
        BY DEF Empty, Stats
      <4> QED BY <1>1, <3>1, <3>3, <4>1, <4>2 DEF Closed, Clients, Typed, Openings
    <3> QED BY <2>2, <3>2, <3>3 DEF Turning
  <2>3. CASE m.ok /\ m.cmd \in Filling \cup Emptying
    <3>1. m \notin OpenHit /\ m.cmd # "query" /\ m.cmd # "accept" /\ m.slot \in Slots
      BY <1>1, <2>3 DEF OpenHit, Filling, Emptying, GoodDowns
    <3>2. PICK x \in Stats : e = [c EXCEPT !.slots[m.slot] = x]
      BY <1>1, <1>7, <2>3 DEF Stored, Filling, Emptying, GoodDowns, Downs, Stats
    <3>3. PICK f \in [Slots -> Stats] : f = [c.slots EXCEPT ![m.slot] = x]
      BY <1>1 DEF Clients
    <3>4. [c EXCEPT !.slots[m.slot] = x] = [c EXCEPT !.slots = [c.slots EXCEPT ![m.slot] = x]]
      OBVIOUS
    <3>5. e = [c EXCEPT !.slots = f]
      BY <3>2, <3>3, <3>4, Zenon
    <3> QED BY <1>1, <3>1, <3>5 DEF Clients
  <2>4. CASE m.ok /\ m.cmd \notin Turning \cup Filling \cup Emptying
    <3>1. m \notin OpenHit
      BY <2>4 DEF OpenHit, Turning
    <3>2. CASE m.cmd = "accept"
      <4>1. e = [c EXCEPT !.take = NoSlot]
        BY <1>7, <2>4, <3>2 DEF Stored, Filling, Emptying
      <4> QED BY <1>1, <3>1, <3>2, <4>1 DEF Clients
    <3>3. CASE m.cmd = "query"
      <4>1. e = [c EXCEPT !.status = "ok"]
        BY <1>7, <2>4, <3>3 DEF Stored, Filling, Emptying
      <4> QED BY <1>1, <2>4, <3>1, <3>3, <4>1 DEF Clients
    <3>4. CASE m.cmd \notin {"accept", "query"}
      <4>1. e = c
        BY <1>7, <2>4, <3>4 DEF Stored, Filling, Emptying, Turning
      <4> QED BY <1>1, <3>1, <3>4, <4>1
    <3> QED BY <3>2, <3>3, <3>4
  <2> QED BY <2>1, <2>2, <2>3, <2>4
<1>10. /\ d.open = e.open /\ d.take = e.take /\ d.name = e.name /\ d.status = e.status
       /\ m.cmd # "query" => d.asked = e.asked /\ d.locked = e.locked
       /\ m.cmd = "query" => /\ d.asked = NoName
                             /\ e.asked # NoName => d.locked = IF m.ok THEN e.asked ELSE NoName
  BY <1>8, <1>9 DEF Locks, Clients
<1>11. m \in OpenHit => m.cmd # "query"
  BY DEF OpenHit
<1>12. Reads(m, Sends(c, m))
  <2>1. c'.take = NoSlot \/ (c'.take = c.take /\ m.cmd # "accept")
    BY <1>4, <1>5, <1>9, <1>10
  <2>2. IF m \in OpenHit
        THEN /\ c'.open = OpenVal[m] /\ c'.name = NoName /\ c'.status = "unset"
             /\ c'.asked = c.asked /\ c'.locked = c.locked
        ELSE IF m.cmd = "query"
        THEN /\ c'.open = c.open /\ c'.asked = NoName
             /\ c'.status = (IF m.ok THEN "ok" ELSE "no") /\ (m.ok => c'.name = c.name)
             /\ c.asked # NoName => c'.locked = IF m.ok THEN c.asked ELSE NoName
        ELSE /\ c'.open = c.open /\ c'.name = c.name /\ c'.status = c.status
             /\ c'.asked = c.asked /\ c'.locked = c.locked
    BY <1>4, <1>5, <1>9, <1>10, <1>11
  <2>3. m = Head(down)
    BY DEF m
  <2>4. \A i \in 1 .. Len(Sends(c, m)) :
          /\ Sends(c, m)[i].cmd \notin Marks \cup {"accept"}
          /\ InGet(Sends(c, m)[i]) =>
                m.cmd = "accept" /\ m.ok /\ c.take # NoSlot /\ Sends(c, m)[i].slot = c.take
    BY <1>3
  <2> HIDE DEF Clean
  <2> QED BY <1>1, <1>2, <2>1, <2>2, <2>3, <2>4, Zenon DEF Reads
<1> QED BY <1>12

HistoryGrows ==
    hist'.takes = hist.takes /\ hist'.names = hist.names /\ (hist.again => hist'.again)
Drops ==
    /\ up # <<>> /\ up' = Tail(up) /\ UNCHANGED <<c, srv, down>> /\ HistoryGrows
    /\ Head(up).cmd = "accept" /\ srv.open = "in" => used'.lost + used'.errors # 0
    /\ Head(up).cmd \in Turning /\ srv.open # "none" => used'.lost # 0 \/ hist'.again
Tells(m) ==
    /\ up # <<>> /\ up' = Tail(up) /\ m \in GoodDowns /\ Tell(<<m>>) /\ UNCHANGED c /\ HistoryGrows
    /\ m.cmd = Head(up).cmd
    /\ m.cmd = "query" /\ m.ok => Head(up).name \in Chars
    /\ m.cmd \notin Turning => srv'.open = srv.open
    /\ m.cmd # "open" /\ srv'.open = "in" => srv.open = "in" /\ srv.accepted \subseteq srv'.accepted
    /\ m.cmd = "accept" /\ (m.ok \/ used'.lost + used'.errors = 0) => Head(up).slot \in srv'.accepted
    /\ m.cmd \in Turning /\ srv.open # "none" => m.ok \/ hist'.again

\* A request dropped or lost, ...
LEMMA DropShape ==
    ASSUME Inv, Drops
    PROVE  \E r : Answers(r)
<1>1. down \in Seq(GoodDowns) /\ down' = down
  BY DEF Inv, Types, Drops
<1>2. PICK r : r \in Seq(GoodDowns) /\ Len(r) = 0 /\ down' = down \o r
  <2>1. <<>> \in Seq(GoodDowns) /\ Len(<<>>) = 0 /\ down \o <<>> = down
    BY <1>1, QueueTyped
  <2> QED BY <1>1, <2>1, Zenon
<1>3. Answers(r)
  BY <1>2 DEF Answers, Drops, HistoryGrows
<1> QED BY <1>3

\* ... and one answered or refused.
LEMMA TellShape ==
    ASSUME Inv, NEW m, Tells(m)
    PROVE  \E r : Answers(r)
<1>1. down \in Seq(GoodDowns) /\ m \in GoodDowns
  BY DEF Inv, Types, Tells
<1>2. PICK r : r \in Seq(GoodDowns) /\ Len(r) = 1 /\ r[1] = m /\ down' = down \o r
  <2>1. <<m>> \in Seq(GoodDowns) /\ Len(<<m>>) = 1 /\ <<m>>[1] = m
    BY <1>1
  <2>2. down' = down \o <<m>>
    BY DEF Tells, Tell
  <2> QED BY <2>1, <2>2, Zenon
<1>3. m.ok /\ m.cmd \in Turning => m \in OpenHit
  BY <1>1 DEF OpenHit, Turning
<1>4. /\ up # <<>> /\ up' = Tail(up) /\ r \in Seq(GoodDowns) /\ down' = down \o r /\ UNCHANGED c
      /\ \A i \in 1 .. Len(r) : r[i].cmd = Head(up).cmd
      /\ Len(r) \in {0, 1}
      /\ Head(up).cmd = "query" => \A i \in 1 .. Len(r) : r[i].ok => Head(up).name \in Chars
  BY <1>2 DEF Tells
<1>5. /\ Head(up).cmd \notin Turning => srv'.open = srv.open
      /\ Head(up).cmd # "open" /\ srv'.open = "in" =>
              srv.open = "in" /\ srv.accepted \subseteq srv'.accepted
      /\ Head(up).cmd = "accept" /\ srv.open = "in" /\ used'.lost + used'.errors = 0 =>
              Head(up).slot \in srv'.accepted
      /\ Head(up).cmd = "accept" =>
              \A i \in 1 .. Len(r) : r[i].ok => Head(up).slot \in srv'.accepted
  BY <1>2 DEF Tells
<1>6. /\ Head(up).cmd \in Turning /\ srv.open # "none" /\ used'.lost = 0 /\ ~hist'.again =>
              \E i \in 1 .. Len(r) : r[i] \in OpenHit
      /\ hist'.takes = hist.takes /\ hist'.names = hist.names /\ (hist.again => hist'.again)
  BY <1>2, <1>3 DEF Tells, HistoryGrows
<1>7. Answers(r)
  BY <1>4, <1>5, <1>6, Zenon DEF Answers
<1> QED BY <1>7

\* The server's steps, and what the network does to a request.
LEMMA ServeShape ==
    ASSUME Inv, Serve \/ Fail \/ Lose
    PROVE  \E r : Answers(r)
<1>1. up # <<>> /\ up' = Tail(up) /\ UNCHANGED c
  BY DEF Serve, ServeOpen, ServeClose, ServeList, ServeRecv, ServeConfirm, ServeAccept,
         ServeRemove, ServeStaged, ServeQuery, Fail, Lose, Request, Idle
<1>2. /\ Head(up) \in GoodUps /\ Head(up).box \in Boxes /\ srv \in Servers /\ hist \in Histories
      /\ used \in Budget /\ srv.queue \in Nat
  BY <1>1, ServedTyped
<1> DEFINE n == Head(up)
<1>3. UNCHANGED hist => HistoryGrows
  BY DEF HistoryGrows
<1>4. ASSUME UNCHANGED <<srv, down>>, HistoryGrows, n.cmd \notin {"accept", "open", "close"}
      PROVE  \E r : Answers(r)
  <2>1. Drops
    BY <1>1, <1>4 DEF Drops, Turning
  <2> QED BY <2>1, DropShape
<1>5. ASSUME NEW b \in Boxes, NEW s \in Slots \cup {NoSlot}, NEW x \in Stats, NEW k \in Nat,
             Tell(<<Reply(n.cmd, b, s, x, k)>>), n.cmd \in OnCell => s \in Slots,
             n.cmd # "confirm" \/ s \in Slots, n.cmd # "query",
             n.cmd \notin {"open", "close", "accept", "work"}, HistoryGrows,
             srv'.open = srv.open, srv'.accepted = srv.accepted
      PROVE  \E r : Answers(r)
  <2>1. PICK m : m = Reply(n.cmd, b, s, x, k)
    OBVIOUS
  <2>2. m \in GoodDowns /\ m.cmd = n.cmd
    BY <1>2, <1>5, <2>1 DEF Reply, GoodUps, Ups, GoodDowns, Downs, Filling, Emptying, OnCell
  <2>3. Tells(m)
    BY <1>1, <1>5, <2>1, <2>2 DEF Tells, Turning
  <2> QED BY <2>3, TellShape
<1>6. CASE ServeOpen
  <2>1. n.cmd = "open" /\ UNCHANGED <<c, used>>
    BY <1>6 DEF ServeOpen, Request, Idle
  <2>2. CASE /\ srv.open # "none" /\ UNCHANGED <<srv, down>>
             /\ hist' = [hist EXCEPT !.again = TRUE]
    <3>1. HistoryGrows /\ hist'.again
      BY <1>2, <2>2 DEF Histories, HistoryGrows
    <3>2. Drops
      BY <1>1, <2>1, <2>2, <3>1 DEF Drops
    <3> QED BY <3>2, DropShape
  <2>3. CASE /\ srv' = [srv EXCEPT !.open = n.box, !.accepted = {}]
             /\ Tell(<<Done("open", n.box, NoSlot, "none")>>)
             /\ hist' = [hist EXCEPT !.again = hist.again \/ (srv.open # "none"), !.news = FALSE]
    <3>1. PICK x \in BOOLEAN : x = (hist.again \/ (srv.open # "none"))
      OBVIOUS
    <3>2. hist' = [hist EXCEPT !.again = x, !.news = FALSE]
      BY <2>3, <3>1, Zenon
    <3>3. HistoryGrows
      BY <1>2, <3>1, <3>2 DEF Histories, HistoryGrows
    <3>4. PICK m : m = Done("open", n.box, NoSlot, "none")
      OBVIOUS
    <3>5. m \in GoodDowns /\ m.cmd = "open" /\ m.ok
      BY <1>2, <3>4 DEF Done, Reply, GoodDowns, Downs, Asks, NoSlot, Stats, Filling, Emptying
    <3>6. Tells(m)
      BY <1>1, <2>1, <2>3, <3>3, <3>4, <3>5 DEF Tells, Turning
    <3> QED BY <3>6, TellShape
  <2> QED BY <1>6, <2>2, <2>3 DEF ServeOpen
<1>7. CASE ServeClose
  <2>1. n.cmd = "close" /\ UNCHANGED <<c, used, hist>>
    BY <1>7 DEF ServeClose, Request, Idle
  <2>2. CASE srv.open = "none" /\ UNCHANGED <<srv, down>>
    <3>1. Drops
      BY <1>1, <1>3, <2>1, <2>2 DEF Drops
    <3> QED BY <3>1, DropShape
  <2>3. CASE /\ srv' = [srv EXCEPT !.open = "none", !.accepted = {}]
             /\ Tell(<<Done("close", n.box, NoSlot, "none")>>)
    <3>1. PICK m : m = Done("close", n.box, NoSlot, "none")
      OBVIOUS
    <3>2. m \in GoodDowns /\ m.cmd = "close" /\ m.ok
      BY <1>2, <3>1 DEF Done, Reply, GoodDowns, Downs, Asks, NoSlot, Stats, Filling, Emptying
    <3>3. srv'.open = "none"
      BY <1>2, <2>3 DEF Servers
    <3>4. Tells(m)
      BY <1>1, <1>3, <2>1, <2>3, <3>1, <3>2, <3>3 DEF Tells, Turning
    <3> QED BY <3>4, TellShape
  <2> QED BY <1>7, <2>2, <2>3 DEF ServeClose
<1>8. CASE ServeAccept
  <2>1. n.cmd = "accept" /\ UNCHANGED <<c, used, hist>>
    BY <1>8 DEF ServeAccept, Request, Idle
  <2>2. CASE srv.open # "in" /\ UNCHANGED <<srv, down>>
    <3>1. Drops
      BY <1>1, <1>3, <2>1, <2>2 DEF Drops, Turning
    <3> QED BY <3>1, DropShape
  <2>3. CASE /\ srv' = [srv EXCEPT !.accepted = srv.accepted \cup {n.slot}]
             /\ Tell(<<Done("accept", "in", n.slot, "none")>>)
    <3>1. PICK m : m = Done("accept", "in", n.slot, "none")
      OBVIOUS
    <3>2. m \in GoodDowns /\ m.cmd = "accept" /\ m.ok
      BY <1>2, <3>1 DEF Done, Reply, GoodUps, Ups, GoodDowns, Downs, Asks, Boxes, NoSlot, Stats,
                        Filling, Emptying
    <3>3. PICK u : u = srv.accepted \cup {n.slot}
      OBVIOUS
    <3>4. srv' = [srv EXCEPT !.accepted = u]
      BY <2>3, <3>3, Zenon
    <3>5. srv'.open = srv.open /\ srv'.accepted = u
      BY <1>2, <3>4 DEF Servers
    <3>6. Tells(m)
      BY <1>1, <1>3, <2>1, <2>3, <3>1, <3>2, <3>3, <3>5 DEF Tells, Turning
    <3> QED BY <3>6, TellShape
  <2> QED BY <1>8, <2>2, <2>3 DEF ServeAccept
<1>9. CASE ServeQuery
  <2>1. n.cmd = "query" /\ UNCHANGED <<c, used, srv, hist>>
    BY <1>9 DEF ServeQuery, Request, Idle
  <2>2. CASE n.name \in Chars /\ Tell(<<Done("query", "out", NoSlot, "none")>>)
    <3>1. PICK m : m = Done("query", "out", NoSlot, "none")
      OBVIOUS
    <3>2. m \in GoodDowns /\ m.cmd = "query"
      BY <3>1 DEF Done, Reply, GoodDowns, Downs, Asks, Boxes, NoSlot, Stats, Filling, Emptying
    <3>3. Tells(m)
      BY <1>1, <1>3, <2>1, <2>2, <3>1, <3>2 DEF Tells, Turning
    <3> QED BY <3>3, TellShape
  <2>3. CASE Tell(<<Failed(n)>>)
    <3>1. PICK m : m = Failed(n)
      OBVIOUS
    <3>2. m \in GoodDowns /\ ~m.ok /\ m.cmd = n.cmd
      BY <1>2, <3>1, FailedTyped DEF Failed, Done, Reply
    <3>3. Tells(m)
      BY <1>1, <1>3, <2>1, <2>3, <3>1, <3>2 DEF Tells, Turning
    <3> QED BY <3>3, TellShape
  <2> QED BY <1>9, <2>2, <2>3 DEF ServeQuery
<1>10. CASE ServeList
  <2>1. n.cmd \in {"work", "check"} /\ UNCHANGED <<c, used, srv, hist>>
    BY <1>10 DEF ServeList, Request, Idle
  <2>2. CASE UNCHANGED down
    BY <1>3, <1>4, <2>1, <2>2
  <2>3. CASE srv.open # "none" /\ n.cmd = "work" /\ Tell(Rows(n.box))
    <3>1. PICK r : r = Rows(n.box)
      OBVIOUS
    <3>2. r \in Seq(GoodDowns) /\ Len(r) = NSlots
      BY <1>2, <2>3, <3>1, RowsTyped
    <3>3. \A i \in 1 .. Len(r) : r[i].cmd = "work"
      BY <3>1, <3>2 DEF Rows, Slots, Done, Reply
    <3>4. Answers(r)
      BY <1>1, <1>3, <2>1, <2>3, <3>1, <3>2, <3>3 DEF Answers, HistoryGrows, Tell, Turning
    <3> QED BY <3>4
  <2>4. CASE \E k \in Nat : n.cmd = "check" /\ Tell(<<Reply("check", n.box, NoSlot, "none", k)>>)
    <3>1. PICK k \in Nat : n.cmd = "check" /\ Tell(<<Reply("check", n.box, NoSlot, "none", k)>>)
      BY <2>4
    <3> QED BY <1>2, <1>3, <1>5, <2>1, <3>1 DEF Stats, OnCell
  <2> QED BY <1>2, <1>10, <2>1, <2>2, <2>3, <2>4 DEF ServeList
<1>11. CASE ServeRecv
  <2>1. n.cmd = "recv" /\ UNCHANGED <<c, used, hist>>
    BY <1>11 DEF ServeRecv, Request, Idle
  <2>2. CASE UNCHANGED <<srv, down>>
    BY <1>3, <1>4, <2>1, <2>2
  <2>3. CASE /\ srv' = [srv EXCEPT !.box["in"][n.slot] = "parcel", !.queue = srv.queue - 1]
             /\ Tell(<<Done("recv", "in", n.slot, "parcel")>>)
    <3>1. srv'.open = srv.open /\ srv'.accepted = srv.accepted
      BY <1>2, <2>3 DEF Servers
    <3>2. n.slot \in Slots
      BY <1>2, <2>1 DEF GoodUps, OnCell
    <3> QED BY <1>2, <1>3, <1>5, <2>1, <2>3, <3>1, <3>2 DEF Stats, Boxes, Done
  <2> QED BY <1>11, <2>2, <2>3 DEF ServeRecv
<1>12. CASE ServeConfirm
  <2>1. n.cmd = "confirm" /\ UNCHANGED <<c, used, hist>>
    BY <1>12 DEF ServeConfirm, Request, Idle
  <2>2. CASE UNCHANGED <<srv, down>>
    BY <1>3, <1>4, <2>1, <2>2
  <2>3. CASE \E s \in srv.taken :
                /\ srv' = [srv EXCEPT !.box["out"][s] = "none", !.taken = srv.taken \ {s}]
                /\ Tell(<<Done("confirm", "out", s, "none")>>)
    <3>1. PICK s \in srv.taken :
                /\ srv' = [srv EXCEPT !.box["out"][s] = "none", !.taken = srv.taken \ {s}]
                /\ Tell(<<Done("confirm", "out", s, "none")>>)
      BY <2>3
    <3>2. s \in Slots /\ srv'.open = srv.open /\ srv'.accepted = srv.accepted
      BY <1>2, <3>1 DEF Servers
    <3> QED BY <1>3, <1>5, <2>1, <3>1, <3>2 DEF Stats, Boxes, Done
  <2> QED BY <1>12, <2>2, <2>3 DEF ServeConfirm
<1>13. CASE ServeRemove
  <2>1. n.cmd \in {"get", "reject"} /\ UNCHANGED <<c, used>>
        /\ hist' = [hist EXCEPT !.news = hist.news \/ (srv.queue > 0)]
    BY <1>13 DEF ServeRemove, Request, Idle
  <2>2. HistoryGrows
    BY <1>2, <2>1 DEF Histories, HistoryGrows
  <2>3. CASE UNCHANGED <<srv, down>>
    BY <1>4, <2>1, <2>2, <2>3
  <2>4. CASE Put(n.slot, "none") /\ Tell(<<Done(n.cmd, n.box, n.slot, "none")>>)
    <3>1. srv'.open = srv.open /\ srv'.accepted = srv.accepted
      BY <1>2, <2>4 DEF Servers, Put
    <3>2. n.slot \in Slots
      BY <1>2, <2>1 DEF GoodUps, OnCell
    <3> QED BY <1>2, <1>5, <2>1, <2>2, <2>4, <3>1, <3>2 DEF Stats, Done
  <2> QED BY <1>13, <2>3, <2>4 DEF ServeRemove
<1>14. CASE ServeStaged
  <2>1. n.cmd \in {"set", "send", "cancel"} /\ UNCHANGED <<c, used, hist>>
    BY <1>14 DEF ServeStaged, Request, Idle, Turns
  <2>2. CASE UNCHANGED <<srv, down>>
    BY <1>3, <1>4, <2>1, <2>2
  <2>3. CASE /\ Put(n.slot, Turns[n.cmd].to)
             /\ Tell(<<Done(n.cmd, "out", n.slot, Turns[n.cmd].to)>>)
    <3>1. srv'.open = srv.open /\ srv'.accepted = srv.accepted
      BY <1>2, <2>3 DEF Servers, Put
    <3>2. n.slot \in Slots /\ Turns[n.cmd].to \in Stats
      BY <1>2, <2>1 DEF GoodUps, OnCell, Turns, Stats
    <3> QED BY <1>3, <1>5, <2>1, <2>3, <3>1, <3>2 DEF Boxes, Done
  <2> QED BY <1>14, <2>2, <2>3 DEF ServeStaged
<1>15. CASE Fail
  <2>1. /\ used' = [used EXCEPT !.errors = used.errors + 1] /\ UNCHANGED srv
        /\ hist' = [hist EXCEPT !.again = hist.again \/ (n.cmd = "open" /\ srv.open # "none")]
        /\ Tell(<<Failed(n)>>) /\ n.cmd # "close" /\ n.cmd # "work"
    BY <1>15 DEF Fail, Request
  <2>2. PICK x \in BOOLEAN : x = (hist.again \/ (n.cmd = "open" /\ srv.open # "none"))
    OBVIOUS
  <2>3. hist' = [hist EXCEPT !.again = x]
    BY <2>1, <2>2, Zenon
  <2>4. HistoryGrows /\ (n.cmd = "open" /\ srv.open # "none" => hist'.again)
    BY <1>2, <2>2, <2>3 DEF Histories, HistoryGrows
  <2>5. used'.lost + used'.errors # 0
    BY <1>2, <2>1, BoundsAssumption DEF Budget
  <2>6. PICK m : m = Failed(n)
    OBVIOUS
  <2>7. m \in GoodDowns /\ ~m.ok /\ m.cmd = n.cmd
    BY <1>2, <2>6, FailedTyped DEF Failed, Done, Reply
  <2>8. Tells(m)
    BY <1>1, <2>1, <2>4, <2>5, <2>6, <2>7 DEF Tells, Turning
  <2> QED BY <2>8, TellShape
<1>16. CASE Lose
  <2>1. UNCHANGED <<srv, down, hist>> /\ used' = [used EXCEPT !.lost = used.lost + 1]
    BY <1>16 DEF Lose
  <2>2. used'.lost # 0 /\ used'.lost + used'.errors # 0
    BY <1>2, <2>1, BoundsAssumption DEF Budget
  <2>3. Drops
    BY <1>1, <1>3, <2>1, <2>2 DEF Drops
  <2> QED BY <2>3, DropShape
<1> QED BY <1>6, <1>7, <1>8, <1>9, <1>10, <1>11, <1>12, <1>13, <1>14, <1>15, <1>16 DEF Serve

-----------------------------------------------------------------------------
(* The recipient: a name asked for is the only one, with no change of box     *)
(* before it, and its answer locks it; from then on it is the one shown until *)
(* the box changes.                                                           *)

Unmarked(q, n) == \A i \in 1 .. n : q[i].cmd \notin Marks
InHand == c.asked # NoName /\ c.name = c.asked /\ c.status = "pending" /\ c.open = "out"
Asking ==
    /\ \A i \in 1 .. Len(up) : up[i].cmd = "query" =>
          /\ InHand /\ up[i].name = c.asked
          /\ Unmarked(up, i - 1) /\ Unmarked(down, Len(down))
    /\ \A i \in 1 .. Len(down) : down[i].cmd = "query" =>
          /\ InHand /\ (down[i].ok => c.asked \in Chars)
          /\ Unmarked(down, i - 1) /\ \A j \in 1 .. Len(up) : up[j].cmd # "query"

\* The panel will open or close, and forget the name.
Renaming == \/ \E i \in 1 .. Len(down) : down[i] \in OpenHit
            \/ srv.open # "none" /\ \E i \in 1 .. Len(up) : up[i].cmd \in Turning
Vouched ==
    /\ c.locked \in Chars \cup {NoName}
    /\ c.status = "ok" => c.open # "none"
    /\ c.status = "ok" /\ used.lost = 0 /\ ~hist.again => c.locked = c.name \/ Renaming
NamesInv == ~hist.names => Asking /\ Vouched

\* What was lost or refused stays so.
Frugal == (used'.lost = 0 => used.lost = 0) /\ (used'.errors = 0 => used.errors = 0)

LEMMA FrugalStep ==
    ASSUME Inv, [Next]_vars
    PROVE  Frugal
<1>1. used \in Budget
  BY DEF Inv, Types
<1>2. \/ used'.lost = used.lost /\ used'.errors = used.errors
      \/ used'.lost = used.lost + 1 /\ used'.errors = used.errors
      \/ used'.lost = used.lost /\ used'.errors = used.errors + 1
  <2>1. CASE Orders
    <3>1. used' = [used EXCEPT !.orders = used.orders + 1]
      BY <2>1 DEF Orders, Order, MenuOpen, Open, Close, Toggle, Take, Reject, Query, Set, Staged
    <3> QED BY <1>1, <3>1 DEF Budget
  <2>2. CASE Fail \/ Lose
    BY <1>1, <2>2 DEF Budget, Fail, Lose
  <2>3. CASE Arrive
    BY <1>1, <2>3 DEF Budget, Arrive
  <2>4. CASE Observe \/ Serve \/ Delivered \/ UNCHANGED vars
    <3>1. UNCHANGED used
      BY <2>4 DEF Observe, Serve, ServeOpen, ServeClose, ServeList, ServeRecv, ServeConfirm,
                  ServeAccept, ServeRemove, ServeStaged, ServeQuery, Idle, Delivered, vars
    <3> QED BY <3>1
  <2> QED BY <2>1, <2>2, <2>3, <2>4 DEF Next
<1> QED BY <1>1, <1>2, BoundsAssumption DEF Budget, Frugal

(* A command that asks for no name.                                           *)
Calm(r) ==
    /\ r \in Seq(GoodUps) /\ up' = up \o r /\ UNCHANGED <<srv, down>>
    /\ hist'.names = hist.names /\ hist'.again = hist.again
    /\ \A i \in 1 .. Len(r) : r[i].cmd # "query"
    /\ c'.asked = c.asked /\ c'.name = c.name /\ c'.status = c.status /\ c'.open = c.open
    /\ c'.locked = c.locked
       \/ (c'.locked = NoName /\ \E i \in 1 .. Len(r) : r[i].cmd \in Turning)

LEMMA NamesCalm ==
    ASSUME Inv, NamesInv, Frugal, NEW r, Calm(r)
    PROVE  NamesInv'
<1> SUFFICES ASSUME ~hist'.names PROVE Asking' /\ Vouched'
  BY DEF NamesInv
<1>1. Asking /\ Vouched /\ up \in Seq(GoodUps) /\ r \in Seq(GoodUps) /\ up' = up \o r
  BY DEF NamesInv, Inv, Types, Calm
<1>2. /\ Len(up) \in Nat /\ Len(r) \in Nat /\ Len(up') = Len(up) + Len(r)
      /\ \A i \in 1 .. Len(up) : up'[i] = up[i]
      /\ \A i \in 1 .. Len(r) : up'[Len(up) + i] = r[i]
      /\ \A i \in Len(up) + 1 .. Len(up) + Len(r) :
                i - Len(up) \in 1 .. Len(r) /\ up'[i] = r[i - Len(up)]
  BY <1>1, Joined
<1>3. InHand' <=> InHand
  BY DEF Calm, InHand
<1>4. \A i \in 1 .. Len(up') : up'[i].cmd = "query" => i \in 1 .. Len(up)
  BY <1>2 DEF Calm
<1>5. Asking'
  <2>1. ASSUME NEW i \in 1 .. Len(up'), up'[i].cmd = "query"
        PROVE  /\ InHand' /\ up'[i].name = c'.asked
               /\ Unmarked(up', i - 1) /\ Unmarked(down', Len(down'))
    <3>1. i \in 1 .. Len(up) /\ up'[i] = up[i]
      BY <1>2, <1>4, <2>1
    <3>2. /\ InHand /\ up[i].name = c.asked /\ Unmarked(up, i - 1) /\ Unmarked(down, Len(down))
      BY <1>1, <2>1, <3>1 DEF Asking
    <3>3. Unmarked(up', i - 1)
      BY <1>2, <3>1, <3>2 DEF Unmarked
    <3> QED BY <1>3, <3>1, <3>2, <3>3 DEF Calm
  <2>2. ASSUME NEW i \in 1 .. Len(down'), down'[i].cmd = "query"
        PROVE  /\ InHand' /\ (down'[i].ok => c'.asked \in Chars)
               /\ Unmarked(down', i - 1) /\ \A j \in 1 .. Len(up') : up'[j].cmd # "query"
    <3>1. down' = down /\ c'.asked = c.asked
      BY DEF Calm
    <3>2. /\ InHand /\ (down[i].ok => c.asked \in Chars) /\ Unmarked(down, i - 1)
          /\ \A j \in 1 .. Len(up) : up[j].cmd # "query"
      BY <1>1, <2>2, <3>1 DEF Asking
    <3>3. \A j \in 1 .. Len(up') : up'[j].cmd # "query"
      BY <1>2, <1>4, <3>2
    <3> QED BY <1>3, <3>1, <3>2, <3>3
  <2> QED BY <2>1, <2>2 DEF Asking
<1>6. Renaming => Renaming'
  BY <1>2 DEF Renaming, Calm
<1>7. ASSUME c.open # "none", \E i \in 1 .. Len(r) : r[i].cmd \in Turning PROVE Renaming'
  <2>1. CASE srv.open # "none"
    <3>1. PICK i \in 1 .. Len(r) : r[i].cmd \in Turning
      BY <1>7
    <3>2. Len(up) + i \in 1 .. Len(up') /\ up'[Len(up) + i].cmd \in Turning
      BY <1>2, <3>1
    <3>3. srv'.open # "none"
      BY <2>1 DEF Calm
    <3> QED BY <3>2, <3>3 DEF Renaming
  <2>2. CASE srv.open = "none"
    <3>1. Latest(down, OpenHit, OpenVal, c.open, Len(down) + 1, srv.open)
      BY DEF Inv, Faithful, OpenFollows
    <3>2. Len(down) \in Nat /\ (Len(down) + 1) - 1 = Len(down)
      BY DEF Inv, Types
    <3>3. \E j \in 1 .. Len(down) : down[j] \in OpenHit
      BY <1>7, <2>2, <3>1, <3>2 DEF Latest
    <3> QED BY <3>3 DEF Renaming, Calm
  <2> QED BY <2>1, <2>2
<1>8. Vouched'
  <2>1. c'.locked \in Chars \cup {NoName} /\ (c'.status = "ok" => c'.open # "none")
    BY <1>1 DEF Vouched, Calm
  <2>2. ASSUME c'.status = "ok", used'.lost = 0, ~hist'.again
        PROVE  c'.locked = c'.name \/ Renaming'
    <3>1. c.status = "ok" /\ used.lost = 0 /\ ~hist.again /\ c.open # "none"
      BY <1>1, <2>2 DEF Frugal, Calm, Vouched
    <3>2. c.locked = c.name \/ Renaming
      BY <1>1, <3>1 DEF Vouched
    <3> QED BY <1>6, <1>7, <3>1, <3>2 DEF Calm
  <2> QED BY <2>1, <2>2 DEF Vouched
<1> QED BY <1>5, <1>8

\* A name is asked for.
LEMMA NamesQuery ==
    ASSUME Inv, NamesInv, NEW n, Queries(n)
    PROVE  NamesInv'
<1> SUFFICES ASSUME ~hist'.names PROVE Asking' /\ Vouched'
  BY DEF NamesInv
<1>1. /\ hist \in Histories /\ c \in Clients /\ up \in Seq(GoodUps) /\ down \in Seq(GoodDowns)
      /\ n \in Names /\ n # NoName /\ down' = down /\ c.open = "out"
      /\ up' = up \o <<Ask("query", "out", NoSlot, n)>>
  BY NamesAssumption DEF Inv, Types, Queries
<1>2. ~hist.names /\ c.asked = NoName /\ ~Leaving
  <2>1. PICK x \in BOOLEAN : x = (hist.names \/ (c.asked # NoName \/ Leaving))
    OBVIOUS
  <2>2. hist' = [hist EXCEPT !.names = x]
    BY <2>1, Zenon DEF Queries
  <2>3. hist'.names = x
    BY <1>1, <2>2 DEF Histories
  <2> QED BY <2>1, <2>3
<1>3. Asking /\ Vouched
  BY <1>2 DEF NamesInv
<1>4. Unmarked(up, Len(up)) /\ Unmarked(down, Len(down))
  BY <1>1, <1>2, <1>3 DEF Asking, InHand, Leaving, Unmarked, Marks, Turning
<1>5. PICK q \in GoodUps : q = Ask("query", "out", NoSlot, n)
  BY <1>1, AsksTyped
<1>6. /\ Len(up) \in Nat /\ Len(up') = Len(up) + 1 /\ up'[Len(up) + 1] = q
      /\ \A i \in 1 .. Len(up) : up'[i] = up[i]
  BY <1>1, <1>5
<1>7. q.cmd = "query" /\ q.name = n
  BY <1>5 DEF Ask
<1>8. /\ c'.asked = n /\ c'.name = n /\ c'.status = "pending" /\ c'.open = "out"
      /\ c'.locked = c.locked
  BY <1>1 DEF Queries, Clients
<1>9. InHand'
  BY <1>1, <1>8 DEF InHand
<1>10. Unmarked(up', Len(up)) /\ Unmarked(down', Len(down'))
  BY <1>1, <1>4, <1>6 DEF Unmarked
<1>11. \A i \in 1 .. Len(up') : up'[i].cmd = "query" => i = Len(up) + 1
  BY <1>6, <1>10 DEF Unmarked, Marks
<1>12. \A i \in 1 .. Len(down') : down'[i].cmd # "query"
  BY <1>10 DEF Unmarked, Marks
<1>13. Asking'
  <2>1. ASSUME NEW i \in 1 .. Len(up'), up'[i].cmd = "query"
        PROVE  /\ InHand' /\ up'[i].name = c'.asked
               /\ Unmarked(up', i - 1) /\ Unmarked(down', Len(down'))
    <3>1. i = Len(up) + 1 /\ i - 1 = Len(up)
      BY <1>6, <1>11, <2>1
    <3> QED BY <1>6, <1>7, <1>8, <1>9, <1>10, <3>1
  <2> QED BY <1>12, <2>1 DEF Asking
<1>14. Vouched'
  BY <1>3, <1>8 DEF Vouched
<1> QED BY <1>13, <1>14

\* An answer is read.
LEMMA NamesRead ==
    ASSUME Inv, NamesInv, NEW m, NEW r, Reads(m, r)
    PROVE  NamesInv'
<1> SUFFICES ASSUME ~hist'.names PROVE Asking' /\ Vouched'
  BY DEF NamesInv
<1>1. /\ Asking /\ Vouched /\ up \in Seq(GoodUps) /\ down \in Seq(GoodDowns) /\ r \in Seq(GoodUps)
      /\ down # <<>> /\ down' = Tail(down) /\ up' = up \o r /\ m = Head(down)
  BY DEF NamesInv, Inv, Types, Reads
<1>2. /\ Len(up) \in Nat /\ Len(r) \in Nat /\ Len(up') = Len(up) + Len(r)
      /\ \A i \in 1 .. Len(up) : up'[i] = up[i]
      /\ \A i \in Len(up) + 1 .. Len(up) + Len(r) :
                i - Len(up) \in 1 .. Len(r) /\ up'[i] = r[i - Len(up)]
  BY <1>1, Joined
<1>3. /\ Len(down) \in Nat \ {0} /\ Len(down') = Len(down) - 1 /\ m = down[1]
      /\ \A i \in 1 .. Len(down') : down'[i] = down[i + 1] /\ i + 1 \in 1 .. Len(down)
  BY <1>1, Popped
<1>4. \A i \in 1 .. Len(r) : r[i].cmd \notin Marks
  BY DEF Reads
<1>5. \A i \in 1 .. Len(up') : up'[i].cmd = "query" => i \in 1 .. Len(up)
  <2> SUFFICES ASSUME NEW i \in 1 .. Len(up'), i \notin 1 .. Len(up) PROVE up'[i].cmd # "query"
    OBVIOUS
  <2>1. i - Len(up) \in 1 .. Len(r) /\ up'[i] = r[i - Len(up)]
    BY <1>2
  <2> QED BY <1>4, <2>1 DEF Marks
<1>6. m \in OpenHit => m.cmd \in Turning
  BY DEF OpenHit, Turning
<1>7. CASE m.cmd \in Marks
  <2>1. 1 \in 1 .. Len(down) /\ down[1].cmd \in Marks
    BY <1>3, <1>7
  <2>2. \A i \in 1 .. Len(up) : up[i].cmd # "query"
    BY <1>1, <2>1 DEF Asking, Unmarked
  <2>3. \A i \in 1 .. Len(down) : down[i].cmd = "query" => i = 1
    <3> SUFFICES ASSUME NEW i \in 1 .. Len(down), down[i].cmd = "query", i # 1 PROVE FALSE
      OBVIOUS
    <3>1. 1 \in 1 .. i - 1 /\ Unmarked(down, i - 1)
      BY <1>1, <1>3 DEF Asking
    <3> QED BY <2>1, <3>1 DEF Unmarked
  <2>4. \A i \in 1 .. Len(up') : up'[i].cmd # "query"
    BY <1>2, <1>5, <2>2
  <2>5. \A i \in 1 .. Len(down') : down'[i].cmd # "query"
    BY <1>3, <2>3
  <2>6. Asking'
    BY <2>4, <2>5 DEF Asking
  <2>7. CASE m \in OpenHit
    <3>1. c'.status = "unset" /\ c'.locked = c.locked
      BY <2>7 DEF Reads
    <3> QED BY <1>1, <2>6, <3>1 DEF Vouched
  <2>8. CASE m.cmd = "query" /\ m \notin OpenHit
    <3>1. InHand /\ (m.ok => c.asked \in Chars)
      BY <1>1, <1>3, <2>1, <2>8 DEF Asking
    <3>2. /\ c'.locked = (IF m.ok THEN c.asked ELSE NoName) /\ c'.open = c.open
          /\ c'.status = (IF m.ok THEN "ok" ELSE "no") /\ (m.ok => c'.name = c.name)
      BY <2>8, <3>1 DEF Reads, InHand
    <3>3. Vouched'
      BY <3>1, <3>2 DEF Vouched, InHand
    <3> QED BY <2>6, <3>3
  <2>9. CASE m.cmd # "query" /\ m \notin OpenHit
    <3>1. /\ c'.open = c.open /\ c'.name = c.name /\ c'.status = c.status
          /\ c'.locked = c.locked /\ UNCHANGED <<srv, hist, used>>
      BY <2>9 DEF Reads
    <3>2. Renaming => Renaming'
      <4>1. ASSUME NEW i \in 1 .. Len(down), down[i] \in OpenHit PROVE Renaming'
        <5>1. i - 1 \in 1 .. Len(down') /\ down'[i - 1] = down[i]
          BY <1>3, <2>9, <4>1
        <5> QED BY <4>1, <5>1 DEF Renaming
      <4> QED BY <1>2, <3>1, <4>1 DEF Renaming
    <3>3. Vouched'
      BY <1>1, <3>1, <3>2 DEF Vouched
    <3> QED BY <2>6, <3>3
  <2> QED BY <2>7, <2>8, <2>9
<1>8. CASE m.cmd \notin Marks
  <2>1. m \notin OpenHit /\ m.cmd # "query"
    BY <1>6, <1>8 DEF Marks
  <2>2. /\ c'.open = c.open /\ c'.name = c.name /\ c'.status = c.status /\ c'.asked = c.asked
        /\ c'.locked = c.locked /\ UNCHANGED <<srv, hist, used>>
    BY <2>1 DEF Reads
  <2>3. InHand' <=> InHand
    BY <2>2 DEF InHand
  <2>4. ASSUME NEW i \in 1 .. Len(up'), up'[i].cmd = "query"
        PROVE  /\ InHand' /\ up'[i].name = c'.asked
               /\ Unmarked(up', i - 1) /\ Unmarked(down', Len(down'))
    <3>1. i \in 1 .. Len(up) /\ up'[i] = up[i]
      BY <1>2, <1>5, <2>4
    <3>2. /\ InHand /\ up[i].name = c.asked /\ Unmarked(up, i - 1) /\ Unmarked(down, Len(down))
      BY <1>1, <2>4, <3>1 DEF Asking
    <3>3. Unmarked(up', i - 1)
      BY <1>2, <3>1, <3>2 DEF Unmarked
    <3>4. Unmarked(down', Len(down'))
      BY <1>3, <3>2 DEF Unmarked
    <3> QED BY <2>2, <2>3, <3>1, <3>2, <3>3, <3>4
  <2>5. ASSUME NEW i \in 1 .. Len(down'), down'[i].cmd = "query"
        PROVE  /\ InHand' /\ (down'[i].ok => c'.asked \in Chars)
               /\ Unmarked(down', i - 1) /\ \A j \in 1 .. Len(up') : up'[j].cmd # "query"
    <3>1. i + 1 \in 1 .. Len(down) /\ down'[i] = down[i + 1]
      BY <1>3
    <3>2. /\ InHand /\ (down[i + 1].ok => c.asked \in Chars) /\ Unmarked(down, (i + 1) - 1)
          /\ \A j \in 1 .. Len(up) : up[j].cmd # "query"
      BY <1>1, <2>5, <3>1 DEF Asking
    <3>3. \A j \in 1 .. Len(up') : up'[j].cmd # "query"
      BY <1>2, <1>5, <3>2
    <3>4. Unmarked(down', i - 1)
      BY <1>3, <3>2 DEF Unmarked
    <3> QED BY <2>2, <2>3, <3>1, <3>2, <3>3, <3>4
  <2>6. Asking'
    BY <2>4, <2>5 DEF Asking
  <2>7. Renaming => Renaming'
    <3>1. ASSUME NEW i \in 1 .. Len(down), down[i] \in OpenHit PROVE Renaming'
      <4>1. i - 1 \in 1 .. Len(down') /\ down'[i - 1] = down[i]
        BY <1>3, <2>1, <3>1
      <4> QED BY <3>1, <4>1 DEF Renaming
    <3>2. ASSUME srv.open # "none", NEW i \in 1 .. Len(up), up[i].cmd \in Turning
          PROVE  Renaming'
      <4>1. i \in 1 .. Len(up') /\ up'[i] = up[i]
        BY <1>2
      <4> QED BY <2>2, <3>2, <4>1 DEF Renaming
    <3> QED BY <3>1, <3>2 DEF Renaming
  <2>8. Vouched'
    BY <1>1, <2>2, <2>7 DEF Vouched
  <2> QED BY <2>6, <2>8
<1> QED BY <1>7, <1>8

\* A request leaves.
LEMMA NamesAnswer ==
    ASSUME Inv, NamesInv, Frugal, NEW r, Answers(r)
    PROVE  NamesInv'
<1> SUFFICES ASSUME ~hist'.names PROVE Asking' /\ Vouched'
  BY DEF NamesInv
<1>1. /\ Asking /\ Vouched /\ up \in Seq(GoodUps) /\ down \in Seq(GoodDowns)
      /\ r \in Seq(GoodDowns) /\ up # <<>> /\ up' = Tail(up) /\ down' = down \o r /\ c' = c
  BY DEF NamesInv, Inv, Types, Answers
<1>2. /\ Len(up) \in Nat \ {0} /\ Len(up') = Len(up) - 1 /\ Head(up) = up[1]
      /\ \A i \in 1 .. Len(up') : up'[i] = up[i + 1] /\ i + 1 \in 1 .. Len(up)
  BY <1>1, Popped
<1>3. /\ Len(down) \in Nat /\ Len(r) \in Nat /\ Len(down') = Len(down) + Len(r)
      /\ \A i \in 1 .. Len(down) : down'[i] = down[i]
      /\ \A i \in 1 .. Len(r) : down'[Len(down) + i] = r[i]
      /\ \A i \in Len(down) + 1 .. Len(down) + Len(r) :
                i - Len(down) \in 1 .. Len(r) /\ down'[i] = r[i - Len(down)]
  BY <1>1, Joined
<1>4. \A i \in 1 .. Len(r) : r[i].cmd = up[1].cmd
  BY <1>2 DEF Answers
<1>5. InHand' <=> InHand
  BY <1>1 DEF InHand
<1>6. ASSUME NEW i \in 1 .. Len(up'), up'[i].cmd = "query"
      PROVE  /\ InHand' /\ up'[i].name = c'.asked
             /\ Unmarked(up', i - 1) /\ Unmarked(down', Len(down'))
  <2>1. up'[i] = up[i + 1] /\ i + 1 \in 1 .. Len(up) /\ (i + 1) - 1 = i /\ i \in Nat \ {0}
    BY <1>2
  <2>2. /\ InHand /\ up[i + 1].name = c.asked /\ Unmarked(up, i) /\ Unmarked(down, Len(down))
    BY <1>1, <1>6, <2>1 DEF Asking
  <2>3. Unmarked(up', i - 1)
    BY <1>2, <2>1, <2>2 DEF Unmarked
  <2>4. up[1].cmd \notin Marks
    BY <2>1, <2>2 DEF Unmarked
  <2>5. Unmarked(down', Len(down'))
    <3> SUFFICES ASSUME NEW j \in 1 .. Len(down') PROVE down'[j].cmd \notin Marks
      BY DEF Unmarked
    <3>1. CASE j \in 1 .. Len(down)
      BY <1>3, <2>2, <3>1 DEF Unmarked
    <3>2. CASE j \notin 1 .. Len(down)
      <4>1. j - Len(down) \in 1 .. Len(r) /\ down'[j] = r[j - Len(down)]
        BY <1>3, <3>2
      <4> QED BY <1>4, <2>4, <4>1
    <3> QED BY <3>1, <3>2
  <2> QED BY <1>1, <1>5, <2>1, <2>2, <2>3, <2>5
<1>7. ASSUME NEW i \in 1 .. Len(down'), down'[i].cmd = "query"
      PROVE  /\ InHand' /\ (down'[i].ok => c'.asked \in Chars)
             /\ Unmarked(down', i - 1) /\ \A j \in 1 .. Len(up') : up'[j].cmd # "query"
  <2>1. CASE i \in 1 .. Len(down)
    <3>1. down'[i] = down[i]
      BY <1>3, <2>1
    <3>2. /\ InHand /\ (down[i].ok => c.asked \in Chars) /\ Unmarked(down, i - 1)
          /\ \A j \in 1 .. Len(up) : up[j].cmd # "query"
      BY <1>1, <1>7, <2>1, <3>1 DEF Asking
    <3>3. \A j \in 1 .. Len(up') : up'[j].cmd # "query"
      BY <1>2, <3>2
    <3>4. Unmarked(down', i - 1)
      BY <1>3, <2>1, <3>2 DEF Unmarked
    <3> QED BY <1>1, <1>5, <3>1, <3>2, <3>3, <3>4
  <2>2. CASE i \notin 1 .. Len(down)
    <3>1. i - Len(down) \in 1 .. Len(r) /\ down'[i] = r[i - Len(down)]
      BY <1>3, <2>2
    <3>2. up[1].cmd = "query" /\ 1 \in 1 .. Len(up) /\ Head(up).cmd = "query"
      BY <1>2, <1>4, <1>7, <3>1
    <3>3. InHand /\ up[1].name = c.asked /\ Unmarked(down, Len(down))
      BY <1>1, <3>2 DEF Asking
    <3>4. Len(r) \in {0, 1} /\ (r[i - Len(down)].ok => up[1].name \in Chars)
      BY <1>2, <3>1, <3>2 DEF Answers
    <3>5. i - 1 = Len(down)
      BY <1>3, <3>1, <3>4
    <3>6. Unmarked(down', i - 1)
      BY <1>3, <3>3, <3>5 DEF Unmarked
    <3>7. \A j \in 1 .. Len(up') : up'[j].cmd # "query"
      <4> SUFFICES ASSUME NEW j \in 1 .. Len(up'), up'[j].cmd = "query" PROVE FALSE
        OBVIOUS
      <4>1. up'[j] = up[j + 1] /\ j + 1 \in 1 .. Len(up) /\ 1 \in 1 .. (j + 1) - 1
        BY <1>2
      <4>2. Unmarked(up, (j + 1) - 1)
        BY <1>1, <4>1 DEF Asking
      <4> QED BY <3>2, <4>1, <4>2 DEF Unmarked, Marks
    <3> QED BY <1>1, <1>5, <3>1, <3>3, <3>4, <3>6, <3>7
  <2> QED BY <2>1, <2>2
<1>8. Asking'
  BY <1>6, <1>7 DEF Asking
<1>9. ASSUME used'.lost = 0, ~hist'.again, Renaming PROVE Renaming'
  <2>1. CASE \E i \in 1 .. Len(down) : down[i] \in OpenHit
    <3>1. PICK i \in 1 .. Len(down) : down[i] \in OpenHit
      BY <2>1
    <3>2. i \in 1 .. Len(down') /\ down'[i] = down[i]
      BY <1>3
    <3> QED BY <3>1, <3>2 DEF Renaming
  <2>2. CASE srv.open # "none" /\ \E i \in 1 .. Len(up) : up[i].cmd \in Turning
    <3>1. CASE Head(up).cmd \in Turning
      <4>1. PICK i \in 1 .. Len(r) : r[i] \in OpenHit
        BY <1>9, <2>2, <3>1 DEF Answers
      <4>2. Len(down) + i \in 1 .. Len(down') /\ down'[Len(down) + i] = r[i]
        BY <1>3
      <4> QED BY <4>1, <4>2 DEF Renaming
    <3>2. CASE Head(up).cmd \notin Turning
      <4>1. srv'.open # "none"
        BY <2>2, <3>2 DEF Answers
      <4>2. PICK i \in 1 .. Len(up) : up[i].cmd \in Turning
        BY <2>2
      <4>3. i # 1
        BY <1>2, <3>2, <4>2
      <4>4. i - 1 \in 1 .. Len(up') /\ up'[i - 1] = up[i]
        BY <1>2, <4>3
      <4> QED BY <4>1, <4>2, <4>4 DEF Renaming
    <3> QED BY <3>1, <3>2
  <2> QED BY <1>9, <2>1, <2>2 DEF Renaming
<1>10. hist.again => hist'.again
  BY DEF Answers
<1>11. Vouched'
  BY <1>1, <1>9, <1>10 DEF Vouched, Frugal
<1> QED BY <1>8, <1>11

\* Of the name asked for, of its check and of the recipient locked.
THEOREM NamesInductive == Spec => []NamesInv
<1>1. Init => NamesInv
  <2> SUFFICES ASSUME Init PROVE Asking /\ Vouched
    BY DEF NamesInv
  <2>1. Len(up) = 0 /\ Len(down) = 0 /\ c.locked = NoName /\ c.status = "unset"
    BY DEF Init
  <2> QED BY <2>1 DEF Asking, Vouched
<1>2. Inv /\ NamesInv /\ [Next]_vars => NamesInv'
  <2> SUFFICES ASSUME Inv, NamesInv, [Next]_vars PROVE NamesInv'
    OBVIOUS
  <2>0. Frugal
    BY FrugalStep
  <2>1. CASE Orders
    <3>1. ASSUME NEW r, Commands(r) PROVE NamesInv'
      <4>1. Calm(r)
        BY <3>1 DEF Commands, Calm
      <4> QED BY <2>0, <4>1, NamesCalm
    <3>2. ASSUME NEW s, Takes(s) PROVE NamesInv'
      <4>1. PICK q \in GoodUps : q = OnSlot("accept", "in", s)
        BY <3>2, AsksTyped DEF Takes, Boxes
      <4>2. q.cmd = "accept"
        BY <4>1 DEF OnSlot, Ask
      <4>3. PICK r : r = <<q>>
        OBVIOUS
      <4>4. r \in Seq(GoodUps) /\ Len(r) = 1 /\ r[1] = q /\ up' = up \o r
        BY <3>2, <4>1, <4>3 DEF Takes
      <4>5. PICK x \in BOOLEAN : x = (hist.takes \/ Taking)
        OBVIOUS
      <4>6. hist' = [hist EXCEPT !.takes = x]
        BY <3>2, <4>5, Zenon DEF Takes
      <4>7. hist'.names = hist.names /\ hist'.again = hist.again
        BY <4>6 DEF Inv, Types, Histories
      <4>8. /\ c'.asked = c.asked /\ c'.name = c.name /\ c'.status = c.status
            /\ c'.open = c.open /\ c'.locked = c.locked
        BY <3>2 DEF Takes, Inv, Types, Clients
      <4>9. Calm(r)
        BY <3>2, <4>2, <4>4, <4>7, <4>8 DEF Takes, Calm
      <4> QED BY <2>0, <4>9, NamesCalm
    <3> QED BY <2>1, <3>1, <3>2, OrdersShape, NamesQuery
  <2>2. CASE Observe
    BY <2>2, ObserveShape, NamesRead
  <2>3. CASE Serve \/ Fail \/ Lose
    BY <2>0, <2>3, ServeShape, NamesAnswer
  <2>4. CASE Arrive \/ Delivered \/ UNCHANGED vars
    <3>1. /\ UNCHANGED <<c, up, down>> /\ srv'.open = srv.open
          /\ hist'.names = hist.names /\ hist'.again = hist.again
      BY <2>4 DEF Arrive, Delivered, vars, Inv, Types, Servers, Histories
    <3>2. (Asking' <=> Asking) /\ (Renaming' <=> Renaming)
      BY <3>1 DEF Asking, InHand, Renaming
    <3> QED BY <2>0, <3>1, <3>2 DEF NamesInv, Vouched, Frugal
  <2> QED BY <2>1, <2>2, <2>3, <2>4 DEF Next
<1> QED BY <1>1, <1>2, InvInductive, PTL DEF Spec

\* The recipient locked (mod.rs, on DeliveryRecipient) is one the server
\* vouched for and the one shown as checked, for any names, slots and bounds.
THEOREM RecipientHolds == Spec => []RecipientChecked
<1>1. Inv /\ NamesInv => RecipientChecked
  <2> SUFFICES ASSUME Inv, Vouched
               PROVE  /\ c.locked \in Chars \cup {NoName}
                      /\ c.status = "ok" /\ ~Leaving /\ used.lost = 0 /\ ~hist.again
                            => c.locked = c.name
    BY DEF RecipientChecked, NamesInv
  <2>1. up \in Seq(GoodUps) /\ down \in Seq(GoodDowns)
    BY DEF Inv, Types
  <2>2. ~Leaving => ~Renaming
    BY <2>1 DEF Leaving, Renaming, Turning, OpenHit
  <2> QED BY <2>2 DEF Vouched
<1> QED BY <1>1, InvInductive, NamesInductive, PTL

-----------------------------------------------------------------------------
(* A Get behind its Accept.  With nothing lost or refused: before place k of  *)
(* the requests the Accept of slot s comes after the last request to open, or *)
(* the server has accepted it since.                                          *)
Covered(q, s, k, sv) ==
    \/ \E i \in 1 .. k - 1 : /\ q[i].cmd = "accept" /\ q[i].slot = s
                             /\ \A j \in i + 1 .. k - 1 : q[j].cmd # "open"
    \/ /\ \A j \in 1 .. k - 1 : q[j].cmd # "open"
       /\ sv.open = "in" => s \in sv.accepted
Sure ==
    /\ \A k \in 1 .. Len(up) : InGet(up[k]) => Covered(up, up[k].slot, k, srv)
    /\ c.take # NoSlot => Covered(up, c.take, Len(up) + 1, srv)

(* With one Accept at a time: nothing before place k undoes what the server   *)
(* accepted; the Accept under way is the take's, which a change of box ends.  *)
Fresh(q, s, k, sv) == /\ \A j \in 1 .. k - 1 : q[j].cmd \notin {"open", "accept"}
                      /\ sv.open = "in" => s \in sv.accepted
Alone ==
    /\ \A i, j \in 1 .. Len(up) : up[i].cmd = "accept" /\ up[j].cmd = "accept" => i = j
    /\ \A i, j \in 1 .. Len(down) : down[i].cmd = "accept" /\ down[j].cmd = "accept" => i = j
    /\ \A i \in 1 .. Len(up), j \in 1 .. Len(down) :
            up[i].cmd = "accept" => down[j].cmd # "accept"
Single ==
    /\ Alone
    /\ \A k \in 1 .. Len(up) : InGet(up[k]) => Fresh(up, up[k].slot, k, srv)
    /\ c.take # NoSlot =>
         /\ \A i \in 1 .. Len(up) : up[i].cmd = "accept" =>
                up[i].slot = c.take /\ \A j \in i + 1 .. Len(up) : up[j].cmd # "open"
         /\ \A i \in 1 .. Len(down) : down[i].cmd = "accept" /\ down[i].ok =>
                Fresh(up, c.take, Len(up) + 1, srv)

Unspent == used.lost = 0 /\ used.errors = 0
TakesInv == (Unspent => Sure) /\ (~hist.takes => Single)

\* Both outlast requests behind them that open nothing, ...
LEMMA CoveredGrows ==
    ASSUME NEW S, NEW q \in Seq(S), NEW r \in Seq(S), NEW s, NEW sv, NEW k \in 1 .. Len(r) + 1,
           Covered(q, s, Len(q) + 1, sv), \A i \in 1 .. Len(r) : r[i].cmd # "open"
    PROVE  Covered(q \o r, s, Len(q) + k, sv)
<1>1. /\ Len(q) \in Nat /\ Len(r) \in Nat /\ \A i \in 1 .. Len(q) : (q \o r)[i] = q[i]
      /\ \A i \in Len(q) + 1 .. Len(q) + Len(r) :
                i - Len(q) \in 1 .. Len(r) /\ (q \o r)[i] = r[i - Len(q)]
  BY Joined
<1>2. \A i \in Len(q) + 1 .. (Len(q) + k) - 1 : (q \o r)[i].cmd # "open"
  BY <1>1
<1>3. CASE \E i \in 1 .. Len(q) : /\ q[i].cmd = "accept" /\ q[i].slot = s
                                  /\ \A j \in i + 1 .. Len(q) : q[j].cmd # "open"
  <2>1. PICK i \in 1 .. Len(q) : /\ q[i].cmd = "accept" /\ q[i].slot = s
                                 /\ \A j \in i + 1 .. Len(q) : q[j].cmd # "open"
    BY <1>3
  <2>2. i \in 1 .. (Len(q) + k) - 1 /\ (q \o r)[i] = q[i]
    BY <1>1
  <2>3. \A j \in i + 1 .. (Len(q) + k) - 1 : (q \o r)[j].cmd # "open"
    BY <1>1, <1>2, <2>1
  <2> QED BY <2>1, <2>2, <2>3 DEF Covered
<1>4. CASE (\A j \in 1 .. Len(q) : q[j].cmd # "open") /\ (sv.open = "in" => s \in sv.accepted)
  <2>1. \A j \in 1 .. (Len(q) + k) - 1 : (q \o r)[j].cmd # "open"
    BY <1>1, <1>2, <1>4
  <2> QED BY <1>4, <2>1 DEF Covered
<1>5. (Len(q) + 1) - 1 = Len(q)
  BY <1>1
<1> QED BY <1>3, <1>4, <1>5 DEF Covered

LEMMA FreshGrows ==
    ASSUME NEW S, NEW q \in Seq(S), NEW r \in Seq(S), NEW s, NEW sv, NEW k \in 1 .. Len(r) + 1,
           Fresh(q, s, Len(q) + 1, sv), \A i \in 1 .. Len(r) : r[i].cmd \notin {"open", "accept"}
    PROVE  Fresh(q \o r, s, Len(q) + k, sv)
<1>1. /\ Len(q) \in Nat /\ Len(r) \in Nat /\ \A i \in 1 .. Len(q) : (q \o r)[i] = q[i]
      /\ \A i \in Len(q) + 1 .. Len(q) + Len(r) :
                i - Len(q) \in 1 .. Len(r) /\ (q \o r)[i] = r[i - Len(q)]
  BY Joined
<1>2. \A i \in Len(q) + 1 .. (Len(q) + k) - 1 : (q \o r)[i].cmd \notin {"open", "accept"}
  BY <1>1
<1>3. \A j \in 1 .. Len(q) : q[j].cmd \notin {"open", "accept"}
  BY <1>1 DEF Fresh
<1>4. \A j \in 1 .. (Len(q) + k) - 1 : (q \o r)[j].cmd \notin {"open", "accept"}
  BY <1>1, <1>2, <1>3
<1> QED BY <1>4 DEF Fresh

\* ... do not see what is behind them, ...
LEMMA PrefixSame ==
    ASSUME NEW S, NEW q \in Seq(S), NEW r \in Seq(S), NEW s, NEW sv, NEW k \in 1 .. Len(q)
    PROVE  /\ Covered(q, s, k, sv) => Covered(q \o r, s, k, sv)
           /\ Fresh(q, s, k, sv) => Fresh(q \o r, s, k, sv)
<1>1. \A i \in 1 .. k - 1 : (q \o r)[i] = q[i]
  OBVIOUS
<1>2. k \in Nat
  OBVIOUS
<1> QED BY <1>1, <1>2 DEF Covered, Fresh

\* ... and outlast the first request.
LEMMA CoveredPops ==
    ASSUME up \in Seq(GoodUps), NEW r, Answers(r), NEW s, NEW k \in 2 .. Len(up) + 1,
           Unspent', srv \in Servers, used' \in Budget, Covered(up, s, k, srv)
    PROVE  Covered(Tail(up), s, k - 1, srv')
<1>1. /\ Len(up) \in Nat \ {0} /\ Head(up) = up[1]
      /\ \A i \in 1 .. Len(up) - 1 : Tail(up)[i] = up[i + 1]
  BY Popped DEF Answers
<1>2. used'.lost + used'.errors = 0
  BY DEF Unspent, Budget
<1>3. CASE \E i \in 1 .. k - 1 : /\ up[i].cmd = "accept" /\ up[i].slot = s
                                 /\ \A j \in i + 1 .. k - 1 : up[j].cmd # "open"
  <2>1. PICK i \in 1 .. k - 1 : /\ up[i].cmd = "accept" /\ up[i].slot = s
                                /\ \A j \in i + 1 .. k - 1 : up[j].cmd # "open"
    BY <1>3
  <2>2. CASE i = 1
    <3>1. \A j \in 1 .. (k - 1) - 1 : Tail(up)[j].cmd # "open"
      BY <1>1, <2>1, <2>2
    <3>2. Head(up).cmd = "accept" /\ Head(up).slot = s
      BY <1>1, <2>1, <2>2
    <3>3. srv'.open = "in" => s \in srv'.accepted
      BY <1>2, <3>2 DEF Answers
    <3> QED BY <3>1, <3>3 DEF Covered
  <2>3. CASE i # 1
    <3>1. i - 1 \in 1 .. (k - 1) - 1 /\ Tail(up)[i - 1] = up[i]
      BY <1>1, <2>3
    <3>2. \A j \in (i - 1) + 1 .. (k - 1) - 1 : Tail(up)[j].cmd # "open"
      BY <1>1, <2>1
    <3> QED BY <2>1, <3>1, <3>2 DEF Covered
  <2> QED BY <2>2, <2>3
<1>4. CASE (\A j \in 1 .. k - 1 : up[j].cmd # "open") /\ (srv.open = "in" => s \in srv.accepted)
  <2>1. \A j \in 1 .. (k - 1) - 1 : Tail(up)[j].cmd # "open"
    BY <1>1, <1>4
  <2>2. Head(up).cmd # "open"
    BY <1>1, <1>4
  <2>3. srv'.open = "in" => s \in srv'.accepted
    BY <1>4, <2>2 DEF Answers
  <2> QED BY <2>1, <2>3 DEF Covered
<1> QED BY <1>3, <1>4 DEF Covered

LEMMA FreshPops ==
    ASSUME up \in Seq(GoodUps), NEW r, Answers(r), NEW s, NEW k \in 2 .. Len(up) + 1,
           Fresh(up, s, k, srv)
    PROVE  Fresh(Tail(up), s, k - 1, srv') /\ Head(up).cmd # "accept"
<1>1. /\ Len(up) \in Nat \ {0} /\ Head(up) = up[1]
      /\ \A i \in 1 .. Len(up) - 1 : Tail(up)[i] = up[i + 1]
  BY Popped DEF Answers
<1>2. Head(up).cmd \notin {"open", "accept"}
  BY <1>1 DEF Fresh
<1>3. \A j \in 1 .. (k - 1) - 1 : Tail(up)[j].cmd \notin {"open", "accept"}
  BY <1>1 DEF Fresh
<1>4. srv'.open = "in" => s \in srv'.accepted
  BY <1>2 DEF Answers, Fresh
<1> QED BY <1>2, <1>3, <1>4 DEF Fresh

(* Requests added behind the others: a command, or what an answer sends.      *)
Adds(r) ==
    /\ r \in Seq(GoodUps) /\ up' = up \o r /\ UNCHANGED srv
    /\ \A i \in 1 .. Len(r) : r[i].cmd # "accept"
    /\ c'.take = NoSlot \/ (c'.take = c.take /\ \A i \in 1 .. Len(r) : r[i].cmd # "open")

\* Each Get among them is the take's.
LEMMA SureAdds ==
    ASSUME Inv, Sure, NEW r, Adds(r),
           \A i \in 1 .. Len(r) : InGet(r[i]) =>
                /\ c.take # NoSlot /\ r[i].slot = c.take
                /\ \A j \in 1 .. Len(r) : r[j].cmd # "open"
    PROVE  Sure'
<1>1. up \in Seq(GoodUps) /\ r \in Seq(GoodUps) /\ up' = up \o r /\ srv' = srv
  BY DEF Inv, Types, Adds
<1>2. /\ Len(up) \in Nat /\ Len(r) \in Nat /\ Len(up') = Len(up) + Len(r)
      /\ \A i \in 1 .. Len(up) : up'[i] = up[i]
      /\ \A i \in Len(up) + 1 .. Len(up) + Len(r) :
                i - Len(up) \in 1 .. Len(r) /\ up'[i] = r[i - Len(up)]
  BY <1>1, Joined
<1>3. ASSUME NEW k \in 1 .. Len(up'), InGet(up'[k]) PROVE Covered(up', up'[k].slot, k, srv')
  <2>1. CASE k \in 1 .. Len(up)
    <3>1. Covered(up, up[k].slot, k, srv) /\ up'[k] = up[k]
      BY <1>2, <1>3, <2>1 DEF Sure
    <3> QED BY <1>1, <2>1, <3>1, PrefixSame
  <2>2. CASE k \notin 1 .. Len(up)
    <3>1. k - Len(up) \in 1 .. Len(r) /\ up'[k] = r[k - Len(up)]
      BY <1>2, <2>2
    <3>2. /\ c.take # NoSlot /\ up'[k].slot = c.take
          /\ \A j \in 1 .. Len(r) : r[j].cmd # "open"
      BY <1>3, <3>1
    <3>3. Covered(up, c.take, Len(up) + 1, srv)
      BY <3>2 DEF Sure
    <3>4. k - Len(up) \in 1 .. Len(r) + 1 /\ Len(up) + (k - Len(up)) = k
      BY <1>2, <3>1
    <3>5. Covered(up \o r, c.take, Len(up) + (k - Len(up)), srv)
      BY <1>1, <3>2, <3>3, <3>4, CoveredGrows
    <3> QED BY <1>1, <3>2, <3>4, <3>5
  <2> QED BY <2>1, <2>2
<1>4. ASSUME c'.take # NoSlot PROVE Covered(up', c'.take, Len(up') + 1, srv')
  <2>1. c'.take = c.take /\ \A i \in 1 .. Len(r) : r[i].cmd # "open"
    BY <1>4 DEF Adds
  <2>2. Covered(up, c.take, Len(up) + 1, srv)
    BY <1>4, <2>1 DEF Sure
  <2>3. Len(r) + 1 \in 1 .. Len(r) + 1 /\ Len(up) + (Len(r) + 1) = Len(up') + 1
    BY <1>2
  <2>4. Covered(up \o r, c.take, Len(up) + (Len(r) + 1), srv)
    BY <1>1, <2>1, <2>2, <2>3, CoveredGrows
  <2> QED BY <1>1, <2>1, <2>3, <2>4
<1> QED BY <1>3, <1>4 DEF Sure

\* With o answers read meanwhile.
LEMMA SingleAdds ==
    ASSUME Inv, Single, NEW r, Adds(r), NEW o \in {0, 1}, o <= Len(down),
           Len(down') = Len(down) - o, \A j \in 1 .. Len(down') : down'[j] = down[j + o],
           \A k \in 1 .. Len(r) : InGet(r[k]) =>
                /\ r[k].slot = c.take /\ Fresh(up, c.take, Len(up) + 1, srv)
                /\ \A j \in 1 .. Len(r) : r[j].cmd # "open"
    PROVE  Single'
<1>1. /\ up \in Seq(GoodUps) /\ r \in Seq(GoodUps) /\ up' = up \o r /\ srv' = srv
      /\ Len(down) \in Nat
  BY DEF Inv, Types, Adds
<1>2. /\ Len(up) \in Nat /\ Len(r) \in Nat /\ Len(up') = Len(up) + Len(r)
      /\ \A i \in 1 .. Len(up) : up'[i] = up[i]
      /\ \A i \in Len(up) + 1 .. Len(up) + Len(r) :
                i - Len(up) \in 1 .. Len(r) /\ up'[i] = r[i - Len(up)]
  BY <1>1, Joined
<1>3. \A i \in 1 .. Len(up') : up'[i].cmd = "accept" => i \in 1 .. Len(up) /\ up'[i] = up[i]
  BY <1>2 DEF Adds
<1>4. \A j \in 1 .. Len(down') : j + o \in 1 .. Len(down) /\ down'[j] = down[j + o]
  BY <1>1
<1>5. Alone'
  <2>1. \A i, j \in 1 .. Len(up') : up'[i].cmd = "accept" /\ up'[j].cmd = "accept" => i = j
    BY <1>3 DEF Single, Alone
  <2>2. \A i, j \in 1 .. Len(down') :
            down'[i].cmd = "accept" /\ down'[j].cmd = "accept" => i = j
    <3> SUFFICES ASSUME NEW i \in 1 .. Len(down'), NEW j \in 1 .. Len(down'),
                        down'[i].cmd = "accept", down'[j].cmd = "accept"
                 PROVE  i = j
      OBVIOUS
    <3>1. i + o = j + o
      BY <1>4 DEF Single, Alone
    <3> QED BY <3>1
  <2>3. \A i \in 1 .. Len(up'), j \in 1 .. Len(down') :
            up'[i].cmd = "accept" => down'[j].cmd # "accept"
    BY <1>3, <1>4 DEF Single, Alone
  <2> QED BY <2>1, <2>2, <2>3 DEF Alone
<1>6. ASSUME NEW k \in 1 .. Len(up'), InGet(up'[k]) PROVE Fresh(up', up'[k].slot, k, srv')
  <2>1. CASE k \in 1 .. Len(up)
    <3>1. Fresh(up, up[k].slot, k, srv) /\ up'[k] = up[k]
      BY <1>2, <1>6, <2>1 DEF Single
    <3> QED BY <1>1, <2>1, <3>1, PrefixSame
  <2>2. CASE k \notin 1 .. Len(up)
    <3>1. k - Len(up) \in 1 .. Len(r) /\ up'[k] = r[k - Len(up)]
      BY <1>2, <2>2
    <3>2. /\ up'[k].slot = c.take /\ Fresh(up, c.take, Len(up) + 1, srv)
          /\ \A j \in 1 .. Len(r) : r[j].cmd \notin {"open", "accept"}
      BY <1>6, <3>1 DEF Adds
    <3>3. k - Len(up) \in 1 .. Len(r) + 1 /\ Len(up) + (k - Len(up)) = k
      BY <1>2, <3>1
    <3>4. Fresh(up \o r, c.take, Len(up) + (k - Len(up)), srv)
      BY <1>1, <3>2, <3>3, FreshGrows
    <3> QED BY <1>1, <3>2, <3>3, <3>4
  <2> QED BY <2>1, <2>2
<1>7. ASSUME c'.take # NoSlot
      PROVE  /\ \A i \in 1 .. Len(up') : up'[i].cmd = "accept" =>
                    up'[i].slot = c'.take /\ \A j \in i + 1 .. Len(up') : up'[j].cmd # "open"
             /\ \A i \in 1 .. Len(down') : down'[i].cmd = "accept" /\ down'[i].ok =>
                    Fresh(up', c'.take, Len(up') + 1, srv')
  <2>1. c'.take = c.take /\ c.take # NoSlot /\ \A i \in 1 .. Len(r) : r[i].cmd # "open"
    BY <1>7 DEF Adds
  <2>2. ASSUME NEW i \in 1 .. Len(up'), up'[i].cmd = "accept"
        PROVE  up'[i].slot = c'.take /\ \A j \in i + 1 .. Len(up') : up'[j].cmd # "open"
    <3>1. i \in 1 .. Len(up) /\ up'[i] = up[i]
      BY <1>3, <2>2
    <3>2. up[i].slot = c.take /\ \A j \in i + 1 .. Len(up) : up[j].cmd # "open"
      BY <2>1, <2>2, <3>1 DEF Single
    <3>3. \A j \in i + 1 .. Len(up') : up'[j].cmd # "open"
      <4> SUFFICES ASSUME NEW j \in i + 1 .. Len(up') PROVE up'[j].cmd # "open"
        OBVIOUS
      <4>1. CASE j \in 1 .. Len(up)
        BY <1>2, <3>1, <3>2, <4>1
      <4>2. CASE j \notin 1 .. Len(up)
        <5>1. j - Len(up) \in 1 .. Len(r) /\ up'[j] = r[j - Len(up)]
          BY <1>2, <3>1, <4>2
        <5> QED BY <2>1, <5>1
      <4> QED BY <4>1, <4>2
    <3> QED BY <2>1, <3>1, <3>2, <3>3
  <2>3. ASSUME NEW i \in 1 .. Len(down'), down'[i].cmd = "accept", down'[i].ok
        PROVE  Fresh(up', c'.take, Len(up') + 1, srv')
    <3>1. Fresh(up, c.take, Len(up) + 1, srv)
      BY <1>4, <2>1, <2>3 DEF Single
    <3>2. \A j \in 1 .. Len(r) : r[j].cmd \notin {"open", "accept"}
      BY <2>1 DEF Adds
    <3>3. Len(r) + 1 \in 1 .. Len(r) + 1 /\ Len(up) + (Len(r) + 1) = Len(up') + 1
      BY <1>2
    <3>4. Fresh(up \o r, c.take, Len(up) + (Len(r) + 1), srv)
      BY <1>1, <3>1, <3>2, <3>3, FreshGrows
    <3> QED BY <1>1, <2>1, <3>3, <3>4
  <2> QED BY <2>2, <2>3
<1> QED BY <1>5, <1>6, <1>7 DEF Single

\* A take begins.
LEMMA TakesTake ==
    ASSUME Inv, TakesInv, Frugal, NEW s, Takes(s)
    PROVE  TakesInv'
<1>1. /\ up \in Seq(GoodUps) /\ down \in Seq(GoodDowns) /\ srv' = srv /\ down' = down
      /\ c \in Clients /\ hist \in Histories /\ s \in Slots
  BY DEF Inv, Types, Takes
<1>2. PICK q \in GoodUps : q = OnSlot("accept", "in", s)
  BY <1>1, AsksTyped DEF Boxes
<1>3. q.cmd = "accept" /\ q.slot = s
  BY <1>2 DEF OnSlot, Ask
<1>4. PICK r : r = <<q>>
  OBVIOUS
<1>5. r \in Seq(GoodUps) /\ up' = up \o r /\ Len(r) = 1 /\ r[1] = q
  BY <1>2, <1>4 DEF Takes
<1>6. /\ Len(up) \in Nat /\ Len(up') = Len(up) + 1 /\ up'[Len(up) + 1] = q
      /\ \A i \in 1 .. Len(up) : up'[i] = up[i]
  <2>1. /\ Len(up) \in Nat /\ Len(up') = Len(up) + Len(r)
        /\ \A i \in 1 .. Len(up) : up'[i] = up[i]
        /\ \A i \in 1 .. Len(r) : up'[Len(up) + i] = r[i]
    <3>0. up \in Seq(GoodUps) /\ r \in Seq(GoodUps)
      BY <1>1, <1>5
    <3>1. /\ Len(up) \in Nat /\ Len(up \o r) = Len(up) + Len(r)
          /\ \A i \in 1 .. Len(up) : (up \o r)[i] = up[i]
          /\ \A i \in 1 .. Len(r) : (up \o r)[Len(up) + i] = r[i]
      BY ONLY <3>0, Joined
    <3> QED BY ONLY <1>5, <3>1
  <2> QED BY <1>5, <2>1
<1>7. c'.take = s
  BY <1>1 DEF Takes, Clients
<1>8. \A k \in 1 .. Len(up') : InGet(up'[k]) => k \in 1 .. Len(up) /\ up'[k] = up[k]
  BY <1>3, <1>6 DEF InGet
<1>9. ASSUME Unspent' PROVE Sure'
  <2>1. Sure
    BY <1>9 DEF Frugal, Unspent, TakesInv
  <2>2. ASSUME NEW k \in 1 .. Len(up'), InGet(up'[k]) PROVE Covered(up', up'[k].slot, k, srv')
    <3>1. k \in 1 .. Len(up) /\ up'[k] = up[k] /\ Covered(up, up[k].slot, k, srv)
      BY <1>8, <2>1, <2>2 DEF Sure
    <3> QED BY <1>1, <1>5, <3>1, PrefixSame
  <2>3. Covered(up', s, Len(up') + 1, srv')
    <3>1. /\ Len(up) + 1 \in 1 .. (Len(up') + 1) - 1
          /\ \A j \in (Len(up) + 1) + 1 .. (Len(up') + 1) - 1 : up'[j].cmd # "open"
      BY <1>6
    <3> QED BY <1>3, <1>6, <3>1 DEF Covered
  <2> QED BY <1>7, <2>2, <2>3 DEF Sure
<1>10. ASSUME ~hist'.takes PROVE Single'
  <2>1. ~hist.takes /\ ~Taking
    <3>1. PICK x \in BOOLEAN : x = (hist.takes \/ Taking)
      OBVIOUS
    <3>2. hist' = [hist EXCEPT !.takes = x]
      BY <3>1, Zenon DEF Takes
    <3>3. hist'.takes = x
      BY <1>1, <3>2 DEF Histories
    <3> QED BY <1>10, <3>1, <3>3
  <2>2. Single
    BY <2>1 DEF TakesInv
  <2>3. /\ \A i \in 1 .. Len(up) : up[i].cmd # "accept"
        /\ \A i \in 1 .. Len(down) : down[i].cmd # "accept"
    BY <1>1, <2>1 DEF Taking
  <2>4. \A i \in 1 .. Len(up') : up'[i].cmd = "accept" => i = Len(up) + 1
    BY <1>6, <2>3
  <2>5. Alone'
    BY <1>1, <2>3, <2>4 DEF Alone
  <2>6. ASSUME NEW k \in 1 .. Len(up'), InGet(up'[k]) PROVE Fresh(up', up'[k].slot, k, srv')
    <3>1. k \in 1 .. Len(up) /\ up'[k] = up[k] /\ Fresh(up, up[k].slot, k, srv)
      BY <1>8, <2>2, <2>6 DEF Single
    <3> QED BY <1>1, <1>5, <3>1, PrefixSame
  <2>7. \A i \in 1 .. Len(up') : up'[i].cmd = "accept" =>
            up'[i].slot = c'.take /\ \A j \in i + 1 .. Len(up') : up'[j].cmd # "open"
    BY <1>3, <1>6, <1>7, <2>4
  <2> QED BY <1>1, <2>3, <2>5, <2>6, <2>7 DEF Single
<1> QED BY <1>9, <1>10 DEF TakesInv

\* An answer is read.
LEMMA TakesRead ==
    ASSUME Inv, TakesInv, NEW m, NEW r, Reads(m, r)
    PROVE  TakesInv'
<1>1. down \in Seq(GoodDowns) /\ down # <<>> /\ down' = Tail(down) /\ m = Head(down)
  BY DEF Inv, Types, Reads
<1>2. /\ Len(down) \in Nat \ {0} /\ Len(down') = Len(down) - 1 /\ m = down[1]
      /\ \A i \in 1 .. Len(down') : down'[i] = down[i + 1]
  BY <1>1, Popped
<1>3. \A i \in 1 .. Len(r) : r[i].cmd \notin {"open", "accept"}
  BY DEF Reads, Marks, Turning
<1>4. Adds(r)
  BY <1>3 DEF Reads, Adds
<1>5. \A i \in 1 .. Len(r) : InGet(r[i]) =>
            /\ m.cmd = "accept" /\ m.ok /\ c.take # NoSlot /\ r[i].slot = c.take
            /\ \A j \in 1 .. Len(r) : r[j].cmd # "open"
  BY <1>3 DEF Reads
<1>6. ASSUME Unspent' PROVE Sure'
  <2>1. Sure
    BY <1>6 DEF Reads, Unspent, TakesInv
  <2> QED BY <1>4, <1>5, <2>1, SureAdds
<1>7. ASSUME ~hist'.takes PROVE Single'
  <2>1. Single
    BY <1>7 DEF Reads, TakesInv
  <2>2. \A i \in 1 .. Len(r) : InGet(r[i]) =>
            /\ r[i].slot = c.take /\ Fresh(up, c.take, Len(up) + 1, srv)
            /\ \A j \in 1 .. Len(r) : r[j].cmd # "open"
    <3>1. 1 \in 1 .. Len(down)
      BY <1>2
    <3> QED BY <1>2, <1>5, <2>1, <3>1 DEF Single
  <2>3. 1 \in {0, 1} /\ 1 <= Len(down)
    BY <1>2
  <2> QED BY <1>2, <1>4, <2>1, <2>2, <2>3, SingleAdds
<1> QED BY <1>6, <1>7 DEF TakesInv

\* A command that takes nothing.
LEMMA TakesCalm ==
    ASSUME Inv, TakesInv, Frugal, NEW r, Adds(r), UNCHANGED down, hist'.takes = hist.takes,
           \A i \in 1 .. Len(r) : ~InGet(r[i])
    PROVE  TakesInv'
<1>1. ASSUME Unspent' PROVE Sure'
  <2>1. Sure
    BY <1>1 DEF Frugal, Unspent, TakesInv
  <2> QED BY <2>1, SureAdds
<1>2. ASSUME ~hist'.takes PROVE Single'
  <2>1. Single
    BY <1>2 DEF TakesInv
  <2>2. /\ 0 \in {0, 1} /\ 0 <= Len(down) /\ Len(down') = Len(down) - 0
        /\ \A j \in 1 .. Len(down') : down'[j] = down[j + 0]
    BY DEF Inv, Types
  <2> QED BY <2>1, <2>2, SingleAdds
<1> QED BY <1>1, <1>2 DEF TakesInv

\* A request leaves.
LEMMA TakesAnswer ==
    ASSUME Inv, Inv', TakesInv, Frugal, NEW r, Answers(r)
    PROVE  TakesInv'
<1>1. /\ up \in Seq(GoodUps) /\ down \in Seq(GoodDowns) /\ r \in Seq(GoodDowns)
      /\ up # <<>> /\ up' = Tail(up) /\ down' = down \o r /\ c' = c
      /\ srv \in Servers /\ used' \in Budget
  BY DEF Inv, Types, Answers
<1>2. /\ Len(up) \in Nat \ {0} /\ Len(up') = Len(up) - 1 /\ Head(up) = up[1]
      /\ \A i \in 1 .. Len(up') : up'[i] = up[i + 1] /\ i + 1 \in 1 .. Len(up)
  BY <1>1, Popped
<1>3. /\ Len(down) \in Nat /\ Len(r) \in Nat /\ Len(down') = Len(down) + Len(r)
      /\ \A i \in 1 .. Len(down) : down'[i] = down[i]
      /\ \A i \in Len(down) + 1 .. Len(down) + Len(r) :
                i - Len(down) \in 1 .. Len(r) /\ down'[i] = r[i - Len(down)]
  BY <1>1, Joined
<1>4. \A i \in 1 .. Len(r) : r[i].cmd = up[1].cmd
  BY <1>2 DEF Answers
<1>5. ASSUME Unspent' PROVE Sure'
  <2>1. Sure
    BY <1>5 DEF Frugal, Unspent, TakesInv
  <2>2. ASSUME NEW k \in 1 .. Len(up'), InGet(up'[k]) PROVE Covered(up', up'[k].slot, k, srv')
    <3>1. k + 1 \in 1 .. Len(up) /\ k + 1 \in 2 .. Len(up) + 1 /\ up'[k] = up[k + 1]
          /\ (k + 1) - 1 = k
      BY <1>2
    <3>2. Covered(up, up'[k].slot, k + 1, srv)
      BY <2>1, <2>2, <3>1 DEF Sure
    <3>3. Covered(Tail(up), up'[k].slot, (k + 1) - 1, srv')
      BY <1>1, <1>5, <3>1, <3>2, CoveredPops
    <3> QED BY <1>1, <3>1, <3>3
  <2>3. ASSUME c'.take # NoSlot PROVE Covered(up', c'.take, Len(up') + 1, srv')
    <3>1. Covered(up, c.take, Len(up) + 1, srv)
      BY <1>1, <2>1, <2>3 DEF Sure
    <3>2. Len(up) + 1 \in 2 .. Len(up) + 1 /\ (Len(up) + 1) - 1 = Len(up') + 1
      BY <1>2
    <3>3. Covered(Tail(up), c.take, (Len(up) + 1) - 1, srv')
      BY <1>1, <1>5, <3>1, <3>2, CoveredPops
    <3> QED BY <1>1, <3>2, <3>3
  <2> QED BY <2>2, <2>3 DEF Sure
<1>6. ASSUME ~hist'.takes PROVE Single'
  <2>1. Single
    BY <1>6 DEF Answers, TakesInv
  <2>2. \A j \in 1 .. Len(down') : down'[j].cmd = "accept" =>
            \/ j \in 1 .. Len(down) /\ down'[j] = down[j] /\ up[1].cmd # "accept"
            \/ /\ up[1].cmd = "accept" /\ j = Len(down) + 1 /\ Len(r) = 1 /\ down'[j] = r[1]
               /\ \A i \in 1 .. Len(down) : down[i].cmd # "accept"
    <3> SUFFICES ASSUME NEW j \in 1 .. Len(down'), down'[j].cmd = "accept"
                 PROVE  \/ j \in 1 .. Len(down) /\ down'[j] = down[j] /\ up[1].cmd # "accept"
                        \/ /\ up[1].cmd = "accept" /\ j = Len(down) + 1 /\ Len(r) = 1
                           /\ down'[j] = r[1]
                           /\ \A i \in 1 .. Len(down) : down[i].cmd # "accept"
      OBVIOUS
    <3>0. 1 \in 1 .. Len(up)
      BY <1>2
    <3>1. CASE j \in 1 .. Len(down)
      <4>1. down'[j] = down[j] /\ up[1].cmd # "accept"
        BY <1>3, <2>1, <3>0, <3>1 DEF Single, Alone
      <4> QED BY <3>1, <4>1
    <3>2. CASE j \notin 1 .. Len(down)
      <4>1. j - Len(down) \in 1 .. Len(r) /\ down'[j] = r[j - Len(down)]
        BY <1>3, <3>2
      <4>2. up[1].cmd = "accept" /\ Head(up).cmd = "accept"
        BY <1>2, <1>4, <4>1
      <4>3. Len(r) \in {0, 1}
        BY <4>2 DEF Answers
      <4>4. Len(r) = 1 /\ j - Len(down) = 1 /\ j = Len(down) + 1
        BY <1>3, <4>1, <4>3
      <4>5. \A i \in 1 .. Len(down) : down[i].cmd # "accept"
        BY <2>1, <3>0, <4>2 DEF Single, Alone
      <4> QED BY <4>1, <4>2, <4>4, <4>5
    <3> QED BY <3>1, <3>2
  <2>3. Alone'
    <3>1. \A i, j \in 1 .. Len(up') : up'[i].cmd = "accept" /\ up'[j].cmd = "accept" => i = j
      <4> SUFFICES ASSUME NEW i \in 1 .. Len(up'), NEW j \in 1 .. Len(up'),
                          up'[i].cmd = "accept", up'[j].cmd = "accept"
                   PROVE  i = j
        OBVIOUS
      <4>1. i + 1 = j + 1
        BY <1>2, <2>1 DEF Single, Alone
      <4> QED BY <4>1
    <3>2. \A i, j \in 1 .. Len(down') :
              down'[i].cmd = "accept" /\ down'[j].cmd = "accept" => i = j
      BY <2>1, <2>2 DEF Single, Alone
    <3>3. \A i \in 1 .. Len(up'), j \in 1 .. Len(down') :
              up'[i].cmd = "accept" => down'[j].cmd # "accept"
      <4> SUFFICES ASSUME NEW i \in 1 .. Len(up'), NEW j \in 1 .. Len(down'),
                          up'[i].cmd = "accept", down'[j].cmd = "accept"
                   PROVE  FALSE
        OBVIOUS
      <4>1. i + 1 \in 1 .. Len(up) /\ up[i + 1].cmd = "accept" /\ 1 \in 1 .. Len(up) /\ i + 1 # 1
        BY <1>2
      <4>2. up[1].cmd # "accept"
        BY <2>1, <4>1 DEF Single, Alone
      <4>3. j \in 1 .. Len(down) /\ down[j].cmd = "accept"
        BY <2>2, <4>2
      <4> QED BY <2>1, <4>1, <4>3 DEF Single, Alone
    <3> QED BY <3>1, <3>2, <3>3 DEF Alone
  <2>4. ASSUME NEW k \in 1 .. Len(up'), InGet(up'[k]) PROVE Fresh(up', up'[k].slot, k, srv')
    <3>1. k + 1 \in 1 .. Len(up) /\ k + 1 \in 2 .. Len(up) + 1 /\ up'[k] = up[k + 1]
          /\ (k + 1) - 1 = k
      BY <1>2
    <3>2. Fresh(up, up'[k].slot, k + 1, srv)
      BY <2>1, <2>4, <3>1 DEF Single
    <3>3. Fresh(Tail(up), up'[k].slot, (k + 1) - 1, srv')
      BY <1>1, <3>1, <3>2, FreshPops
    <3> QED BY <1>1, <3>1, <3>3
  <2>5. ASSUME c'.take # NoSlot, NEW i \in 1 .. Len(up'), up'[i].cmd = "accept"
        PROVE  up'[i].slot = c'.take /\ \A j \in i + 1 .. Len(up') : up'[j].cmd # "open"
    <3>1. i + 1 \in 1 .. Len(up) /\ up'[i] = up[i + 1] /\ i \in Nat
      BY <1>2
    <3>2. up[i + 1].slot = c.take /\ \A j \in (i + 1) + 1 .. Len(up) : up[j].cmd # "open"
      BY <1>1, <2>1, <2>5, <3>1 DEF Single
    <3>3. \A j \in i + 1 .. Len(up') : up'[j].cmd # "open"
      BY <1>2, <3>1, <3>2
    <3> QED BY <1>1, <3>1, <3>2, <3>3
  <2>6. ASSUME c'.take # NoSlot, NEW i \in 1 .. Len(down'), down'[i].cmd = "accept", down'[i].ok
        PROVE  Fresh(up', c'.take, Len(up') + 1, srv')
    <3>1. CASE i \in 1 .. Len(down) /\ down'[i] = down[i]
      <4>1. Fresh(up, c.take, Len(up) + 1, srv)
        BY <1>1, <2>1, <2>6, <3>1 DEF Single
      <4>2. Len(up) + 1 \in 2 .. Len(up) + 1 /\ (Len(up) + 1) - 1 = Len(up') + 1
        BY <1>2
      <4>3. Fresh(Tail(up), c.take, (Len(up) + 1) - 1, srv')
        BY <1>1, <4>1, <4>2, FreshPops
      <4> QED BY <1>1, <4>2, <4>3
    <3>2. CASE up[1].cmd = "accept" /\ Len(r) = 1 /\ down'[i] = r[1]
      <4>1. 1 \in 1 .. Len(r) /\ 1 \in 1 .. Len(up) /\ Head(up).cmd = "accept" /\ r[1].ok
        BY <1>2, <2>6, <3>2
      <4>2. up[1].slot \in srv'.accepted
        BY <1>2, <4>1 DEF Answers
      <4>3. up[1].slot = c.take /\ \A j \in 1 + 1 .. Len(up) : up[j].cmd # "open"
        BY <1>1, <2>1, <2>6, <3>2, <4>1 DEF Single
      <4>4. \A j \in 1 .. Len(up') : up'[j].cmd # "open"
        BY <1>2, <4>3
      <4>5. \A j \in 1 .. Len(up') : up'[j].cmd # "accept"
        <5> SUFFICES ASSUME NEW j \in 1 .. Len(up'), up'[j].cmd = "accept" PROVE FALSE
          OBVIOUS
        <5>1. j + 1 \in 1 .. Len(up) /\ up[j + 1].cmd = "accept" /\ j + 1 # 1
          BY <1>2
        <5> QED BY <2>1, <3>2, <4>1, <5>1 DEF Single, Alone
      <4>6. Len(up') \in Nat /\ (Len(up') + 1) - 1 = Len(up')
        BY <1>2
      <4>7. \A j \in 1 .. (Len(up') + 1) - 1 : up'[j].cmd \notin {"open", "accept"}
        BY <4>4, <4>5, <4>6
      <4> QED BY <1>1, <4>2, <4>3, <4>7 DEF Fresh
    <3> QED BY <2>2, <2>6, <3>1, <3>2
  <2> QED BY <2>3, <2>4, <2>5, <2>6 DEF Single
<1> QED BY <1>5, <1>6 DEF TakesInv

\* Of the takes begun, and of the Gets that follow from them.
THEOREM TakesInductive == Spec => []TakesInv
<1>1. Init => TakesInv
  <2> SUFFICES ASSUME Init PROVE Sure /\ Single
    BY DEF TakesInv
  <2>1. Len(up) = 0 /\ Len(down) = 0 /\ c.take = NoSlot
    BY DEF Init
  <2> QED BY <2>1 DEF Sure, Single, Alone
<1>2. Inv /\ Inv' /\ TakesInv /\ [Next]_vars => TakesInv'
  <2> SUFFICES ASSUME Inv, Inv', TakesInv, [Next]_vars PROVE TakesInv'
    OBVIOUS
  <2>0. Frugal
    BY FrugalStep
  <2>1. CASE Orders
    <3>1. ASSUME NEW r, Commands(r) PROVE TakesInv'
      <4>1. Adds(r) /\ UNCHANGED down /\ hist'.takes = hist.takes
            /\ \A i \in 1 .. Len(r) : ~InGet(r[i])
        BY <3>1 DEF Commands, Adds
      <4> QED BY <2>0, <4>1, TakesCalm
    <3>2. ASSUME NEW n, Queries(n) PROVE TakesInv'
      <4>1. PICK q \in GoodUps : q = Ask("query", "out", NoSlot, n)
        BY <3>2, AsksTyped DEF Queries
      <4>2. q.cmd = "query"
        BY <4>1 DEF Ask
      <4>3. PICK r : r = <<q>>
        OBVIOUS
      <4>4. r \in Seq(GoodUps) /\ Len(r) = 1 /\ r[1] = q /\ up' = up \o r
        BY <3>2, <4>1, <4>3 DEF Queries
      <4>5. PICK x \in BOOLEAN : x = (hist.names \/ (c.asked # NoName \/ Leaving))
        OBVIOUS
      <4>6. hist' = [hist EXCEPT !.names = x]
        BY <3>2, <4>5, Zenon DEF Queries
      <4>7. hist'.takes = hist.takes
        BY <4>6 DEF Inv, Types, Histories
      <4>8. c'.take = c.take
        BY <3>2 DEF Queries, Inv, Types, Clients
      <4>9. Adds(r) /\ UNCHANGED down
        BY <3>2, <4>2, <4>4, <4>8 DEF Queries, Adds
      <4>10. \A i \in 1 .. Len(r) : ~InGet(r[i])
        BY <4>2, <4>4 DEF InGet
      <4> QED BY <2>0, <4>7, <4>9, <4>10, TakesCalm
    <3> QED BY <2>0, <2>1, <3>1, <3>2, OrdersShape, TakesTake
  <2>2. CASE Observe
    BY <2>2, ObserveShape, TakesRead
  <2>3. CASE Serve \/ Fail \/ Lose
    BY <2>0, <2>3, ServeShape, TakesAnswer
  <2>4. CASE Arrive \/ Delivered \/ UNCHANGED vars
    <3>1. /\ UNCHANGED <<c, up, down>> /\ srv'.open = srv.open /\ srv'.accepted = srv.accepted
          /\ hist'.takes = hist.takes
      BY <2>4 DEF Arrive, Delivered, vars, Inv, Types, Servers, Histories
    <3>2. \A s, k : /\ Covered(up, s, k, srv') <=> Covered(up, s, k, srv)
                    /\ Fresh(up, s, k, srv') <=> Fresh(up, s, k, srv)
      BY <3>1 DEF Covered, Fresh
    <3>3. (Sure' <=> Sure) /\ (Single' <=> Single)
      BY <3>1, <3>2 DEF Sure, Single, Alone
    <3> QED BY <2>0, <3>1, <3>3 DEF TakesInv, Frugal, Unspent
  <2> QED BY <2>1, <2>2, <2>3, <2>4 DEF Next
<1> QED BY <1>1, <1>2, InvInductive, PTL DEF Spec

\* A Get (delivery_box.rs, on_result of an Accept) reaches an open inbox only
\* for a slot accepted since that box was opened, for any slots and bounds.
THEOREM GetHolds == Spec => []GetAfterAccept
<1>1. Inv /\ TakesInv => GetAfterAccept
  <2> SUFFICES ASSUME Inv, TakesInv, hist.takes => used.lost + used.errors = 0,
                      up # <<>>, srv.open = "in", InGet(Head(up))
               PROVE  Head(up).slot \in srv.accepted
    BY DEF GetAfterAccept, InGet
  <2>1. up \in Seq(GoodUps) /\ used \in Budget
    BY DEF Inv, Types
  <2>2. 1 \in 1 .. Len(up) /\ Head(up) = up[1]
    BY <2>1
  <2>3. CASE ~hist.takes
    <3>1. Fresh(up, up[1].slot, 1, srv)
      BY <2>2, <2>3 DEF TakesInv, Single
    <3> QED BY <2>2, <3>1 DEF Fresh
  <2>4. CASE hist.takes
    <3>1. Unspent
      BY <2>1, <2>4 DEF Unspent, Budget
    <3>2. Covered(up, up[1].slot, 1, srv)
      BY <2>2, <3>1 DEF TakesInv, Sure
    <3> QED BY <2>2, <3>2 DEF Covered
  <2> QED BY <2>3, <2>4
<1> QED BY <1>1, InvInductive, TakesInductive, PTL

-----------------------------------------------------------------------------
(* The drain: a box the server has open and not drained has a request or an   *)
(* answer under way by which the client goes on.                              *)

Opening(q) == \E i \in 1 .. Len(q) : q[i] \in OpenHit

\* Requests, and answers, by which the box s.open is drained further.
Asked(m, s) ==
    \/ m.cmd \in {"work", "check"} /\ m.box = s.open
    \/ m.cmd = "recv" /\ s.open = "in" /\ s.box["in"][m.slot] = "none"
    \/ m.cmd = "confirm" /\ s.open = "out"
LastRow(m, b) == m.ok /\ m.cmd = "work" /\ m.slot = NSlots /\ m.box = b
Told(m, s) ==
    \/ m \in OpenHit \/ LastRow(m, s.open)
    \/ m.ok /\ m.cmd = "check" /\ m.box = s.open /\ m.count > 0
    \/ m.ok /\ m.cmd \in {"recv", "confirm"} /\ m.box = s.open
Draining == \/ \E i \in 1 .. Len(up) : Asked(up[i], srv)
            \/ \E i \in 1 .. Len(down) : Told(down[i], srv)
Settled == /\ srv.open = "in" => srv.queue = 0 \/ Free(srv.box["in"]) = {}
           /\ srv.open = "out" => srv.taken = {}

(* The last listing asked for is of the box open; rows under way end with     *)
(* the last row of the box open, or it is asked for again.                    *)
Listing(q, i, b) == \E j \in i .. Len(q) : q[j].cmd = "work" /\ q[j].box = b
WorkEnd ==
    srv.open # "none" /\ ~Opening(down) =>
        \A i \in 1 .. Len(up) : up[i].cmd = "work" => Listing(up, i, srv.open)
RowsEnd ==
    srv.open # "none" => \A i \in 1 .. Len(down) : down[i].cmd = "work" =>
        \/ Opening(down) \/ Listing(up, 1, srv.open)
        \/ \E j \in i .. Len(down) : LastRow(down[j], srv.open)

(* With parcels waiting the server's inbox only fills: what the client holds  *)
(* filled, or is told is, still is.                                           *)
Held ==
    srv.open = "in" /\ ~hist.news /\ srv.queue > 0 =>
        /\ \A i \in 1 .. Len(down) : down[i] \in Fills /\ down[i].cell # "none" =>
              \/ srv.box["in"][down[i].slot] # "none"
              \/ \E j \in i + 1 .. Len(down) : down[j] \in OpenHit
        /\ Opening(down) \/ \A s \in Slots : c.slots[s] # "none" => srv.box["in"][s] # "none"

Kinds ==
    /\ \A s \in Slots : srv.box["in"][s] \in {"none", "parcel"}
    /\ \A i \in 1 .. Len(down) :
          /\ down[i].cmd = "recv" /\ down[i].ok => down[i].box = "in"
          /\ down[i].cmd \in {"set", "send", "cancel"} => down[i].cell # "parcel"

DrainInv ==
    /\ Kinds /\ Held
    /\ used.lost = 0 =>
        /\ WorkEnd /\ RowsEnd
        /\ used.errors = 0 /\ ~hist.news => Settled \/ Draining

-----------------------------------------------------------------------------
(* What the server's steps do for the drain.                                  *)

Kind(m) == /\ m.cmd = "recv" /\ m.ok => m.box = "in"
           /\ m.cmd \in {"set", "send", "cancel"} => m.cell # "parcel"
Fuller == \A s \in Slots : srv.box["in"][s] # "none" => srv'.box["in"][s] # "none"
Waiting == srv.open = "in" /\ ~hist.news /\ srv.queue > 0
Same == /\ srv'.open = srv.open /\ srv'.box["in"] = srv.box["in"]
        /\ srv'.queue = srv.queue /\ srv'.taken = srv.taken
Clear == used.lost = 0 /\ used.errors = 0 /\ ~hist.news

Served(r) ==
    /\ up # <<>> /\ up' = Tail(up) /\ r \in Seq(GoodDowns) /\ down' = down \o r /\ UNCHANGED c
    /\ srv'.open = srv.open \/ Opening(r)
    /\ \A i \in 1 .. Len(r) : r[i].cmd = "work" => Head(up).cmd = "work"
    /\ Head(up).cmd = "work" /\ srv.open # "none" /\ used'.lost = 0 =>
            \E i \in 1 .. Len(r) : i = Len(r) /\ LastRow(r[i], Head(up).box)
    /\ \A s \in Slots : srv'.box["in"][s] \in {"none", "parcel"}
    /\ \A i \in 1 .. Len(r) : Kind(r[i])
    /\ \A i \in 1 .. Len(r) : r[i] \in Fills /\ r[i].cell # "none" /\ srv'.open = "in" =>
            srv'.box["in"][r[i].slot] # "none"
    /\ Waiting' => Opening(r) \/ (Waiting /\ Fuller)
    /\ Clear' => \/ Settled' \/ \E i \in 1 .. Len(r) : Told(r[i], srv')
                 \/ (~Asked(Head(up), srv) /\ ~hist.news /\ Same)

\* The request is dropped or lost, ...
Silent ==
    /\ up # <<>> /\ up' = Tail(up) /\ UNCHANGED <<c, srv, down>> /\ (hist.news => hist'.news)
    /\ Head(up).cmd = "work" => srv.open = "none" \/ used'.lost # 0
    /\ Clear' => Settled \/ ~Asked(Head(up), srv)

LEMMA SilentServed ==
    ASSUME Inv, Kinds, Silent
    PROVE  \E r : Served(r)
<1>1. down \in Seq(GoodDowns) /\ down' = down
  BY DEF Inv, Types, Silent
<1>2. PICK r : r \in Seq(GoodDowns) /\ Len(r) = 0 /\ down' = down \o r
  <2>1. <<>> \in Seq(GoodDowns) /\ Len(<<>>) = 0 /\ down \o <<>> = down
    BY <1>1, QueueTyped
  <2> QED BY <1>1, <2>1, Zenon
<1>3. Waiting' => Waiting /\ Fuller
  BY DEF Silent, Waiting, Fuller
<1>4. Clear' => Settled' \/ (~Asked(Head(up), srv) /\ ~hist.news /\ Same)
  BY DEF Silent, Clear, Settled, Same
<1>5. Served(r)
  BY <1>2, <1>3, <1>4 DEF Served, Silent, Kinds
<1> QED BY <1>5

\* ... or it is answered or refused with one message.
Spoken(m) ==
    /\ up # <<>> /\ up' = Tail(up) /\ m \in GoodDowns /\ Tell(<<m>>) /\ UNCHANGED c
    /\ srv'.open = srv.open \/ m \in OpenHit
    /\ Head(up).cmd # "work" /\ m.cmd # "work" /\ Kind(m)
    /\ \A s \in Slots : srv'.box["in"][s] \in {"none", "parcel"}
    /\ m \in Fills /\ m.cell # "none" /\ srv'.open = "in" => srv'.box["in"][m.slot] # "none"
    /\ Waiting' => m \in OpenHit \/ (Waiting /\ Fuller)
    /\ Clear' => \/ Settled' \/ Told(m, srv') \/ (~Asked(Head(up), srv) /\ ~hist.news /\ Same)

LEMMA SpokenServed ==
    ASSUME Inv, NEW m, Spoken(m)
    PROVE  \E r : Served(r)
<1>1. down \in Seq(GoodDowns) /\ m \in GoodDowns
  BY DEF Inv, Types, Spoken
<1>2. PICK r : r \in Seq(GoodDowns) /\ Len(r) = 1 /\ r[1] = m /\ down' = down \o r
  <2>1. <<m>> \in Seq(GoodDowns) /\ Len(<<m>>) = 1 /\ <<m>>[1] = m
    BY <1>1
  <2>2. down' = down \o <<m>>
    BY DEF Spoken, Tell
  <2> QED BY <2>1, <2>2, Zenon
<1>3. /\ \A i \in 1 .. Len(r) : r[i] = m
      /\ 1 \in 1 .. Len(r)
      /\ m \in OpenHit => Opening(r)
  BY <1>2 DEF Opening
<1>4. Served(r)
  BY <1>2, <1>3 DEF Served, Spoken
<1> QED BY <1>4

\* The server's steps, and what the network does to a request.
LEMMA ServeServed ==
    ASSUME Inv, Kinds, Serve \/ Fail \/ Lose
    PROVE  \E r : Served(r)
<1> DEFINE n == Head(up)
<1>1. up # <<>> /\ up' = Tail(up) /\ UNCHANGED c
  BY DEF Serve, ServeOpen, ServeClose, ServeList, ServeRecv, ServeConfirm, ServeAccept,
         ServeRemove, ServeStaged, ServeQuery, Fail, Lose, Request, Idle
<1>2. /\ n \in GoodUps /\ n.box \in Boxes /\ srv \in Servers /\ hist \in Histories
      /\ used \in Budget /\ srv.queue \in Nat /\ srv.open \in Openings
  BY <1>1, ServedTyped
<1>3. \A s \in Slots : srv.box["in"][s] \in {"none", "parcel"}
  BY DEF Kinds
<1>4. ASSUME UNCHANGED <<srv, down>>, hist.news => hist'.news, n.cmd # "work",
             Clear' => Settled \/ ~Asked(n, srv)
      PROVE  \E r : Served(r)
  <2>1. Silent
    BY <1>1, <1>4 DEF Silent
  <2> QED BY <2>1, SilentServed
<1>5. ASSUME NEW m \in GoodDowns, Tell(<<m>>), srv'.open = srv.open, n.cmd # "work", m.cmd # "work",
             Kind(m), srv'.box["in"] = srv.box["in"], srv'.queue = srv.queue,
             m \notin Fills \/ srv.open # "in", hist.news => hist'.news,
             Clear' => Settled' \/ Told(m, srv') \/ (~Asked(n, srv) /\ Same)
      PROVE  \E r : Served(r)
  <2>1. Waiting' => Waiting /\ Fuller
    BY <1>5 DEF Waiting, Fuller
  <2>2. Clear' => ~hist.news
    BY <1>5 DEF Clear
  <2>3. Spoken(m)
    BY <1>1, <1>3, <1>5, <2>1, <2>2 DEF Spoken
  <2> QED BY <2>3, SpokenServed
<1>6. CASE ServeOpen
  <2>1. n.cmd = "open" /\ UNCHANGED <<c, used>>
    BY <1>6 DEF ServeOpen, Request, Idle
  <2>2. CASE /\ srv.open # "none" /\ UNCHANGED <<srv, down>>
             /\ hist' = [hist EXCEPT !.again = TRUE]
    <3>1. hist'.news = hist.news
      BY <1>2, <2>2 DEF Histories
    <3>2. ~Asked(n, srv)
      BY <2>1 DEF Asked
    <3> QED BY <1>4, <2>1, <2>2, <3>1, <3>2
  <2>3. CASE /\ srv' = [srv EXCEPT !.open = n.box, !.accepted = {}]
             /\ Tell(<<Done("open", n.box, NoSlot, "none")>>)
    <3>1. PICK m : m = Done("open", n.box, NoSlot, "none")
      OBVIOUS
    <3>2. m \in GoodDowns /\ m.cmd = "open" /\ m.ok
      BY <1>2, <3>1 DEF Done, Reply, GoodDowns, Downs, Asks, NoSlot, Stats, Filling, Emptying
    <3>3. m \in OpenHit /\ Kind(m) /\ m \notin Fills
      BY <3>2 DEF OpenHit, Kind, Fills, Filling
    <3>4. srv'.box = srv.box
      BY <1>2, <2>3 DEF Servers
    <3>5. Spoken(m)
      BY <1>1, <1>3, <2>1, <2>3, <3>1, <3>2, <3>3, <3>4 DEF Spoken, Told
    <3> QED BY <3>5, SpokenServed
  <2> QED BY <1>6, <2>2, <2>3 DEF ServeOpen
<1>7. CASE ServeClose
  <2>1. n.cmd = "close" /\ UNCHANGED <<c, used, hist>>
    BY <1>7 DEF ServeClose, Request, Idle
  <2>2. CASE UNCHANGED <<srv, down>>
    <3>1. ~Asked(n, srv)
      BY <2>1 DEF Asked
    <3> QED BY <1>4, <2>1, <2>2, <3>1
  <2>3. CASE /\ srv' = [srv EXCEPT !.open = "none", !.accepted = {}]
             /\ Tell(<<Done("close", n.box, NoSlot, "none")>>)
    <3>1. PICK m : m = Done("close", n.box, NoSlot, "none")
      OBVIOUS
    <3>2. m \in GoodDowns /\ m.cmd = "close" /\ m.ok
      BY <1>2, <3>1 DEF Done, Reply, GoodDowns, Downs, Asks, NoSlot, Stats, Filling, Emptying
    <3>3. m \in OpenHit /\ Kind(m) /\ m \notin Fills
      BY <3>2 DEF OpenHit, Kind, Fills, Filling
    <3>4. srv'.box = srv.box
      BY <1>2, <2>3 DEF Servers
    <3>5. Spoken(m)
      BY <1>1, <1>3, <2>1, <2>3, <3>1, <3>2, <3>3, <3>4 DEF Spoken, Told
    <3> QED BY <3>5, SpokenServed
  <2> QED BY <1>7, <2>2, <2>3 DEF ServeClose
<1>8. CASE ServeAccept
  <2>1. n.cmd = "accept" /\ UNCHANGED <<c, used, hist>>
    BY <1>8 DEF ServeAccept, Request, Idle
  <2>2. ~Asked(n, srv)
    BY <2>1 DEF Asked
  <2>3. CASE UNCHANGED <<srv, down>>
    BY <1>4, <2>1, <2>2, <2>3
  <2>4. CASE /\ srv' = [srv EXCEPT !.accepted = srv.accepted \cup {n.slot}]
             /\ Tell(<<Done("accept", "in", n.slot, "none")>>)
    <3>1. PICK m : m = Done("accept", "in", n.slot, "none")
      OBVIOUS
    <3>2. m \in GoodDowns /\ m.cmd = "accept" /\ m \notin Fills /\ Kind(m)
      BY <1>2, <3>1 DEF Done, Reply, GoodUps, Ups, GoodDowns, Downs, Asks, Boxes, NoSlot, Stats,
                        Filling, Emptying, Fills, Kind
    <3>3. PICK u : u = srv.accepted \cup {n.slot}
      OBVIOUS
    <3>4. srv' = [srv EXCEPT !.accepted = u]
      BY <2>4, <3>3, Zenon
    <3>5. Same
      BY <1>2, <3>4 DEF Servers, Same
    <3> QED BY <1>5, <2>1, <2>2, <2>4, <3>1, <3>2, <3>5 DEF Same
  <2> QED BY <1>8, <2>3, <2>4 DEF ServeAccept
<1>9. CASE ServeQuery
  <2>1. n.cmd = "query" /\ UNCHANGED <<c, used, srv, hist>>
    BY <1>9 DEF ServeQuery, Request, Idle
  <2>2. ~Asked(n, srv) /\ Same
    BY <2>1 DEF Asked, Same
  <2>3. PICK m : m = IF n.name \in Chars THEN Done("query", "out", NoSlot, "none") ELSE Failed(n)
    OBVIOUS
  <2>4. m \in GoodDowns /\ m.cmd = "query"
    <3>1. CASE m = Done("query", "out", NoSlot, "none")
      BY <3>1 DEF Done, Reply, GoodDowns, Downs, Asks, Boxes, NoSlot, Stats, Filling, Emptying
    <3>2. CASE m = Failed(n)
      BY <1>2, <2>1, <3>2, FailedTyped DEF Failed, Done, Reply
    <3> QED BY <2>3, <3>1, <3>2
  <2>5. Kind(m) /\ m \notin Fills
    BY <2>4 DEF Kind, Fills, Filling
  <2>6. Tell(<<m>>)
    BY <1>9, <2>3, Zenon DEF ServeQuery
  <2> QED BY <1>5, <2>1, <2>2, <2>4, <2>5, <2>6
<1>10. CASE ServeList
  <2>1. n.cmd \in {"work", "check"} /\ UNCHANGED <<c, used, srv, hist>>
    BY <1>10 DEF ServeList, Request, Idle
  <2>2. Same /\ (srv.open = "none" => Settled)
    BY <2>1 DEF Same, Settled
  <2>3. CASE UNCHANGED down /\ srv.open = "none"
    <3>1. Silent
      BY <1>1, <2>1, <2>2, <2>3 DEF Silent
    <3> QED BY <3>1, SilentServed
  <2>4. CASE srv.open # "none" /\ n.cmd = "work" /\ Tell(Rows(n.box))
    <3>1. PICK r : r = Rows(n.box)
      OBVIOUS
    <3>2. /\ r \in Seq(GoodDowns) /\ Len(r) = NSlots /\ NSlots \in 1 .. NSlots
          /\ \A i \in 1 .. Len(r) : i \in Slots /\ r[i] = Done("work", n.box, i, srv.box[srv.open][i])
      BY <1>2, <2>4, <3>1, RowsTyped, BoundsAssumption DEF Rows, Slots, Cells
    <3>3. \A i \in 1 .. Len(r) : /\ r[i].cmd = "work" /\ r[i].ok /\ r[i].slot = i
                                 /\ r[i].box = n.box /\ r[i].cell = srv.box[srv.open][i]
      BY <3>2 DEF Done, Reply
    <3>4. \A i \in 1 .. Len(r) : Kind(r[i]) /\ (srv.open = "in" /\ r[i].cell # "none" =>
                srv.box["in"][r[i].slot] # "none")
      BY <3>3 DEF Kind
    <3>5. NSlots \in 1 .. Len(r) /\ NSlots = Len(r) /\ LastRow(r[NSlots], n.box)
      BY <3>2, <3>3 DEF LastRow
    <3>6. Waiting' => Waiting /\ Fuller
      BY <2>1 DEF Waiting, Fuller
    <3>7. Clear' => (\E i \in 1 .. Len(r) : Told(r[i], srv')) \/ (~Asked(n, srv) /\ ~hist.news /\ Same)
      <4>1. CASE n.box = srv.open
        BY <2>1, <3>5, <4>1 DEF Told
      <4>2. CASE n.box # srv.open
        BY <2>1, <2>2, <2>4, <4>2 DEF Asked, Clear
      <4> QED BY <4>1, <4>2
    <3>8. down' = down \o r /\ srv' = srv
      BY <2>1, <2>4, <3>1 DEF Tell
    <3>9. Served(r)
      BY <1>1, <1>3, <2>4, <3>2, <3>3, <3>4, <3>5, <3>6, <3>7, <3>8 DEF Served
    <3> QED BY <3>9
  <2>5. CASE n.cmd = "check" /\ n.box # srv.open /\ UNCHANGED down
    <3>1. ~Asked(n, srv)
      BY <2>5 DEF Asked
    <3> QED BY <1>4, <2>1, <2>5, <3>1
  <2>6. CASE /\ n.cmd = "check" /\ n.box = srv.open
             /\ Tell(<<Reply("check", n.box, NoSlot, "none",
                             IF n.box = "in" THEN srv.queue
                             ELSE IF srv.taken = {} THEN 0 ELSE 1)>>)
    <3>1. PICK k \in Nat : k = IF n.box = "in" THEN srv.queue
                               ELSE IF srv.taken = {} THEN 0 ELSE 1
      BY <1>2
    <3>2. PICK m : m = Reply("check", n.box, NoSlot, "none", k)
      OBVIOUS
    <3>3. Tell(<<m>>)
      BY <2>6, <3>1, <3>2, Zenon
    <3>4. m \in GoodDowns /\ m.cmd = "check" /\ m.ok /\ m.box = n.box /\ m.count = k
      BY <1>2, <3>2 DEF Reply, GoodDowns, Downs, Asks, NoSlot, Stats, Filling, Emptying
    <3>5. Kind(m) /\ m \notin Fills
      BY <3>4 DEF Kind, Fills, Filling
    <3>6. Settled' \/ Told(m, srv')
      <4>1. CASE k > 0
        BY <2>1, <2>6, <3>4, <4>1 DEF Told
      <4>2. CASE k = 0
        BY <1>2, <2>1, <2>6, <3>1, <4>2 DEF Settled, Boxes
      <4> QED BY <4>1, <4>2
    <3> QED BY <1>5, <2>1, <2>6, <3>3, <3>4, <3>5, <3>6
  <2> QED BY <1>10, <2>1, <2>3, <2>4, <2>5, <2>6 DEF ServeList
<1>11. CASE ServeRecv
  <2>1. n.cmd = "recv" /\ UNCHANGED <<c, used, hist>> /\ n.slot \in Slots
    BY <1>2, <1>11 DEF ServeRecv, Request, Idle, GoodUps, OnCell
  <2>2. CASE /\ ~(srv.open = "in" /\ srv.queue > 0 /\ srv.box["in"][n.slot] = "none")
             /\ UNCHANGED <<srv, down>>
    <3>1. Settled \/ ~Asked(n, srv)
      BY <1>2, <2>1, <2>2 DEF Settled, Asked
    <3> QED BY <1>4, <2>1, <2>2, <3>1
  <2>3. CASE /\ srv.open = "in" /\ srv.queue > 0 /\ Tell(<<Done("recv", "in", n.slot, "parcel")>>)
             /\ srv' = [srv EXCEPT !.box["in"][n.slot] = "parcel", !.queue = srv.queue - 1]
    <3>1. PICK m : m = Done("recv", "in", n.slot, "parcel")
      OBVIOUS
    <3>2. /\ m \in GoodDowns /\ m.cmd = "recv" /\ m.box = "in" /\ m.ok /\ m.slot = n.slot
          /\ Kind(m)
      BY <2>1, <3>1 DEF Done, Reply, GoodDowns, Downs, Asks, Boxes, Stats, Filling, Emptying, Kind
    <3>3. /\ srv'.open = "in" /\ srv'.queue = srv.queue - 1
          /\ \A s \in Slots : srv'.box["in"][s] =
                IF s = n.slot THEN "parcel" ELSE srv.box["in"][s]
      <4>1. PICK f : f = [srv.box EXCEPT !["in"][n.slot] = "parcel"]
        OBVIOUS
      <4>2. srv' = [srv EXCEPT !.box = f, !.queue = srv.queue - 1]
        BY <2>3, <4>1
      <4>3. \A s \in Slots : f["in"][s] = IF s = n.slot THEN "parcel" ELSE srv.box["in"][s]
        BY <1>2, <2>1, <4>1 DEF Servers, Boxes
      <4> QED BY <1>2, <2>3, <4>2, <4>3 DEF Servers
    <3>4. Waiting' => Waiting /\ Fuller
      BY <2>1, <2>3, <3>3 DEF Waiting, Fuller
    <3>5. Spoken(m)
      BY <1>1, <1>3, <2>1, <2>3, <3>1, <3>2, <3>3, <3>4 DEF Spoken, Told
    <3> QED BY <3>5, SpokenServed
  <2> QED BY <1>11, <2>1, <2>2, <2>3 DEF ServeRecv, Cells
<1>12. CASE ServeConfirm
  <2>1. n.cmd = "confirm" /\ UNCHANGED <<c, used, hist>>
    BY <1>12 DEF ServeConfirm, Request, Idle
  <2>2. CASE ~(srv.open = "out" /\ srv.taken # {}) /\ UNCHANGED <<srv, down>>
    <3>1. Settled \/ ~Asked(n, srv)
      BY <2>1, <2>2 DEF Settled, Asked
    <3> QED BY <1>4, <2>1, <2>2, <3>1
  <2>3. CASE srv.open = "out" /\ \E s \in srv.taken :
                /\ srv' = [srv EXCEPT !.box["out"][s] = "none", !.taken = srv.taken \ {s}]
                /\ Tell(<<Done("confirm", "out", s, "none")>>)
    <3>1. PICK s \in srv.taken :
                /\ srv' = [srv EXCEPT !.box["out"][s] = "none", !.taken = srv.taken \ {s}]
                /\ Tell(<<Done("confirm", "out", s, "none")>>)
      BY <2>3
    <3>2. /\ s \in Slots /\ srv'.open = "out" /\ srv'.box["in"] = srv.box["in"]
          /\ srv'.queue = srv.queue
      BY <1>2, <2>3, <3>1 DEF Servers
    <3>3. PICK m : m = Done("confirm", "out", s, "none")
      OBVIOUS
    <3>4. m \in GoodDowns /\ m.cmd = "confirm" /\ m.box = "out" /\ m.ok /\ Kind(m) /\ m \notin Fills
      BY <3>2, <3>3 DEF Done, Reply, GoodDowns, Downs, Asks, Boxes, Stats, Filling, Emptying, Kind,
                        Fills
    <3>5. Told(m, srv')
      BY <3>2, <3>4 DEF Told
    <3> QED BY <1>5, <2>1, <2>3, <3>1, <3>2, <3>3, <3>4, <3>5
  <2> QED BY <1>12, <2>1, <2>2, <2>3 DEF ServeConfirm
<1>13. CASE ServeRemove
  <2>1. n.cmd \in {"get", "reject"} /\ UNCHANGED <<c, used>> /\ n.slot \in Slots
        /\ hist' = [hist EXCEPT !.news = hist.news \/ (srv.queue > 0)]
    BY <1>2, <1>13 DEF ServeRemove, Request, Idle, GoodUps, OnCell
  <2>2. (hist.news => hist'.news) /\ (srv.queue > 0 => hist'.news)
    <3>1. PICK x \in BOOLEAN : x = (hist.news \/ (srv.queue > 0))
      OBVIOUS
    <3>2. hist' = [hist EXCEPT !.news = x]
      BY <2>1, <3>1, Zenon
    <3> QED BY <1>2, <3>1, <3>2 DEF Histories
  <2>3. ~Asked(n, srv)
    BY <2>1 DEF Asked
  <2>4. CASE UNCHANGED <<srv, down>>
    BY <1>4, <2>1, <2>2, <2>3, <2>4
  <2>5. CASE /\ srv.open = n.box /\ Put(n.slot, "none")
             /\ Tell(<<Done(n.cmd, n.box, n.slot, "none")>>)
    <3>1. PICK m : m = Done(n.cmd, n.box, n.slot, "none")
      OBVIOUS
    <3>2. m \in GoodDowns /\ m.cmd = n.cmd /\ Kind(m) /\ m \notin Fills
      BY <1>2, <2>1, <3>1 DEF Done, Reply, GoodDowns, Downs, Asks, Stats, Filling, Emptying, Kind,
                              Fills
    <3>3. /\ srv'.open = srv.open /\ srv'.queue = srv.queue /\ srv'.taken = srv.taken
          /\ srv'.box["in"] = IF srv.open = "in" THEN [srv.box["in"] EXCEPT ![n.slot] = "none"]
                              ELSE srv.box["in"]
      BY <1>2, <2>5 DEF Servers, Put, Boxes
    <3>4. \A s \in Slots : srv'.box["in"][s] \in {"none", "parcel"}
      BY <1>2, <1>3, <3>3 DEF Servers, Boxes
    <3>5. CASE srv.open = "in"
      <4>1. ~Waiting' /\ (Clear' => Settled')
        BY <1>2, <2>2, <3>3, <3>5 DEF Waiting, Clear, Settled
      <4>2. Spoken(m)
        BY <1>1, <2>1, <2>5, <3>1, <3>2, <3>3, <3>4, <4>1 DEF Spoken
      <4> QED BY <4>2, SpokenServed
    <3>6. CASE srv.open # "in"
      <4>1. Same
        BY <3>3, <3>6 DEF Same
      <4> QED BY <1>5, <2>1, <2>2, <2>3, <2>5, <3>1, <3>2, <3>3, <3>6, <4>1
    <3> QED BY <3>5, <3>6
  <2> QED BY <1>13, <2>4, <2>5 DEF ServeRemove
<1>14. CASE ServeStaged
  <2>1. n.cmd \in {"set", "send", "cancel"} /\ UNCHANGED <<c, used, hist>> /\ n.slot \in Slots
    BY <1>2, <1>14 DEF ServeStaged, Request, Idle, Turns, GoodUps, OnCell
  <2>2. ~Asked(n, srv)
    BY <2>1 DEF Asked
  <2>3. CASE UNCHANGED <<srv, down>>
    BY <1>4, <2>1, <2>2, <2>3
  <2>4. CASE /\ srv.open = "out" /\ Put(n.slot, Turns[n.cmd].to)
             /\ Tell(<<Done(n.cmd, "out", n.slot, Turns[n.cmd].to)>>)
    <3>1. PICK x \in {"staged", "sent"} : x = Turns[n.cmd].to
      BY <2>1 DEF Turns
    <3>2. PICK m : m = Done(n.cmd, "out", n.slot, x)
      OBVIOUS
    <3>3. m \in GoodDowns /\ m.cmd = n.cmd /\ Kind(m)
      BY <1>2, <2>1, <3>1, <3>2 DEF Done, Reply, GoodDowns, Downs, Asks, Boxes, Stats, Filling,
                                    Emptying, Kind
    <3>4. Tell(<<m>>) /\ Put(n.slot, x)
      BY <2>4, <3>1, <3>2, Zenon
    <3>5. Same
      BY <1>2, <2>4, <3>4 DEF Servers, Put, Boxes, Same
    <3> QED BY <1>5, <2>1, <2>2, <2>4, <3>3, <3>4, <3>5 DEF Same
  <2> QED BY <1>14, <2>3, <2>4 DEF ServeStaged
<1>15. CASE Fail
  <2>1. /\ used' = [used EXCEPT !.errors = used.errors + 1] /\ UNCHANGED srv
        /\ hist' = [hist EXCEPT !.again = hist.again \/ (n.cmd = "open" /\ srv.open # "none")]
        /\ Tell(<<Failed(n)>>) /\ n.cmd # "work" /\ n.cmd # "recv" /\ n.cmd # "check"
    BY <1>15 DEF Fail, Request
  <2>2. ~Clear'
    BY <1>2, <2>1, BoundsAssumption DEF Budget, Clear
  <2>3. PICK x \in BOOLEAN : x = (hist.again \/ (n.cmd = "open" /\ srv.open # "none"))
    OBVIOUS
  <2>4. hist' = [hist EXCEPT !.again = x]
    BY <2>1, <2>3, Zenon
  <2>5. hist'.news = hist.news
    BY <1>2, <2>4 DEF Histories
  <2>6. PICK m : m = Failed(n)
    OBVIOUS
  <2>7. m \in GoodDowns /\ ~m.ok /\ m.cmd = n.cmd /\ m.cell = "none"
    BY <1>2, <2>6, FailedTyped DEF Failed, Done, Reply
  <2>8. Kind(m) /\ m \notin Fills
    BY <2>7 DEF Kind, Fills
  <2> QED BY <1>5, <2>1, <2>2, <2>5, <2>6, <2>7, <2>8
<1>16. CASE Lose
  <2>1. UNCHANGED <<srv, down, hist>> /\ used' = [used EXCEPT !.lost = used.lost + 1]
    BY <1>16 DEF Lose
  <2>2. used'.lost # 0 /\ ~Clear'
    BY <1>2, <2>1, BoundsAssumption DEF Budget, Clear
  <2>3. Silent
    BY <1>1, <2>1, <2>2 DEF Silent
  <2> QED BY <2>3, SilentServed
<1> QED BY <1>6, <1>7, <1>8, <1>9, <1>10, <1>11, <1>12, <1>13, <1>14, <1>15, <1>16 DEF Serve

\* A request leaves the queue, answered or not.
LEMMA DrainServed ==
    ASSUME Inv, DrainInv, Frugal, NEW r, Served(r)
    PROVE  DrainInv'
<1>1. /\ up \in Seq(GoodUps) /\ up # <<>> /\ up' = Tail(up) /\ r \in Seq(GoodDowns)
      /\ down \in Seq(GoodDowns) /\ down' = down \o r /\ c' = c
  BY DEF Inv, Types, Served
<1>2. /\ Len(up) \in Nat \ {0} /\ Len(up') = Len(up) - 1 /\ Head(up) = up[1]
      /\ \A i \in 1 .. Len(up) - 1 : up'[i] = up[i + 1]
  BY <1>1, Popped
<1>3. /\ Len(down) \in Nat /\ Len(r) \in Nat /\ Len(down') = Len(down) + Len(r)
      /\ \A i \in 1 .. Len(down) : down'[i] = down[i]
      /\ \A i \in 1 .. Len(r) : down'[Len(down) + i] = r[i]
      /\ \A i \in Len(down) + 1 .. Len(down) + Len(r) :
                i - Len(down) \in 1 .. Len(r) /\ down'[i] = r[i - Len(down)]
  BY <1>1, Joined
<1>4. /\ \A i \in 1 .. Len(down') : i \in 1 .. Len(down) \/ i \in Len(down) + 1 .. Len(down) + Len(r)
      /\ \A i \in 1 .. Len(r) : Len(down) + i \in 1 .. Len(down')
      /\ \A i \in 1 .. Len(down) : i \in 1 .. Len(down')
  BY <1>3
<1>5. (Opening(down) => Opening(down')) /\ (Opening(r) => Opening(down'))
  BY <1>3, <1>4 DEF Opening
<1>6. Kinds'
  <2>1. \A s \in Slots : srv'.box["in"][s] \in {"none", "parcel"}
    BY DEF Served
  <2>2. ASSUME NEW i \in 1 .. Len(down') PROVE Kind(down'[i])
    <3>1. CASE i \in 1 .. Len(down)
      BY <1>3, <3>1 DEF DrainInv, Kinds, Kind
    <3>2. CASE i \in Len(down) + 1 .. Len(down) + Len(r)
      BY <1>3, <3>2 DEF Served
    <3> QED BY <1>4, <3>1, <3>2
  <2> QED BY <2>1, <2>2 DEF Kinds, Kind
<1>7. ASSUME Waiting' PROVE Held'
  <2>1. ASSUME NEW i \in Len(down) + 1 .. Len(down) + Len(r), down'[i] \in Fills,
               down'[i].cell # "none"
        PROVE  srv'.box["in"][down'[i].slot] # "none"
    <3>1. PICK k \in 1 .. Len(r) : down'[i] = r[k]
      BY <1>3
    <3>2. srv'.open = "in" /\ r[k] \in Fills /\ r[k].cell # "none"
      BY <1>7, <2>1, <3>1 DEF Waiting
    <3> QED BY <3>1, <3>2 DEF Served
  <2>2. CASE Opening(r)
    <3>1. PICK j \in 1 .. Len(r) : r[j] \in OpenHit
      BY <2>2 DEF Opening
    <3>2. \A i \in 1 .. Len(down) : /\ Len(down) + j \in i + 1 .. Len(down')
                                    /\ down'[Len(down) + j] \in OpenHit
      BY <1>3, <3>1
    <3> QED BY <1>4, <1>5, <2>1, <2>2, <3>2 DEF Held
  <2>3. CASE Waiting /\ Fuller
    <3>1. ASSUME NEW i \in 1 .. Len(down), down'[i] \in Fills, down'[i].cell # "none"
          PROVE  \/ srv'.box["in"][down'[i].slot] # "none"
                 \/ \E j \in i + 1 .. Len(down') : down'[j] \in OpenHit
      <4>1. down'[i] = down[i] /\ down[i].slot \in Slots
        BY <1>1, <1>3, <3>1 DEF Fills, GoodDowns
      <4>2. \/ srv.box["in"][down[i].slot] # "none"
            \/ \E j \in i + 1 .. Len(down) : down[j] \in OpenHit
        BY <2>3, <3>1, <4>1 DEF DrainInv, Held, Waiting
      <4> QED BY <1>3, <2>3, <4>1, <4>2 DEF Fuller
    <3>2. Opening(down) \/ \A s \in Slots : c.slots[s] # "none" => srv'.box["in"][s] # "none"
      BY <2>3 DEF DrainInv, Held, Waiting, Fuller
    <3> QED BY <1>1, <1>4, <1>5, <2>1, <3>1, <3>2 DEF Held
  <2> QED BY <1>7, <2>2, <2>3 DEF Served
<1>8. ASSUME used'.lost = 0 PROVE WorkEnd' /\ RowsEnd'
  <2>0. WorkEnd /\ RowsEnd
    BY <1>8 DEF Frugal, DrainInv
  <2> SUFFICES ASSUME srv'.open # "none", ~Opening(down')
               PROVE  /\ \A i \in 1 .. Len(up') : up'[i].cmd = "work" => Listing(up', i, srv'.open)
                      /\ \A i \in 1 .. Len(down') : down'[i].cmd = "work" =>
                            \/ Listing(up', 1, srv'.open)
                            \/ \E j \in i .. Len(down') : LastRow(down'[j], srv'.open)
    BY DEF WorkEnd, RowsEnd
  <2>1. ~Opening(down) /\ ~Opening(r) /\ srv'.open = srv.open
    BY <1>5 DEF Served
  <2>2. ASSUME NEW i \in 1 .. Len(up'), Listing(up, i + 1, srv.open)
        PROVE  Listing(up', i, srv'.open)
    <3>1. PICK j \in i + 1 .. Len(up) : up[j].cmd = "work" /\ up[j].box = srv.open
      BY <2>2 DEF Listing
    <3>2. j - 1 \in i .. Len(up') /\ up'[j - 1] = up[j]
      BY <1>2, <3>1
    <3> QED BY <2>1, <3>1, <3>2 DEF Listing
  <2>3. ASSUME NEW i \in 1 .. Len(up'), up'[i].cmd = "work"
        PROVE  Listing(up', i, srv'.open)
    <3>1. i + 1 \in 1 .. Len(up) /\ up[i + 1].cmd = "work"
      BY <1>2, <2>3
    <3> QED BY <2>0, <2>1, <2>2, <3>1 DEF WorkEnd
  <2>4. ASSUME Listing(up, 1, srv.open)
        PROVE  \/ Listing(up', 1, srv'.open)
               \/ \E j \in 1 .. Len(r) : j = Len(r) /\ LastRow(r[j], srv.open)
    <3>1. PICK k \in 1 .. Len(up) : up[k].cmd = "work" /\ up[k].box = srv.open
      BY <2>4 DEF Listing
    <3>2. CASE k = 1
      BY <1>2, <1>8, <2>1, <3>1, <3>2 DEF Served
    <3>3. CASE k # 1
      <4>1. 1 \in 1 .. Len(up') /\ k \in 1 + 1 .. Len(up)
        BY <1>2, <3>3
      <4> QED BY <2>2, <3>1, <4>1 DEF Listing
    <3> QED BY <3>2, <3>3
  <2>5. ASSUME NEW i \in 1 .. Len(down'), \E j \in 1 .. Len(r) : j = Len(r) /\ LastRow(r[j], srv.open)
        PROVE  \E j \in i .. Len(down') : LastRow(down'[j], srv'.open)
    <3>1. Len(r) \in 1 .. Len(r) /\ LastRow(r[Len(r)], srv.open)
      BY <2>5
    <3>2. Len(down') \in i .. Len(down') /\ down'[Len(down')] = r[Len(r)]
      BY <1>3, <3>1
    <3> QED BY <2>1, <3>1, <3>2
  <2>6. ASSUME NEW i \in 1 .. Len(down'), down'[i].cmd = "work"
        PROVE  \/ Listing(up', 1, srv'.open)
               \/ \E j \in i .. Len(down') : LastRow(down'[j], srv'.open)
    <3>1. CASE i \in 1 .. Len(down)
      <4>1. \/ Listing(up, 1, srv.open)
            \/ \E j \in i .. Len(down) : LastRow(down[j], srv.open)
        BY <1>3, <2>0, <2>1, <2>6, <3>1 DEF RowsEnd
      <4>2. CASE Listing(up, 1, srv.open)
        BY <2>4, <2>5, <4>2
      <4>3. CASE \E j \in i .. Len(down) : LastRow(down[j], srv.open)
        <5>1. PICK j \in i .. Len(down) : LastRow(down[j], srv.open)
          BY <4>3
        <5>2. j \in i .. Len(down') /\ down'[j] = down[j]
          BY <1>3, <5>1
        <5> QED BY <2>1, <5>1, <5>2
      <4> QED BY <4>1, <4>2, <4>3
    <3>2. CASE i \in Len(down) + 1 .. Len(down) + Len(r)
      <4>1. up[1].cmd = "work" /\ 1 \in 1 .. Len(up)
        BY <1>2, <1>3, <2>6, <3>2 DEF Served
      <4>2. Listing(up, 1, srv.open)
        BY <2>0, <2>1, <4>1 DEF WorkEnd
      <4> QED BY <2>4, <2>5, <4>2
    <3> QED BY <1>4, <3>1, <3>2
  <2> QED BY <2>3, <2>6
<1>9. ASSUME Clear' PROVE Settled' \/ Draining'
  <2>1. CASE \E i \in 1 .. Len(r) : Told(r[i], srv')
    <3>1. PICK i \in 1 .. Len(r) : Told(r[i], srv')
      BY <2>1
    <3>2. Len(down) + i \in 1 .. Len(down') /\ Told(down'[Len(down) + i], srv')
      BY <1>3, <1>4, <3>1
    <3> QED BY <3>2 DEF Draining
  <2>2. CASE ~Asked(Head(up), srv) /\ ~hist.news /\ Same
    <3>1. Settled \/ Draining
      BY <1>9, <2>2 DEF Frugal, DrainInv, Clear
    <3>2. \A m : (Asked(m, srv) => Asked(m, srv')) /\ (Told(m, srv) => Told(m, srv'))
      BY <2>2 DEF Asked, Told, Same
    <3>3. CASE Settled
      BY <2>2, <3>3 DEF Settled, Same
    <3>4. CASE \E i \in 1 .. Len(up) : Asked(up[i], srv)
      <4>1. PICK i \in 1 .. Len(up) : Asked(up[i], srv)
        BY <3>4
      <4>2. i # 1
        BY <1>2, <2>2, <4>1
      <4>3. i - 1 \in 1 .. Len(up') /\ up'[i - 1] = up[i]
        BY <1>2, <4>2
      <4>4. Asked(up'[i - 1], srv')
        BY <3>2, <4>1, <4>3
      <4> QED BY <4>3, <4>4 DEF Draining
    <3>5. CASE \E i \in 1 .. Len(down) : Told(down[i], srv)
      <4>1. PICK i \in 1 .. Len(down) : Told(down[i], srv)
        BY <3>5
      <4>2. i \in 1 .. Len(down') /\ Told(down'[i], srv')
        BY <1>3, <1>4, <3>2, <4>1
      <4> QED BY <4>2 DEF Draining
    <3> QED BY <3>1, <3>3, <3>4, <3>5 DEF Draining
  <2> QED BY <1>9, <2>1, <2>2 DEF Served
<1>10. Held'
  BY <1>7 DEF Held, Waiting
<1> QED BY <1>6, <1>8, <1>9, <1>10 DEF DrainInv, Clear

\* What an answer makes the client ask, where a drain goes on.
LEMMA SendsOn ==
    ASSUME NEW p \in Clients, NEW m \in GoodDowns
    PROVE  /\ m \in OpenHit /\ m.cmd = "open" => Sends(p, m) = <<OnBox("work", m.box)>>
           /\ LastRow(m, m.box) \/ (m.ok /\ m.cmd \in {"recv", "confirm"}) =>
                Sends(p, m) = <<OnBox("check", m.box)>>
           /\ m.ok /\ m.cmd = "check" /\ m.count > 0 /\ m.box = "out" =>
                Sends(p, m) = <<OnBox("confirm", "out")>>
           /\ m.ok /\ m.cmd = "check" /\ m.count > 0 /\ m.box = "in" /\ Free(p.slots) # {} =>
                Sends(p, m) = <<OnSlot("recv", "in", FirstFree(p.slots))>>
           /\ m \notin OpenHit => \A i \in 1 .. Len(Sends(p, m)) : Sends(p, m)[i].cmd # "work"
<1>1. m \in OpenHit /\ m.cmd = "open" => Sends(p, m) = <<OnBox("work", m.box)>>
  BY DEF Sends, OpenHit
<1>2. LastRow(m, m.box) \/ (m.ok /\ m.cmd \in {"recv", "confirm"}) =>
            Sends(p, m) = <<OnBox("check", m.box)>>
  BY DEF Sends, LastRow
<1>3. m.ok /\ m.cmd = "check" /\ m.count > 0 /\ m.box = "out" =>
            Sends(p, m) = <<OnBox("confirm", "out")>>
  BY DEF Sends
<1>4. m.ok /\ m.cmd = "check" /\ m.count > 0 /\ m.box = "in" /\ Free(p.slots) # {} =>
            Sends(p, m) = <<OnSlot("recv", "in", FirstFree(p.slots))>>
  BY DEF Sends
<1>5. ASSUME m \notin OpenHit, NEW i \in 1 .. Len(Sends(p, m)) PROVE Sends(p, m)[i].cmd # "work"
  <2>1. ASSUME NEW x, Sends(p, m) = <<x>>, x.cmd # "work" PROVE Sends(p, m)[i].cmd # "work"
    <3>1. Len(<<x>>) = 1 /\ <<x>>[1] = x
      OBVIOUS
    <3>2. i = 1
      BY <2>1, <3>1
    <3> QED BY <2>1, <3>1, <3>2
  <2>2. Sends(p, m) # <<>>
    BY <1>5
  <2>3. m.ok /\ m.cmd # "open"
    <3>1. m.ok
      BY <2>2 DEF Sends
    <3> QED BY <1>5, <3>1 DEF OpenHit
  <2>4. \A b, s : OnBox("check", b).cmd # "work" /\ OnBox("confirm", b).cmd # "work"
                  /\ OnSlot("recv", b, s).cmd # "work" /\ OnSlot("get", b, s).cmd # "work"
    BY DEF OnBox, OnSlot, Ask
  <2>5. \/ Sends(p, m) = <<OnBox("check", m.box)>>
        \/ Sends(p, m) = <<OnBox("confirm", "out")>>
        \/ Sends(p, m) = <<OnSlot("recv", "in", FirstFree(p.slots))>>
        \/ Sends(p, m) = <<OnSlot("get", m.box, p.take)>>
    BY <2>2, <2>3 DEF Sends
  <2> QED BY <2>1, <2>4, <2>5
<1> QED BY <1>1, <1>2, <1>3, <1>4, <1>5

\* The client reads the first answer, m.
ReadIn(m, r) ==
    /\ down # <<>> /\ m = Head(down) /\ m \in GoodDowns /\ down' = Tail(down)
    /\ r = Sends(c, m) /\ r \in Seq(GoodUps) /\ up' = up \o r /\ UNCHANGED <<srv, hist, used>>
    /\ c'.open = (IF m \in OpenHit THEN OpenVal[m] ELSE c.open)
    /\ \A s \in Slots : c'.slots[s] = IF m \in CellHit(s) THEN CellVal[m] ELSE c.slots[s]

LEMMA ObserveReads ==
    ASSUME Inv, Observe
    PROVE  \E m, r : ReadIn(m, r)
<1> DEFINE m == Head(down)
           d == Follow(c, m)
<1>1. /\ down # <<>> /\ m \in GoodDowns /\ down' = Tail(down) /\ c \in Clients
      /\ up' = up \o Sends(c, m) /\ UNCHANGED <<srv, hist, used>>
      /\ c' = (IF Resumes(d, m) THEN [d EXCEPT !.menu = "shown"] ELSE d)
  BY DEF Observe, Inv, Types
<1> HIDE DEF m
<1>2. /\ d \in Clients /\ d.open = IF m \in OpenHit THEN OpenVal[m] ELSE c.open
      /\ \A s \in Slots : d.slots[s] = IF m \in CellHit(s) THEN CellVal[m] ELSE c.slots[s]
  BY <1>1, FollowTyped
<1> HIDE DEF d
<1>3. c'.open = d.open /\ c'.slots = d.slots
  BY <1>1, <1>2 DEF Clients
<1>4. PICK r : r = Sends(c, m) /\ r \in Seq(GoodUps)
  BY <1>1, SendsTyped
<1>5. m = Head(down)
  BY DEF m
<1>6. ReadIn(m, r)
  BY <1>1, <1>2, <1>3, <1>4, <1>5 DEF ReadIn
<1> QED BY <1>6

\* The queues as an answer is read.
LEMMA ReadQueues ==
    ASSUME Inv, NEW m, NEW r, ReadIn(m, r)
    PROVE  /\ Len(down) \in Nat \ {0} /\ Len(down') = Len(down) - 1 /\ m = down[1]
           /\ \A i \in 1 .. Len(down) - 1 : down'[i] = down[i + 1]
           /\ Len(up) \in Nat /\ Len(r) \in Nat /\ Len(up') = Len(up) + Len(r)
           /\ \A i \in 1 .. Len(up) : up'[i] = up[i]
           /\ \A i \in 1 .. Len(r) : up'[Len(up) + i] = r[i]
           /\ \A i \in Len(up) + 1 .. Len(up) + Len(r) :
                    i - Len(up) \in 1 .. Len(r) /\ up'[i] = r[i - Len(up)]
           /\ \A x : r = <<x>> => Len(up') = Len(up) + 1 /\ up'[Len(up) + 1] = x
<1>1. /\ up \in Seq(GoodUps) /\ up' = up \o r /\ r \in Seq(GoodUps)
      /\ down \in Seq(GoodDowns) /\ down' = Tail(down) /\ down # <<>> /\ m = Head(down)
  BY DEF Inv, Types, ReadIn
<1>2. /\ Len(down) \in Nat \ {0} /\ Len(down') = Len(down) - 1 /\ m = down[1]
      /\ \A i \in 1 .. Len(down) - 1 : down'[i] = down[i + 1]
  BY <1>1, Popped
<1>3. /\ Len(up) \in Nat /\ Len(r) \in Nat /\ Len(up') = Len(up) + Len(r)
      /\ \A i \in 1 .. Len(up) : up'[i] = up[i]
      /\ \A i \in 1 .. Len(r) : up'[Len(up) + i] = r[i]
      /\ \A i \in Len(up) + 1 .. Len(up) + Len(r) :
                i - Len(up) \in 1 .. Len(r) /\ up'[i] = r[i - Len(up)]
  BY <1>1, Joined
<1>4. ASSUME NEW x, r = <<x>> PROVE Len(up') = Len(up) + 1 /\ up'[Len(up) + 1] = x
  <2>1. Len(<<x>>) = 1 /\ <<x>>[1] = x
    OBVIOUS
  <2>2. Len(r) = 1 /\ r[1] = x /\ 1 \in 1 .. Len(r)
    BY <1>4, <2>1
  <2> QED BY <1>3, <2>2
<1> QED BY <1>2, <1>3, <1>4

\* What drains the box goes on draining it, but for the answer read.
LEMMA DrainKeeps ==
    ASSUME Inv, NEW m, NEW r, ReadIn(m, r)
    PROVE  /\ \A i \in 1 .. Len(up) : Asked(up[i], srv) => Draining'
           /\ \A i \in 2 .. Len(down) : Told(down[i], srv) => Draining'
           /\ \A x : r = <<x>> /\ Asked(x, srv) => Draining'
<1>1. srv' = srv
  BY DEF ReadIn
<1>2. ASSUME NEW i \in 1 .. Len(up), Asked(up[i], srv) PROVE Draining'
  <2>1. i \in 1 .. Len(up') /\ Asked(up'[i], srv')
    BY <1>1, <1>2, ReadQueues
  <2> QED BY <2>1 DEF Draining
<1>3. ASSUME NEW i \in 2 .. Len(down), Told(down[i], srv) PROVE Draining'
  <2>1. i - 1 \in 1 .. Len(down') /\ down'[i - 1] = down[i]
    BY ReadQueues
  <2>2. Told(down'[i - 1], srv')
    BY <1>1, <1>3, <2>1
  <2> QED BY <2>1, <2>2 DEF Draining
<1>4. ASSUME NEW x, r = <<x>>, Asked(x, srv) PROVE Draining'
  <2>1. Len(up) + 1 \in 1 .. Len(up') /\ up'[Len(up) + 1] = x
    BY <1>4, ReadQueues
  <2>2. Asked(up'[Len(up) + 1], srv')
    BY <1>1, <1>4, <2>1
  <2> QED BY <2>1, <2>2 DEF Draining
<1> QED BY <1>2, <1>3, <1>4

\* A cell the client takes for free and the server has filled is about to be
\* told, with a listing or by the answer to a Recv.
LEMMA DrainUnseen ==
    ASSUME Inv, Kinds, WorkEnd, RowsEnd, used.lost = 0, NEW m, NEW r, ReadIn(m, r),
           m.cmd = "check", srv.open = "in",
           NEW s \in Slots, c.slots[s] = "none", srv.box["in"][s] # "none"
    PROVE  Draining'
<1>1. /\ Len(down) \in Nat \ {0} /\ m = down[1] /\ Len(up) \in Nat
      /\ down \in Seq(GoodDowns) /\ srv.box["in"][s] = "parcel"
  BY ReadQueues DEF Inv, Types, Kinds
<1>2. CASE Opening(down)
  <2>1. PICK j \in 1 .. Len(down) : down[j] \in OpenHit
    BY <1>2 DEF Opening
  <2>2. j \in 2 .. Len(down) /\ Told(down[j], srv)
    <3>1. j # 1
      BY <1>1, <2>1 DEF OpenHit
    <3> QED BY <1>1, <2>1, <3>1 DEF Told
  <2> QED BY <2>2, DrainKeeps
<1>3. CASE ~Opening(down) /\ \E i \in 1 .. Len(up) : up[i].cmd = "work"
  <2>1. PICK i \in 1 .. Len(up) : up[i].cmd = "work"
    BY <1>3
  <2>2. PICK j \in i .. Len(up) : up[j].cmd = "work" /\ up[j].box = srv.open
    BY <1>3, <2>1 DEF WorkEnd, Listing
  <2>3. j \in 1 .. Len(up) /\ Asked(up[j], srv)
    BY <1>1, <2>1, <2>2 DEF Asked
  <2> QED BY <2>3, DrainKeeps
<1>4. CASE ~Opening(down) /\ ~WorkDue(up, down)
  <2>1. Latest(down, CellHit(s), CellVal, c.slots[s], Len(down) + 1, srv.box["in"][s])
    BY <1>4 DEF Inv, Faithful, CellsFollow
  <2>2. (Len(down) + 1) - 1 = Len(down)
    BY <1>1
  <2>3. PICK j \in 1 .. Len(down) : down[j] \in CellHit(s) /\ CellVal[down[j]] = "parcel"
    BY <1>1, <2>1, <2>2 DEF Latest
  <2>4. down[j].ok /\ down[j].cmd \in Filling /\ down[j].cell = "parcel" /\ down[j] \in GoodDowns
    BY <1>1, <2>3 DEF CellHit, CellVal, OpenHit
  <2>5. j \in 2 .. Len(down)
    <3>1. j # 1
      BY <1>1, <2>4 DEF Filling
    <3> QED BY <1>1, <3>1
  <2>6. CASE down[j].cmd = "recv"
    <3>1. Told(down[j], srv)
      BY <2>4, <2>6 DEF Kinds, Told
    <3> QED BY <2>5, <3>1, DrainKeeps
  <2>7. CASE down[j].cmd = "work"
    <3>1. Listing(up, 1, srv.open) \/ \E k \in j .. Len(down) : LastRow(down[k], srv.open)
      BY <1>4, <2>7 DEF RowsEnd
    <3>2. CASE Listing(up, 1, srv.open)
      <4>1. PICK k \in 1 .. Len(up) : up[k].cmd = "work" /\ up[k].box = srv.open
        BY <3>2 DEF Listing
      <4> QED BY <4>1, DrainKeeps DEF Asked
    <3>3. CASE \E k \in j .. Len(down) : LastRow(down[k], srv.open)
      <4>1. PICK k \in j .. Len(down) : LastRow(down[k], srv.open)
        BY <3>3
      <4>2. k \in 2 .. Len(down) /\ Told(down[k], srv)
        BY <1>1, <2>5, <4>1 DEF Told
      <4> QED BY <4>2, DrainKeeps
    <3> QED BY <3>1, <3>2, <3>3
  <2>8. down[j].cmd \in {"recv", "work"}
    BY <2>4 DEF Kinds, Filling
  <2> QED BY <2>6, <2>7, <2>8
<1>5. WorkDue(up, down) => Opening(down) \/ \E i \in 1 .. Len(up) : up[i].cmd = "work"
  BY <1>1 DEF WorkDue, Opening, Inv, Types
<1> QED BY <1>2, <1>3, <1>4, <1>5

\* An answer is read.
LEMMA DrainRead ==
    ASSUME Inv, Inv', DrainInv, NEW m, NEW r, ReadIn(m, r)
    PROVE  DrainInv'
<1>1. /\ srv' = srv /\ hist' = hist /\ used' = used /\ c \in Clients /\ m \in GoodDowns
      /\ Kinds /\ Held /\ r = Sends(c, m) /\ down \in Seq(GoodDowns)
  BY DEF ReadIn, DrainInv, Inv, Types
<1>2. /\ Len(down) \in Nat \ {0} /\ Len(down') = Len(down) - 1 /\ m = down[1]
      /\ \A i \in 1 .. Len(down) - 1 : down'[i] = down[i + 1]
      /\ Len(up) \in Nat /\ Len(r) \in Nat /\ Len(up') = Len(up) + Len(r)
      /\ \A i \in 1 .. Len(up) : up'[i] = up[i]
      /\ \A i \in 1 .. Len(r) : up'[Len(up) + i] = r[i]
      /\ \A i \in Len(up) + 1 .. Len(up) + Len(r) :
                i - Len(up) \in 1 .. Len(r) /\ up'[i] = r[i - Len(up)]
      /\ \A x : r = <<x>> => Len(up') = Len(up) + 1 /\ up'[Len(up) + 1] = x
  BY ReadQueues
<1>3. \A i \in 1 .. Len(down') : i + 1 \in 1 .. Len(down) /\ down'[i] = down[i + 1]
  BY <1>2
<1>4. m \notin OpenHit /\ ~Opening(down') => ~Opening(down)
  <2> SUFFICES ASSUME m \notin OpenHit, NEW j \in 1 .. Len(down), down[j] \in OpenHit
               PROVE  Opening(down')
    BY DEF Opening
  <2>1. j # 1
    BY <1>2
  <2>2. j - 1 \in 1 .. Len(down') /\ down'[j - 1] = down[j]
    BY <1>2, <2>1
  <2> QED BY <2>2 DEF Opening
<1>5. ASSUME m \in OpenHit, ~Opening(down'), srv.open # "none"
      PROVE  m.cmd = "open" /\ m.box = srv.open
  <2>1. Latest(down', OpenHit, OpenVal, c'.open, Len(down') + 1, srv.open)
    BY <1>1 DEF Inv, Faithful, OpenFollows
  <2>2. Len(down') + 1 - 1 = Len(down')
    BY <1>2
  <2>3. c'.open = srv.open
    BY <1>5, <2>1, <2>2 DEF Latest, Opening
  <2> QED BY <1>1, <1>5, <2>3 DEF ReadIn, OpenVal
<1>6. ASSUME m \in OpenHit, ~Opening(down'), srv.open # "none"
      PROVE  /\ r = <<OnBox("work", srv.open)>> /\ Len(up') = Len(up) + 1
             /\ up'[Len(up) + 1].cmd = "work" /\ up'[Len(up) + 1].box = srv.open
  <2>1. r = <<OnBox("work", srv.open)>>
    BY <1>1, <1>5, <1>6, SendsOn
  <2>2. Len(up') = Len(up) + 1 /\ up'[Len(up) + 1] = OnBox("work", srv.open)
    BY <1>2, <2>1
  <2>3. OnBox("work", srv.open).cmd = "work" /\ OnBox("work", srv.open).box = srv.open
    BY DEF OnBox, Ask
  <2> QED BY <2>1, <2>2, <2>3
<1>7. Kinds'
  BY <1>1, <1>3 DEF Kinds
<1>8. Held'
  <2> SUFFICES ASSUME Waiting
               PROVE  /\ \A i \in 1 .. Len(down') : down'[i] \in Fills /\ down'[i].cell # "none" =>
                            \/ srv.box["in"][down'[i].slot] # "none"
                            \/ \E j \in i + 1 .. Len(down') : down'[j] \in OpenHit
                      /\ Opening(down') \/ \A s \in Slots : c'.slots[s] # "none" => srv.box["in"][s] # "none"
    BY <1>1 DEF Held, Waiting
  <2>1. /\ \A i \in 1 .. Len(down) : down[i] \in Fills /\ down[i].cell # "none" =>
              \/ srv.box["in"][down[i].slot] # "none"
              \/ \E j \in i + 1 .. Len(down) : down[j] \in OpenHit
        /\ Opening(down) \/ \A s \in Slots : c.slots[s] # "none" => srv.box["in"][s] # "none"
    BY <1>1 DEF Held, Waiting
  <2>2. ASSUME NEW i \in 1 .. Len(down'), down'[i] \in Fills, down'[i].cell # "none"
        PROVE  \/ srv.box["in"][down'[i].slot] # "none"
               \/ \E j \in i + 1 .. Len(down') : down'[j] \in OpenHit
    <3>1. CASE \E j \in (i + 1) + 1 .. Len(down) : down[j] \in OpenHit
      <4>1. PICK j \in (i + 1) + 1 .. Len(down) : down[j] \in OpenHit
        BY <3>1
      <4>2. j - 1 \in i + 1 .. Len(down') /\ down'[j - 1] = down[j]
        BY <1>2, <4>1
      <4> QED BY <4>1, <4>2
    <3> QED BY <1>3, <2>1, <2>2, <3>1
  <2>3. ASSUME ~Opening(down'), NEW s \in Slots, c'.slots[s] # "none"
        PROVE  srv.box["in"][s] # "none"
    <3>1. c'.slots[s] = IF m \in CellHit(s) THEN CellVal[m] ELSE c.slots[s]
      BY DEF ReadIn
    <3>2. CASE m \in OpenHit
      BY <1>1, <2>3, <3>1, <3>2 DEF CellHit, CellVal, OpenHit, Filling
    <3>3. CASE m \notin OpenHit /\ m \notin CellHit(s)
      BY <1>4, <2>1, <2>3, <3>1, <3>3
    <3>4. CASE m \notin OpenHit /\ m \in CellHit(s)
      <4>1. m \in Fills /\ m.cell # "none" /\ m.slot = s
        BY <1>1, <2>3, <3>1, <3>4 DEF CellHit, CellVal, Fills
      <4>2. \A j \in 1 .. Len(down) : down[j] \notin OpenHit
        BY <1>4, <2>3, <3>4 DEF Opening
      <4>3. 1 \in 1 .. Len(down) /\ \A j \in 1 + 1 .. Len(down) : j \in 1 .. Len(down)
        BY <1>2
      <4> QED BY <1>2, <2>1, <4>1, <4>2, <4>3
    <3> QED BY <3>2, <3>3, <3>4
  <2> QED BY <2>2, <2>3
<1>9. ASSUME used.lost = 0 PROVE WorkEnd' /\ RowsEnd'
  <2>0. WorkEnd /\ RowsEnd
    BY <1>9 DEF DrainInv
  <2> SUFFICES ASSUME srv.open # "none", ~Opening(down')
               PROVE  /\ \A i \in 1 .. Len(up') : up'[i].cmd = "work" => Listing(up', i, srv.open)
                      /\ \A i \in 1 .. Len(down') : down'[i].cmd = "work" =>
                            \/ Listing(up', 1, srv.open)
                            \/ \E j \in i .. Len(down') : LastRow(down'[j], srv.open)
    BY <1>1 DEF WorkEnd, RowsEnd
  <2>1. CASE m \in OpenHit
    <3>1. /\ Len(up') = Len(up) + 1 /\ up'[Len(up) + 1].cmd = "work"
          /\ up'[Len(up) + 1].box = srv.open
      BY <1>6, <2>1
    <3>2. \A i \in 1 .. Len(up') : Len(up) + 1 \in i .. Len(up')
      BY <1>2, <3>1
    <3>3. 1 \in 1 .. Len(up')
      BY <1>2, <3>1
    <3> QED BY <3>1, <3>2, <3>3 DEF Listing
  <2>2. CASE m \notin OpenHit
    <3>1. ~Opening(down) /\ \A i \in 1 .. Len(r) : r[i].cmd # "work"
      BY <1>1, <1>4, <2>2, SendsOn
    <3>2. ASSUME NEW i \in Nat, Listing(up, i, srv.open), i >= 1 PROVE Listing(up', i, srv.open)
      <4>1. PICK j \in i .. Len(up) : up[j].cmd = "work" /\ up[j].box = srv.open
        BY <3>2 DEF Listing
      <4>2. j \in i .. Len(up') /\ up'[j] = up[j]
        BY <1>2, <3>2, <4>1
      <4> QED BY <4>1, <4>2 DEF Listing
    <3>3. ASSUME NEW i \in 1 .. Len(up'), up'[i].cmd = "work" PROVE Listing(up', i, srv.open)
      <4>1. i \in 1 .. Len(up)
        BY <1>2, <3>1, <3>3
      <4>2. up[i].cmd = "work" /\ i \in Nat /\ i >= 1
        BY <1>2, <3>3, <4>1
      <4> QED BY <2>0, <3>1, <3>2, <4>1, <4>2 DEF WorkEnd
    <3>4. ASSUME NEW i \in 1 .. Len(down'), down'[i].cmd = "work"
          PROVE  \/ Listing(up', 1, srv.open)
                 \/ \E j \in i .. Len(down') : LastRow(down'[j], srv.open)
      <4>1. \/ Listing(up, 1, srv.open)
            \/ \E j \in i + 1 .. Len(down) : LastRow(down[j], srv.open)
        BY <1>3, <2>0, <3>1, <3>4 DEF RowsEnd
      <4>2. CASE Listing(up, 1, srv.open)
        BY <3>2, <4>2
      <4>3. CASE \E j \in i + 1 .. Len(down) : LastRow(down[j], srv.open)
        <5>1. PICK j \in i + 1 .. Len(down) : LastRow(down[j], srv.open)
          BY <4>3
        <5>2. j - 1 \in i .. Len(down') /\ down'[j - 1] = down[j]
          BY <1>2, <5>1
        <5> QED BY <5>1, <5>2
      <4> QED BY <4>1, <4>2, <4>3
    <3> QED BY <3>3, <3>4
  <2> QED BY <2>1, <2>2
<1>10. ASSUME Clear PROVE Settled \/ Draining'
  <2>0. WorkEnd /\ RowsEnd /\ used.lost = 0 /\ (Settled \/ Draining)
    BY <1>10 DEF DrainInv, Clear
  <2>1. CASE \E i \in 1 .. Len(up) : Asked(up[i], srv)
    BY <2>1, DrainKeeps
  <2>2. CASE \E i \in 2 .. Len(down) : Told(down[i], srv)
    BY <2>2, DrainKeeps
  <2>3. CASE Told(m, srv) /\ srv.open # "none"
    <3>1. CASE m \in OpenHit
      <4>1. CASE Opening(down')
        <5>1. PICK j \in 1 .. Len(down') : down'[j] \in OpenHit
          BY <4>1 DEF Opening
        <5> QED BY <5>1 DEF Draining, Told
      <4>2. CASE ~Opening(down')
        <5>1. Asked(OnBox("work", srv.open), srv)
          BY DEF Asked, OnBox, Ask
        <5> QED BY <1>6, <2>3, <3>1, <4>2, <5>1, DrainKeeps
      <4> QED BY <4>1, <4>2
    <3>2. CASE LastRow(m, srv.open) \/ (m.ok /\ m.cmd \in {"recv", "confirm"} /\ m.box = srv.open)
      <4>1. m.box = srv.open /\ r = <<OnBox("check", srv.open)>>
        <5>1. m.box = srv.open
          BY <3>2 DEF LastRow
        <5> QED BY <1>1, <3>2, <5>1, SendsOn
      <4>2. Asked(OnBox("check", srv.open), srv)
        BY DEF Asked, OnBox, Ask
      <4> QED BY <4>1, <4>2, DrainKeeps
    <3>3. CASE m.ok /\ m.cmd = "check" /\ m.count > 0 /\ m.box = srv.open
      <4>1. CASE srv.open = "out"
        <5>1. r = <<OnBox("confirm", "out")>>
          BY <1>1, <3>3, <4>1, SendsOn
        <5>2. Asked(OnBox("confirm", "out"), srv)
          BY <4>1 DEF Asked, OnBox, Ask
        <5> QED BY <5>1, <5>2, DrainKeeps
      <4>2. CASE srv.open = "in" /\ Free(c.slots) # {}
        <5>1. PICK s \in Slots : s = FirstFree(c.slots) /\ c.slots[s] = "none"
          BY <4>2, FirstFreeTyped
        <5>2. r = <<OnSlot("recv", "in", s)>>
          BY <1>1, <3>3, <4>2, <5>1, SendsOn
        <5>3. CASE srv.box["in"][s] = "none"
          <6>1. Asked(OnSlot("recv", "in", s), srv)
            BY <4>2, <5>3 DEF Asked, OnSlot, Ask
          <6> QED BY <5>2, <6>1, DrainKeeps
        <5>4. CASE srv.box["in"][s] # "none"
          BY <1>1, <2>0, <3>3, <4>2, <5>1, <5>4, DrainUnseen
        <5> QED BY <5>3, <5>4
      <4>3. CASE srv.open = "in" /\ Free(c.slots) = {}
        <5>1. CASE srv.queue = 0
          BY <4>3, <5>1 DEF Settled
        <5>2. CASE Opening(down)
          <6>1. PICK j \in 1 .. Len(down) : down[j] \in OpenHit
            BY <5>2 DEF Opening
          <6>2. j # 1
            BY <1>2, <3>3, <6>1 DEF OpenHit
          <6>3. j \in 2 .. Len(down) /\ Told(down[j], srv)
            BY <1>2, <6>1, <6>2 DEF Told
          <6> QED BY <6>3, DrainKeeps
        <5>3. CASE srv.queue # 0 /\ ~Opening(down)
          <6>1. Waiting
            BY <1>10, <4>3, <5>3 DEF Waiting, Clear, Inv, Types, Servers
          <6>2. \A s \in Slots : srv.box["in"][s] # "none"
            BY <1>1, <4>3, <5>3, <6>1 DEF Held, Waiting, Free
          <6> QED BY <4>3, <6>2 DEF Settled, Free
        <5> QED BY <5>1, <5>2, <5>3
      <4> QED BY <2>3, <4>1, <4>2, <4>3 DEF Inv, Types, Servers, Openings, Boxes
    <3> QED BY <2>3, <3>1, <3>2, <3>3 DEF Told
  <2>4. CASE srv.open = "none"
    BY <2>4 DEF Settled
  <2>5. (\E i \in 1 .. Len(down) : Told(down[i], srv)) =>
            Told(m, srv) \/ \E i \in 2 .. Len(down) : Told(down[i], srv)
    BY <1>2
  <2> QED BY <2>0, <2>1, <2>2, <2>3, <2>4, <2>5 DEF Draining
<1>11. Settled' = Settled /\ Clear' = Clear
  BY <1>1 DEF Settled, Clear
<1> QED BY <1>1, <1>7, <1>8, <1>9, <1>10, <1>11 DEF DrainInv, Clear

\* A command asks for more.
LEMMA DrainAsks ==
    ASSUME Inv, DrainInv, Frugal, NEW r \in Seq(GoodUps), up' = up \o r, UNCHANGED <<srv, down>>,
           \A i \in 1 .. Len(r) : r[i].cmd # "work",
           c'.slots = c.slots, hist'.news = hist.news
    PROVE  DrainInv'
<1>1. up \in Seq(GoodUps)
  BY DEF Inv, Types
<1>2. /\ Len(up) \in Nat /\ Len(r) \in Nat /\ Len(up') = Len(up) + Len(r)
      /\ \A i \in 1 .. Len(up) : up'[i] = up[i]
      /\ \A i \in Len(up) + 1 .. Len(up) + Len(r) :
                i - Len(up) \in 1 .. Len(r) /\ up'[i] = r[i - Len(up)]
  <2>1. /\ Len(up) \in Nat /\ Len(r) \in Nat /\ Len(up \o r) = Len(up) + Len(r)
        /\ \A i \in 1 .. Len(up) : (up \o r)[i] = up[i]
        /\ \A i \in Len(up) + 1 .. Len(up) + Len(r) :
                  i - Len(up) \in 1 .. Len(r) /\ (up \o r)[i] = r[i - Len(up)]
    BY <1>1, Joined
  <2> QED BY ONLY <2>1, up' = up \o r
<1>3. Kinds' /\ Held'
  BY DEF DrainInv, Kinds, Held, Opening
<1>4. ASSUME NEW i \in Nat, i >= 1, Listing(up, i, srv.open) PROVE Listing(up', i, srv'.open)
  <2>1. PICK j \in i .. Len(up) : up[j].cmd = "work" /\ up[j].box = srv.open
    BY <1>4 DEF Listing
  <2>2. j \in i .. Len(up') /\ up'[j] = up[j]
    BY <1>2, <1>4, <2>1
  <2> QED BY <2>1, <2>2 DEF Listing
<1>5. ASSUME used'.lost = 0 PROVE WorkEnd' /\ RowsEnd'
  <2>0. WorkEnd /\ RowsEnd
    BY <1>5 DEF Frugal, DrainInv
  <2>1. RowsEnd'
    BY <1>4, <2>0 DEF RowsEnd, Opening
  <2>2. ASSUME NEW i \in 1 .. Len(up'), up'[i].cmd = "work" PROVE i \in 1 .. Len(up) /\ up[i].cmd = "work"
    BY <1>2, <2>2
  <2>3. WorkEnd'
    <3> SUFFICES ASSUME srv.open # "none", ~Opening(down), NEW i \in 1 .. Len(up'), up'[i].cmd = "work"
                 PROVE  Listing(up', i, srv'.open)
      BY DEF WorkEnd, Opening
    <3>1. i \in 1 .. Len(up) /\ up[i].cmd = "work"
      BY <2>2
    <3>2. Listing(up, i, srv.open) /\ i \in Nat /\ i >= 1
      BY <1>2, <2>0, <3>1 DEF WorkEnd
    <3> QED BY <1>4, <3>2
  <2> QED BY <2>1, <2>3
<1>6. ASSUME Clear' PROVE Settled' \/ Draining'
  <2>1. Settled \/ Draining
    BY <1>6 DEF Frugal, DrainInv, Clear
  <2>2. Settled' = Settled
    BY DEF Settled
  <2>3. ASSUME NEW i \in 1 .. Len(up), Asked(up[i], srv) PROVE Draining'
    <3>1. i \in 1 .. Len(up') /\ Asked(up'[i], srv')
      BY <1>2, <2>3
    <3> QED BY <3>1 DEF Draining
  <2>4. ASSUME NEW i \in 1 .. Len(down), Told(down[i], srv) PROVE Draining'
    <3>1. i \in 1 .. Len(down') /\ Told(down'[i], srv')
      BY <2>4
    <3> QED BY <3>1 DEF Draining
  <2> QED BY <2>1, <2>2, <2>3, <2>4 DEF Draining
<1> QED BY <1>3, <1>5, <1>6 DEF DrainInv, Clear

\* A parcel comes, or one sent is taken.
LEMMA DrainNews ==
    ASSUME Inv, DrainInv, Frugal, UNCHANGED <<c, up, down>>, hist'.news,
           srv'.open = srv.open, srv'.box = srv.box
    PROVE  DrainInv'
<1>1. Kinds' /\ Held' /\ ~Clear'
  BY DEF DrainInv, Kinds, Held, Clear
<1>2. used'.lost = 0 => WorkEnd' /\ RowsEnd'
  BY DEF DrainInv, Frugal, WorkEnd, RowsEnd, Opening, Listing, LastRow
<1> QED BY <1>1, <1>2 DEF DrainInv, Clear

\* The invariant behind Drained: the inbox only fills while parcels wait, and a
\* box open and not drained has something under way that drains it.
THEOREM DrainInductive == Spec => []DrainInv
<1>1. Init => DrainInv
  <2> SUFFICES ASSUME Init PROVE DrainInv
    OBVIOUS
  <2>1. Len(up) = 0 /\ Len(down) = 0 /\ srv.open = "none"
    BY DEF Init
  <2>2. \A s \in Slots : srv.box["in"][s] \in {"none", "parcel"}
    BY DEF Init, Boxes
  <2> QED BY <2>1, <2>2 DEF DrainInv, Kinds, Held, WorkEnd, RowsEnd, Settled
<1>2. Inv /\ Inv' /\ DrainInv /\ [Next]_vars => DrainInv'
  <2> SUFFICES ASSUME Inv, Inv', DrainInv, [Next]_vars PROVE DrainInv'
    OBVIOUS
  <2>0. Frugal /\ hist \in Histories /\ srv \in Servers
    BY FrugalStep DEF Inv, Types
  <2>1. CASE Orders
    <3>1. ASSUME NEW r, Commands(r) PROVE DrainInv'
      BY <2>0, <3>1, DrainAsks DEF Commands
    <3>2. ASSUME NEW s, Takes(s) PROVE DrainInv'
      <4>1. PICK q \in GoodUps : q = OnSlot("accept", "in", s)
        BY <3>2, AsksTyped DEF Takes, Boxes
      <4>2. q.cmd = "accept"
        BY <4>1 DEF OnSlot, Ask
      <4>3. PICK r : r = <<q>>
        OBVIOUS
      <4>4. r \in Seq(GoodUps) /\ Len(r) = 1 /\ r[1] = q /\ up' = up \o r
        BY <3>2, <4>1, <4>3 DEF Takes
      <4>5. c'.slots = c.slots
        BY <3>2 DEF Takes, Inv, Types, Clients
      <4>6. hist'.news = hist.news
        <5>1. PICK x \in BOOLEAN : x = (hist.takes \/ Taking)
          OBVIOUS
        <5>2. hist' = [hist EXCEPT !.takes = x]
          BY <3>2, <5>1, Zenon DEF Takes
        <5> QED BY <2>0, <5>1, <5>2 DEF Histories
      <4>7. \A i \in 1 .. Len(r) : r[i].cmd # "work"
        BY <4>2, <4>4
      <4> QED BY <2>0, <3>2, <4>4, <4>5, <4>6, <4>7, DrainAsks DEF Takes
    <3>3. ASSUME NEW n, Queries(n) PROVE DrainInv'
      <4>1. PICK q \in GoodUps : q = Ask("query", "out", NoSlot, n)
        BY <3>3, AsksTyped DEF Queries
      <4>2. q.cmd = "query"
        BY <4>1 DEF Ask
      <4>3. PICK r : r = <<q>>
        OBVIOUS
      <4>4. r \in Seq(GoodUps) /\ Len(r) = 1 /\ r[1] = q /\ up' = up \o r
        BY <3>3, <4>1, <4>3 DEF Queries
      <4>5. c'.slots = c.slots
        BY <3>3 DEF Queries, Inv, Types, Clients
      <4>6. hist'.news = hist.news
        <5>1. PICK x \in BOOLEAN : x = (hist.names \/ (c.asked # NoName \/ Leaving))
          OBVIOUS
        <5>2. hist' = [hist EXCEPT !.names = x]
          BY <3>3, <5>1, Zenon DEF Queries
        <5> QED BY <2>0, <5>1, <5>2 DEF Histories
      <4>7. \A i \in 1 .. Len(r) : r[i].cmd # "work"
        BY <4>2, <4>4
      <4> QED BY <2>0, <3>3, <4>4, <4>5, <4>6, <4>7, DrainAsks DEF Queries
    <3> QED BY <2>1, <3>1, <3>2, <3>3, OrdersShape
  <2>2. CASE Observe
    BY <2>2, ObserveReads, DrainRead
  <2>3. CASE Serve \/ Fail \/ Lose
    <3>1. Kinds
      BY DEF DrainInv
    <3> QED BY <2>0, <2>3, <3>1, ServeServed, DrainServed
  <2>4. CASE Arrive
    <3>1. srv'.open = srv.open /\ srv'.box = srv.box /\ hist'.news
      BY <2>0, <2>4 DEF Arrive, Servers, Histories
    <3> QED BY <2>0, <2>4, <3>1, DrainNews DEF Arrive
  <2>5. CASE Delivered
    <3>1. PICK s \in Slots : srv' = [srv EXCEPT !.taken = srv.taken \cup {s}]
      BY <2>5 DEF Delivered
    <3>2. srv'.open = srv.open /\ srv'.box = srv.box /\ hist'.news
      BY <2>0, <2>5, <3>1 DEF Delivered, Servers, Histories
    <3> QED BY <2>0, <2>5, <3>2, DrainNews DEF Delivered
  <2>6. CASE UNCHANGED vars
    BY <2>6 DEF vars, DrainInv, Kinds, Held, WorkEnd, RowsEnd, Settled, Draining, Opening, Listing
  <2> QED BY <2>1, <2>2, <2>3, <2>4, <2>5, <2>6 DEF Next
<1> QED BY <1>1, <1>2, InvInductive, PTL DEF Spec

\* Once every answer is in, an opened box is drained (the sequencing of
\* delivery_box.rs: Open to Work, the last row to Check, a count to Recv or
\* Confirm, those to Check again), for any slots, names, parcels and bounds.
THEOREM DrainedHolds == Spec => []Drained
<1>1. Inv /\ DrainInv /\ MirrorAgrees => Drained
  <2> SUFFICES ASSUME Inv, DrainInv, MirrorAgrees, Quiet, used.errors = 0, ~hist.news
               PROVE  /\ c.open = "in" => srv.queue = 0 \/ Free(c.slots) = {}
                      /\ c.open = "out" => srv.taken = {}
    BY DEF Drained
  <2>1. Len(up) = 0 /\ Len(down) = 0 /\ used.lost = 0
    BY DEF Quiet
  <2>2. Settled
    BY <2>1 DEF DrainInv, Draining
  <2>3. c.open = srv.open /\ (c.open # "none" => c.slots = srv.box[c.open])
    BY DEF MirrorAgrees
  <2> QED BY <2>2, <2>3 DEF Settled
<1> QED BY <1>1, InvInductive, DrainInductive, MirrorHolds, PTL
=============================================================================
