--------------------------- MODULE AuctionProofs ----------------------------
(* What is listed is what was confirmed, for any items, prices and bounds.    *)
EXTENDS Auction, SequenceTheorems, TLAPS

Cmds == [cmd : {"sell", "confirm"}, sell : Sells]
Ups == [cmd : {"ask", "lot"}, sell : Sells, shown : Sells]
Downs == [cmd : {"ask", "lot", "gone"}, sell : Sells, ok : BOOLEAN]
Panels == [screen : {"list", "price", "fee", "place"}, sell : MaybeSells,
           awaiting : BOOLEAN, fee : MaybeSells]
Drivers == [pending : MaybeSells, quoted : BOOLEAN, inv : SUBSET Items]
Servers == [inv : SUBSET Items, lots : SUBSET Sells]
Budget == [asks : 0 .. MaxAsks, trouble : 0 .. MaxTrouble]

PanelOK(x) == /\ x \in Panels
              /\ x.screen = "list" => x.sell = NoSell
              /\ x.screen # "list" => x.sell \in Sells
              /\ x.awaiting => x.screen = "price"
DriverOK(x) == x \in Drivers /\ (x.quoted => x.pending # NoSell)
ServerOK(x) == x \in Servers /\ \A s \in x.lots : s.item \notin x.inv

Types == /\ PanelOK(p) /\ DriverOK(d) /\ ServerOK(srv)
         /\ cmds \in Seq(Cmds) /\ up \in Seq(Ups) /\ down \in Seq(Downs)
         /\ hist \in Histories /\ used \in Budget

(* The last sell asked for before place k of the queue, or, where there is    *)
(* none, the one the driver holds, is s; a driver that holds none sells none. *)
Asked(q, pending, k, s) ==
    \/ \E j \in 1 .. k - 1 : /\ q[j].cmd = "sell" /\ q[j].sell = s
                             /\ \A i \in j + 1 .. k - 1 : q[i].cmd # "sell"
    \/ (\A i \in 1 .. k - 1 : q[i].cmd # "sell") /\ pending \in {s, NoSell}

\* Every confirm under way, and the one the panel may still send, is for the
\* sell that the driver will hold when it comes.
ConfirmsAsked(q, pending) ==
    \A k \in DOMAIN q : q[k].cmd = "confirm" => Asked(q, pending, k, q[k].sell)
PanelAsked(x, q, pending) ==
    x.awaiting \/ x.screen \in {"fee", "place"} => Asked(q, pending, Len(q) + 1, x.sell)

Faithful == /\ ConfirmsAsked(cmds, d.pending) /\ PanelAsked(p, cmds, d.pending)
            /\ \A i \in DOMAIN up : up[i].cmd = "lot" => up[i].sell = up[i].shown

Inv == Types /\ (~hist.spun /\ ~hist.unasked => Faithful)

-----------------------------------------------------------------------------
LEMMA QueueTyped ==
    ASSUME NEW S, NEW q \in Seq(S)
    PROVE  /\ \A x \in S : Append(q, x) \in Seq(S)
           /\ q # <<>> => Head(q) \in S /\ Tail(q) \in Seq(S) /\ Head(q) = q[1]
OBVIOUS

LEMMA FrontTyped ==
    ASSUME NEW S, NEW q \in Seq(S), q # <<>>
    PROVE  /\ SubSeq(q, 1, Len(q) - 1) \in Seq(S) /\ Len(q) \in Nat \ {0}
           /\ Len(SubSeq(q, 1, Len(q) - 1)) = Len(q) - 1
           /\ \A i \in 1 .. Len(q) - 1 : SubSeq(q, 1, Len(q) - 1)[i] = q[i]
<1>1. /\ Len(q) \in Nat /\ Len(q) # 0 /\ \A i \in 1 .. Len(q) : q[i] \in S
  OBVIOUS
<1>2. PICK n \in Nat : n = Len(q) - 1
  BY <1>1
<1>3. \A i \in 1 .. n : q[i] \in S
  BY <1>1, <1>2
<1>4. /\ SubSeq(q, 1, n) \in Seq(S)
      /\ Len(SubSeq(q, 1, n)) = IF 1 <= n THEN n - 1 + 1 ELSE 0
      /\ \A i \in 1 .. n - 1 + 1 : SubSeq(q, 1, n)[i] = q[1 + i - 1]
  BY <1>3, SubSeqProperties
<1>5. /\ SubSeq(q, 1, n) \in Seq(S) /\ Len(SubSeq(q, 1, n)) = n
      /\ \A i \in 1 .. n : SubSeq(q, 1, n)[i] = q[i]
  BY <1>4
<1> QED BY <1>1, <1>2, <1>5

LEMMA PairTyped == ASSUME NEW S, NEW x \in S, NEW y \in S PROVE <<x, y>> \in Seq(S)
OBVIOUS

LEMMA AskedPrefix ==
    ASSUME NEW q, NEW r, NEW k \in Nat \ {0}, NEW s, NEW pending,
           \A i \in 1 .. k - 1 : r[i] = q[i], Asked(q, pending, k, s)
    PROVE  Asked(r, pending, k, s)
BY DEF Asked

LEMMA AskedTail ==
    ASSUME NEW q \in Seq(Cmds), q # <<>>, NEW k \in 2 .. Len(q) + 1, NEW s,
           NEW pending, Asked(q, pending, k, s)
    PROVE  /\ q[1].cmd = "sell" => Asked(Tail(q), q[1].sell, k - 1, s)
           /\ q[1].cmd # "sell" => Asked(Tail(q), pending, k - 1, s)
<1>1. \A i \in 1 .. k - 2 : Tail(q)[i] = q[i + 1]
  OBVIOUS
<1>2. CASE \E j \in 1 .. k - 1 : /\ q[j].cmd = "sell" /\ q[j].sell = s
                                 /\ \A i \in j + 1 .. k - 1 : q[i].cmd # "sell"
  <2>1. PICK j \in 1 .. k - 1 : /\ q[j].cmd = "sell" /\ q[j].sell = s
                                /\ \A i \in j + 1 .. k - 1 : q[i].cmd # "sell"
    BY <1>2
  <2>2. CASE j = 1
    <3>1. \A i \in 1 .. (k - 1) - 1 : Tail(q)[i].cmd # "sell"
      BY <1>1, <2>1, <2>2
    <3> QED BY <2>1, <2>2, <3>1 DEF Asked
  <2>3. CASE j # 1
    <3>1. j - 1 \in 1 .. (k - 1) - 1 /\ Tail(q)[j - 1] = q[j]
      BY <1>1, <2>3
    <3>2. \A i \in (j - 1) + 1 .. (k - 1) - 1 : Tail(q)[i].cmd # "sell"
      BY <1>1, <2>1, <2>3
    <3> QED BY <2>1, <3>1, <3>2 DEF Asked
  <2> QED BY <2>2, <2>3
<1>3. CASE (\A i \in 1 .. k - 1 : q[i].cmd # "sell") /\ pending \in {s, NoSell}
  <2>1. q[1].cmd # "sell"
    BY <1>3
  <2>2. \A i \in 1 .. (k - 1) - 1 : Tail(q)[i].cmd # "sell"
    BY <1>1, <1>3
  <2> QED BY <1>3, <2>1, <2>2 DEF Asked
<1> QED BY <1>2, <1>3 DEF Asked

(* A driver that drops its sell drops it for every confirm.                   *)
LEMMA AskedNone ==
    ASSUME NEW q, NEW k \in Nat, NEW s, NEW pending, Asked(q, pending, k, s)
    PROVE  Asked(q, NoSell, k, s)
BY DEF Asked

LEMMA ConfirmsNone ==
    ASSUME NEW q, NEW pending, NEW n, n \in {pending, NoSell}, q \in Seq(Cmds),
           NEW x \in Panels, ConfirmsAsked(q, pending), PanelAsked(x, q, pending)
    PROVE  ConfirmsAsked(q, n) /\ PanelAsked(x, q, n)
BY AskedNone DEF ConfirmsAsked, PanelAsked

LEMMA ConfirmsAppend ==
    ASSUME NEW q \in Seq(Cmds), NEW m \in Cmds, NEW pending, ConfirmsAsked(q, pending),
           m.cmd = "confirm" => Asked(q, pending, Len(q) + 1, m.sell)
    PROVE  ConfirmsAsked(Append(q, m), pending)
<1> DEFINE r == Append(q, m)
<1>1. /\ Len(r) = Len(q) + 1 /\ r[Len(q) + 1] = m
      /\ \A i \in 1 .. Len(q) : r[i] = q[i]
  OBVIOUS
<1> SUFFICES ASSUME NEW k \in 1 .. Len(q) + 1, r[k].cmd = "confirm"
             PROVE  Asked(r, pending, k, r[k].sell)
  BY <1>1 DEF ConfirmsAsked
<1>2. Asked(q, pending, k, r[k].sell)
  <2>1. CASE k = Len(q) + 1
    BY <1>1, <2>1
  <2>2. CASE k # Len(q) + 1
    BY <1>1, <2>2 DEF ConfirmsAsked
  <2> QED BY <2>1, <2>2
<1>3. \A i \in 1 .. k - 1 : r[i] = q[i]
  BY <1>1
<1> HIDE DEF r
<1> QED BY <1>2, <1>3, AskedPrefix

LEMMA ConfirmsTail ==
    ASSUME NEW q \in Seq(Cmds), q # <<>>, NEW pending, NEW n, NEW x \in Panels,
           ConfirmsAsked(q, pending), PanelAsked(x, q, pending),
           n = IF q[1].cmd = "sell" THEN q[1].sell ELSE pending
    PROVE  ConfirmsAsked(Tail(q), n) /\ PanelAsked(x, Tail(q), n)
<1>1. /\ Len(Tail(q)) = Len(q) - 1 /\ Tail(q) \in Seq(Cmds) /\ Len(q) >= 1
      /\ \A k \in 1 .. Len(q) - 1 : Tail(q)[k] = q[k + 1]
  OBVIOUS
<1>2. ASSUME NEW k \in 2 .. Len(q) + 1, NEW s, Asked(q, pending, k, s)
      PROVE  Asked(Tail(q), n, k - 1, s)
  BY <1>2, AskedTail
<1>3. ConfirmsAsked(Tail(q), n)
  <2> SUFFICES ASSUME NEW k \in 1 .. Len(q) - 1, Tail(q)[k].cmd = "confirm"
               PROVE  Asked(Tail(q), n, k, Tail(q)[k].sell)
    BY <1>1 DEF ConfirmsAsked
  <2>1. Asked(q, pending, k + 1, q[k + 1].sell)
    BY <1>1 DEF ConfirmsAsked
  <2>2. k + 1 \in 2 .. Len(q) + 1 /\ (k + 1) - 1 = k
    BY <1>1
  <2> QED BY <1>1, <1>2, <2>1, <2>2
<1>4. PanelAsked(x, Tail(q), n)
  <2>1. Len(q) + 1 \in 2 .. Len(q) + 1 /\ (Len(q) + 1) - 1 = Len(Tail(q)) + 1
    BY <1>1
  <2> QED BY <1>2, <2>1 DEF PanelAsked
<1> QED BY <1>3, <1>4
-----------------------------------------------------------------------------
(* The panel.                                                                 *)
Clear == ~hist.spun /\ ~hist.unasked

LEMMA PanelStep ==
    ASSUME Inv, Panel
    PROVE  Inv'
<1>1. /\ PanelOK(p) /\ p \in Panels /\ cmds \in Seq(Cmds) /\ hist \in Histories
      /\ used \in Budget /\ UNCHANGED <<d, srv, up, down>> /\ (Clear => Faithful)
  BY DEF Inv, Types, PanelOK, Panel, Pick, Spin, Ask, Promote, Agree, Place, Back,
         Elsewhere, Clear
<1>2. ASSUME PanelOK(p'), cmds' \in Seq(Cmds), hist' \in Histories, used' \in Budget,
             Clear' => Clear,
             Clear' /\ Faithful => ConfirmsAsked(cmds', d.pending) /\ PanelAsked(p', cmds', d.pending)
      PROVE  Inv'
  BY <1>1, <1>2 DEF Inv, Types, Faithful, Clear
<1>3. CASE Pick
  <2>1. PICK s \in Sells : p.screen = "list" /\ p' = [p EXCEPT !.screen = "price", !.sell = s]
    BY <1>3 DEF Pick
  <2>2. ~p.awaiting /\ UNCHANGED <<cmds, hist, used>>
    BY <1>1, <1>3 DEF Pick, Still, PanelOK
  <2>3. PanelOK(p') /\ ~p'.awaiting /\ p'.screen = "price"
    BY <1>1, <2>1, <2>2 DEF PanelOK, Panels, MaybeSells
  <2> QED BY <1>1, <1>2, <2>2, <2>3 DEF Faithful, PanelAsked, Clear
<1>4. CASE Spin
  <2>1. PICK x \in Prices :
            /\ p.screen = "price" /\ p' = [p EXCEPT !.sell.price = x]
            /\ hist' = [hist EXCEPT !.spun = hist.spun \/ p.awaiting]
            /\ UNCHANGED <<cmds, used>>
    BY <1>4 DEF Spin
  <2>2. p.sell \in Sells /\ [p.sell EXCEPT !.price = x] \in Sells
    BY <1>1, <2>1 DEF PanelOK, Sells
  <2>3. p' = [p EXCEPT !.sell = [p.sell EXCEPT !.price = x]]
    BY <1>1, <2>1 DEF Panels
  <2>4. PanelOK(p') /\ p'.awaiting = p.awaiting /\ p'.screen = "price"
    BY <1>1, <2>1, <2>2, <2>3, SellsAssumption DEF PanelOK, Panels, MaybeSells
  <2>5. /\ hist' \in Histories /\ (Clear' => Clear /\ ~p.awaiting)
    <3>1. (hist.spun \/ p.awaiting) \in BOOLEAN
      BY <1>1 DEF Panels
    <3>2. PICK b \in BOOLEAN : b = (hist.spun \/ p.awaiting)
      BY <3>1, Zenon
    <3>3. hist' = [hist EXCEPT !.spun = b]
      BY <2>1, <3>2, Zenon
    <3> QED BY <1>1, <3>2, <3>3 DEF Histories, Clear
  <2> QED BY <1>1, <1>2, <2>1, <2>4, <2>5 DEF Faithful, PanelAsked
<1>5. CASE Ask
  <2> DEFINE m == Command("sell", p.sell)
  <2>1. /\ p.screen = "price" /\ used.asks < MaxAsks
        /\ p' = [p EXCEPT !.awaiting = TRUE] /\ cmds' = Append(cmds, m)
        /\ used' = [used EXCEPT !.asks = used.asks + 1] /\ hist' = hist
    BY <1>5 DEF Ask
  <2>2. m \in Cmds /\ m.cmd = "sell" /\ m.sell = p.sell
    BY <1>1, <2>1 DEF Cmds, Command, PanelOK
  <2>3. PanelOK(p') /\ p'.sell = p.sell
    BY <1>1, <2>1 DEF PanelOK, Panels
  <2>4. used' \in Budget
    BY <1>1, <2>1, BoundsAssumption DEF Budget
  <2> HIDE DEF m
  <2>5. cmds' \in Seq(Cmds) /\ Len(cmds') = Len(cmds) + 1 /\ cmds'[Len(cmds) + 1] = m
    BY <1>1, <2>1, <2>2
  <2>6. Asked(cmds', d.pending, Len(cmds') + 1, p.sell)
    <3>1. Len(cmds) + 1 \in 1 .. (Len(cmds') + 1) - 1
      BY <1>1, <2>5
    <3>2. \A i \in (Len(cmds) + 1) + 1 .. (Len(cmds') + 1) - 1 : cmds'[i].cmd # "sell"
      BY <1>1, <2>5
    <3> QED BY <2>2, <2>5, <3>1, <3>2 DEF Asked
  <2>7. Faithful => ConfirmsAsked(cmds', d.pending)
    BY <1>1, <2>1, <2>2, ConfirmsAppend DEF Faithful
  <2> QED BY <1>1, <1>2, <2>1, <2>3, <2>4, <2>5, <2>6, <2>7 DEF PanelAsked, Clear
<1>6. CASE Promote
  <2>1. /\ p.awaiting /\ p.screen = "price" /\ UNCHANGED <<cmds, hist, used>>
        /\ p' = [p EXCEPT !.awaiting = FALSE, !.screen = "fee"]
    BY <1>6 DEF Promote, Still
  <2>2. PanelOK(p') /\ p'.sell = p.sell
    BY <1>1, <2>1 DEF PanelOK, Panels
  <2> QED BY <1>1, <1>2, <2>1, <2>2 DEF Faithful, PanelAsked, Clear
<1>7. CASE Agree
  <2>1. /\ p.screen = "fee" /\ UNCHANGED <<cmds, hist, used>>
        /\ p' = [p EXCEPT !.screen = "place"]
    BY <1>7 DEF Agree, Still
  <2>2. PanelOK(p') /\ p'.sell = p.sell
    BY <1>1, <2>1 DEF PanelOK, Panels
  <2> QED BY <1>1, <1>2, <2>1, <2>2 DEF Faithful, PanelAsked, Clear
<1>8. CASE Place
  <2> DEFINE m == Command("confirm", p.sell)
  <2>1. /\ p.screen = "place" /\ p' = [p EXCEPT !.screen = "list", !.sell = NoSell]
        /\ cmds' = Append(cmds, m) /\ UNCHANGED <<hist, used>>
    BY <1>8 DEF Place
  <2>2. m \in Cmds /\ m.sell = p.sell
    BY <1>1, <2>1 DEF Cmds, Command, PanelOK
  <2>3. PanelOK(p') /\ ~p'.awaiting /\ p'.screen = "list"
    BY <1>1, <2>1 DEF PanelOK, Panels, MaybeSells
  <2> HIDE DEF m
  <2>4. cmds' \in Seq(Cmds)
    BY <1>1, <2>1, <2>2
  <2>5. Faithful => Asked(cmds, d.pending, Len(cmds) + 1, m.sell)
    BY <2>1, <2>2 DEF Faithful, PanelAsked
  <2>6. Faithful => ConfirmsAsked(cmds', d.pending)
    BY <1>1, <2>1, <2>2, <2>5, ConfirmsAppend DEF Faithful
  <2> QED BY <1>1, <1>2, <2>1, <2>3, <2>4, <2>6 DEF PanelAsked, Clear
<1>9. CASE Back
  <2>1. /\ p.screen # "list" /\ UNCHANGED <<cmds, hist, used>>
        /\ p' = IF p.screen = "price"
                THEN [p EXCEPT !.screen = "list", !.sell = NoSell, !.awaiting = FALSE]
                ELSE [p EXCEPT !.screen = "price"]
    BY <1>9 DEF Back, Still
  <2>2. PanelOK(p') /\ ~p'.awaiting /\ p'.screen \in {"list", "price"}
    <3>1. CASE p.screen = "price"
      BY <1>1, <2>1, <3>1 DEF PanelOK, Panels, MaybeSells
    <3>2. CASE p.screen # "price"
      BY <1>1, <2>1, <3>2 DEF PanelOK, Panels, MaybeSells
    <3> QED BY <3>1, <3>2
  <2> QED BY <1>1, <1>2, <2>1, <2>2 DEF Faithful, PanelAsked, Clear
<1> QED BY <1>3, <1>4, <1>5, <1>6, <1>7, <1>8, <1>9 DEF Panel
-----------------------------------------------------------------------------
(* The session.                                                               *)
LEMMA HeardTyped ==
    ASSUME Inv, NEW cmd, Heard(cmd)
    PROVE  Head(down) \in Downs /\ down' \in Seq(Downs) /\ Head(down).cmd = cmd
BY QueueTyped DEF Heard, Inv, Types

LEMMA TakenTyped ==
    ASSUME Inv, NEW cmd, Taken(cmd)
    PROVE  /\ cmds # <<>> /\ Head(cmds) \in Cmds /\ Head(cmds) = cmds[1]
           /\ cmds' = Tail(cmds) /\ cmds' \in Seq(Cmds) /\ Head(cmds).cmd = cmd
BY QueueTyped DEF Taken, Inv, Types

LEMMA SessionStep ==
    ASSUME Inv, Session
    PROVE  Inv'
<1>1. /\ Types /\ DriverOK(d) /\ d \in Drivers /\ PanelOK(p) /\ p \in Panels
      /\ cmds \in Seq(Cmds) /\ up \in Seq(Ups) /\ hist \in Histories /\ (Clear => Faithful)
  BY DEF Inv, Types, DriverOK, PanelOK, Clear
<1>2. CASE TakeSell
  <2> DEFINE s == Head(cmds).sell
  <2>1. /\ Taken("sell") /\ UNCHANGED <<p, srv, down, used>>
    BY <1>2 DEF TakeSell
  <2>2. /\ cmds # <<>> /\ cmds[1].cmd = "sell" /\ cmds[1].sell = s /\ s \in Sells
        /\ cmds' = Tail(cmds) /\ cmds' \in Seq(Cmds)
    BY <2>1, TakenTyped DEF Cmds
  <2> HIDE DEF s
  <2>3. CASE s.item \in d.inv
    <3>1. /\ d' = [d EXCEPT !.pending = s, !.quoted = FALSE] /\ hist' = hist
          /\ up' = Append(up, Request("ask", s, s))
      BY <1>2, <2>3 DEF TakeSell, RequestSell, s
    <3>2. DriverOK(d') /\ d'.pending = s
      BY <1>1, <2>2, <3>1 DEF DriverOK, Drivers, MaybeSells
    <3>3. Request("ask", s, s) \in Ups /\ Request("ask", s, s).cmd = "ask"
      BY <2>2 DEF Request, Ups
    <3>4. /\ up' \in Seq(Ups)
          /\ Faithful => \A i \in DOMAIN up' : up'[i].cmd = "lot" => up'[i].sell = up'[i].shown
      BY <1>1, <3>1, <3>3 DEF Faithful
    <3>5. Faithful => ConfirmsAsked(cmds', s) /\ PanelAsked(p, cmds', s)
      BY <1>1, <2>2, ConfirmsTail DEF Faithful
    <3> QED BY <1>1, <2>1, <2>2, <3>1, <3>2, <3>4, <3>5 DEF Inv, Types, Faithful, Clear
  <2>4. CASE s.item \notin d.inv
    <3>1. UNCHANGED <<d, up>> /\ hist' = [hist EXCEPT !.unasked = TRUE]
      BY <1>2, <2>4 DEF TakeSell, s
    <3>2. hist' \in Histories /\ hist'.unasked
      BY <1>1, <3>1 DEF Histories
    <3> QED BY <1>1, <2>1, <2>2, <3>1, <3>2 DEF Inv, Types
  <2> QED BY <2>3, <2>4
<1>3. CASE TakeConfirm
  <2> DEFINE m == Request("lot", d.pending, Head(cmds).sell)
  <2>1. /\ Taken("confirm") /\ UNCHANGED <<p, d, srv, down, hist, used>>
        /\ up' = IF d.quoted THEN Append(up, m) ELSE up
    BY <1>3 DEF TakeConfirm
  <2>2. /\ cmds # <<>> /\ cmds[1].cmd = "confirm" /\ Head(cmds) = cmds[1]
        /\ cmds[1].sell \in Sells /\ cmds' = Tail(cmds) /\ cmds' \in Seq(Cmds)
    BY <2>1, TakenTyped DEF Cmds
  <2>3. Faithful => ConfirmsAsked(cmds', d.pending) /\ PanelAsked(p, cmds', d.pending)
    BY <1>1, <2>2, ConfirmsTail DEF Faithful
  <2>4. CASE d.quoted
    <3>1. d.pending \in Sells /\ d.pending # NoSell
      BY <1>1, <2>4 DEF DriverOK, Drivers, MaybeSells
    <3>2. m \in Ups /\ m.sell = d.pending /\ m.shown = cmds[1].sell
      BY <2>2, <3>1 DEF Request, Ups
    <3>3. Faithful => m.sell = m.shown
      <4>1. Faithful => Asked(cmds, d.pending, 1, cmds[1].sell)
        BY <1>1, <2>2 DEF Faithful, ConfirmsAsked
      <4>2. Asked(cmds, d.pending, 1, cmds[1].sell) => d.pending \in {cmds[1].sell, NoSell}
        BY DEF Asked
      <4> QED BY <3>1, <3>2, <4>1, <4>2
    <3> HIDE DEF m
    <3>4. /\ up' \in Seq(Ups)
          /\ Faithful => \A i \in DOMAIN up' : up'[i].cmd = "lot" => up'[i].sell = up'[i].shown
      BY <1>1, <2>1, <2>4, <3>2, <3>3 DEF Faithful
    <3> QED BY <1>1, <2>1, <2>2, <2>3, <3>4 DEF Inv, Types, Faithful, Clear
  <2>5. CASE ~d.quoted
    BY <1>1, <2>1, <2>2, <2>3, <2>5 DEF Inv, Types, Faithful, Clear
  <2> QED BY <2>4, <2>5
<1>4. CASE OnQuote
  <2> DEFINE m == Head(down)
             good == m.ok /\ d.pending # NoSell
  <2>1. /\ Heard("ask") /\ UNCHANGED <<srv, cmds, up, used>>
        /\ d' = [d EXCEPT !.pending = IF good THEN d.pending ELSE NoSell, !.quoted = good]
        /\ p' = [p EXCEPT !.fee = IF good THEN m.sell ELSE NoSell]
        /\ hist' = [hist EXCEPT !.quotes = hist.quotes \cup IF m.ok THEN {m.sell} ELSE {}]
    BY <1>4 DEF OnQuote
  <2>2. m.sell \in Sells /\ m.ok \in BOOLEAN /\ down' \in Seq(Downs)
    BY <2>1, HeardTyped DEF Downs
  <2> HIDE DEF m
  <2>3. hist' \in Histories /\ Clear' = Clear
    BY <1>1, <2>1, <2>2 DEF Histories, Clear
  <2>4. PanelOK(p') /\ \A k : PanelAsked(p', cmds, k) <=> PanelAsked(p, cmds, k)
    BY <1>1, <2>1, <2>2 DEF PanelOK, Panels, MaybeSells, PanelAsked
  <2>5. DriverOK(d') /\ d'.pending \in {d.pending, NoSell}
    <3>1. CASE good
      BY <1>1, <2>1, <2>2, <3>1 DEF DriverOK, Drivers, MaybeSells
    <3>2. CASE ~good
      BY <1>1, <2>1, <2>2, <3>2 DEF DriverOK, Drivers, MaybeSells
    <3> QED BY <3>1, <3>2
  <2>6. Faithful => ConfirmsAsked(cmds, d'.pending) /\ PanelAsked(p, cmds, d'.pending)
    BY <1>1, <2>5, ConfirmsNone DEF Faithful
  <2> QED BY <1>1, <2>1, <2>2, <2>3, <2>4, <2>5, <2>6 DEF Inv, Types, Faithful, Clear
<1>5. CASE OnLot
  <2>1. /\ Heard("lot") /\ UNCHANGED <<srv, cmds, up, hist, used>>
        /\ IF Head(down).ok
           THEN /\ d' = [d EXCEPT !.pending = NoSell, !.quoted = FALSE]
                /\ p' = [p EXCEPT !.fee = NoSell]
           ELSE UNCHANGED <<d, p>>
    BY <1>5 DEF OnLot
  <2>2. down' \in Seq(Downs)
    BY <2>1, HeardTyped
  <2>3. CASE Head(down).ok
    <3>1. PanelOK(p') /\ \A k : PanelAsked(p', cmds, k) <=> PanelAsked(p, cmds, k)
      BY <1>1, <2>1, <2>3 DEF PanelOK, Panels, MaybeSells, PanelAsked
    <3>2. DriverOK(d') /\ d'.pending = NoSell
      BY <1>1, <2>1, <2>3 DEF DriverOK, Drivers, MaybeSells
    <3>3. Faithful => ConfirmsAsked(cmds, NoSell) /\ PanelAsked(p, cmds, NoSell)
      BY <1>1, ConfirmsNone DEF Faithful
    <3> QED BY <1>1, <2>1, <2>2, <3>1, <3>2, <3>3 DEF Inv, Types, Faithful, Clear
  <2>4. CASE ~Head(down).ok
    BY <1>1, <2>1, <2>2, <2>4 DEF Inv, Types, Faithful, Clear
  <2> QED BY <2>3, <2>4
<1>6. CASE OnItem
  <2>1. /\ Heard("gone") /\ UNCHANGED <<p, srv, cmds, up, hist, used>>
        /\ d' = [d EXCEPT !.inv = d.inv \ {Head(down).sell.item}]
    BY <1>6 DEF OnItem
  <2>2. down' \in Seq(Downs)
    BY <2>1, HeardTyped
  <2>3. DriverOK(d') /\ d'.pending = d.pending
    BY <1>1, <2>1 DEF DriverOK, Drivers
  <2> QED BY <1>1, <2>1, <2>2, <2>3 DEF Inv, Types, Faithful, Clear
<1> QED BY <1>2, <1>3, <1>4, <1>5, <1>6 DEF Session

-----------------------------------------------------------------------------
(* The server and the world.                                                  *)
LEMMA ServedTyped ==
    ASSUME Inv, NEW cmd, Served(cmd)
    PROVE  /\ Head(up) \in Ups /\ up' \in Seq(Ups)
           /\ Faithful => \A i \in DOMAIN up' : up'[i].cmd = "lot" => up'[i].sell = up'[i].shown
<1>1. up \in Seq(Ups) /\ up # <<>> /\ up' = Tail(up)
  BY DEF Served, Inv, Types
<1>2. Head(up) \in Ups /\ up' \in Seq(Ups) /\ \A i \in DOMAIN up' : i + 1 \in DOMAIN up /\ up'[i] = up[i + 1]
  BY <1>1
<1> QED BY <1>2 DEF Faithful

LEMMA ServerStep ==
    ASSUME Inv, ServeAsk \/ ServeLot \/ Drop \/ Lose \/ Vanish
    PROVE  Inv'
<1>1. /\ Types /\ ServerOK(srv) /\ srv \in Servers /\ down \in Seq(Downs)
      /\ cmds \in Seq(Cmds) /\ up \in Seq(Ups) /\ hist \in Histories
      /\ used \in Budget /\ (Clear => Faithful)
  BY DEF Inv, Types, ServerOK, Clear
<1>2. Trouble => used' \in Budget
  BY <1>1, BoundsAssumption DEF Trouble, Budget
<1>3. CASE ServeAsk
  <2>1. PICK ok \in BOOLEAN : /\ Served("ask") /\ World /\ UNCHANGED <<srv, used>>
                              /\ down' = Append(down, Reply("ask", Head(up).sell, ok))
    BY <1>3 DEF ServeAsk
  <2>2. Reply("ask", Head(up).sell, ok) \in Downs
    BY <2>1, ServedTyped DEF Reply, Downs, Ups
  <2>3. down' \in Seq(Downs)
    BY <1>1, <2>1, <2>2, QueueTyped
  <2> QED BY <1>1, <2>1, <2>3, ServedTyped DEF Inv, Types, Faithful, World, Clear
<1>4. CASE ServeLot
  <2> DEFINE s == Head(up).sell
  <2>1. PICK ok \in BOOLEAN :
            /\ Served("lot") /\ World /\ UNCHANGED used
            /\ IF ok
               THEN /\ srv' = [srv EXCEPT !.inv = srv.inv \ {s.item}, !.lots = srv.lots \cup {s}]
                    /\ down' = down \o <<Reply("gone", s, TRUE), Reply("lot", s, TRUE)>>
               ELSE UNCHANGED srv /\ down' = Append(down, Reply("lot", s, FALSE))
    BY <1>4 DEF ServeLot
  <2>2. s \in Sells
    BY <2>1, ServedTyped DEF Ups
  <2> HIDE DEF s
  <2>3. /\ Reply("gone", s, TRUE) \in Downs /\ Reply("lot", s, TRUE) \in Downs
        /\ Reply("lot", s, FALSE) \in Downs
    BY <2>2 DEF Reply, Downs
  <2>4. down' \in Seq(Downs) /\ ServerOK(srv')
    <3>1. CASE ok
      <4>0. /\ srv' = [srv EXCEPT !.inv = srv.inv \ {s.item}, !.lots = srv.lots \cup {s}]
            /\ down' = down \o <<Reply("gone", s, TRUE), Reply("lot", s, TRUE)>>
        BY <2>1, <3>1, Zenon
      <4>1. <<Reply("gone", s, TRUE), Reply("lot", s, TRUE)>> \in Seq(Downs)
        BY <2>3, PairTyped, Zenon
      <4>2. down' \in Seq(Downs)
        BY <1>1, <4>0, <4>1, ConcatProperties, Zenon
      <4>3. ServerOK(srv')
        <5>1. /\ srv'.inv = srv.inv \ {s.item} /\ srv'.lots = srv.lots \cup {s}
              /\ srv' \in Servers
          BY <1>1, <2>2, <4>0 DEF Servers
        <5> QED BY <1>1, <5>1 DEF ServerOK
      <4> QED BY <4>2, <4>3
    <3>2. CASE ~ok
      BY <1>1, <2>1, <2>3, <3>2, QueueTyped
    <3> QED BY <3>1, <3>2
  <2> QED BY <1>1, <2>1, <2>4, ServedTyped DEF Inv, Types, Faithful, World, Clear
<1>5. CASE Drop
  <2> DEFINE n == Len(cmds)
  <2>1. /\ Trouble /\ cmds # <<>> /\ cmds' = SubSeq(cmds, 1, n - 1)
        /\ hist' = [hist EXCEPT !.unasked = hist.unasked \/ cmds[n].cmd = "sell"]
        /\ UNCHANGED <<p, d, srv, up, down>>
    BY <1>5 DEF Drop
  <2>2. /\ cmds' \in Seq(Cmds) /\ n \in Nat \ {0} /\ Len(cmds') = n - 1
        /\ \A i \in 1 .. n - 1 : cmds'[i] = cmds[i]
    BY <1>1, <2>1, FrontTyped, Zenon
  <2>3. hist' \in Histories /\ (Clear' => Clear /\ cmds[n].cmd # "sell")
    <3>1. PICK b \in BOOLEAN : b = (hist.unasked \/ cmds[n].cmd = "sell")
      BY <1>1, Zenon DEF Histories
    <3>2. hist' = [hist EXCEPT !.unasked = b]
      BY <2>1, <3>1, Zenon
    <3> QED BY <1>1, <3>1, <3>2 DEF Histories, Clear
  <2>4. Faithful => ConfirmsAsked(cmds', d.pending)
    <3> SUFFICES ASSUME Faithful, NEW k \in 1 .. n - 1, cmds'[k].cmd = "confirm"
                 PROVE  Asked(cmds', d.pending, k, cmds'[k].sell)
      BY <2>2 DEF ConfirmsAsked
    <3>1. Asked(cmds, d.pending, k, cmds[k].sell)
      <4>1. cmds[k] = cmds'[k] /\ k \in DOMAIN cmds
        BY <1>1, <2>2
      <4> QED BY <4>1 DEF Faithful, ConfirmsAsked
    <3>2. k \in Nat \ {0} /\ \A i \in 1 .. k - 1 : cmds'[i] = cmds[i]
      BY <2>2
    <3> QED BY <2>2, <3>1, <3>2, AskedPrefix
  <2>5. Faithful /\ cmds[n].cmd # "sell" => PanelAsked(p, cmds', d.pending)
    <3> SUFFICES ASSUME Faithful, cmds[n].cmd # "sell", Asked(cmds, d.pending, n + 1, p.sell)
                 PROVE  Asked(cmds', d.pending, n, p.sell)
      BY <2>2 DEF PanelAsked, Faithful
    <3>1. Asked(cmds, d.pending, n, p.sell)
      BY <2>2 DEF Asked
    <3> QED BY <2>2, <3>1, AskedPrefix
  <2> QED BY <1>1, <1>2, <2>1, <2>2, <2>3, <2>4, <2>5 DEF Inv, Types, Faithful, Clear
<1>6. CASE Lose
  <2>1. Trouble /\ up # <<>> /\ up' = Tail(up) /\ World /\ UNCHANGED <<srv, down>>
    BY <1>6 DEF Lose
  <2>2. Served(Head(up).cmd)
    BY <2>1 DEF Served
  <2> QED BY <1>1, <1>2, <2>1, <2>2, ServedTyped DEF Inv, Types, Faithful, World, Clear
<1>7. CASE Vanish
  <2>1. PICK i \in srv.inv, s \in Sells :
            /\ Trouble /\ srv' = [srv EXCEPT !.inv = srv.inv \ {i}]
            /\ down' = Append(down, Reply("gone", s, TRUE)) /\ World /\ UNCHANGED up
    BY <1>7 DEF Vanish
  <2>2. ServerOK(srv')
    BY <1>1, <2>1 DEF ServerOK, Servers
  <2>3. Reply("gone", s, TRUE) \in Downs
    BY <2>1 DEF Reply, Downs
  <2>4. down' \in Seq(Downs)
    BY <1>1, <2>1, <2>3, QueueTyped
  <2> QED BY <1>1, <1>2, <2>1, <2>2, <2>4 DEF Inv, Types, Faithful, World, Clear
<1> QED BY <1>3, <1>4, <1>5, <1>6, <1>7

-----------------------------------------------------------------------------
\* The inductive invariant: types, and every confirm on its way or on screen is
\* for the sell that the driver will hold when it comes.
THEOREM InvInductive == Spec => []Inv
<1>1. Init => Inv
  <2> SUFFICES ASSUME Init PROVE Inv
    OBVIOUS
  <2>1. PanelOK(p) /\ ~p.awaiting /\ p.screen = "list"
    BY DEF Init, PanelOK, Panels, MaybeSells
  <2>2. DriverOK(d) /\ ServerOK(srv)
    BY DEF Init, DriverOK, Drivers, MaybeSells, ServerOK, Servers
  <2>3. cmds = <<>> /\ up = <<>> /\ down = <<>> /\ hist \in Histories
    BY DEF Init, Histories
  <2>4. used \in Budget
    BY BoundsAssumption DEF Init, Budget
  <2>5. ConfirmsAsked(cmds, d.pending) /\ PanelAsked(p, cmds, d.pending)
    BY <2>1, <2>3 DEF ConfirmsAsked, PanelAsked
  <2>6. cmds \in Seq(Cmds) /\ up \in Seq(Ups) /\ down \in Seq(Downs) /\ DOMAIN up = {}
    BY <2>3
  <2> QED BY <2>1, <2>2, <2>3, <2>4, <2>5, <2>6 DEF Inv, Types, Faithful
<1>2. Inv /\ [Next]_vars => Inv'
  <2> SUFFICES ASSUME Inv, [Next]_vars PROVE Inv'
    OBVIOUS
  <2>1. CASE Next
    BY <2>1, PanelStep, SessionStep, ServerStep DEF Next
  <2>2. CASE UNCHANGED vars
    BY <2>2 DEF vars, Inv, Types, Faithful
  <2> QED BY <2>1, <2>2
<1> QED BY <1>1, <1>2, PTL DEF Spec

(* Panel, driver, queues and server are well typed, a quote is held only for  *)
(* a sell held, and what the server lists it no longer keeps.                 *)
THEOREM TypeCorrect == Spec => []TypeOK
<1>1. Inv => TypeOK
  BY SellsAssumption
  DEF Inv, Types, TypeOK, PanelOK, DriverOK, ServerOK, Panels, Drivers, Servers, Budget,
      Cmds, Ups, Downs, Sells
<1> QED BY <1>1, InvInductive, PTL

(* For any items, prices and bounds what is placed is what was confirmed on   *)
(* the last screen (confirm_sell places pending_sell, not what it is told).   *)
THEOREM ListsAsShown == Spec => []ListedAsShown
<1>1. Inv => ListedAsShown
  BY DEF Inv, Faithful, ListedAsShown, Placing
<1> QED BY <1>1, InvInductive, PTL
=============================================================================
