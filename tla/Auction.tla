------------------------------ MODULE Auction -------------------------------
(* Selling at the auction house: the panel (text_input/auction.rs) and the    *)
(* two-phase driver of auction.rs, which asks the server for the fee and then *)
(* places the lot.  An item stands for the inventory slot it is in.           *)
(* Commands, requests and replies travel in order; the server is external.    *)
EXTENDS Naturals, Sequences

CONSTANTS Items, Prices, NoSell, \* what is sold, for how much; no sell
          MaxAsks,    \* bound: quotes the player asks for
          MaxTrouble  \* bound: commands and requests lost, items gone otherwise

ASSUME SellsAssumption == NoSell \notin [item : Items, price : Prices]
ASSUME BoundsAssumption == MaxAsks \in Nat /\ MaxTrouble \in Nat

VARIABLES p,    \* the panel: screen, its sell, awaiting_quote, the snapshot's quote
          d,    \* the driver: pending_sell, quoted, the inventory mirror
          srv,  \* the server: the inventory and the lots
          cmds, \* commands from the panel to the session
          up,   \* requests under way
          down, \* replies under way
          hist, \* history: see Histories
          used  \* what the bounds have allowed so far
vars == <<p, d, srv, cmds, up, down, hist, used>>

Sells == [item : Items, price : Prices]
Command(cmd, sell) == [cmd |-> cmd, sell |-> sell]
Request(cmd, sell, shown) == [cmd |-> cmd, sell |-> sell, shown |-> shown]
Reply(cmd, sell, ok) == [cmd |-> cmd, sell |-> sell, ok |-> ok]

Init ==
    /\ p = [screen |-> "list", sell |-> NoSell, awaiting |-> FALSE, fee |-> NoSell]
    /\ d = [pending |-> NoSell, quoted |-> FALSE, inv |-> Items]
    /\ srv = [inv |-> Items, lots |-> {}]
    /\ cmds = <<>> /\ up = <<>> /\ down = <<>>
    /\ hist = [spun |-> FALSE, unasked |-> FALSE, quotes |-> {}]
    /\ used = [asks |-> 0, trouble |-> 0]

-----------------------------------------------------------------------------
(* The panel.                                                                 *)

Elsewhere == UNCHANGED <<d, srv, up, down>>
Still == UNCHANGED <<cmds, hist, used>>

(* A row of the sell list opens Price Set; its spinner is turned at will.     *)
Pick == \E s \in Sells :
    /\ p.screen = "list" /\ s.item \in d.inv
    /\ p' = [p EXCEPT !.screen = "price", !.sell = s]
    /\ Still /\ Elsewhere

Spin == \E x \in Prices :
    /\ p.screen = "price" /\ x # p.sell.price
    /\ p' = [p EXCEPT !.sell.price = x]
    /\ hist' = [hist EXCEPT !.spun = @ \/ p.awaiting]
    /\ UNCHANGED <<cmds, used>> /\ Elsewhere

Ask ==
    /\ p.screen = "price" /\ used.asks < MaxAsks
    /\ p' = [p EXCEPT !.awaiting = TRUE]
    /\ cmds' = Append(cmds, Command("sell", p.sell))
    /\ used' = [used EXCEPT !.asks = @ + 1]
    /\ UNCHANGED hist /\ Elsewhere

(* auction_mode_sync: any quote in the snapshot takes Price Set to the fee.   *)
Promote ==
    /\ p.awaiting /\ p.fee # NoSell /\ p.screen = "price"
    /\ p' = [p EXCEPT !.awaiting = FALSE, !.screen = "fee"]
    /\ Still /\ Elsewhere

Agree ==
    /\ p.screen = "fee" /\ p' = [p EXCEPT !.screen = "place"]
    /\ Still /\ Elsewhere

Place ==
    /\ p.screen = "place" /\ p' = [p EXCEPT !.screen = "list", !.sell = NoSell]
    /\ cmds' = Append(cmds, Command("confirm", p.sell))
    /\ UNCHANGED <<hist, used>> /\ Elsewhere

(* No, or Esc: the confirmations fall back to Price Set, that to the list.    *)
Back ==
    /\ p.screen # "list"
    /\ p' = IF p.screen = "price" THEN [p EXCEPT !.screen = "list", !.sell = NoSell, !.awaiting = FALSE]
            ELSE [p EXCEPT !.screen = "price"]
    /\ Still /\ Elsewhere

-----------------------------------------------------------------------------
(* The session and the driver.                                                *)

Taken(cmd) == cmds # <<>> /\ Head(cmds).cmd = cmd /\ cmds' = Tail(cmds)

\* Mutant of RequestSell: a sell not yet confirmed stays.
RequestSellFirst(s) ==
    [d EXCEPT !.pending = IF d.pending = NoSell THEN s ELSE d.pending, !.quoted = FALSE]

(* request_sell: a sell not yet confirmed is superseded.                      *)
RequestSell(s) == [d EXCEPT !.pending = s, !.quoted = FALSE]

TakeSell ==
    /\ Taken("sell")
    /\ LET s == Head(cmds).sell
       IN IF s.item \in d.inv
          THEN /\ d' = RequestSell(s)
               /\ up' = Append(up, Request("ask", s, s))
               /\ UNCHANGED hist
          ELSE UNCHANGED <<d, up>> /\ hist' = [hist EXCEPT !.unasked = TRUE]
    /\ UNCHANGED <<p, srv, down, used>>

(* confirm_sell: the pending sell is placed once a quote has landed.          *)
TakeConfirm ==
    /\ Taken("confirm")
    /\ up' = IF d.quoted THEN Append(up, Request("lot", d.pending, Head(cmds).sell)) ELSE up
    /\ UNCHANGED <<p, d, srv, down, hist, used>>

Heard(cmd) == down # <<>> /\ Head(down).cmd = cmd /\ down' = Tail(down)

(* on_packet: a quote is taken for the pending sell's.                        *)
OnQuote ==
    /\ Heard("ask")
    /\ LET m == Head(down)
           good == m.ok /\ d.pending # NoSell
       IN /\ d' = [d EXCEPT !.pending = IF good THEN @ ELSE NoSell, !.quoted = good]
          /\ p' = [p EXCEPT !.fee = IF good THEN m.sell ELSE NoSell]
          /\ hist' = [hist EXCEPT !.quotes = @ \cup IF m.ok THEN {m.sell} ELSE {}]
    /\ UNCHANGED <<srv, cmds, up, used>>

(* A lot placed consumes intent and quote; a refused one leaves both.         *)
OnLot ==
    /\ Heard("lot")
    /\ IF Head(down).ok
       THEN /\ d' = [d EXCEPT !.pending = NoSell, !.quoted = FALSE]
            /\ p' = [p EXCEPT !.fee = NoSell]
       ELSE UNCHANGED <<d, p>>
    /\ UNCHANGED <<srv, cmds, up, hist, used>>

(* The server's item updates reach the inventory mirror.                      *)
OnItem ==
    /\ Heard("gone")
    /\ d' = [d EXCEPT !.inv = @ \ {Head(down).sell.item}]
    /\ UNCHANGED <<p, srv, cmds, up, hist, used>>

-----------------------------------------------------------------------------
(* The server quotes and lists what the player carries, or refuses.           *)

Served(cmd) == up # <<>> /\ Head(up).cmd = cmd /\ up' = Tail(up)
World == UNCHANGED <<p, d, cmds, hist>>

ServeAsk == \E ok \in BOOLEAN :
    /\ Served("ask")
    /\ ok => Head(up).sell.item \in srv.inv
    /\ down' = Append(down, Reply("ask", Head(up).sell, ok))
    /\ World /\ UNCHANGED <<srv, used>>

ServeLot == \E ok \in BOOLEAN :
    /\ Served("lot")
    /\ ok => Head(up).sell.item \in srv.inv
    /\ LET s == Head(up).sell
       IN IF ok
          THEN /\ srv' = [srv EXCEPT !.inv = @ \ {s.item}, !.lots = @ \cup {s}]
               /\ down' = down \o <<Reply("gone", s, TRUE), Reply("lot", s, TRUE)>>
          ELSE UNCHANGED srv /\ down' = Append(down, Reply("lot", s, FALSE))
    /\ World /\ UNCHANGED used

Trouble == used.trouble < MaxTrouble /\ used' = [used EXCEPT !.trouble = @ + 1]

(* The panel's command channel is full; a request's send fails.               *)
Drop ==
    /\ Trouble /\ cmds # <<>> /\ cmds' = SubSeq(cmds, 1, Len(cmds) - 1)
    /\ hist' = [hist EXCEPT !.unasked = @ \/ cmds[Len(cmds)].cmd = "sell"]
    /\ UNCHANGED <<p, d, srv, up, down>>

Lose ==
    /\ Trouble /\ up # <<>> /\ up' = Tail(up)
    /\ World /\ UNCHANGED <<srv, down>>

\* An item is used, dropped or handed over.
Vanish == \E i \in srv.inv :
    /\ Trouble /\ srv' = [srv EXCEPT !.inv = @ \ {i}]
    /\ \E s \in Sells : s.item = i /\ down' = Append(down, Reply("gone", s, TRUE))
    /\ World /\ UNCHANGED up

Panel == Pick \/ Spin \/ Ask \/ Promote \/ Agree \/ Place \/ Back
Session == TakeSell \/ TakeConfirm \/ OnQuote \/ OnLot \/ OnItem
Next == Panel \/ Session \/ ServeAsk \/ ServeLot \/ Drop \/ Lose \/ Vanish
Spec == Init /\ [][Next]_vars
-----------------------------------------------------------------------------
MaybeSells == Sells \cup {NoSell}

(* spun: the price was turned while its quote was awaited; unasked: a sell    *)
(* never became an AskCommit; quotes: the sells whose quote has landed.       *)
Histories == [spun : BOOLEAN, unasked : BOOLEAN, quotes : SUBSET Sells]

(* Types; a quote held is for a sell held, and what the server lists it no    *)
(* longer keeps in the inventory.                                             *)
TypeOK ==
    /\ p \in [screen : {"list", "price", "fee", "place"}, sell : MaybeSells,
              awaiting : BOOLEAN, fee : MaybeSells]
    /\ d \in [pending : MaybeSells, quoted : BOOLEAN, inv : SUBSET Items]
    /\ srv \in [inv : SUBSET Items, lots : SUBSET Sells]
    /\ cmds \in Seq([cmd : {"sell", "confirm"}, sell : Sells])
    /\ up \in Seq([cmd : {"ask", "lot"}, sell : Sells, shown : Sells])
    /\ down \in Seq([cmd : {"ask", "lot", "gone"}, sell : Sells, ok : BOOLEAN])
    /\ hist \in Histories
    /\ used \in [asks : 0 .. MaxAsks, trouble : 0 .. MaxTrouble]
    /\ d.quoted => d.pending # NoSell
    /\ p.screen = "list" => p.sell = NoSell /\ ~p.awaiting
    /\ p.screen # "list" => p.sell # NoSell
    /\ \A s \in srv.lots : s.item \notin srv.inv

Placing(m) == m.cmd = "lot"

(* What is placed is what the player confirmed on the last screen, item and   *)
(* price, whatever was asked before, refused, superseded, listed or lost;     *)
(* unless he turned the price while its quote was awaited, or a sell of his   *)
(* never became a question to the server.                                     *)
ListedAsShown ==
    ~hist.spun /\ ~hist.unasked =>
        \A i \in DOMAIN up : Placing(up[i]) => up[i].sell = up[i].shown

(* A lot is placed only once its own quote has landed (confirm_sell: "once    *)
(* the AskCommit quote has landed; `None` before that").                      *)
ConfirmIsQuoted == \A i \in DOMAIN up : Placing(up[i]) => up[i].sell \in hist.quotes
=============================================================================
