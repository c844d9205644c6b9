---------------------------- MODULE ZoneInProofs -----------------------------
(***************************************************************************)
(* Proofs about ZoneIn, for any zone lines and any bounds: whatever is     *)
(* lost, late, left over from the last zone or retransmitted.              *)
(***************************************************************************)
EXTENDS ZoneIn, SequenceTheorems, TLAPS

Accepted == "GAMEOK" \in srv.got

\* What may be in the air, given whether the server has accepted GAMEOK.
DatagramsGiven(accepted) == {d \in Datagrams : "POS" \in d.subs => accepted}
BundlesGiven(accepted) == {b \in Bundles : "ENTERZONE" \in b.subs => accepted}

\* Nobody holds an ENTERZONE, or sends a position, before GAMEOK is accepted.
Inv ==
    /\ TypeOK
    /\ up \in Seq(DatagramsGiven(Accepted))
    /\ down \in Seq(BundlesGiven(Accepted))
    /\ c.enter => Accepted
    /\ "ENTERZONE" \in srv.cached => Accepted
    /\ "ENTERZONE" \notin srv.queue
    /\ "POS" \in srv.got => Accepted

-----------------------------------------------------------------------------
LEMMA QueueTyped ==
    ASSUME NEW S, NEW q \in Seq(S)
    PROVE  /\ \A x \in S : Append(q, x) \in Seq(S)
           /\ q # <<>> => Head(q) \in S /\ Tail(q) \in Seq(S)
OBVIOUS

\* What was allowed in the air before an acceptance is allowed after it.
LEMMA GivenGrows ==
    ASSUME NEW a \in BOOLEAN, NEW b \in BOOLEAN, a => b
    PROVE  /\ \A q \in Seq(DatagramsGiven(a)) : q \in Seq(DatagramsGiven(b))
           /\ \A q \in Seq(BundlesGiven(a)) : q \in Seq(BundlesGiven(b))
<1>1. DatagramsGiven(a) \subseteq DatagramsGiven(b)
  BY DEF DatagramsGiven
<1>2. BundlesGiven(a) \subseteq BundlesGiven(b)
  BY DEF BundlesGiven
<1> QED BY <1>1, <1>2

LEMMA GivenTyped ==
    ASSUME NEW a \in BOOLEAN
    PROVE  /\ \A q \in Seq(DatagramsGiven(a)) : q \in Seq(Datagrams)
           /\ \A q \in Seq(BundlesGiven(a)) : q \in Seq(Bundles)
<1>1. DatagramsGiven(a) \subseteq Datagrams
  BY DEF DatagramsGiven
<1>2. BundlesGiven(a) \subseteq Bundles
  BY DEF BundlesGiven
<1> QED BY <1>1, <1>2

LEMMA SpendTyped ==
    ASSUME used \in Budget, NEW ok \in BOOLEAN, NEW inTime \in BOOLEAN, Spend(ok, inTime, 0)
    PROVE  used' \in Budget
<1>1. /\ used' = [used EXCEPT !.lost = IF ok THEN used.lost ELSE used.lost + 1,
                              !.late = IF inTime THEN used.late ELSE used.late + 1,
                              !.asks = used.asks + 0]
      /\ used'.lost <= MaxLost /\ used'.late <= MaxLate
  BY DEF Spend
<1>2. /\ used.lost \in 0 .. MaxLost /\ used.late \in 0 .. MaxLate
      /\ used.events \in 0 .. MaxEvents /\ used.warps \in 0 .. MaxWarps
      /\ used.asks \in 0 .. MaxAsks
  BY DEF Budget
<1>3. PICK x, y : /\ x = (IF ok THEN used.lost ELSE used.lost + 1)
                  /\ y = (IF inTime THEN used.late ELSE used.late + 1)
  OBVIOUS
<1>0. used.asks + 0 = used.asks
  BY <1>2
<1>4. used' = [used EXCEPT !.lost = x, !.late = y, !.asks = used.asks]
  BY <1>0, <1>1, <1>3
<1>5. used'.lost = x /\ used'.late = y
  BY <1>4 DEF Budget
<1>6. x \in 0 .. MaxLost /\ y \in 0 .. MaxLate
  BY <1>1, <1>2, <1>3, <1>5, BoundsAssumption
<1> QED BY <1>2, <1>4, <1>6 DEF Budget

\* A datagram is put on the wire or not; a position only after acceptance.
LEMMA PutTyped ==
    ASSUME Inv, NEW subs \in SUBSET Requests, NEW ack \in Nat,
           NEW line \in Lines \cup {NoLine}, NEW ok \in BOOLEAN,
           "POS" \in subs => Accepted, Put(subs, ack, line, ok)
    PROVE  up' \in Seq(DatagramsGiven(Accepted))
<1>1. Datagram(subs, ack, line) \in DatagramsGiven(Accepted)
  BY DEF Datagram, DatagramsGiven, Datagrams
<1>2. Append(up, Datagram(subs, ack, line)) \in Seq(DatagramsGiven(Accepted))
  BY <1>1, QueueTyped, Zenon DEF Inv
<1> QED BY <1>2, Zenon DEF Put, Inv

\* Applying a bundle learns of ENTERZONE only from one the server sent.
LEMMA ApplyTyped ==
    ASSUME Inv, NEW b \in BundlesGiven(Accepted)
    PROVE  /\ Apply(b) \in Locals /\ Apply(b).at = c.at
           /\ Apply(b).enter => Accepted
<1>1. c \in Locals /\ (c.enter => Accepted)
  BY DEF Inv, TypeOK
<1>2. b.stamp \in Nat /\ ("ENTERZONE" \in b.subs => Accepted)
  BY DEF BundlesGiven, Bundles
<1>3. PICK seeded \in BOOLEAN, enter \in BOOLEAN, owed \in BOOLEAN :
        /\ seeded = (c.seeded \/ "SEED" \in b.subs)
        /\ enter = (c.enter \/ "ENTERZONE" \in b.subs)
        /\ owed = (c.owed \/ "EVENT" \in b.subs)
  OBVIOUS
<1>4. Apply(b) = [c EXCEPT !.ack = b.stamp, !.seeded = seeded, !.enter = enter, !.owed = owed]
  BY <1>3 DEF Apply
<1>5. enter => Accepted
  BY <1>1, <1>2, <1>3
<1> QED BY <1>1, <1>2, <1>4, <1>5 DEF Locals

\* So does heeding one in the loop, fresh or not.
LEMMA HeedTyped ==
    ASSUME Inv, NEW b \in BundlesGiven(Accepted)
    PROVE  Heed(b) \in Locals /\ (Heed(b).enter => Accepted)
<1>1. c \in Locals /\ (c.enter => Accepted) /\ b.stamp \in Nat
  BY DEF Inv, TypeOK, BundlesGiven, Bundles
<1>2. CASE Heed(b) = c
  BY <1>1, <1>2
<1>3. CASE Heed(b) = [c EXCEPT !.ack = b.stamp]
  BY <1>1, <1>3 DEF Locals
<1>4. CASE Heed(b) = [LogoutBy(b) EXCEPT !.applied = b.stamp]
  <2>1. LogoutBy(b) \in Locals /\ LogoutBy(b).enter = c.enter
    BY <1>1 DEF LogoutBy, Locals, Ended
  <2>2. Heed(b) \in Locals /\ Heed(b).enter = LogoutBy(b).enter
    BY <1>1, <1>4, <2>1 DEF Locals
  <2> QED BY <1>1, <2>1, <2>2
<1>5. CASE Heed(b) = [Apply(b) EXCEPT !.applied = b.stamp]
  <2>1. Apply(b) \in Locals /\ (Apply(b).enter => Accepted)
    BY ApplyTyped
  <2>2. Heed(b) \in Locals /\ Heed(b).enter = Apply(b).enter
    BY <1>1, <1>5, <2>1 DEF Locals
  <2> QED BY <2>1, <2>2
<1> QED BY <1>2, <1>3, <1>4, <1>5 DEF Heed

LEMMA ProceedKeepsInv ==
    ASSUME Inv, NEW d \in Locals, d.at \in Draining, d.enter => Accepted,
           NEW inTime \in BOOLEAN, Proceed(d, inTime),
           down' \in Seq(BundlesGiven(Accepted))
    PROVE  Inv'
<1>1. PICK ok \in BOOLEAN :
        /\ Spend(ok, inTime, 0) /\ Put(Request(d), d.ack, NoLine, ok)
        /\ c' = IF ok THEN After(d) ELSE [d EXCEPT !.at = "failed"]
        /\ UNCHANGED srv
  BY Zenon DEF Proceed
<1>2. Request(d) \in SUBSET Requests /\ "POS" \notin Request(d)
  BY DEF Request, Requests, Draining
<1>3. d.ack \in Nat /\ NoLine \in Lines \cup {NoLine}
  BY DEF Locals
<1>4. up' \in Seq(DatagramsGiven(Accepted))
  BY <1>1, <1>2, <1>3, PutTyped, Zenon
<1>5. used' \in Budget
  BY <1>1, SpendTyped, Zenon DEF Inv, TypeOK
<1>6. c' \in Locals /\ c'.enter = d.enter
  <2>1. After(d) \in Locals /\ After(d).enter = d.enter
    BY DEF After, Locals, Draining
  <2>2. [d EXCEPT !.at = "failed"] \in Locals /\ [d EXCEPT !.at = "failed"].enter = d.enter
    BY DEF Locals, Ended
  <2> QED BY <1>1, <2>1, <2>2
<1>7. Accepted' = Accepted /\ Accepted \in BOOLEAN
  BY <1>1 DEF Accepted
<1>8. up' \in Seq(Datagrams) /\ down' \in Seq(Bundles)
  BY <1>4, <1>7, GivenTyped, Zenon
<1> QED BY <1>1, <1>4, <1>5, <1>6, <1>7, <1>8 DEF Inv, TypeOK

LEMMA SessionTyped ==
    ASSUME srv \in Sessions, NEW n \in Nat, NEW g \in SUBSET Requests, NEW e \in BOOLEAN,
           NEW q \in SUBSET Pushes, NEW s \in SUBSET Pushes, NEW o \in BOOLEAN,
           NEW l \in Lines \cup {NoLine}
    PROVE  [srv EXCEPT !.spid = n, !.got = g, !.event = e, !.queue = q, !.cached = s,
                       !.gone = o, !.line = l] \in Sessions
BY DEF Sessions

-----------------------------------------------------------------------------
\* The inductive invariant: types, and no ENTERZONE or position ahead of the
\* server's acceptance of GAMEOK.
THEOREM InvInductive == Spec => []Inv
<1>1. Init => Inv
  <2> SUFFICES ASSUME Init PROVE Inv
    OBVIOUS
  <2>1. c \in Locals /\ ~c.enter
    BY BoundsAssumption DEF Init, Locals, NoStamp
  <2>2. srv \in Sessions /\ srv.got = {} /\ srv.cached = {} /\ srv.queue = {}
    BY DEF Init, Sessions
  <2>3. used \in Budget
    BY BoundsAssumption DEF Init, Budget
  <2>4. Accepted \in BOOLEAN
    BY DEF Accepted
  <2>5. up \in Seq(DatagramsGiven(Accepted))
    <3>1. Datagram({"LOGIN"}, 0, NoLine) \in DatagramsGiven(Accepted)
      BY DEF Datagram, DatagramsGiven, Datagrams, Requests
    <3> QED BY <3>1 DEF Init
  <2>6. down \in Seq(BundlesGiven(Accepted))
    <3>1. OldBundle \in BundlesGiven(Accepted)
      BY DEF OldBundle, BundlesGiven, Bundles
    <3>2. PICK n \in 0 .. MaxOld : down = [i \in 1 .. n |-> OldBundle]
      BY DEF Init
    <3> QED BY <3>1, <3>2, BoundsAssumption
  <2>7. up \in Seq(Datagrams) /\ down \in Seq(Bundles)
    BY <2>4, <2>5, <2>6, GivenTyped, Zenon
  <2> QED BY <2>1, <2>2, <2>3, <2>5, <2>6, <2>7 DEF Inv, TypeOK
<1>2. Inv /\ [Next]_vars => Inv'
  <2> SUFFICES ASSUME Inv, [Next]_vars PROVE Inv'
    OBVIOUS
  <2> Accepted \in BOOLEAN /\ Accepted' \in BOOLEAN
    BY DEF Accepted
  <2>1. CASE Again
    <3>1. {"LOGIN"} \in SUBSET Requests /\ "POS" \notin {"LOGIN"}
      BY DEF Requests
    <3>2. up' \in Seq(DatagramsGiven(Accepted))
      BY <2>1, <3>1, PutTyped, 0 \in Nat, NoLine \in Lines \cup {NoLine}, TRUE \in BOOLEAN, Zenon DEF Again
    <3>3. c' \in Locals /\ c'.enter = c.enter
      BY <2>1 DEF Again, Inv, TypeOK, Locals, Draining
    <3>4. UNCHANGED <<srv, down, used>> /\ Accepted' = Accepted
      BY <2>1 DEF Again, Accepted
    <3>5. up' \in Seq(Datagrams)
      BY <3>2, GivenTyped, Zenon
    <3> QED BY <3>2, <3>3, <3>4, <3>5 DEF Inv, TypeOK
  <2>2. CASE DrainReceive
    <3>1. /\ Head(down) \in BundlesGiven(Accepted)
          /\ down' \in Seq(BundlesGiven(Accepted))
      BY <2>2, QueueTyped, Zenon DEF DrainReceive, Inv
    <3>2. CASE Proceed(c, TRUE)
      <4>1. c \in Locals /\ c.at \in Draining /\ (c.enter => Accepted)
        BY <2>2 DEF DrainReceive, Inv, TypeOK
      <4> QED BY <3>1, <3>2, <4>1, ProceedKeepsInv, TRUE \in BOOLEAN, Zenon
    <3>3. CASE Proceed(Apply(Head(down)), TRUE)
      <4>1. /\ Apply(Head(down)) \in Locals /\ Apply(Head(down)).at \in Draining
            /\ Apply(Head(down)).enter => Accepted
        BY <2>2, <3>1, ApplyTyped, Zenon DEF DrainReceive
      <4> QED BY <3>1, <3>3, <4>1, ProceedKeepsInv, TRUE \in BOOLEAN, Zenon
    <3>4. CASE c' = Apply(Head(down)) /\ UNCHANGED <<srv, up, used>>
      <4>1. c' \in Locals /\ (c'.enter => Accepted)
        BY <3>1, <3>4, ApplyTyped, Zenon
      <4>2. Accepted' = Accepted /\ down' \in Seq(Bundles)
        BY <3>1, <3>4, GivenTyped DEF Accepted
      <4> QED BY <3>1, <3>4, <4>1, <4>2 DEF Inv, TypeOK
    <3> QED BY <2>2, <3>2, <3>3, <3>4, Zenon DEF DrainReceive
  <2>3. CASE DrainIdle \/ DrainCap
    <3>1. down' = down /\ c.at \in Draining /\ c \in Locals /\ (c.enter => Accepted)
      BY <2>3 DEF DrainIdle, DrainCap, Inv, TypeOK
    <3>2. PICK d \in Locals :
            /\ d.at = c.at /\ d.enter = c.enter
            /\ Proceed(d, up = <<>> /\ down = <<>>)
      <4>1. [c EXCEPT !.capped = TRUE] \in Locals /\ [c EXCEPT !.capped = TRUE].at = c.at
            /\ [c EXCEPT !.capped = TRUE].enter = c.enter
        BY <3>1 DEF Locals
      <4> QED BY <2>3, <3>1, <4>1, Zenon DEF DrainIdle, DrainCap
    <3>3. (up = <<>> /\ down = <<>>) \in BOOLEAN
      OBVIOUS
    <3> QED BY <3>1, <3>2, <3>3, ProceedKeepsInv, Zenon DEF Inv
  <2>4. CASE Tick
    <3>1. PICK expire \in BOOLEAN, flush \in BOOLEAN, ok \in BOOLEAN : TickWith(expire, flush, ok)
      BY <2>4, Zenon DEF Tick
    <3> DEFINE zt == Transitions(c)
               resrdy == (c.zt \/ zt) /\ c.seeded /\ ~c.resrdy /\ ~c.owed
               owed == c.owed /\ ~flush
               group == c.deferred /\ ~owed
               pos == Includes(c) /\ c.pos < MaxPos
               subs == Sent(zt, "ZT") \cup Sent(resrdy, "RESRDY") \cup Sent(flush, "END")
                         \cup Sent(group, "GROUP") \cup Sent(pos, "POS")
               late == Answered \/ (subs = {} /\ ~expire)
    <3>2. subs \in SUBSET Requests /\ ("POS" \in subs => pos)
      BY DEF Sent, Requests
    <3>3. pos => Accepted
      BY DEF Includes, Inv
    <3>4. c.ack \in Nat /\ NoLine \in Lines \cup {NoLine} /\ late \in BOOLEAN
      BY DEF Inv, TypeOK, Locals, Answered
    <3>5. Put(subs, c.ack, NoLine, ok) /\ Spend(ok, late, 0)
      BY <3>1 DEF TickWith
    <3>6. up' \in Seq(DatagramsGiven(Accepted))
      <4> HIDE DEF subs, pos
      <4> QED BY <3>2, <3>3, <3>4, <3>5, PutTyped, Zenon
    <3>7. used' \in Budget
      <4> HIDE DEF late
      <4> QED BY <3>4, <3>5, SpendTyped, Zenon DEF Inv, TypeOK
    <3>8. c' \in Locals /\ c'.enter = c.enter
      <4>1. c' = [c EXCEPT !.zt = c.zt \/ zt, !.resrdy = c.resrdy \/ resrdy, !.owed = owed,
                           !.deferred = c.deferred /\ ~group,
                           !.pos = IF pos THEN c.pos + 1 ELSE c.pos,
                           !.maprect = IF expire THEN NoLine ELSE c.maprect]
        BY <3>1 DEF TickWith
      <4>2. (c.zt \/ zt) \in BOOLEAN /\ (c.resrdy \/ resrdy) \in BOOLEAN /\ owed \in BOOLEAN
            /\ (c.deferred /\ ~group) \in BOOLEAN
        OBVIOUS
      <4>3. (IF pos THEN c.pos + 1 ELSE c.pos) \in 0 .. MaxPos
        BY BoundsAssumption DEF Inv, TypeOK, Locals
      <4>4. (IF expire THEN NoLine ELSE c.maprect) \in Lines \cup {NoLine}
        BY DEF Inv, TypeOK, Locals
      <4>5. c \in Locals
        BY DEF Inv, TypeOK
      <4> HIDE DEF zt, resrdy, owed, group, pos
      <4>6. PICK a \in BOOLEAN : a = (c.zt \/ zt)
        BY <4>2, Zenon
      <4>7. PICK b \in BOOLEAN : b = (c.resrdy \/ resrdy)
        BY <4>2, Zenon
      <4>8. PICK o \in BOOLEAN : o = owed
        BY <4>2, Zenon
      <4>9. PICK g \in BOOLEAN : g = (c.deferred /\ ~group)
        BY <4>2, Zenon
      <4>10. PICK n \in 0 .. MaxPos : n = IF pos THEN c.pos + 1 ELSE c.pos
        BY <4>3, Zenon
      <4>11. PICK l \in Lines \cup {NoLine} : l = IF expire THEN NoLine ELSE c.maprect
        BY <4>4, Zenon
      <4>12. c' = [c EXCEPT !.zt = a, !.resrdy = b, !.owed = o, !.deferred = g,
                            !.pos = n, !.maprect = l]
        BY ONLY <4>1, <4>6, <4>7, <4>8, <4>9, <4>10, <4>11, Zenon
      <4> DEFINE e == [c EXCEPT !.zt = a, !.resrdy = b, !.owed = o, !.deferred = g,
                                !.pos = n, !.maprect = l]
                 f == [c EXCEPT !.zt = a, !.resrdy = b, !.owed = o]
      <4>13. e \in Locals /\ e.enter = c.enter
        <5>1. e.enter = c.enter
          BY ONLY <4>5 DEF Locals
        <5>2. f \in Locals
          BY ONLY <4>5, a \in BOOLEAN, b \in BOOLEAN, o \in BOOLEAN DEF Locals
        <5>3. \A h \in Locals : [h EXCEPT !.deferred = g, !.pos = n, !.maprect = l] \in Locals
          BY ONLY g \in BOOLEAN, n \in 0 .. MaxPos, l \in Lines \cup {NoLine} DEF Locals
        <5>4. e = [f EXCEPT !.deferred = g, !.pos = n, !.maprect = l]
          BY ONLY <4>5 DEF Locals
        <5>5. e \in Locals
          <6> HIDE DEF e, f
          <6> QED BY ONLY <5>2, <5>3, <5>4, Zenon
        <5> QED BY <5>1, <5>5
      <4>14. c' = e
        BY <4>12
      <4> HIDE DEF e
      <4> QED BY <4>13, <4>14, Zenon
    <3>9. UNCHANGED <<srv, down>> /\ Accepted' = Accepted
      BY <3>1 DEF TickWith, Accepted
    <3>10. up' \in Seq(Datagrams)
      BY <3>6, GivenTyped, Zenon
    <3> QED BY <3>6, <3>7, <3>8, <3>9, <3>10 DEF Inv, TypeOK
  <2>5. CASE Receive
    <3>1. /\ Head(down) \in BundlesGiven(Accepted)
          /\ down' \in Seq(BundlesGiven(Accepted))
      BY <2>5, QueueTyped, Zenon DEF Receive, Inv
    <3>3. c' \in Locals /\ (c'.enter => Accepted)
      BY <2>5, <3>1, HeedTyped, Zenon DEF Receive
    <3>4. UNCHANGED <<srv, up, used>> /\ Accepted' = Accepted
      BY <2>5 DEF Receive, Accepted
    <3>5. down' \in Seq(Bundles)
      BY <3>1, GivenTyped, Zenon
    <3> QED BY <3>1, <3>3, <3>4, <3>5 DEF Inv, TypeOK
  <2>6. CASE Ask
    <3>1. PICK line \in Lines, ok \in BOOLEAN :
            /\ used.asks < MaxAsks
            /\ c' = IF ok THEN [c EXCEPT !.maprect = line] ELSE c
            /\ Put({"MAPRECT"}, c.ack, line, ok)
            /\ Spend(ok, Answered, 1)
            /\ UNCHANGED <<srv, down>>
      BY <2>6, Zenon DEF Ask
    <3>2. {"MAPRECT"} \in SUBSET Requests /\ "POS" \notin {"MAPRECT"}
      BY DEF Requests
    <3>3. c.ack \in Nat /\ line \in Lines \cup {NoLine}
      BY DEF Inv, TypeOK, Locals
    <3>4. up' \in Seq(DatagramsGiven(Accepted))
      BY <3>1, <3>2, <3>3, PutTyped, Zenon
    <3>5. used' \in Budget
      <4>1. /\ used' = [used EXCEPT !.lost = IF ok THEN used.lost ELSE used.lost + 1,
                                    !.late = IF Answered THEN used.late ELSE used.late + 1,
                                    !.asks = used.asks + 1]
            /\ used'.lost <= MaxLost /\ used'.late <= MaxLate
        BY <3>1 DEF Spend
      <4>2. used \in Budget
        BY DEF Inv, TypeOK
      <4>3. /\ used.lost \in 0 .. MaxLost /\ used.late \in 0 .. MaxLate
            /\ used.asks + 1 \in 0 .. MaxAsks
        BY <3>1, <4>2, BoundsAssumption DEF Budget
      <4>4. PICK x, y : /\ x = (IF ok THEN used.lost ELSE used.lost + 1)
                        /\ y = (IF Answered THEN used.late ELSE used.late + 1)
        OBVIOUS
      <4>5. used' = [used EXCEPT !.lost = x, !.late = y, !.asks = used.asks + 1]
        BY <4>1, <4>4
      <4>6. used'.lost = x /\ used'.late = y
        BY <4>2, <4>5 DEF Budget
      <4>7. x \in 0 .. MaxLost /\ y \in 0 .. MaxLate
        BY <4>1, <4>3, <4>4, <4>6, BoundsAssumption
      <4> QED BY <4>2, <4>3, <4>5, <4>7 DEF Budget
    <3>6. c' \in Locals /\ c'.enter = c.enter
      BY <3>1 DEF Inv, TypeOK, Locals
    <3>7. UNCHANGED <<srv, down>> /\ Accepted' = Accepted
      BY <3>1 DEF Accepted
    <3>8. up' \in Seq(Datagrams)
      BY <3>4, GivenTyped, Zenon
    <3> QED BY <3>4, <3>5, <3>6, <3>7, <3>8 DEF Inv, TypeOK
  <2>7. CASE Silence
    BY <2>7 DEF Silence, Inv, TypeOK, Accepted, Locals, Ended
  <2>8. CASE ServerTake
    <3> DEFINE d == Head(up)
               subs == Handled(d)
    <3>1. /\ d \in DatagramsGiven(Accepted)
          /\ up' \in Seq(DatagramsGiven(Accepted))
      BY <2>8, QueueTyped, Zenon DEF ServerTake, Inv
    <3>2. subs \subseteq d.subs /\ d.subs \subseteq Requests
          /\ ("POS" \in d.subs => Accepted) /\ d.line \in Lines \cup {NoLine}
      BY <3>1 DEF Handled, DatagramsGiven, Datagrams
    <3> DEFINE bundle == Answer(subs) \cup srv.queue
    <3>3. /\ srv' = [srv EXCEPT !.spid = srv.spid + 1, !.got = srv.got \cup subs,
                                !.event = srv.event /\ "END" \notin subs,
                                !.queue = {}, !.cached = bundle, !.gone = "LOGOUT" \in bundle,
                                !.line = IF "MAPRECT" \in subs THEN d.line ELSE srv.line]
          /\ down' = Append(down, Bundle(srv.spid + 1, bundle))
          /\ UNCHANGED <<c, used>>
      BY <2>8, Zenon DEF ServerTake, Reply
    <3> HIDE DEF subs
    <3>4. bundle \in SUBSET Pushes /\ ("ENTERZONE" \in bundle => "GAMEOK" \in subs)
      BY DEF Answer, Sent, Pushes, Inv, TypeOK, Sessions
    <3> HIDE DEF bundle
    <3>5. srv' \in Sessions
      <4>1. srv \in Sessions
        BY DEF Inv, TypeOK
      <4>2. srv.got \cup subs \in SUBSET Requests
        BY <3>2, <4>1 DEF Sessions
      <4>3. (IF "MAPRECT" \in subs THEN d.line ELSE srv.line) \in Lines \cup {NoLine}
        BY <3>2, <4>1 DEF Sessions
      <4>4. (srv.event /\ "END" \notin subs) \in BOOLEAN /\ ("LOGOUT" \in bundle) \in BOOLEAN
        OBVIOUS
      <4> HIDE DEF d
      <4>5. srv.spid + 1 \in Nat /\ {} \in SUBSET Pushes
        BY <4>1 DEF Sessions
      <4>6. PICK n \in Nat, g \in SUBSET Requests, e \in BOOLEAN, o \in BOOLEAN,
                 l \in Lines \cup {NoLine} :
              /\ n = srv.spid + 1 /\ g = srv.got \cup subs
              /\ e = (srv.event /\ "END" \notin subs) /\ o = ("LOGOUT" \in bundle)
              /\ l = IF "MAPRECT" \in subs THEN d.line ELSE srv.line
        BY <4>2, <4>3, <4>4, <4>5, Zenon
      <4>7. srv' = [srv EXCEPT !.spid = n, !.got = g, !.event = e, !.queue = {},
                               !.cached = bundle, !.gone = o, !.line = l]
        BY <3>3, <4>6, Zenon
      <4> QED BY <3>4, <4>1, <4>5, <4>7, SessionTyped, Zenon
    <3>6. srv'.got = srv.got \cup subs /\ srv'.cached = bundle /\ srv'.queue = {}
      BY <3>3 DEF Inv, TypeOK, Sessions
    <3>7. (Accepted => Accepted') /\ ("GAMEOK" \in subs => Accepted')
      BY <3>6 DEF Accepted
    <3>8. up' \in Seq(DatagramsGiven(Accepted')) /\ up' \in Seq(Datagrams)
      BY <3>1, <3>7, GivenGrows, GivenTyped, Zenon
    <3>9. down' \in Seq(BundlesGiven(Accepted')) /\ down' \in Seq(Bundles)
      <4>1. down \in Seq(BundlesGiven(Accepted'))
        BY <3>7, GivenGrows, Zenon DEF Inv
      <4>2. Bundle(srv.spid + 1, bundle) \in BundlesGiven(Accepted')
        BY <3>4, <3>7 DEF Bundle, BundlesGiven, Bundles, Inv, TypeOK, Sessions
      <4>3. down' \in Seq(BundlesGiven(Accepted'))
        BY <3>3, <4>1, <4>2, QueueTyped, Zenon
      <4> QED BY <4>3, GivenTyped, Zenon
    <3>10. /\ c'.enter => Accepted'
           /\ "ENTERZONE" \in srv'.cached => Accepted'
           /\ "ENTERZONE" \notin srv'.queue
           /\ "POS" \in srv'.got => Accepted'
      BY <3>2, <3>3, <3>4, <3>6, <3>7 DEF Inv
    <3>11. c' \in Locals /\ used' \in Budget
      BY <3>3 DEF Inv, TypeOK
    <3> QED BY <3>5, <3>8, <3>9, <3>10, <3>11, Zenon DEF Inv, TypeOK
  <2>9. CASE ServerEat \/ ServerDeaf \/ Lose
    <3>1. UNCHANGED <<c, srv>> /\ Accepted' = Accepted
      BY <2>9 DEF ServerEat, ServerDeaf, Lose, Accepted
    <3>2. up' \in Seq(DatagramsGiven(Accepted))
      <4>1. up \in Seq(DatagramsGiven(Accepted))
        BY DEF Inv
      <4>2. up' = up \/ (up # <<>> /\ up' = Tail(up))
        BY <2>9 DEF ServerEat, ServerDeaf, Lose
      <4> QED BY <4>1, <4>2, QueueTyped, Zenon
    <3>3. down' \in Seq(BundlesGiven(Accepted))
      <4>1. Bundle(srv.spid, srv.cached) \in BundlesGiven(Accepted)
        BY DEF Bundle, BundlesGiven, Bundles, Inv, TypeOK, Sessions
      <4>2. down \in Seq(BundlesGiven(Accepted))
        BY DEF Inv
      <4>3. \/ down' = down \/ (down # <<>> /\ down' = Tail(down))
            \/ down' = Append(down, Bundle(srv.spid, srv.cached))
        BY <2>9 DEF ServerEat, ServerDeaf, Lose, Reply
      <4> QED BY <4>1, <4>2, <4>3, QueueTyped, Zenon
    <3>4. used' \in Budget
      <4>1. used \in Budget
        BY DEF Inv, TypeOK
      <4>2. used' = used \/ (used.lost < MaxLost /\ used' = [used EXCEPT !.lost = used.lost + 1])
        BY <2>9 DEF ServerEat, ServerDeaf, Lose
      <4> QED BY <4>1, <4>2, BoundsAssumption DEF Budget
    <3>5. up' \in Seq(Datagrams) /\ down' \in Seq(Bundles)
      BY <3>2, <3>3, GivenTyped, Zenon
    <3> QED BY <3>1, <3>2, <3>3, <3>4, <3>5 DEF Inv, TypeOK
  <2>10. CASE PushSeed \/ PushEvent \/ Warp
    <3>1. UNCHANGED <<c, up, down>> /\ used' \in Budget
      <4>1. used \in Budget
        BY DEF Inv, TypeOK
      <4>2. \/ used' = used
            \/ used.events < MaxEvents /\ used' = [used EXCEPT !.events = used.events + 1]
            \/ used.warps < MaxWarps /\ used' = [used EXCEPT !.warps = used.warps + 1]
        BY <2>10 DEF PushSeed, PushEvent, Warp
      <4>3. used' \in Budget
        BY <4>1, <4>2, BoundsAssumption DEF Budget
      <4> QED BY <2>10, <4>3 DEF PushSeed, PushEvent, Warp
    <3>2. /\ srv' \in Sessions /\ srv'.got = srv.got /\ srv'.cached = srv.cached
          /\ "ENTERZONE" \notin srv'.queue
      <4>1. srv \in Sessions /\ "ENTERZONE" \notin srv.queue
        BY DEF Inv, TypeOK
      <4>2. \A x \in {"SEED", "EVENT", "LOGOUT"} :
              Push(x) \in SUBSET Pushes /\ "ENTERZONE" \notin Push(x)
        BY <4>1 DEF Push, Pushes, Sessions
      <4>3. CASE PushSeed
        BY <4>1, <4>2, <4>3 DEF PushSeed, Sessions
      <4>4. CASE PushEvent
        BY <4>1, <4>2, <4>4 DEF PushEvent, Sessions
      <4>5. CASE Warp
        BY <4>1, <4>2, <4>5 DEF Warp, Sessions
      <4> QED BY <2>10, <4>3, <4>4, <4>5
    <3>3. Accepted' = Accepted
      BY <3>2 DEF Accepted
    <3> QED BY <3>1, <3>2, <3>3 DEF Inv, TypeOK
  <2>11. CASE LinkDead
    <3>1. UNCHANGED <<c, up, down, used>> /\ srv' = [srv EXCEPT !.gone = TRUE]
      BY <2>11 DEF LinkDead
    <3> QED BY <3>1 DEF Inv, TypeOK, Accepted, Sessions
  <2>12. CASE UNCHANGED vars
    BY <2>12 DEF vars, Inv, TypeOK, Accepted
  <2> QED BY <2>1, <2>2, <2>3, <2>4, <2>5, <2>6, <2>7, <2>8, <2>9, <2>10, <2>11, <2>12
          DEF Next, Client, Server
<1> QED BY <1>1, <1>2, PTL DEF Spec

\* The locals of run_map_session and the loop, the datagrams in flight and the
\* budgets of the environment are well typed.
THEOREM TypeCorrect == Spec => []TypeOK
<1>1. Inv => TypeOK
  BY DEF Inv
<1> QED BY <1>1, InvInductive, PTL

\* No position reaches the server before it has let the player in.
THEOREM PositionsWait == Spec => []PosAwaitsZone
<1>1. Inv => PosAwaitsZone
  BY DEF Inv, Accepted, PosAwaitsZone
<1> QED BY <1>1, InvInductive, PTL

-----------------------------------------------------------------------------
(* The second layer: nothing lost or late, and a socket that was empty.  Then *)
(* client and server stay in step, and the guard never eats a request.        *)

\* The numbers of the server grow along the bundles under way, beyond what the
\* client has read or applied, and end in its own: every bundle is fresh.
Numbered ==
    /\ c.applied <= c.ack
    /\ \A i \in DOMAIN down :
          ~down[i].old /\ c.ack < down[i].stamp /\ down[i].stamp <= srv.spid
    /\ \A i, j \in DOMAIN down : i < j => down[i].stamp < down[j].stamp
    /\ IF down = <<>> THEN c.ack = srv.spid ELSE down[Len(down)].stamp = srv.spid

\* After the bootstrap one datagram at most is under way, in one direction; to
\* the server, it acknowledges the last answer.
OneUnderWay ==
    IF c.at \in {"boot", "drain"}
    THEN \A i \in DOMAIN up : up[i].subs = {"LOGIN"}
    ELSE /\ up = <<>> \/ (down = <<>> /\ Len(up) = 1)
         /\ down = <<>> \/ (up = <<>> /\ Len(down) = 1)
         /\ \A i \in DOMAIN up : "LOGIN" \notin up[i].subs /\ up[i].ack = srv.spid

\* A drain behind a request has read nothing since.
AwaitsAnswer == c.at \in {"gameok", "group"} => c.ack = c.sent

UnderWay(request) == \E i \in DOMAIN up : request \in up[i].subs
HeardOf(request) == request \in srv.got \/ UnderWay(request)

\* What the client has sent a session that lives is served or under way: GAMEOK
\* before the group list, ZONE_TRANSITION before or with a position.
SentIsHeard ==
    /\ ~srv.gone =>
        /\ c.at = "gameok" => HeardOf("GAMEOK")
        /\ c.at \notin {"boot", "drain", "gameok"} => "GAMEOK" \in srv.got
        /\ c.zt => HeardOf("ZT")
        /\ \A i \in DOMAIN up : "POS" \in up[i].subs => "ZT" \in up[i].subs \cup srv.got
    /\ "POS" \in srv.got => "ZT" \in srv.got
    /\ c.shown => c.at \notin {"boot"} \cup Draining

\* A zone-line request on its way, granted or answered, is the one pending.
LineKept ==
    used.warps = 0 =>
        /\ "LOGOUT" \notin srv.queue
        /\ \A i \in DOMAIN up : "MAPRECT" \in up[i].subs =>
              c.at = "loop" /\ up[i].line = c.maprect
        /\ \A i \in DOMAIN down : "LOGOUT" \in down[i].subs =>
              c.at = "loop" /\ srv.line = c.maprect
        /\ c.at = "zoned" => srv.gone /\ c.via = srv.line

Told(sub) == \E i \in DOMAIN down : sub \in down[i].subs

\* An event of the server waits to be told, is on its way, owes its END or has
\* it under way; a request an event would shadow is under way only when the
\* client owes none, or with the END.
EventTold ==
    /\ Told("LOGOUT") => srv.gone
    /\ srv.event /\ ~srv.gone =>
          "EVENT" \in srv.queue \/ Told("EVENT") \/ c.owed \/ UnderWay("END")
    /\ \A i \in DOMAIN up : up[i].subs \cap Shadowed # {} => ~c.owed \/ "END" \in up[i].subs

Parts == /\ Numbered /\ OneUnderWay /\ AwaitsAnswer
         /\ SentIsHeard /\ LineKept /\ EventTold
InStep == Clean => Parts

LEMMA Appended ==
    ASSUME NEW S, NEW q \in Seq(S), NEW x \in S
    PROVE  /\ Append(q, x) # <<>> /\ Append(q, x)[Len(Append(q, x))] = x
           /\ DOMAIN Append(q, x) = 1 .. Len(q) + 1 /\ Len(Append(q, x)) = Len(q) + 1
           /\ \A i \in DOMAIN Append(q, x) :
                \/ i = Len(q) + 1 /\ Append(q, x)[i] = x
                \/ i \in DOMAIN q /\ i <= Len(q) /\ Append(q, x)[i] = q[i]
           /\ \A i \in DOMAIN q : i \in DOMAIN Append(q, x) /\ Append(q, x)[i] = q[i]
           /\ Len(q) + 1 \in DOMAIN Append(q, x) /\ Append(q, x)[Len(q) + 1] = x
OBVIOUS

LEMMA AppendedToNone ==
    ASSUME NEW S, NEW q \in Seq(S), NEW x \in S, q = <<>>
    PROVE  Len(Append(q, x)) = 1 /\ Append(q, x) = <<x>>
OBVIOUS

LEMMA Taken ==
    ASSUME NEW S, NEW q \in Seq(S), q # <<>>
    PROVE  /\ Head(q) \in S /\ Tail(q) \in Seq(S) /\ Head(q) = q[1] /\ 1 \in DOMAIN q
           /\ Len(Tail(q)) = Len(q) - 1 /\ Len(q) \in Nat /\ Len(q) >= 1
           /\ \A i \in DOMAIN q : i \in Nat /\ 1 <= i /\ i <= Len(q)
           /\ \A i \in DOMAIN Tail(q) :
                i + 1 \in DOMAIN q /\ Tail(q)[i] = q[i + 1] /\ i \in Nat /\ i >= 1
           /\ Tail(q) # <<>> => Tail(q)[Len(Tail(q))] = q[Len(q)] /\ Len(q) > 1
           /\ Tail(q) = <<>> => q[Len(q)] = Head(q) /\ Len(q) = 1
<1>1. /\ Head(q) \in S /\ Tail(q) \in Seq(S) /\ Head(q) = q[1]
      /\ Len(Tail(q)) = Len(q) - 1 /\ Len(q) \in Nat /\ Len(q) >= 1
  OBVIOUS
<1>2. DOMAIN q = 1 .. Len(q) /\ DOMAIN Tail(q) = 1 .. Len(q) - 1
  OBVIOUS
<1>3. \A i \in 1 .. Len(q) - 1 : Tail(q)[i] = q[i + 1]
  OBVIOUS
<1>4. Tail(q) = <<>> => Len(q) = 1
  <2>1. ASSUME NEW t, t = <<>> PROVE Len(t) = 0
    BY <2>1
  <2>2. Tail(q) = <<>> => Len(Tail(q)) = 0
    BY <2>1, Zenon
  <2>3. PICK n : n = Len(Tail(q))
    OBVIOUS
  <2>4. n = Len(q) - 1 /\ Len(q) \in Nat
    BY <1>1, <2>3
  <2>5. n = 0 => Len(q) = 1
    BY <2>4
  <2> QED BY <2>2, <2>3, <2>5, Zenon
<1>5. Tail(q) # <<>> => Len(q) > 1
  BY <1>1
<1> QED BY <1>1, <1>2, <1>3, <1>4, <1>5

LEMMA TailOfOne ==
    ASSUME NEW S, NEW q \in Seq(S), Len(q) = 1
    PROVE  Tail(q) = <<>> /\ \A i \in DOMAIN Tail(q) : FALSE
<1>1. Tail(q) \in Seq(S) /\ Len(Tail(q)) = 0
  OBVIOUS
<1>2. Tail(q) = <<>>
  BY <1>1, EmptySeq
<1> QED BY <1>2

\* In a clean run what is sent is neither lost nor late.
LEMMA SpentClean ==
    ASSUME used \in Budget, NEW ok \in BOOLEAN, NEW inTime \in BOOLEAN, NEW n \in Nat,
           Spend(ok, inTime, n), Clean'
    PROVE  ok /\ inTime /\ Clean /\ used'.warps = used.warps
<1>1. /\ used' = [used EXCEPT !.lost = IF ok THEN used.lost ELSE used.lost + 1,
                              !.late = IF inTime THEN used.late ELSE used.late + 1,
                              !.asks = used.asks + n]
      /\ used.lost \in Nat /\ used.late \in Nat
  BY BoundsAssumption DEF Spend, Budget
<1>2. /\ used'.lost = IF ok THEN used.lost ELSE used.lost + 1
      /\ used'.late = IF inTime THEN used.late ELSE used.late + 1
      /\ used'.warps = used.warps
  BY <1>1 DEF Budget
<1> QED BY <1>1, <1>2 DEF Clean

\* Once every answer is read nothing is under way, and the last bundle read is
\* the server's last.
LEMMA AnsweredCurrent ==
    ASSUME TypeOK, Numbered, Answered
    PROVE  up = <<>> /\ down = <<>> /\ c.ack = srv.spid
<1>1. up = <<>> /\ \A i \in DOMAIN down : FALSE
  BY DEF TypeOK, Locals, Numbered, Answered
<1>2. down = <<>>
  BY <1>1 DEF TypeOK
<1> QED BY <1>1, <1>2 DEF Numbered

\* One datagram goes out alone.
LEMMA PutAlone ==
    ASSUME NEW subs \in SUBSET Requests, NEW ack \in Nat, NEW line \in Lines \cup {NoLine},
           up = <<>>, Put(subs, ack, line, TRUE)
    PROVE  /\ up' = <<>> \/ Len(up') = 1
           /\ \A i \in DOMAIN up' : i = 1 /\ up'[i] = Datagram(subs, ack, line)
           /\ subs # {} => 1 \in DOMAIN up'
BY DEF Put

\* A request is served or taken off the wire, and the session remembers it.
LEMMA RequestsFree ==
    \A d \in Locals : d.at \in Draining =>
        /\ Request(d) \in SUBSET Requests
        /\ Request(d) \cap {"LOGIN", "POS", "ZT", "MAPRECT"} = {}
        /\ d.at = "drain" => Request(d) = {"GAMEOK"}
        /\ Request(d) \cap Shadowed # {} => ~d.owed
BY DEF Request, Requests, Draining, Shadowed

LEMMA AfterFields ==
    \A d \in Locals : d.at \in Draining =>
        /\ After(d).at = CASE d.at = "drain" -> "gameok" [] d.at = "gameok" -> "group"
                           [] d.at = "group" -> "loop"
        /\ After(d).sent = d.ack /\ After(d).ack = d.ack
        /\ After(d).zt = d.zt /\ After(d).maprect = d.maprect /\ After(d).via = d.via
        /\ d.at # "group" => After(d).shown = d.shown
        /\ After(d).applied = d.applied /\ After(d).owed = d.owed
BY DEF After, Locals, Draining

\* A drain ends with nothing under way and every event so far learned: the next
\* request goes out alone.
LEMMA ProceedInStep ==
    ASSUME Inv, Parts, Clean', NEW d \in Locals, NEW inTime \in BOOLEAN,
           d.at = c.at, c.at \in Draining, d.zt = c.zt, d.shown = c.shown,
           d.applied <= d.ack, d.ack = srv.spid, up = <<>>, down' = <<>>,
           srv.event /\ ~srv.gone => "EVENT" \in srv.queue \/ d.owed,
           Proceed(d, inTime)
    PROVE  Parts'
<1>1. PICK ok \in BOOLEAN :
        /\ Spend(ok, inTime, 0) /\ Put(Request(d), d.ack, NoLine, ok)
        /\ c' = IF ok THEN After(d) ELSE [d EXCEPT !.at = "failed"]
        /\ UNCHANGED srv
  BY Zenon DEF Proceed
<1>2. ok /\ used'.warps = used.warps
  BY <1>1, SpentClean, 0 \in Nat, Zenon DEF Inv, TypeOK
<1>3. /\ c' = After(d) /\ c'.sent = d.ack /\ c'.ack = d.ack /\ c'.zt = c.zt
      /\ c'.at = CASE c.at = "drain" -> "gameok" [] c.at = "gameok" -> "group"
                   [] c.at = "group" -> "loop"
      /\ c.at # "group" => c'.shown = c.shown
      /\ c'.applied = d.applied /\ c'.owed = d.owed
  BY <1>1, <1>2, AfterFields
<1>4. c'.at \in {"gameok", "group", "loop"} /\ (c'.at = "gameok" <=> c.at = "drain")
  BY <1>3 DEF Draining
<1>5. d.ack \in Nat /\ NoLine \in Lines \cup {NoLine} /\ Put(Request(d), d.ack, NoLine, TRUE)
  BY <1>1, <1>2 DEF Locals
<1>6. /\ up' = <<>> \/ Len(up') = 1
      /\ \A i \in DOMAIN up' : i = 1 /\ up'[i] = Datagram(Request(d), d.ack, NoLine)
      /\ Request(d) # {} => 1 \in DOMAIN up'
  BY <1>5, PutAlone, RequestsFree, Zenon
<1>7. \A i \in DOMAIN up' :
        /\ up'[i].subs = Request(d) /\ up'[i].ack = srv.spid
        /\ up'[i].subs \cap {"LOGIN", "POS", "ZT", "MAPRECT"} = {}
        /\ up'[i].subs \cap Shadowed # {} => ~d.owed
  BY <1>6, RequestsFree DEF Datagram
<1>8. \A i \in DOMAIN down' : FALSE
  OBVIOUS
<1>9. Numbered' /\ AwaitsAnswer'
  BY <1>1, <1>3, <1>8 DEF Numbered, AwaitsAnswer
<1>10. OneUnderWay'
  BY <1>1, <1>4, <1>6, <1>7 DEF OneUnderWay
<1>11. \A r \in Requests : HeardOf(r) => r \in srv.got
  BY DEF HeardOf, UnderWay
<1>12. c.at = "drain" => HeardOf("GAMEOK")'
  <2>1. c.at = "drain" => Request(d) = {"GAMEOK"}
    BY RequestsFree
  <2> QED BY <1>6, <1>7, <2>1 DEF HeardOf, UnderWay
<1>13. SentIsHeard'
  <2>1. ~c.shown
    BY DEF Parts, SentIsHeard
  <2>2. c'.shown => c'.at = "loop"
    BY <1>3, <2>1 DEF Draining
  <2>3. ~srv.gone /\ c'.at # "gameok" => "GAMEOK" \in srv.got
    BY <1>3, <1>4, <1>11 DEF Parts, SentIsHeard, Draining, Requests
  <2>4. ~srv.gone /\ c'.zt => "ZT" \in srv.got
    BY <1>3, <1>11 DEF Parts, SentIsHeard, Requests
  <2> QED BY <1>1, <1>4, <1>7, <1>12, <2>2, <2>3, <2>4
          DEF Parts, SentIsHeard, HeardOf, Draining
<1>14. LineKept'
  BY <1>1, <1>2, <1>4, <1>7, <1>8 DEF Parts, LineKept, Draining
<1>15. EventTold'
  BY <1>1, <1>3, <1>7, <1>8 DEF EventTold, Told
<1> QED BY <1>9, <1>10, <1>13, <1>14, <1>15 DEF Parts

-----------------------------------------------------------------------------
(* The steps of a clean run, action by action.                               *)

LEMMA AgainInStep ==
    ASSUME Inv, Parts, Again
    PROVE  Parts'
<1>1. /\ c.at = "boot" /\ c'.at = "drain" /\ c'.ack = c.ack /\ c'.zt = c.zt
      /\ c'.shown = c.shown /\ c'.maprect = c.maprect /\ c'.applied = c.applied
      /\ c'.owed = c.owed
      /\ up' = Append(up, Datagram({"LOGIN"}, 0, NoLine)) /\ UNCHANGED <<srv, down, used>>
  BY DEF Again, Put, Inv, TypeOK, Locals
<1>2. \A i \in DOMAIN up' : up'[i].subs = {"LOGIN"}
  <2>1. up \in Seq(Datagrams) /\ Datagram({"LOGIN"}, 0, NoLine) \in Datagrams
    BY DEF Inv, TypeOK, Datagram, Datagrams, Requests
  <2>2. \A i \in DOMAIN up : up[i].subs = {"LOGIN"}
    BY <1>1 DEF Parts, OneUnderWay
  <2>3. Datagram({"LOGIN"}, 0, NoLine).subs = {"LOGIN"}
    BY DEF Datagram
  <2> QED BY <1>1, <2>1, <2>2, <2>3, Appended
<1>3. \A i \in DOMAIN up : up[i].subs = {"LOGIN"}
  BY <1>1 DEF Parts, OneUnderWay
<1>4. Numbered' /\ OneUnderWay' /\ AwaitsAnswer'
  BY <1>1, <1>2 DEF Parts, Numbered, OneUnderWay, AwaitsAnswer
<1>5. SentIsHeard'
  BY <1>1, <1>2, <1>3 DEF Parts, SentIsHeard, HeardOf, UnderWay, Draining
<1>6. LineKept'
  BY <1>1, <1>2 DEF Parts, LineKept
<1>7. EventTold'
  BY <1>1, <1>2, <1>3 DEF Parts, EventTold, Told, UnderWay, Shadowed
<1> QED BY <1>4, <1>5, <1>6, <1>7 DEF Parts

\* The bundle in front is fresh, and what is behind it is numbered after it.
LEMMA ReadInStep ==
    ASSUME Inv, Numbered, down # <<>>
    PROVE  /\ ~Head(down).old /\ IsFresh(Head(down))
           /\ Head(down).stamp \in Nat
           /\ c.ack < Head(down).stamp /\ c.applied <= Head(down).stamp
           /\ \E i \in DOMAIN down : Head(down) = down[i]
           /\ \A i \in DOMAIN Tail(down) :
                /\ ~Tail(down)[i].old /\ Tail(down)[i].stamp <= srv.spid
                /\ Head(down).stamp < Tail(down)[i].stamp
                /\ \E j \in DOMAIN down : Tail(down)[i] = down[j]
           /\ \A i, j \in DOMAIN Tail(down) :
                i < j => Tail(down)[i].stamp < Tail(down)[j].stamp
           /\ IF Tail(down) = <<>> THEN Head(down).stamp = srv.spid
                                   ELSE Tail(down)[Len(Tail(down))].stamp = srv.spid
           /\ \A i \in DOMAIN down :
                down[i] = Head(down) \/ \E j \in DOMAIN Tail(down) : Tail(down)[j] = down[i]
<1>1. down \in Seq(Bundles)
  BY DEF Inv, TypeOK
<1>2. /\ Head(down) \in Bundles /\ Tail(down) \in Seq(Bundles)
      /\ Head(down) = down[1] /\ 1 \in DOMAIN down
      /\ Len(Tail(down)) = Len(down) - 1 /\ Len(down) \in Nat /\ Len(down) >= 1
      /\ \A i \in DOMAIN Tail(down) :
            i + 1 \in DOMAIN down /\ Tail(down)[i] = down[i + 1] /\ i \in Nat /\ i >= 1
      /\ Tail(down) # <<>> => Tail(down)[Len(Tail(down))] = down[Len(down)]
      /\ Tail(down) = <<>> => down[Len(down)] = Head(down)
  BY <1>1, Taken
<1>3. /\ c.applied <= c.ack
      /\ \A i \in DOMAIN down :
            ~down[i].old /\ c.ack < down[i].stamp /\ down[i].stamp <= srv.spid
      /\ \A i, j \in DOMAIN down : i < j => down[i].stamp < down[j].stamp
      /\ down[Len(down)].stamp = srv.spid
  BY DEF Numbered
<1>4. \A i \in DOMAIN Tail(down) :
        /\ ~Tail(down)[i].old /\ Tail(down)[i].stamp <= srv.spid
        /\ Head(down).stamp < Tail(down)[i].stamp
        /\ \E j \in DOMAIN down : Tail(down)[i] = down[j]
  BY <1>2, <1>3
<1>5. \A i, j \in DOMAIN Tail(down) :
        i < j => Tail(down)[i].stamp < Tail(down)[j].stamp
  BY <1>2, <1>3
<1>6. Head(down).stamp \in Nat /\ c.ack \in Nat /\ c.applied \in Int
  BY <1>2 DEF Bundles, Inv, TypeOK, Locals, NoStamp
<1>7. c.ack < Head(down).stamp /\ c.applied < Head(down).stamp
  BY <1>2, <1>3, <1>6
<1>8. \A i \in DOMAIN down :
        down[i] = Head(down) \/ \E j \in DOMAIN Tail(down) : Tail(down)[j] = down[i]
  <2>1. ASSUME NEW i \in DOMAIN down, i # 1
        PROVE  i - 1 \in DOMAIN Tail(down) /\ Tail(down)[i - 1] = down[i]
    BY <1>1, <1>2, <2>1
  <2> QED BY <1>2, <2>1
<1>9. IF Tail(down) = <<>> THEN Head(down).stamp = srv.spid
                           ELSE Tail(down)[Len(Tail(down))].stamp = srv.spid
  BY <1>2, <1>3
<1>10. /\ ~Head(down).old /\ IsFresh(Head(down)) /\ c.applied <= Head(down).stamp
       /\ \E i \in DOMAIN down : Head(down) = down[i]
  BY <1>2, <1>3, <1>6, <1>7 DEF IsFresh
<1> QED BY <1>4, <1>5, <1>6, <1>7, <1>8, <1>9, <1>10

LEMMA ApplyFields ==
    ASSUME c \in Locals, NEW b
    PROVE  /\ Apply(b).at = c.at /\ Apply(b).ack = b.stamp /\ Apply(b).sent = c.sent
           /\ Apply(b).zt = c.zt /\ Apply(b).shown = c.shown /\ Apply(b).applied = c.applied
           /\ Apply(b).maprect = c.maprect /\ Apply(b).via = c.via
           /\ Apply(b).owed = (c.owed \/ "EVENT" \in b.subs)
<1>1. PICK o \in BOOLEAN : o = (c.owed \/ "EVENT" \in b.subs)
  OBVIOUS
<1>2. PICK x \in BOOLEAN, y \in BOOLEAN :
        x = (c.seeded \/ "SEED" \in b.subs) /\ y = (c.enter \/ "ENTERZONE" \in b.subs)
  OBVIOUS
<1>3. Apply(b) = [c EXCEPT !.ack = b.stamp, !.seeded = x, !.enter = y, !.owed = o]
  BY <1>1, <1>2, Zenon DEF Apply
<1>4. /\ Apply(b).at = c.at /\ Apply(b).ack = b.stamp /\ Apply(b).sent = c.sent
      /\ Apply(b).zt = c.zt /\ Apply(b).shown = c.shown /\ Apply(b).applied = c.applied
      /\ Apply(b).maprect = c.maprect /\ Apply(b).via = c.via /\ Apply(b).owed = o
  BY <1>3 DEF Locals
<1> QED BY <1>1, <1>4, Zenon

LEMMA DrainReceiveInStep ==
    ASSUME Inv, Parts, Clean', DrainReceive
    PROVE  Parts'
<1> DEFINE d == Apply(Head(down))
<1>1. c.at \in Draining /\ down # <<>> /\ down' = Tail(down)
  BY DEF DrainReceive
<1>2. /\ ~Head(down).old /\ IsFresh(Head(down)) /\ Head(down).stamp \in Nat
      /\ c.ack < Head(down).stamp /\ c.applied <= Head(down).stamp
      /\ \A i \in DOMAIN Tail(down) :
           /\ ~Tail(down)[i].old /\ Tail(down)[i].stamp <= srv.spid
           /\ Head(down).stamp < Tail(down)[i].stamp
           /\ \E j \in DOMAIN down : Tail(down)[i] = down[j]
      /\ \A i, j \in DOMAIN Tail(down) :
           i < j => Tail(down)[i].stamp < Tail(down)[j].stamp
      /\ IF Tail(down) = <<>> THEN Head(down).stamp = srv.spid
                              ELSE Tail(down)[Len(Tail(down))].stamp = srv.spid
      /\ \A i \in DOMAIN down :
           down[i] = Head(down) \/ \E j \in DOMAIN Tail(down) : Tail(down)[j] = down[i]
  BY <1>1, ReadInStep DEF Parts
<1>3. /\ d.at = c.at /\ d.ack = Head(down).stamp /\ d.sent = c.sent /\ d.zt = c.zt
      /\ d.shown = c.shown /\ d.maprect = c.maprect /\ d.via = c.via /\ d \in Locals
      /\ d.applied = c.applied /\ d.owed = (c.owed \/ "EVENT" \in Head(down).subs)
  <2>1. Head(down) \in BundlesGiven(Accepted)
    BY <1>1, QueueTyped, Zenon DEF Inv
  <2> QED BY <2>1, ApplyFields, ApplyTyped, Zenon DEF Inv, TypeOK
<1>4. /\ Told("LOGOUT") => srv.gone
      /\ srv.event /\ ~srv.gone =>
            \/ "EVENT" \in srv.queue \/ d.owed \/ UnderWay("END")
            \/ \E j \in DOMAIN Tail(down) : "EVENT" \in Tail(down)[j].subs
  BY <1>2, <1>3 DEF Parts, EventTold, Told
<1> HIDE DEF d
<1>5. CASE ~Satisfied(d)
  <2>1. c' = d /\ UNCHANGED <<srv, up, used>>
    BY <1>2, <1>5 DEF DrainReceive, d
  <2>2. c.at = "drain"
    <3>1. (c.ack = c.sent /\ c.ack # Head(down).stamp) \/ c.at = "drain"
      BY <1>1, <1>2 DEF Parts, AwaitsAnswer, Draining, Inv, TypeOK, Locals
    <3> QED BY <1>3, <1>5, <3>1 DEF Satisfied
  <2>3. Numbered'
    BY <1>1, <1>2, <1>3, <2>1 DEF Numbered
  <2>4. OneUnderWay' /\ SentIsHeard' /\ AwaitsAnswer'
    BY <1>3, <2>1, <2>2 DEF Parts, OneUnderWay, SentIsHeard, HeardOf, UnderWay, AwaitsAnswer
  <2>5. LineKept'
    BY <1>1, <1>2, <1>3, <2>1, <2>2 DEF Parts, LineKept
  <2>6. EventTold'
    <3>1. \A i \in DOMAIN up' : up'[i].subs \cap Shadowed = {}
      BY <2>1, <2>2 DEF Parts, OneUnderWay, Shadowed
    <3>2. Told("LOGOUT")' => Told("LOGOUT")
      BY <1>1, <1>2 DEF Told
    <3> QED BY <1>1, <1>4, <2>1, <3>1, <3>2 DEF EventTold, Told, UnderWay
  <2> QED BY <2>3, <2>4, <2>5, <2>6 DEF Parts
<1>6. CASE Satisfied(d)
  <2>1. Proceed(d, TRUE)
    BY <1>2, <1>6 DEF DrainReceive, d
  <2>2. c.at \in {"gameok", "group"}
    BY <1>1, <1>3, <1>6 DEF Satisfied, Draining
  <2>3. up = <<>> /\ Len(down) = 1
    BY <1>1, <2>2 DEF Parts, OneUnderWay
  <2>4. Tail(down) = <<>> /\ \A j \in DOMAIN Tail(down) : FALSE
    BY <1>1, <2>3, TailOfOne, Zenon DEF Inv, TypeOK
  <2>5. Head(down).stamp = srv.spid
    BY <1>2, <2>4
  <2>6. d.ack = srv.spid /\ d.applied <= d.ack /\ down' = <<>>
    BY <1>1, <1>2, <1>3, <2>4, <2>5
  <2>7. srv.event /\ ~srv.gone => "EVENT" \in srv.queue \/ d.owed
    BY <1>4, <2>3, <2>4 DEF UnderWay
  <2> QED BY <1>1, <1>3, <2>1, <2>3, <2>6, <2>7, ProceedInStep, TRUE \in BOOLEAN, Zenon
<1> QED BY <1>5, <1>6

LEMMA DrainTimeoutInStep ==
    ASSUME Inv, Parts, Clean', DrainIdle \/ DrainCap
    PROVE  Parts'
<1>1. PICK d \in Locals :
        /\ d.at = c.at /\ d.ack = c.ack /\ d.zt = c.zt /\ d.shown = c.shown
        /\ d.applied = c.applied /\ d.owed = c.owed
        /\ Proceed(d, up = <<>> /\ down = <<>>)
  <2>1. c \in Locals
    BY DEF Inv, TypeOK
  <2>2. /\ [c EXCEPT !.capped = TRUE] \in Locals /\ [c EXCEPT !.capped = TRUE].at = c.at
        /\ [c EXCEPT !.capped = TRUE].ack = c.ack /\ [c EXCEPT !.capped = TRUE].zt = c.zt
        /\ [c EXCEPT !.capped = TRUE].shown = c.shown
        /\ [c EXCEPT !.capped = TRUE].applied = c.applied
        /\ [c EXCEPT !.capped = TRUE].owed = c.owed
    BY <2>1 DEF Locals
  <2> QED BY <2>1, <2>2, Zenon DEF DrainIdle, DrainCap
<1>2. c.at \in Draining /\ down' = down
  BY DEF DrainIdle, DrainCap
<1>3. (up = <<>> /\ down = <<>>) \in BOOLEAN
  OBVIOUS
<1>4. up = <<>> /\ down = <<>>
  <2>1. PICK ok \in BOOLEAN : Spend(ok, up = <<>> /\ down = <<>>, 0)
    BY <1>1, Zenon DEF Proceed
  <2> QED BY <1>3, <2>1, SpentClean, 0 \in Nat, Zenon DEF Inv, TypeOK
<1>5. d.ack = srv.spid /\ d.applied <= d.ack
  BY <1>1, <1>4 DEF Parts, Numbered
<1>6. srv.event /\ ~srv.gone => "EVENT" \in srv.queue \/ d.owed
  BY <1>1, <1>4 DEF Parts, EventTold, Told, UnderWay
<1> QED BY <1>1, <1>2, <1>3, <1>4, <1>5, <1>6, ProceedInStep, Zenon

LEMMA TickFields ==
    ASSUME c \in Locals
    PROVE  \A z, r, o, g, n, l :
             LET d == [c EXCEPT !.zt = z, !.resrdy = r, !.owed = o, !.deferred = g,
                                !.pos = n, !.maprect = l]
             IN /\ d.at = c.at /\ d.ack = c.ack /\ d.sent = c.sent /\ d.shown = c.shown
                /\ d.via = c.via /\ d.zt = z /\ d.maprect = l /\ d.owed = o
                /\ d.applied = c.applied
BY DEF Locals

\* A tick sends nothing, or one datagram of the loop's requests after every
\* answer has been read.
LEMMA TickInStep ==
    ASSUME Inv, Parts, Clean', Tick
    PROVE  Parts'
<1>1. PICK expire \in BOOLEAN, flush \in BOOLEAN, ok \in BOOLEAN : TickWith(expire, flush, ok)
  BY Zenon DEF Tick
<1> DEFINE zt == Transitions(c)
           resrdy == (c.zt \/ zt) /\ c.seeded /\ ~c.resrdy /\ ~c.owed
           owed == c.owed /\ ~flush
           group == c.deferred /\ ~owed
           pos == Includes(c) /\ c.pos < MaxPos
           subs == Sent(zt, "ZT") \cup Sent(resrdy, "RESRDY") \cup Sent(flush, "END")
                     \cup Sent(group, "GROUP") \cup Sent(pos, "POS")
           late == Answered \/ (subs = {} /\ ~expire)
<1>2. c.at = "loop" /\ UNCHANGED <<srv, down>>
  BY <1>1 DEF TickWith
<1>3. Put(subs, c.ack, NoLine, ok) /\ Spend(ok, late, 0)
  BY <1>1 DEF TickWith
<1>4. /\ subs \in SUBSET Requests /\ subs \cap {"LOGIN", "GAMEOK", "MAPRECT"} = {}
      /\ ("ZT" \in subs <=> zt) /\ ("POS" \in subs => zt \/ c.zt)
      /\ ("END" \in subs <=> flush) /\ (flush => ~owed) /\ (~flush => (owed <=> c.owed))
      /\ subs \cap Shadowed # {} => ~owed
  BY DEF Shadowed, Sent, Requests, Transitions, Includes, Inv, TypeOK, Locals
<1>5. /\ c'.at = c.at /\ c'.ack = c.ack /\ c'.sent = c.sent /\ c'.shown = c.shown
      /\ c'.via = c.via /\ c'.zt = (c.zt \/ zt) /\ c'.applied = c.applied /\ c'.owed = owed
      /\ c'.maprect = IF expire THEN NoLine ELSE c.maprect
  <2>1. c' = [c EXCEPT !.zt = c.zt \/ zt, !.resrdy = c.resrdy \/ resrdy, !.owed = owed,
                       !.deferred = c.deferred /\ ~group,
                       !.pos = IF pos THEN c.pos + 1 ELSE c.pos,
                       !.maprect = IF expire THEN NoLine ELSE c.maprect]
    BY <1>1 DEF TickWith
  <2> HIDE DEF zt, resrdy, owed, group, pos
  <2>2. c \in Locals
    BY DEF Inv, TypeOK
  <2>3. PICK z, r, o, g, n, l :
          /\ z = (c.zt \/ zt) /\ r = (c.resrdy \/ resrdy) /\ o = owed
          /\ g = (c.deferred /\ ~group) /\ n = (IF pos THEN c.pos + 1 ELSE c.pos)
          /\ l = IF expire THEN NoLine ELSE c.maprect
    OBVIOUS
  <2>4. c' = [c EXCEPT !.zt = z, !.resrdy = r, !.owed = o, !.deferred = g,
                       !.pos = n, !.maprect = l]
    BY ONLY <2>1, <2>3, Zenon
  <2>5. /\ c'.at = c.at /\ c'.ack = c.ack /\ c'.sent = c.sent /\ c'.shown = c.shown
        /\ c'.via = c.via /\ c'.zt = z /\ c'.maprect = l /\ c'.applied = c.applied
        /\ c'.owed = o
    BY ONLY <2>2, <2>4, TickFields
  <2> QED BY ONLY <2>3, <2>5, Zenon
<1>6. late \in BOOLEAN
  BY DEF Answered
<1> HIDE DEF zt, resrdy, owed, group, pos, subs, late
<1>7. ok /\ late /\ used'.warps = used.warps
  BY <1>3, <1>6, SpentClean, 0 \in Nat, Zenon DEF Inv, TypeOK
<1>8. CASE subs = {} /\ ~expire
  <2>1. up' = up /\ ~zt /\ (owed <=> c.owed)
    BY <1>3, <1>4, <1>8 DEF Put
  <2>2. c'.zt = c.zt /\ c'.maprect = c.maprect
    BY <1>5, <1>8, <2>1 DEF Inv, TypeOK, Locals
  <2>3. Numbered' /\ OneUnderWay' /\ AwaitsAnswer' /\ SentIsHeard' /\ LineKept'
    BY <1>2, <1>5, <1>7, <2>1, <2>2
       DEF Parts, Numbered, OneUnderWay, AwaitsAnswer, SentIsHeard, HeardOf, UnderWay, LineKept
  <2>4. EventTold'
    BY <1>2, <1>5, <2>1 DEF Parts, EventTold, Told, UnderWay
  <2> QED BY <2>3, <2>4 DEF Parts
<1>9. CASE Answered
  <2>1. up = <<>> /\ down = <<>> /\ c.ack = srv.spid
    BY <1>9, AnsweredCurrent DEF Parts, Inv
  <2>2. c.ack \in Nat /\ NoLine \in Lines \cup {NoLine} /\ Put(subs, c.ack, NoLine, TRUE)
    BY <1>3, <1>7 DEF Inv, TypeOK, Locals
  <2>3. /\ up' = <<>> \/ Len(up') = 1
        /\ \A i \in DOMAIN up' : i = 1 /\ up'[i] = Datagram(subs, c.ack, NoLine)
        /\ subs # {} => 1 \in DOMAIN up'
    BY <1>4, <2>1, <2>2, PutAlone
  <2>4. /\ \A i \in DOMAIN up' : up'[i].subs = subs /\ up'[i].ack = srv.spid
        /\ \A i \in DOMAIN down' : FALSE
    BY <1>2, <2>1, <2>3 DEF Datagram
  <2>5. Numbered' /\ AwaitsAnswer'
    BY <1>2, <1>5, <2>4 DEF Parts, Numbered, AwaitsAnswer
  <2>6. OneUnderWay'
    BY <1>2, <1>4, <1>5, <2>1, <2>3, <2>4 DEF OneUnderWay
  <2>7. SentIsHeard'
    <3>1. ~srv.gone => "GAMEOK" \in srv.got
      BY <1>2 DEF Parts, SentIsHeard, Draining
    <3>2. ~srv.gone /\ c.zt => "ZT" \in srv.got
      BY <2>1 DEF Parts, SentIsHeard, HeardOf, UnderWay
    <3>3. zt => \E i \in DOMAIN up' : "ZT" \in up'[i].subs
      BY <1>4, <2>3, <2>4
    <3>4. ~srv.gone /\ c'.zt => "ZT" \in srv.got \/ \E i \in DOMAIN up' : "ZT" \in up'[i].subs
      BY <1>5, <3>2, <3>3
    <3>5. ~srv.gone => \A i \in DOMAIN up' : "POS" \in up'[i].subs => "ZT" \in up'[i].subs \cup srv.got
      BY <1>4, <2>4, <3>2
    <3> QED BY <1>2, <1>5, <3>1, <3>4, <3>5 DEF Parts, SentIsHeard, HeardOf, UnderWay, Draining
  <2>8. LineKept'
    BY <1>2, <1>4, <1>5, <1>7, <2>4 DEF Parts, LineKept
  <2>9. EventTold'
    <3>1. srv.event /\ ~srv.gone => "EVENT" \in srv.queue \/ c.owed
      BY <2>1 DEF Parts, EventTold, Told, UnderWay
    <3>2. flush => UnderWay("END")'
      BY <1>4, <2>3, <2>4 DEF UnderWay
    <3>3. \A i \in DOMAIN up' : up'[i].subs \cap Shadowed # {} => ~c'.owed
      BY <1>4, <1>5, <2>4
    <3>4. srv.event /\ ~srv.gone => "EVENT" \in srv.queue \/ c'.owed \/ UnderWay("END")'
      BY <1>4, <1>5, <3>1, <3>2, Zenon
    <3> QED BY <1>2, <2>4, <3>3, <3>4 DEF EventTold, Told
  <2> QED BY <2>5, <2>6, <2>7, <2>8, <2>9 DEF Parts
<1> QED BY <1>7, <1>8, <1>9 DEF late

LEMMA ReceiveInStep ==
    ASSUME Inv, Parts, Receive
    PROVE  Parts'
<1> DEFINE b == Head(down)
<1>1. /\ c.at = "loop" /\ down # <<>> /\ down' = Tail(down) /\ c' = Heed(b)
      /\ UNCHANGED <<srv, up, used>> /\ down \in Seq(Bundles) /\ c \in Locals
  BY DEF Receive, Inv, TypeOK
<1>2. /\ ~b.old /\ IsFresh(b) /\ b.stamp \in Nat /\ \E i \in DOMAIN down : b = down[i]
      /\ IF Tail(down) = <<>> THEN b.stamp = srv.spid
                              ELSE Tail(down)[Len(Tail(down))].stamp = srv.spid
      /\ \A i \in DOMAIN down :
           down[i] = b \/ \E j \in DOMAIN Tail(down) : Tail(down)[j] = down[i]
  BY <1>1, ReadInStep DEF Parts
<1> HIDE DEF b
<1>3. up = <<>> /\ Len(down) = 1
  BY <1>1 DEF Parts, OneUnderWay
<1>4. /\ down' = <<>> /\ up' = <<>> /\ b.stamp = srv.spid
      /\ (\A i \in DOMAIN down' : FALSE) /\ (\A i \in DOMAIN up' : FALSE)
  <2>1. Tail(down) = <<>> /\ \A i \in DOMAIN Tail(down) : FALSE
    BY <1>1, <1>3, TailOfOne, Zenon
  <2> QED BY <1>1, <1>2, <1>3, <2>1
<1>5. Told("LOGOUT") <=> "LOGOUT" \in b.subs
  BY <1>1, <1>2, <1>4 DEF Told
<1>6. Told("EVENT") <=> "EVENT" \in b.subs
  BY <1>1, <1>2, <1>4 DEF Told
<1>7. CASE "LOGOUT" \in b.subs
  <2>1. c' = [LogoutBy(b) EXCEPT !.applied = b.stamp]
    BY <1>1, <1>2, <1>7 DEF Heed
  <2>2. /\ c'.at = "zoned" /\ c'.ack = b.stamp /\ c'.applied = b.stamp /\ c'.via = c.maprect
        /\ c'.zt = c.zt /\ c'.shown = c.shown
    BY <1>1, <2>1 DEF LogoutBy, Locals
  <2>3. srv.gone
    BY <1>5, <1>7 DEF Parts, EventTold
  <2>4. Numbered' /\ OneUnderWay' /\ AwaitsAnswer'
    BY <1>1, <1>2, <1>4, <2>2 DEF Numbered, OneUnderWay, AwaitsAnswer
  <2>5. SentIsHeard' /\ EventTold'
    BY <1>1, <1>4, <2>2, <2>3 DEF Parts, SentIsHeard, EventTold, Told, Draining
  <2>6. LineKept'
    <3>1. used.warps = 0 => "LOGOUT" \notin srv.queue /\ srv.line = c.maprect
      BY <1>2, <1>7 DEF Parts, LineKept
    <3> QED BY <1>1, <1>4, <2>2, <2>3, <3>1 DEF LineKept
  <2> QED BY <2>4, <2>5, <2>6 DEF Parts
<1>8. CASE "LOGOUT" \notin b.subs
  <2>1. c' = [Apply(b) EXCEPT !.applied = b.stamp]
    BY <1>1, <1>2, <1>8 DEF Heed
  <2>2. Apply(b) \in Locals
    <3>1. b \in BundlesGiven(Accepted)
      BY <1>1, QueueTyped, Zenon DEF Inv, b
    <3> QED BY <3>1, ApplyTyped, Zenon
  <2>3. /\ c'.at = Apply(b).at /\ c'.ack = Apply(b).ack /\ c'.sent = Apply(b).sent
        /\ c'.zt = Apply(b).zt /\ c'.shown = Apply(b).shown /\ c'.applied = b.stamp
        /\ c'.maprect = Apply(b).maprect /\ c'.via = Apply(b).via /\ c'.owed = Apply(b).owed
    BY <2>1, <2>2 DEF Locals
  <2>4. /\ c'.at = "loop" /\ c'.ack = b.stamp /\ c'.sent = c.sent /\ c'.zt = c.zt
        /\ c'.shown = c.shown /\ c'.applied = b.stamp /\ c'.maprect = c.maprect
        /\ c'.via = c.via /\ c'.owed = (c.owed \/ "EVENT" \in b.subs)
    BY <1>1, <2>3, ApplyFields, Zenon
  <2>5. Numbered' /\ OneUnderWay' /\ AwaitsAnswer'
    BY <1>1, <1>2, <1>4, <2>4 DEF Numbered, OneUnderWay, AwaitsAnswer
  <2>6. SentIsHeard'
    BY <1>1, <1>3, <1>4, <2>4 DEF Parts, SentIsHeard, HeardOf, UnderWay
  <2>7. LineKept'
    BY <1>1, <1>4, <2>4 DEF Parts, LineKept
  <2>8. EventTold'
    <3>1. srv.event /\ ~srv.gone => "EVENT" \in srv.queue \/ c'.owed
      <4>1. ~UnderWay("END")
        BY <1>3 DEF UnderWay
      <4>2. srv.event /\ ~srv.gone =>
              "EVENT" \in srv.queue \/ Told("EVENT") \/ c.owed \/ UnderWay("END")
        BY Zenon DEF Parts, EventTold
      <4> QED BY <1>6, <2>4, <4>1, <4>2, Zenon
    <3> QED BY <1>1, <1>4, <3>1 DEF EventTold, Told
  <2> QED BY <2>5, <2>6, <2>7, <2>8 DEF Parts
<1> QED BY <1>7, <1>8

LEMMA AskInStep ==
    ASSUME Inv, Parts, Clean', Ask
    PROVE  Parts'
<1>1. PICK line \in Lines, ok \in BOOLEAN :
        /\ c.at = "loop"
        /\ c' = IF ok THEN [c EXCEPT !.maprect = line] ELSE c
        /\ Put({"MAPRECT"}, c.ack, line, ok)
        /\ Spend(ok, Answered, 1)
        /\ UNCHANGED <<srv, down>>
  BY Zenon DEF Ask
<1>2. ok /\ Answered /\ used'.warps = used.warps
  <2>1. Answered \in BOOLEAN
    BY DEF Answered
  <2> QED BY <1>1, <2>1, SpentClean, 1 \in Nat, Zenon DEF Inv, TypeOK
<1>3. up = <<>> /\ down = <<>> /\ c.ack = srv.spid
  BY <1>2, AnsweredCurrent DEF Parts, Inv
<1>4. /\ c'.at = "loop" /\ c'.ack = c.ack /\ c'.zt = c.zt /\ c'.shown = c.shown
      /\ c'.applied = c.applied /\ c'.owed = c.owed /\ c'.maprect = line
  BY <1>1, <1>2 DEF Inv, TypeOK, Locals
<1>5. /\ up' = <<>> \/ Len(up') = 1
      /\ \A i \in DOMAIN up' : i = 1 /\ up'[i] = Datagram({"MAPRECT"}, c.ack, line)
  <2>1. /\ {"MAPRECT"} \in SUBSET Requests /\ c.ack \in Nat /\ line \in Lines \cup {NoLine}
        /\ Put({"MAPRECT"}, c.ack, line, TRUE)
    BY <1>1, <1>2 DEF Inv, TypeOK, Locals, Requests
  <2> QED BY <1>3, <2>1, PutAlone
<1>6. /\ \A i \in DOMAIN up' :
            up'[i].subs = {"MAPRECT"} /\ up'[i].ack = srv.spid /\ up'[i].line = line
      /\ \A i \in DOMAIN down' : FALSE
  BY <1>1, <1>3, <1>5 DEF Datagram
<1>7. Numbered' /\ OneUnderWay' /\ AwaitsAnswer'
  BY <1>1, <1>3, <1>4, <1>5, <1>6 DEF Parts, Numbered, OneUnderWay, AwaitsAnswer
<1>8. SentIsHeard'
  BY <1>1, <1>3, <1>4, <1>6 DEF Parts, SentIsHeard, HeardOf, UnderWay, Draining
<1>9. LineKept'
  BY <1>1, <1>2, <1>4, <1>6 DEF Parts, LineKept
<1>10. EventTold'
  <2>1. srv.event /\ ~srv.gone => "EVENT" \in srv.queue \/ c.owed
    BY <1>3 DEF Parts, EventTold, Told, UnderWay
  <2> QED BY <1>1, <1>4, <1>6, <2>1 DEF EventTold, Told, Shadowed
<1> QED BY <1>7, <1>8, <1>9, <1>10 DEF Parts

\* The server takes what is in front of it: its number grows by one, and the
\* only datagram under way after the bootstrap is gone.
LEMMA ServerTakeInStep ==
    ASSUME Inv, Parts, ServerTake
    PROVE  Parts'
<1> DEFINE d == Head(up)
           subs == Handled(d)
           bundle == Answer(subs) \cup srv.queue
           b == Bundle(srv.spid + 1, bundle)
<1>1. /\ up # <<>> /\ up' = Tail(up) /\ ~srv.gone
      /\ "LOGIN" \in d.subs \/ d.ack = srv.spid
      /\ srv' = [srv EXCEPT !.spid = srv.spid + 1, !.got = srv.got \cup subs,
                            !.event = srv.event /\ "END" \notin subs,
                            !.queue = {}, !.cached = bundle, !.gone = "LOGOUT" \in bundle,
                            !.line = IF "MAPRECT" \in subs THEN d.line ELSE srv.line]
      /\ down' = Append(down, b)
      /\ UNCHANGED <<c, used>>
  BY Zenon DEF ServerTake, Reply
<1>2. /\ up \in Seq(Datagrams) /\ down \in Seq(Bundles) /\ srv \in Sessions
      /\ c.ack \in Nat /\ srv.spid \in Nat
  BY DEF Inv, TypeOK, Locals, Sessions
<1>3. /\ d \in Datagrams /\ d = up[1] /\ 1 \in DOMAIN up
      /\ Len(Tail(up)) = Len(up) - 1 /\ Len(up) \in Nat /\ Len(up) >= 1
      /\ \A i \in DOMAIN Tail(up) :
            i + 1 \in DOMAIN up /\ Tail(up)[i] = up[i + 1] /\ i \in Nat /\ i >= 1
      /\ \A i \in DOMAIN up : i <= Len(up)
  BY <1>1, <1>2, Taken
<1>4. /\ subs \subseteq d.subs /\ subs \subseteq Requests
      /\ d.subs \ Blocked \subseteq subs
      /\ ("LOGOUT" \in bundle <=> "MAPRECT" \in subs \/ "LOGOUT" \in srv.queue)
      /\ ("EVENT" \in srv.queue => "EVENT" \in bundle)
      /\ ("END" \in d.subs <=> "END" \in subs)
  BY <1>3 DEF Handled, Datagrams, Answer, Sent, Blocked
<1>5. b \in Bundles /\ b.stamp = srv.spid + 1 /\ ~b.old /\ b.subs = bundle
  BY <1>2 DEF Bundle, Bundles, Answer, Sent, Pushes, Sessions
<1> HIDE DEF subs, bundle, d
<1>6. /\ srv'.spid = srv.spid + 1 /\ srv'.got = srv.got \cup subs /\ srv'.queue = {}
      /\ srv'.gone = ("LOGOUT" \in bundle)
      /\ srv'.event = (srv.event /\ "END" \notin subs)
      /\ srv'.line = IF "MAPRECT" \in subs THEN d.line ELSE srv.line
  <2>1. PICK g, e, o, l : /\ g = srv.got \cup subs /\ e = (srv.event /\ "END" \notin subs)
                          /\ o = ("LOGOUT" \in bundle)
                          /\ l = IF "MAPRECT" \in subs THEN d.line ELSE srv.line
    OBVIOUS
  <2>2. srv' = [srv EXCEPT !.spid = srv.spid + 1, !.got = g, !.event = e, !.queue = {},
                           !.cached = bundle, !.gone = o, !.line = l]
    BY <1>1, <2>1, Zenon
  <2>3. /\ srv'.spid = srv.spid + 1 /\ srv'.got = g /\ srv'.event = e /\ srv'.queue = {}
        /\ srv'.gone = o /\ srv'.line = l
    BY <1>2, <2>2 DEF Sessions
  <2> QED BY <2>1, <2>3, Zenon
<1> HIDE DEF b
<1>7. /\ down' # <<>> /\ down'[Len(down')] = b /\ Len(down') = Len(down) + 1
      /\ \A i \in DOMAIN down' :
           \/ i = Len(down) + 1 /\ down'[i] = b
           \/ i \in DOMAIN down /\ i <= Len(down) /\ down'[i] = down[i]
      /\ \A i \in DOMAIN down : i \in DOMAIN down' /\ down'[i] = down[i]
      /\ Len(down) + 1 \in DOMAIN down' /\ down'[Len(down) + 1] = b
  BY <1>1, <1>2, <1>5, Appended
<1>8. Len(down) \in Nat /\ \A i \in DOMAIN down : i \in Nat /\ i <= Len(down) /\ down[i].stamp \in Nat
  <2>1. \A i \in DOMAIN down : down[i] \in Bundles
    BY <1>2
  <2> QED BY <1>2, <2>1 DEF Bundles
<1>9. Numbered'
  <2>1. c.ack < srv.spid + 1
    <3>1. CASE down = <<>>
      BY <1>2, <3>1 DEF Parts, Numbered
    <3>2. CASE down # <<>>
      <4>1. 1 \in DOMAIN down
        BY <1>2, <3>2
      <4>2. c.ack < down[1].stamp /\ down[1].stamp <= srv.spid /\ down[1].stamp \in Nat
        BY <1>8, <4>1 DEF Parts, Numbered
      <4> QED BY <1>2, <4>2
    <3> QED BY <3>1, <3>2
  <2>2. \A i \in DOMAIN down' :
          ~down'[i].old /\ c.ack < down'[i].stamp /\ down'[i].stamp <= srv.spid + 1
    BY <1>2, <1>5, <1>7, <1>8, <2>1 DEF Parts, Numbered
  <2>3. ASSUME NEW i \in DOMAIN down', NEW j \in DOMAIN down', i < j
        PROVE  down'[i].stamp < down'[j].stamp
    <3>1. CASE j = Len(down) + 1
      <4>1. i \in DOMAIN down /\ down'[i] = down[i] /\ down'[j] = b
        BY <1>7, <1>8, <2>3, <3>1
      <4> QED BY <1>2, <1>5, <1>8, <4>1 DEF Parts, Numbered
    <3>2. CASE j \in DOMAIN down /\ j <= Len(down) /\ down'[j] = down[j]
      <4>1. i \in DOMAIN down /\ down'[i] = down[i]
        BY <1>7, <1>8, <2>3, <3>2
      <4> QED BY <2>3, <3>2, <4>1 DEF Parts, Numbered
    <3> QED BY <1>7, <3>1, <3>2
  <2>4. down'[Len(down')].stamp = srv'.spid
    BY <1>5, <1>6, <1>7
  <2> QED BY <1>1, <1>6, <1>7, <2>2, <2>3, <2>4 DEF Parts, Numbered
<1>10. /\ Told("LOGOUT")' => srv'.gone
       /\ "EVENT" \in srv.queue \/ Told("EVENT") => Told("EVENT")'
  <2>1. ~Told("LOGOUT")
    BY <1>1 DEF Parts, EventTold
  <2> QED BY <1>4, <1>5, <1>6, <1>7, <2>1 DEF Told
<1>11. srv.event => "EVENT" \in srv.queue \/ Told("EVENT") \/ c.owed \/ UnderWay("END")
  BY <1>1, Zenon DEF Parts, EventTold
<1>12. CASE c.at \in {"boot", "drain"}
  <2>1. d.subs = {"LOGIN"} /\ \A i \in DOMAIN up' : up'[i].subs = {"LOGIN"}
    BY <1>1, <1>3, <1>12 DEF Parts, OneUnderWay
  <2>2. OneUnderWay' /\ AwaitsAnswer'
    BY <1>1, <1>12, <2>1 DEF OneUnderWay, AwaitsAnswer
  <2>3. "MAPRECT" \notin subs /\ "POS" \notin subs
    BY <1>4, <2>1
  <2>4. SentIsHeard'
    <3>1. \A i \in DOMAIN up : "ZT" \notin up[i].subs
      BY <1>12 DEF Parts, OneUnderWay
    <3>2. /\ c.zt => "ZT" \in srv.got
          /\ "POS" \in srv.got => "ZT" \in srv.got
          /\ ~c.shown
      BY <1>1, <1>12, <3>1 DEF Parts, SentIsHeard, HeardOf, UnderWay, Draining
    <3>3. ("POS" \in srv'.got => "ZT" \in srv'.got) /\ (c.zt => "ZT" \in srv'.got)
      BY <1>6, <2>3, <3>2
    <3>4. c' = c
      BY <1>1
    <3> QED BY <1>12, <2>1, <3>2, <3>3, <3>4 DEF SentIsHeard, HeardOf, Draining
  <2>5. LineKept'
    <3>1. SUFFICES ASSUME used.warps = 0 PROVE LineKept'
      BY <1>1 DEF LineKept
    <3>2. "LOGOUT" \notin bundle /\ \A i \in DOMAIN down : "LOGOUT" \notin down[i].subs
      BY <1>4, <1>12, <2>3, <3>1 DEF Parts, LineKept
    <3>3. \A i \in DOMAIN down' : "LOGOUT" \notin down'[i].subs
      BY <1>5, <1>7, <3>2
    <3> QED BY <1>1, <1>6, <1>12, <2>1, <3>3 DEF LineKept
  <2>6. EventTold'
    <3>1. ~UnderWay("END") /\ \A i \in DOMAIN up' : up'[i].subs \cap Shadowed = {}
      BY <1>12, <2>1 DEF Parts, OneUnderWay, UnderWay, Shadowed
    <3>2. srv'.event => Told("EVENT")' \/ c'.owed
      BY <1>1, <1>6, <1>10, <1>11, <3>1, Zenon
    <3> QED BY <1>10, <3>1, <3>2 DEF EventTold
  <2> QED BY <1>9, <2>2, <2>4, <2>5, <2>6 DEF Parts
<1>13. CASE c.at \notin {"boot", "drain"}
  <2>1. Len(up) = 1 /\ down = <<>> /\ d.ack = srv.spid /\ "LOGIN" \notin d.subs
    BY <1>1, <1>3, <1>13 DEF Parts, OneUnderWay
  <2>2. up' = <<>> /\ \A i \in DOMAIN up' : FALSE
    BY <1>1, <1>2, <2>1, TailOfOne, Zenon
  <2>3. OneUnderWay'
    <3>1. Len(down') = 1
      BY <1>1, <1>2, <1>5, <2>1, AppendedToNone, Zenon
    <3> QED BY <1>1, <1>13, <2>2, <3>1 DEF OneUnderWay
  <2>4. AwaitsAnswer'
    BY <1>1 DEF Parts, AwaitsAnswer
  <2>5. \A i \in DOMAIN up : i = 1
    BY <1>2, <1>3, <2>1
  <2>6. \A r \in {"GAMEOK", "ZT", "POS"} : HeardOf(r) => r \in srv'.got
    <3>2. \A r \in {"GAMEOK", "ZT", "POS"} : r \in d.subs => r \in subs
      BY <1>4 DEF Blocked
    <3> QED BY <1>3, <1>6, <2>5, <3>2 DEF HeardOf, UnderWay
  <2>7. SentIsHeard'
    <3>1. "POS" \in srv'.got => "ZT" \in srv'.got
      <4>1. "POS" \in subs => "ZT" \in subs \cup srv.got
        <5>1. "POS" \in d.subs => "ZT" \in d.subs \cup srv.got
          BY <1>1, <1>3 DEF Parts, SentIsHeard
        <5> QED BY <1>4, <5>1 DEF Blocked
      <4> QED BY <1>6, <4>1 DEF Parts, SentIsHeard
    <3>2. srv.got \subseteq srv'.got
      BY <1>6
    <3>3. c.at = "gameok" => "GAMEOK" \in srv'.got
      BY <1>1, <2>6 DEF Parts, SentIsHeard
    <3>4. c.at \notin {"boot", "drain", "gameok"} => "GAMEOK" \in srv'.got
      BY <1>1, <3>2 DEF Parts, SentIsHeard
    <3>5. c.zt => "ZT" \in srv'.got
      BY <1>1, <2>6 DEF Parts, SentIsHeard
    <3> QED BY <1>1, <2>2, <3>1, <3>3, <3>4, <3>5 DEF Parts, SentIsHeard, HeardOf
  <2>8. LineKept'
    <3>1. SUFFICES ASSUME used.warps = 0 PROVE LineKept'
      BY <1>1 DEF LineKept
    <3>2. c.at # "zoned" /\ "LOGOUT" \notin srv.queue
      BY <1>1, <3>1 DEF Parts, LineKept
    <3>3. "MAPRECT" \in subs => c.at = "loop" /\ d.line = c.maprect
      BY <1>3, <1>4, <3>1 DEF Parts, LineKept
    <3>4. \A i \in DOMAIN down : FALSE
      BY <2>1
    <3>5. ASSUME NEW i \in DOMAIN down', "LOGOUT" \in down'[i].subs
          PROVE  c.at = "loop" /\ srv'.line = c.maprect
      <4>1. "MAPRECT" \in subs
        BY <1>4, <1>5, <1>7, <3>2, <3>4, <3>5
      <4> QED BY <1>6, <3>3, <4>1
    <3> QED BY <1>1, <1>6, <2>2, <3>2, <3>5 DEF LineKept
  <2>9. EventTold'
    <3>1. UnderWay("END") => "END" \in subs
      BY <1>3, <1>4, <2>5 DEF UnderWay
    <3>2. srv'.event => Told("EVENT")' \/ c'.owed
      BY <1>1, <1>6, <1>10, <1>11, <3>1, Zenon
    <3> QED BY <1>10, <2>2, <3>2 DEF EventTold
  <2> QED BY <1>9, <2>3, <2>4, <2>7, <2>8, <2>9 DEF Parts
<1> QED BY <1>12, <1>13

\* What the server has to say unasked only waits for its next answer.
LEMMA PushInStep ==
    ASSUME Inv, Parts, PushSeed \/ PushEvent \/ Warp
    PROVE  Parts'
<1>1. PICK x \in {"SEED", "EVENT", "LOGOUT"} :
        /\ UNCHANGED <<c, up, down>>
        /\ srv'.queue = srv.queue \cup {x} /\ srv'.spid = srv.spid /\ srv'.got = srv.got
        /\ srv'.line = srv.line /\ srv'.gone = srv.gone /\ ~srv.gone
        /\ x = "LOGOUT" => used'.warps # 0
        /\ x # "LOGOUT" => used'.warps = used.warps
        /\ x # "EVENT" => srv'.event = srv.event
  <2>1. srv \in Sessions /\ used \in Budget /\ used.warps \in Nat
    BY BoundsAssumption DEF Inv, TypeOK, Budget
  <2>2. CASE PushSeed
    BY <2>1, <2>2 DEF PushSeed, Push, Sessions, Awake
  <2>3. CASE PushEvent
    BY <2>1, <2>3 DEF PushEvent, Push, Sessions, Budget, Awake
  <2>4. CASE Warp
    BY <2>1, <2>4 DEF Warp, Push, Sessions, Budget, Awake
  <2> QED BY <2>2, <2>3, <2>4
<1>2. Numbered' /\ OneUnderWay' /\ AwaitsAnswer' /\ SentIsHeard'
  BY <1>1 DEF Parts, Numbered, OneUnderWay, AwaitsAnswer, SentIsHeard, HeardOf, UnderWay
<1>3. LineKept'
  BY <1>1 DEF Parts, LineKept
<1>4. EventTold'
  <2>1. srv'.event =>
          "EVENT" \in srv'.queue \/ Told("EVENT") \/ c.owed \/ UnderWay("END")
    BY <1>1 DEF Parts, EventTold
  <2> QED BY <1>1, <2>1 DEF Parts, EventTold, Told, UnderWay
<1> QED BY <1>2, <1>3, <1>4 DEF Parts

\* A session that is over, on either side, takes no datagram further.
LEMMA SilentInStep ==
    ASSUME Inv, Parts, Silence \/ ServerDeaf \/ LinkDead
    PROVE  Parts'
<1>1. CASE Silence
  <2>1. /\ c.at = "loop" /\ c'.at = "silent" /\ c'.ack = c.ack /\ c'.zt = c.zt
        /\ c'.shown = c.shown /\ c'.applied = c.applied /\ UNCHANGED <<srv, up, down, used>>
        /\ (\A i \in DOMAIN up : FALSE) /\ (\A j \in DOMAIN down : FALSE)
    BY <1>1 DEF Silence, Inv, TypeOK, Locals
  <2>2. up = <<>> /\ down = <<>> /\ srv.gone
    BY <1>1 DEF Silence
  <2>3. Numbered' /\ OneUnderWay' /\ AwaitsAnswer'
    BY <2>1, <2>2 DEF Parts, Numbered, OneUnderWay, AwaitsAnswer
  <2>4. SentIsHeard' /\ LineKept' /\ EventTold'
    BY <2>1, <2>2 DEF Parts, SentIsHeard, LineKept, EventTold, Told, Draining
  <2> QED BY <2>3, <2>4 DEF Parts
<1>2. CASE ServerDeaf
  <2>1. /\ up # <<>> /\ up' = Tail(up) /\ srv.gone /\ UNCHANGED <<c, srv, down, used>>
        /\ up \in Seq(Datagrams)
    BY <1>2 DEF ServerDeaf, Inv, TypeOK
  <2>2. \A i \in DOMAIN up' : i + 1 \in DOMAIN up /\ up'[i] = up[i + 1]
    BY <2>1, Taken
  <2>3. Numbered' /\ AwaitsAnswer'
    BY <2>1 DEF Parts, Numbered, AwaitsAnswer
  <2>4. OneUnderWay'
    <3>1. Len(up) = 1 => up' = <<>>
      BY <2>1, TailOfOne, Zenon
    <3> QED BY <2>1, <2>2, <3>1 DEF Parts, OneUnderWay
  <2>5. SentIsHeard' /\ LineKept'
    BY <2>1, <2>2 DEF Parts, SentIsHeard, LineKept
  <2>6. EventTold'
    BY <2>1, <2>2 DEF Parts, EventTold, Told
  <2> QED BY <2>3, <2>4, <2>5, <2>6 DEF Parts
<1>3. CASE LinkDead
  <2>1. /\ UNCHANGED <<c, up, down, used>> /\ srv'.gone /\ srv'.spid = srv.spid
        /\ srv'.got = srv.got /\ srv'.line = srv.line /\ srv'.queue = srv.queue
    BY <1>3 DEF LinkDead, Inv, TypeOK, Sessions
  <2> QED BY <2>1
          DEF Parts, Numbered, OneUnderWay, AwaitsAnswer, SentIsHeard, LineKept, EventTold, Told
<1> QED BY <1>1, <1>2, <1>3

\* The second layer: in a clean run client and server stay in step.
THEOREM InStepInductive == Spec => []InStep
<1>1. Init => InStep
  <2> SUFFICES ASSUME Init, Clean PROVE Parts
    BY DEF InStep
  <2>1. /\ c.at = "boot" /\ c.ack = 0 /\ c.applied = NoStamp /\ c.zt = FALSE
        /\ c.shown = FALSE /\ c.owed = FALSE /\ ~srv.event /\ srv.queue = {}
        /\ srv.spid = 0 /\ srv.got = {} /\ ~srv.gone
        /\ up = <<Datagram({"LOGIN"}, 0, NoLine)>>
    BY DEF Init
  <2>2. down = <<>>
    BY DEF Init, Clean
  <2>3. \A i \in DOMAIN up : up[i].subs = {"LOGIN"}
    BY <2>1 DEF Datagram
  <2>4. \A i \in DOMAIN down : FALSE
    BY <2>2
  <2>5. Numbered /\ OneUnderWay /\ AwaitsAnswer
    BY <2>1, <2>2, <2>3, <2>4 DEF Numbered, OneUnderWay, AwaitsAnswer, NoStamp
  <2> QED BY <2>1, <2>3, <2>4, <2>5 DEF Parts, SentIsHeard, LineKept, EventTold, Told, Draining
<1>2. Inv /\ InStep /\ [Next]_vars => InStep'
  <2> SUFFICES ASSUME Inv, InStep, [Next]_vars, Clean' PROVE Parts'
    BY DEF InStep
  <2>1. used \in Budget /\ used.lost \in Nat
    BY BoundsAssumption DEF Inv, TypeOK, Budget
  <2>2. Clean
    <3>1. CASE DrainReceive \/ DrainIdle \/ DrainCap
      <4>1. UNCHANGED used \/ \E ok, inTime \in BOOLEAN : Spend(ok, inTime, 0)
        BY <3>1, Zenon DEF DrainReceive, DrainIdle, DrainCap, Proceed
      <4> QED BY <2>1, <4>1, SpentClean, 0 \in Nat DEF Clean
    <3>2. CASE Tick \/ Ask
      <4>1. \E ok, inTime \in BOOLEAN, n \in Nat : Spend(ok, inTime, n)
        <5>1. ASSUME NEW e \in BOOLEAN PROVE (Answered \/ e) \in BOOLEAN /\ Answered \in BOOLEAN
          BY DEF Answered
        <5>2. 0 \in Nat /\ 1 \in Nat
          OBVIOUS
        <5> QED BY <3>2, <5>1, <5>2, Zenon DEF Tick, TickWith, Ask
      <4> QED BY <2>1, <4>1, SpentClean
    <3>3. CASE Lose
      BY <2>1, <3>3 DEF Lose, Clean, Budget
    <3>4. CASE PushEvent \/ Warp
      BY <2>1, <3>4 DEF PushEvent, Warp, Clean, Budget
    <3>5. CASE UNCHANGED used
      BY <3>5 DEF Clean
    <3> QED BY <3>1, <3>2, <3>3, <3>4, <3>5 DEF Next, Client, Server, vars,
            Again, Receive, Silence, ServerTake, ServerEat, ServerDeaf, PushSeed, LinkDead
  <2>3. Parts
    BY <2>2 DEF InStep
  <2>4. ~Lose
    BY <2>1 DEF Lose, Clean, Budget
  <2>5. ~ServerEat
    <3>1. SUFFICES ASSUME up # <<>>, "LOGIN" \notin Head(up).subs PROVE Head(up).ack = srv.spid
      BY DEF ServerEat
    <3>2. 1 \in DOMAIN up /\ Head(up) = up[1]
      BY <3>1, Taken DEF Inv, TypeOK
    <3> QED BY <2>3, <3>1, <3>2 DEF Parts, OneUnderWay
  <2>6. CASE UNCHANGED vars
    BY <2>3, <2>6 DEF vars, Parts, Numbered, OneUnderWay, AwaitsAnswer, SentIsHeard,
                      HeardOf, UnderWay, LineKept, EventTold, Told
  <2> QED BY <2>3, <2>4, <2>5, <2>6, AgainInStep, DrainReceiveInStep, DrainTimeoutInStep,
             TickInStep, ReceiveInStep, AskInStep, SilentInStep, ServerTakeInStep, PushInStep
          DEF Next, Client, Server
<1> QED BY <1>1, <1>2, InvInductive, PTL DEF Spec

\* If nothing was lost or late, ZONE_TRANSITION is heard before or with the
\* first position, and a session shown as InZone is one whose GAMEOK was served.
THEOREM TransitionHolds == Spec => []TransitionInOrder
<1>1. InStep => TransitionInOrder
  BY DEF InStep, Parts, SentIsHeard, TransitionInOrder, Draining
<1> QED BY <1>1, InStepInductive, PTL

\* The line by which the next zone is entered is the one the server granted.
THEOREM ViaHolds == Spec => []ViaIsAsked
<1>1. InStep => ViaIsAsked
  BY DEF InStep, Parts, LineKept, ViaIsAsked
<1> QED BY <1>1, InStepInductive, PTL

\* If nothing was lost or late, no group list request or SendResRdy is under way
\* in an event the server has told of, unless the event's END is with it.
THEOREM AsksHold == Spec => []AsksOutsideEvents
<1>1. Inv /\ InStep => AsksOutsideEvents
  <2> SUFFICES ASSUME Inv, Parts, srv.event, ~srv.gone, NEW i \in DOMAIN up,
                      up[i].subs \cap Shadowed # {}, "END" \notin up[i].subs
               PROVE  "EVENT" \in srv.queue
    BY DEF InStep, AsksOutsideEvents, Crossed
  <2>1. c.at \notin {"boot", "drain"}
    BY DEF Parts, OneUnderWay, Shadowed
  <2>2. Len(up) = 1 /\ down = <<>>
    BY <2>1 DEF Parts, OneUnderWay
  <2>3. \A j \in DOMAIN up : j = i
    BY <2>2 DEF Inv, TypeOK
  <2>4. ~UnderWay("END") /\ ~Told("EVENT")
    BY <2>2, <2>3 DEF UnderWay, Told
  <2> QED BY <2>4 DEF Parts, EventTold
<1> QED BY <1>1, InvInductive, InStepInductive, PTL

\* If nothing was lost or late the retransmit guard eats no datagram: what
\* HandshakeServed adds to this is that the server serves in the end.
THEOREM NothingEaten == Spec => [][Clean => ~ServerEat]_vars
<1>1. Inv /\ InStep => (Clean => ~ServerEat)
  <2> SUFFICES ASSUME Inv, InStep, Clean, up # <<>>, "LOGIN" \notin Head(up).subs
               PROVE  Head(up).ack = srv.spid
    BY DEF ServerEat
  <2>1. 1 \in DOMAIN up /\ Head(up) = up[1]
    BY Taken DEF Inv, TypeOK
  <2> QED BY <2>1 DEF InStep, Parts, OneUnderWay
<1> QED BY <1>1, InvInductive, InStepInductive, PTL
=============================================================================
