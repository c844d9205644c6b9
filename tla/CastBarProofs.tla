--------------------------- MODULE CastBarProofs ----------------------------
(* The bar is that of the spell in flight, and of the spell the server casts, *)
(* for any spells and bounds.                                                 *)
EXTENDS CastBar, SequenceTheorems, TLAPS

Answers == {"start", "finish", "interrupt"}
Requests == Spells \cup {Ability, Pos}
Budget == [uses : 0 .. MaxUses, walks : 0 .. MaxWalks]

(* A bar that started is on screen; one that has not is there only if an      *)
(* action replaced its cast.                                                  *)
Owned ==
    /\ fly.started => bar = fly.act
    /\ ~hist.replaced /\ ~fly.started => bar = None

(* A spell in flight that overlaps no other is the only one asked for, and    *)
(* the last answer under way tells whether the server is casting it; with     *)
(* none under way, its bar does.                                              *)
Alone ==
    fly.act \in Timed /\ ~hist.overlap =>
        /\ srv \in {None, fly.act}
        /\ \A i \in DOMAIN up : up[i] \in Timed => up[i] = fly.act
        /\ down = <<>> => (fly.started <=> srv # None)
        /\ down # <<>> => (down[Len(down)] = "start" <=> srv # None)

Inv == TypeOK /\ Owned /\ Alone

\* Adding to a queue: what it was, and the new last element.
LEMMA Appended ==
    ASSUME NEW S, NEW q \in Seq(S), NEW x \in S
    PROVE  /\ Append(q, x) \in Seq(S) /\ Append(q, x) # <<>>
           /\ Append(q, x)[Len(Append(q, x))] = x
           /\ \A i \in DOMAIN Append(q, x) :
                Append(q, x)[i] = x \/ (i \in DOMAIN q /\ Append(q, x)[i] = q[i])
<1>1. /\ Append(q, x) \in Seq(S) /\ Len(Append(q, x)) = Len(q) + 1 /\ Len(q) \in Nat
      /\ \A i \in 1 .. Len(q) : Append(q, x)[i] = q[i]
      /\ Append(q, x)[Len(q) + 1] = x
  BY AppendProperties
<1>2. \A i \in 1 .. Len(q) + 1 : i \in 1 .. Len(q) \/ i = Len(q) + 1
  BY <1>1
<1>3. DOMAIN Append(q, x) = 1 .. Len(q) + 1 /\ Append(q, x) # <<>>
  BY <1>1
<1>4. \A i \in DOMAIN Append(q, x) :
        Append(q, x)[i] = x \/ (i \in DOMAIN q /\ Append(q, x)[i] = q[i])
  <2> SUFFICES ASSUME NEW i \in 1 .. Len(q) + 1
               PROVE  Append(q, x)[i] = x \/ (i \in DOMAIN q /\ Append(q, x)[i] = q[i])
    BY <1>3
  <2>1. CASE i = Len(q) + 1
    BY <1>1, <2>1
  <2>2. CASE i \in 1 .. Len(q)
    BY <1>1, <2>2
  <2> QED BY <1>2, <2>1, <2>2
<1> QED BY <1>1, <1>3, <1>4

\* Taking from a queue: what is left was in it, and its last element stays.
LEMMA Taken ==
    ASSUME NEW S, NEW q \in Seq(S), q # <<>>
    PROVE  /\ Head(q) \in S /\ Tail(q) \in Seq(S) /\ Head(q) = q[1] /\ 1 \in DOMAIN q
           /\ \A i \in DOMAIN Tail(q) : i + 1 \in DOMAIN q /\ Tail(q)[i] = q[i + 1]
           /\ Tail(q) # <<>> => Tail(q)[Len(Tail(q))] = q[Len(q)]
           /\ Tail(q) = <<>> => q[Len(q)] = Head(q)
OBVIOUS

-----------------------------------------------------------------------------
(* The steps of the client.                                                   *)

\* The cast is dropped: nothing is in flight, and its bar is off the screen.
LEMMA Dropped ==
    ASSUME Inv, Drop, UNCHANGED hist
    PROVE  /\ fly' \in Flights /\ bar' \in Timed \cup {None} /\ ~fly'.started
           /\ Owned' /\ Alone'
<1>1. fly' = NoFly /\ fly'.act = None /\ ~fly'.started /\ fly' \in Flights
  BY DEF Drop, NoFly, Armed, Flights
<1>2. bar' = None \/ (~fly.started /\ bar' = bar)
  BY DEF Drop, Ended
<1>3. bar' \in Timed \cup {None} /\ Owned'
  BY <1>1, <1>2 DEF Inv, TypeOK, Owned
<1>4. fly'.act \notin Timed
  BY <1>1, ActsAssumption DEF Spells
<1> QED BY <1>1, <1>3, <1>4 DEF Alone

\* An action is sent: its lock is armed, over a spell's or for a spell alone.
LEMMA UseStep ==
    ASSUME Inv, Use
    PROVE  Inv'
<1>1. PICK a \in Spells \cup {Ability} :
        /\ used.uses < MaxUses /\ used' = [used EXCEPT !.uses = used.uses + 1]
        /\ recast' = recast \cup ({a} \cap Spells) /\ up' = Append(up, a)
        /\ IF a \in Instants THEN UNCHANGED <<fly, hist>>
           ELSE /\ fly' = Armed(a)
                /\ hist' = [overlap |-> hist.overlap \/ (a \in Timed /\ Busy),
                            replaced |-> hist.replaced \/ fly.started]
        /\ UNCHANGED <<bar, walked, srv, down>>
  BY DEF Use
<1>2. used' \in Budget
  <2>1. PICK n \in 0 .. MaxUses : n = used.uses + 1
    BY <1>1, BoundsAssumption DEF Inv, TypeOK
  <2>2. used' = [used EXCEPT !.uses = n]
    BY <1>1, <2>1, Zenon
  <2> QED BY <2>2 DEF Inv, TypeOK, Budget
<1>3. /\ up \in Seq(Requests) /\ up' \in Seq(Requests)
      /\ \A i \in DOMAIN up' : up'[i] = a \/ (i \in DOMAIN up /\ up'[i] = up[i])
  <2>1. up \in Seq(Requests) /\ a \in Requests
    BY DEF Inv, TypeOK, Requests
  <2> QED BY <1>1, <2>1, Appended
<1>4. recast' \subseteq Spells
  BY <1>1 DEF Inv, TypeOK
<1>5. CASE a \in Instants
  <2>1. a \notin Timed /\ UNCHANGED <<fly, hist>>
    BY <1>1, <1>5, ActsAssumption
  <2>2. TypeOK' /\ Owned'
    BY <1>1, <1>2, <1>3, <1>4, <2>1 DEF Inv, TypeOK, Owned, Budget, Requests
  <2>3. Alone'
    BY <1>1, <1>3, <2>1 DEF Inv, Alone
  <2> QED BY <2>2, <2>3 DEF Inv
<1>6. CASE a \notin Instants
  <2>1. a \in Timed \cup {Ability} /\ fly' = Armed(a)
    BY <1>1, <1>6 DEF Spells
  <2>2. fly' \in Flights /\ fly'.act = a /\ ~fly'.started
    BY <2>1 DEF Armed, Flights
  <2>3. PICK o \in BOOLEAN : o = (hist.overlap \/ (a \in Timed /\ Busy))
    OBVIOUS
  <2>4. PICK r \in BOOLEAN : r = (hist.replaced \/ fly.started)
    OBVIOUS
  <2>5. hist' = [overlap |-> o, replaced |-> r]
    BY <1>1, <1>6, <2>3, <2>4, Zenon
  <2>6. hist' \in Histories /\ hist'.overlap = o /\ hist'.replaced = r
    BY <2>5 DEF Histories
  <2>7. TypeOK'
    BY <1>1, <1>2, <1>3, <1>4, <2>2, <2>6 DEF Inv, TypeOK, Budget, Requests
  <2>8. Owned'
    BY <1>1, <2>2, <2>4, <2>6 DEF Inv, Owned
  <2>9. Alone'
    <3> SUFFICES ASSUME a \in Timed, ~hist'.overlap PROVE Alone'
      BY <2>2 DEF Alone
    <3>1. srv = None /\ down = <<>> /\ \A i \in DOMAIN up : up[i] \notin Timed
      BY <2>3, <2>6 DEF Busy, Spells
    <3> QED BY <1>1, <1>3, <2>2, <3>1 DEF Alone
  <2> QED BY <2>7, <2>8, <2>9 DEF Inv
<1> QED BY <1>5, <1>6

\* Walking breaks a spell off.
LEMMA MoveStep ==
    ASSUME Inv, Move
    PROVE  Inv'
<1>1. /\ used.walks < MaxWalks /\ used' = [used EXCEPT !.walks = used.walks + 1]
      /\ walked' = TRUE /\ UNCHANGED <<recast, srv, up, down, hist>>
      /\ Drop \/ UNCHANGED <<fly, bar>>
  BY DEF Move, HasBar
<1>2. used' \in Budget
  <2>1. PICK n \in 0 .. MaxWalks : n = used.walks + 1
    BY <1>1, BoundsAssumption DEF Inv, TypeOK
  <2>2. used' = [used EXCEPT !.walks = n]
    BY <1>1, <2>1, Zenon
  <2> QED BY <2>2 DEF Inv, TypeOK, Budget
<1>3. CASE Drop
  BY <1>1, <1>2, <1>3, Dropped DEF Inv, TypeOK, Budget
<1>4. CASE UNCHANGED <<fly, bar>>
  BY <1>1, <1>2, <1>4 DEF Inv, TypeOK, Owned, Alone, Budget
<1> QED BY <1>1, <1>3, <1>4

\* A lock that has run out ends the cast; a position goes out, no spell.
LEMMA TickStep ==
    ASSUME Inv, Tick
    PROVE  Inv'
<1>1. /\ Drop \/ UNCHANGED <<fly, bar>>
      /\ \/ walked' = FALSE /\ up' = Append(up, Pos)
         \/ UNCHANGED <<walked, up>>
      /\ UNCHANGED <<recast, srv, down, hist, used>>
  BY DEF Tick, Report
<1>2. /\ up' \in Seq(Requests) /\ walked' \in BOOLEAN
      /\ \A i \in DOMAIN up' : up'[i] = Pos \/ (i \in DOMAIN up /\ up'[i] = up[i])
  <2>1. CASE UNCHANGED <<walked, up>>
    BY <2>1 DEF Inv, TypeOK, Requests
  <2>2. CASE walked' = FALSE /\ up' = Append(up, Pos)
    <3>1. up \in Seq(Requests) /\ Pos \in Requests
      BY DEF Inv, TypeOK, Requests
    <3>2. walked' \in BOOLEAN /\ up' = Append(up, Pos)
      BY <2>2
    <3> QED BY <3>1, <3>2, Appended
  <2> QED BY <1>1, <2>1, <2>2
<1>3. CASE Drop
  BY <1>1, <1>2, <1>3, Dropped DEF Inv, TypeOK, Requests
<1>4. CASE UNCHANGED <<fly, bar>>
  <2>1. TypeOK' /\ Owned'
    BY <1>1, <1>2, <1>4 DEF Inv, TypeOK, Owned, Requests
  <2>2. Pos \notin Timed
    BY ActsAssumption DEF Spells
  <2>3. Alone'
    BY <1>1, <1>2, <1>4, <2>2 DEF Inv, Alone
  <2> QED BY <2>1, <2>3 DEF Inv
<1> QED BY <1>1, <1>3, <1>4

\* The clocks change neither bar nor queue.
LEMMA ClocksStep ==
    ASSUME Inv, LockPasses \/ RecastPasses
    PROVE  Inv'
<1>1. CASE LockPasses
  <2>1. /\ fly' \in Flights /\ fly'.act = fly.act /\ fly'.started = fly.started
        /\ UNCHANGED <<bar, recast, walked, srv, up, down, hist, used>>
    BY <1>1 DEF LockPasses, Inv, TypeOK, Flights
  <2> QED BY <2>1 DEF Inv, TypeOK, Owned, Alone
<1>2. CASE RecastPasses
  BY <1>2 DEF RecastPasses, Inv, TypeOK, Owned, Alone
<1> QED BY <1>1, <1>2

\* An answer is read for the spell in flight.
LEMMA ObserveStep ==
    ASSUME Inv, Observe
    PROVE  Inv'
<1>1. /\ down # <<>> /\ down' = Tail(down)
      /\ UNCHANGED <<recast, walked, srv, up, hist, used>>
  BY DEF Observe
<1>2. /\ down \in Seq(Answers) /\ down' \in Seq(Answers) /\ Head(down) \in Answers
      /\ down' # <<>> => down'[Len(down')] = down[Len(down)]
      /\ down' = <<>> => down[Len(down)] = Head(down)
  BY <1>1, Taken DEF Inv, TypeOK, Answers
<1>3. CASE Drop
  BY <1>1, <1>2, <1>3, Dropped DEF Inv, TypeOK, Answers
<1>4. CASE fly.act \notin Timed /\ UNCHANGED <<fly, bar>>
  BY <1>1, <1>2, <1>4 DEF Inv, TypeOK, Owned, Alone, Answers
<1>5. CASE Head(down) = "start" /\ fly.started /\ UNCHANGED <<fly, bar>>
  <2>1. TypeOK' /\ Owned'
    BY <1>1, <1>2, <1>5 DEF Inv, TypeOK, Owned, Answers
  <2>2. Alone'
    BY <1>1, <1>2, <1>5 DEF Inv, Alone
  <2> QED BY <2>1, <2>2 DEF Inv
<1>6. CASE /\ Head(down) = "start" /\ fly.act \in Timed /\ bar' = fly.act
           /\ fly' = [fly EXCEPT !.started = TRUE, !.due = FALSE]
  <2>1. fly' \in Flights /\ fly'.act = fly.act /\ fly'.started
    BY <1>6 DEF Inv, TypeOK, Flights
  <2>2. TypeOK' /\ Owned'
    BY <1>1, <1>2, <1>6, <2>1 DEF Inv, TypeOK, Owned, Answers
  <2>3. Alone'
    BY <1>1, <1>2, <1>6, <2>1 DEF Inv, Alone
  <2> QED BY <2>2, <2>3 DEF Inv
<1> QED BY <1>2, <1>3, <1>4, <1>5, <1>6 DEF Observe, HasBar, Breaks, Answers

-----------------------------------------------------------------------------
(* The steps of the server.                                                   *)

\* Answers are added, of which the last tells what the server casts now.
LEMMA Answered ==
    ASSUME Inv, UNCHANGED <<fly, bar, recast, walked, hist, used>>,
           srv' \in Timed \cup {None}, up' \in Seq(Requests),
           \A i \in DOMAIN up' : \E j \in DOMAIN up : up'[i] = up[j],
           down' \in Seq(Answers), down' # <<>>, down'[Len(down')] = "start" <=> srv' # None,
           srv' = None \/ \E j \in DOMAIN up : srv' = up[j]
    PROVE  Inv'
<1>1. TypeOK' /\ Owned'
  BY DEF Inv, TypeOK, Owned, Answers, Requests
<1>2. Alone'
  <2> SUFFICES ASSUME fly.act \in Timed, ~hist.overlap PROVE Alone'
    BY DEF Alone
  <2>1. \A j \in DOMAIN up : up[j] \in Timed => up[j] = fly.act
    BY DEF Inv, Alone
  <2>2. srv' \in {None, fly.act}
    BY <2>1
  <2>3. \A i \in DOMAIN up' : up'[i] \in Timed => up'[i] = fly.act
    BY <2>1
  <2> QED BY <2>2, <2>3 DEF Alone
<1> QED BY <1>1, <1>2 DEF Inv

\* A request is served or not.
LEMMA ServeStep ==
    ASSUME Inv, Serve
    PROVE  Inv'
<1>1. up # <<>> /\ up' = Tail(up) /\ UNCHANGED <<fly, bar, recast, walked, hist, used>>
  BY DEF Serve
<1>2. /\ up \in Seq(Requests) /\ up' \in Seq(Requests) /\ Head(up) = up[1] /\ 1 \in DOMAIN up
      /\ \A i \in DOMAIN up' : \E j \in DOMAIN up : up'[i] = up[j]
  BY <1>1, Taken DEF Inv, TypeOK, Requests
<1>3. down \in Seq(Answers) /\ srv \in Timed \cup {None} /\ None \notin Timed
  BY ActsAssumption DEF Inv, TypeOK, Answers, Spells
<1>4. CASE UNCHANGED <<srv, down>>
  <2>1. TypeOK' /\ Owned'
    BY <1>1, <1>2, <1>4 DEF Inv, TypeOK, Owned, Requests
  <2>2. Alone'
    BY <1>1, <1>2, <1>4 DEF Inv, Alone
  <2> QED BY <2>1, <2>2 DEF Inv
<1>5. CASE Head(up) \in Timed /\ srv' = Head(up) /\ down' = Append(down, "start")
  <2>1. down' \in Seq(Answers) /\ down' # <<>> /\ down'[Len(down')] = "start"
    BY <1>3, <1>5, Appended DEF Answers
  <2> QED BY <1>1, <1>2, <1>3, <1>5, <2>1, Answered
<1>6. CASE srv = None /\ UNCHANGED srv /\ down' = down \o <<"start", "finish">>
  <2>1. down' \in Seq(Answers) /\ down' # <<>> /\ down'[Len(down')] = "finish"
    <3>1. PICK r \in Seq(Answers) : r = <<"start", "finish">> /\ Len(r) = 2 /\ r[2] = "finish"
      <4>1. /\ <<"start", "finish">> \in Seq(Answers) /\ Len(<<"start", "finish">>) = 2
            /\ <<"start", "finish">>[2] = "finish"
        BY DEF Answers
      <4> QED BY <4>1, Zenon
    <3>2. /\ down' = down \o r /\ down' \in Seq(Answers) /\ Len(down') = Len(down) + 2
          /\ Len(down) \in Nat
      BY <1>3, <1>6, <3>1, ConcatProperties
    <3>3. down'[Len(down) + 2] = r[(Len(down) + 2) - Len(down)] /\ (Len(down) + 2) - Len(down) = 2
      BY <1>3, <3>1, <3>2, ConcatProperties
    <3> QED BY <3>1, <3>2, <3>3
  <2> QED BY <1>1, <1>2, <1>3, <1>6, <2>1, Answered
<1>7. CASE srv' = None /\ down' = Append(down, "interrupt")
  <2>1. down' \in Seq(Answers) /\ down' # <<>> /\ down'[Len(down')] = "interrupt"
    BY <1>3, <1>7, Appended DEF Answers
  <2> QED BY <1>1, <1>2, <1>3, <1>7, <2>1, Answered
<1> QED BY <1>4, <1>5, <1>6, <1>7 DEF Serve

\* A cast ends, or is broken off.
LEMMA CompleteStep ==
    ASSUME Inv, Complete
    PROVE  Inv'
<1>1. PICK m \in {"finish", "interrupt"} : srv' = None /\ down' = Append(down, m)
  BY DEF Complete
<1>2. UNCHANGED <<fly, bar, recast, walked, up, hist, used>>
  BY DEF Complete
<1>3. down' \in Seq(Answers) /\ down' # <<>> /\ down'[Len(down')] = m /\ m # "start"
  BY <1>1, Appended DEF Answers, Inv, TypeOK
<1>4. up' \in Seq(Requests) /\ \A i \in DOMAIN up' : \E j \in DOMAIN up : up'[i] = up[j]
  BY <1>2 DEF Inv, TypeOK, Requests
<1> QED BY <1>1, <1>2, <1>3, <1>4, Answered

-----------------------------------------------------------------------------
(* The theorems.                                                              *)

\* Nothing in flight, on screen or under way: a fresh zone.
LEMMA FreshInv ==
    ASSUME fly' = NoFly, bar' = None, recast' = {}, walked' = FALSE, srv' = None, up' = <<>>,
           down' = <<>>, hist' = [overlap |-> FALSE, replaced |-> FALSE], used' \in Budget
    PROVE  Inv'
<1>1. fly' \in Flights /\ fly'.act = None /\ ~fly'.started
  BY DEF NoFly, Armed, Flights
<1>2. TypeOK' /\ Owned'
  <2>1. hist' \in Histories /\ ~hist'.overlap /\ ~hist'.replaced
    BY DEF Histories
  <2>2. up' \in Seq(Spells \cup {Ability, Pos}) /\ down' \in Seq({"start", "finish", "interrupt"})
    OBVIOUS
  <2> QED BY <1>1, <2>1, <2>2 DEF TypeOK, Owned, Budget
<1>3. None \notin Timed
  BY ActsAssumption DEF Spells
<1> QED BY <1>1, <1>2, <1>3 DEF Inv, Alone

\* The invariant behind the theorems: the bar is the spell's in flight, and the
\* last answer under way, or without one the bar, says what the server casts.
THEOREM InvInductive == Spec => []Inv
<1>1. Init => Inv
  <2> SUFFICES ASSUME Init PROVE Inv
    OBVIOUS
  <2>1. fly \in Flights /\ fly.act = None /\ ~fly.started
    BY DEF Init, NoFly, Armed, Flights
  <2>2. TypeOK /\ Owned
    <3>1. hist \in Histories
      BY DEF Init, Histories
    <3>2. used \in [uses : 0 .. MaxUses, walks : 0 .. MaxWalks]
      BY BoundsAssumption DEF Init
    <3>3. up \in Seq(Spells \cup {Ability, Pos}) /\ down \in Seq({"start", "finish", "interrupt"})
      BY DEF Init
    <3> QED BY <2>1, <3>1, <3>2, <3>3 DEF Init, TypeOK, Owned
  <2>3. None \notin Timed
    BY ActsAssumption DEF Spells
  <2> QED BY <2>1, <2>2, <2>3 DEF Inv, Alone
<1>2. Inv /\ [Next]_vars => Inv'
  <2> SUFFICES ASSUME Inv, [Next]_vars PROVE Inv'
    OBVIOUS
  <2>1. CASE Zone
    BY <2>1, FreshInv DEF Zone, Inv, TypeOK, Budget
  <2>2. CASE UNCHANGED vars
    BY <2>2 DEF vars, Inv, TypeOK, Owned, Alone
  <2> QED BY <2>1, <2>2, UseStep, MoveStep, TickStep, ClocksStep, ObserveStep, ServeStep,
             CompleteStep DEF Next
<1> QED BY <1>1, <1>2, PTL DEF Spec

\* The state keeps its types, and only a spell in flight has a bar, for any
\* spells and bounds.
THEOREM TypeCorrect == Spec => []TypeOK
<1>1. Inv => TypeOK
  BY DEF Inv
<1> QED BY <1>1, InvInductive, PTL

\* A bar on screen is that of the spell in flight (cast_in_flight), unless an
\* action took its place between the end of its lock and the tick.
THEOREM BarIsOwned == Spec => []BarOwned
<1>1. Inv => BarOwned
  BY ActsAssumption DEF Inv, TypeOK, Owned, BarOwned, Spells
<1> QED BY <1>1, InvInductive, PTL

\* Everything read, the bar of a spell in flight is on screen exactly when the
\* server is casting it (apply_self_battle2_to_cast), for any spells and bounds.
THEOREM MirrorHolds == Spec => []BarMirrors
<1>1. Inv => BarMirrors
  BY ActsAssumption DEF Inv, TypeOK, Owned, Alone, BarMirrors, Spells
<1> QED BY <1>1, InvInductive, PTL
=============================================================================
