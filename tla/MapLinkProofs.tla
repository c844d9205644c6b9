--------------------------- MODULE MapLinkProofs ----------------------------
(* Theorems about MapLink for every modulus, lifetime and bound, and their    *)
(* proofs: types, no torn or dropped datagram, and the refinement of Lockstep. *)
EXTENDS MapLink, TLAPS

(* What a datagram in the air remembers is right: its ack is as old as its    *)
(* age says and its header lies as far back as `behind` says; one that acks   *)
(* the current bundle was sent after all the server has dispatched.           *)
UpGood(d) ==
    /\ d.ack = Minus(srv.spid, d.age)
    /\ d.header = Minus(c.seq, d.behind + 1)
    /\ ~d.tag => d.first = Minus(d.header, d.n - 1)
    /\ d.age = 0 => /\ hist.age # Lifetime + 1
                    /\ d.behind <= hist.gap
                    /\ ~d.tag => d.behind + d.n <= hist.gap

Numbers ==
    /\ c.ack = Minus(srv.spid, hist.age)
    /\ c.seq = Plus(srv.cpid, hist.gap + 1)
    /\ \A d \in up : UpGood(d)
    /\ \A b \in down : b.stamp = Minus(srv.spid, b.age)

Inv == TypeOK /\ Numbers /\ NothingSkipped

-----------------------------------------------------------------------------
(* Arithmetic modulo Modulus, as the code's wrapping operations do it.        *)
LEMMA Arithmetic ==
    ASSUME NEW x \in Syncs, NEW j \in 0 .. Modulus, NEW k \in 0 .. Modulus
    PROVE  /\ Plus(x, k) \in Syncs /\ Minus(x, k) \in Syncs
           /\ j + k <= Modulus => /\ Minus(Minus(x, j), k) = Minus(x, j + k)
                                  /\ Plus(Plus(x, j), k) = Plus(x, j + k)
                                  /\ Minus(Plus(x, j), j + k) = Minus(x, k)
           /\ j <= k => Minus(Plus(x, k), j) = Plus(x, k - j)
           /\ k # 0 /\ k # Modulus => Minus(x, k) # x
BY ModulusAssumption DEF Syncs, Plus, Minus

LEMMA Zero == ASSUME NEW x \in Syncs PROVE Minus(x, 0) = x /\ Plus(x, 0) = x
BY ModulusAssumption DEF Syncs, Plus, Minus

LEMMA Lives == Lifetime + 1 \in 1 .. Modulus - 1 /\ 1 \in 0 .. Modulus
BY ModulusAssumption, LifetimeAssumption

(* The types of a datagram.                                                   *)
Ups == [first : Syncs, n : 1 .. Modulus - 1, header : Syncs, ack : Syncs,
        age : 0 .. Lifetime + 1, behind : 0 .. Modulus - 1, tag : BOOLEAN]
Downs == [stamp : Syncs, age : 0 .. Lifetime]

LEMMA LaterFields ==
    ASSUME NEW d \in Ups, NEW n \in Nat, d.behind + n < Modulus
    PROVE  /\ Later(d, n) \in Ups
           /\ Later(d, n) = [first |-> d.first, n |-> d.n, header |-> d.header,
                             ack |-> d.ack, age |-> d.age,
                             behind |-> d.behind + n, tag |-> d.tag]
BY ModulusAssumption DEF Ups, Later

LEMMA OlderFields ==
    ASSUME NEW d \in Ups, d.age < Lifetime
    PROVE  /\ Older(d) \in Ups
           /\ Older(d) = [first |-> d.first, n |-> d.n, header |-> d.header,
                          ack |-> d.ack, age |-> d.age + 1,
                          behind |-> d.behind, tag |-> d.tag]
BY LifetimeAssumption DEF Ups, Older

LEMMA OlderBundle ==
    ASSUME NEW b \in Downs, b.age < Lifetime
    PROVE  Older(b) \in Downs /\ Older(b) = Bundle(b.stamp, b.age + 1)
BY LifetimeAssumption DEF Downs, Older, Bundle

-----------------------------------------------------------------------------
(* The dispatch window: a datagram whose subpackets end at its header, and    *)
(* which lies beyond what was dispatched, runs whole or, across the wrap, not *)
(* at all.                                                                    *)
LEMMA WindowExact ==
    ASSUME TypeOK, Numbers, NEW d \in up, d.age = 0, ~d.tag
    PROVE  \/ Fate(d) = "run"
           \/ Fate(d) = "dropped" /\ srv.cpid + hist.gap - d.behind >= Modulus
<1> DEFINE span == hist.gap - d.behind
<1>1. /\ srv.cpid \in Syncs /\ hist.gap \in 0 .. Modulus - 1
      /\ c.seq = Plus(srv.cpid, hist.gap + 1)
      /\ d.behind \in 0 .. Modulus - 1 /\ d.n \in 1 .. Modulus - 1
      /\ d.header = Minus(c.seq, d.behind + 1)
      /\ d.first = Minus(d.header, d.n - 1)
      /\ d.behind + d.n <= hist.gap
  BY DEF TypeOK, Numbers, UpGood
<1>2. span \in d.n .. Modulus - 1
  BY <1>1, ModulusAssumption
<1>3. d.header = Plus(srv.cpid, span)
  BY <1>1, ModulusAssumption DEF Plus, Minus, Syncs
<1>4. CASE srv.cpid + span < Modulus
  <2>1. d.header = srv.cpid + span /\ d.first = srv.cpid + span - d.n + 1
    BY <1>1, <1>2, <1>3, <1>4, ModulusAssumption DEF Plus, Minus, Syncs
  <2>2. ASSUME NEW k \in 0 .. d.n - 1
        PROVE  srv.cpid < Plus(d.first, k) /\ Plus(d.first, k) <= d.header
    BY <2>1, <1>1, <1>2, <1>4, ModulusAssumption DEF Plus, Syncs
  <2>3. Dispatched(d) = SyncsOf(d)
    BY <2>2 DEF Dispatched, SyncsOf
  <2> QED BY <2>3 DEF Fate
<1>5. CASE srv.cpid + span >= Modulus
  <2>1. d.header < srv.cpid /\ d.header \in Syncs
    BY <1>1, <1>2, <1>3, <1>5, ModulusAssumption DEF Plus, Syncs
  <2>2. \A k \in 0 .. d.n - 1 : Plus(d.first, k) \in Int
    BY <1>1, ModulusAssumption DEF Plus, Minus, Syncs
  <2>3. Dispatched(d) = {}
    BY <2>1, <2>2, <1>1, ModulusAssumption DEF Dispatched, SyncsOf, Syncs
  <2>4. Fate(d) \in {"run", "dropped"}
    BY <2>3 DEF Fate
  <2> QED BY <2>4, <1>5 DEF Fate
<1> QED BY <1>1, <1>2, <1>4, <1>5, ModulusAssumption DEF Syncs

-----------------------------------------------------------------------------
LEMMA InvInit == Init => Inv
<1> SUFFICES ASSUME Init PROVE Inv  OBVIOUS
<1>1. PICK spid \in Syncs :
        /\ srv = [cpid |-> 1, spid |-> spid]
        /\ c = [seq |-> 2, ack |-> spid, applied |-> Unapplied]
        /\ hist = [age |-> 0, gap |-> 0, got |-> spid]
        /\ down \in SUBSET {Bundle(Minus(spid, k), k) : k \in 1 .. MaxStale}
  BY DEF Init
<1>2. \A b \in down : b \in Downs /\ b.stamp = Minus(spid, b.age)
  <2> SUFFICES ASSUME NEW k \in 1 .. MaxStale
               PROVE  Bundle(Minus(spid, k), k) \in Downs
    BY <1>1 DEF Bundle
  <2>1. k \in 0 .. Modulus /\ k \in 0 .. Lifetime
    BY BoundsAssumption, LifetimeAssumption, ModulusAssumption
  <2> QED BY <2>1, Arithmetic, Lives, <1>1 DEF Bundle, Downs
<1>3. TypeOK
  BY <1>1, <1>2, Lives, ModulusAssumption, LifetimeAssumption, BoundsAssumption
  DEF TypeOK, Init, Syncs, Downs
<1>4. Numbers
  BY <1>1, <1>2, Zero, ModulusAssumption DEF Numbers, Init, Plus, Minus, Syncs
<1>5. NothingSkipped
  BY DEF Init, NothingSkipped
<1> QED BY <1>3, <1>4, <1>5 DEF Inv

(* Sending: the datagrams in the air fall behind by as many subpackets.       *)
LEMMA PutKeepsInv ==
    ASSUME Inv, NEW n \in 1 .. Modulus - 1, hist.gap + n < Modulus,
           NEW header \in Syncs, NEW behind \in 0 .. 1, NEW tag \in BOOLEAN,
           header = Minus(Plus(c.seq, n), behind + 1),
           behind <= n, tag \/ behind = 0,
           Put(n, header, behind, tag)
    PROVE  Inv'
<1> DEFINE new == Datagram(c.seq, n, header, behind, tag)
<1>1. /\ TypeOK /\ Numbers /\ n \in Nat /\ n \in 0 .. Modulus
  BY ModulusAssumption DEF Inv
<1>2. /\ c'.ack = c.ack /\ c'.seq = Plus(c.seq, n) /\ c'.applied = c.applied
      /\ hist'.age = hist.age /\ hist'.gap = hist.gap + n /\ hist'.got = hist.got
      /\ UNCHANGED <<srv, down, acct, faults>>
      /\ c' \in [seq : Syncs, ack : Syncs, applied : Syncs \cup {Unapplied}]
      /\ hist' \in [age : 0 .. Lifetime + 1, gap : 0 .. Modulus - 1, got : Syncs]
  <2>1. Plus(c.seq, n) \in Syncs
    BY <1>1, Arithmetic DEF TypeOK
  <2> QED BY <2>1, <1>1, ModulusAssumption DEF Put, TypeOK
<1>3. \A d \in up' : d = new \/ \E e \in up : d = Later(e, n) /\ e.behind + n < Modulus
  BY DEF Put, Passed
<1>4. ASSUME NEW x, x = new PROVE x \in Ups /\ UpGood(x)'
  <2>1. x = [first |-> c.seq, n |-> n, header |-> header, ack |-> c.ack,
             age |-> hist.age, behind |-> behind, tag |-> tag]
    BY <1>4 DEF Datagram
  <2>2. x \in Ups
    BY <2>1, <1>1, ModulusAssumption DEF Ups, TypeOK
  <2>3. ~tag => c.seq = Minus(header, n - 1)
    <3>1. ~tag => header = Minus(Plus(c.seq, n), 1)
      OBVIOUS
    <3>2. Minus(Minus(Plus(c.seq, n), 1), n - 1) = c.seq
      BY <1>1, ModulusAssumption DEF Plus, Minus, Syncs, TypeOK
    <3> QED BY <3>1, <3>2
  <2>4. hist.age # Lifetime + 1 \/ hist.age # 0
    BY LifetimeAssumption
  <2> QED BY <2>1, <2>2, <2>3, <2>4, <1>1, <1>2, LifetimeAssumption
          DEF UpGood, Numbers, TypeOK
<1>5. ASSUME NEW e \in up, e.behind + n < Modulus
      PROVE  Later(e, n) \in Ups /\ UpGood(Later(e, n))'
  <2>1. e \in Ups /\ UpGood(e)
    BY <1>1 DEF TypeOK, Ups, Numbers
  <2>2. /\ Later(e, n) \in Ups
        /\ Later(e, n) = [first |-> e.first, n |-> e.n, header |-> e.header,
                          ack |-> e.ack, age |-> e.age,
                          behind |-> e.behind + n, tag |-> e.tag]
    BY <1>1, <1>5, <2>1, LaterFields
  <2>3. Minus(Plus(c.seq, n), e.behind + n + 1) = Minus(c.seq, e.behind + 1)
    BY <1>1, <1>5, <2>1, ModulusAssumption DEF Plus, Minus, Syncs, TypeOK, Ups
  <2> QED BY <2>1, <2>2, <2>3, <1>1, <1>2, ModulusAssumption
          DEF UpGood, Ups, TypeOK
<1>6. up' \subseteq Ups /\ \A d \in up' : UpGood(d)'
  BY <1>3, <1>4, <1>5
<1>7. TypeOK'
  BY <1>1, <1>2, <1>6 DEF TypeOK, Ups
<1>8. c'.seq = Plus(srv'.cpid, hist'.gap + 1)
  BY <1>1, <1>2, ModulusAssumption DEF Numbers, TypeOK, Plus, Syncs
<1>9. Numbers'
  BY <1>1, <1>2, <1>6, <1>8 DEF Numbers
<1> QED BY <1>7, <1>9, <1>2 DEF Inv, NothingSkipped

LEMMA SendKeepsInv == ASSUME Inv, Send \/ SendTag PROVE Inv'
<1>1. c.seq \in Syncs /\ hist.gap \in Nat
  BY ModulusAssumption DEF Inv, TypeOK
<1>2. CASE Send
  <2>1. PICK n \in 1 .. MaxSubs :
          Paced(n) /\ Put(n, HeaderId(Plus(c.seq, n)), 0, FALSE)
    BY <1>2 DEF Send
  <2>2. n \in 1 .. Modulus - 1 /\ hist.gap + n < Modulus
    BY <2>1, <1>1, BoundsAssumption, ModulusAssumption DEF Paced
  <2>3. PICK h \in Syncs : h = HeaderId(Plus(c.seq, n))
    BY <1>1, <2>2, ModulusAssumption DEF HeaderId, Plus, Minus, Syncs
  <2>4. h = Minus(Plus(c.seq, n), 0 + 1) /\ 0 \in 0 .. 1 /\ 0 <= n
    BY <2>3 DEF HeaderId
  <2>5. Put(n, h, 0, FALSE)
    BY <2>1, <2>3
  <2> QED BY ONLY <2>2, <2>4, <2>5, PutKeepsInv, Inv
<1>3. CASE SendTag
  <2>1. Paced(1) /\ Put(1, HeaderId(c.seq), 1, TRUE)
    BY <1>3 DEF SendTag
  <2>2. 1 \in 1 .. Modulus - 1 /\ hist.gap + 1 < Modulus
    BY <2>1, ModulusAssumption DEF Paced
  <2>3. PICK h \in Syncs : h = HeaderId(c.seq)
    BY <1>1, ModulusAssumption DEF HeaderId, Minus, Syncs
  <2>4. h = Minus(Plus(c.seq, 1), 1 + 1) /\ 1 \in 0 .. 1 /\ 1 <= 1
    BY <1>1, <2>3, ModulusAssumption DEF HeaderId, Plus, Minus, Syncs
  <2>5. Put(1, h, 1, TRUE)
    BY <2>1, <2>3
  <2> QED BY ONLY <2>2, <2>4, <2>5, PutKeepsInv, Inv
<1> QED BY <1>2, <1>3

(* What a repeated delivery leaves is still a set of what was there.          *)
LEMMA RepeatTyped ==
    ASSUME TypeOK, NEW keep \in BOOLEAN, Repeat(keep)
    PROVE  faults' \in [lost : 0 .. MaxLost, dup : 0 .. MaxDup]
BY BoundsAssumption DEF TypeOK, Repeat

LEMMA ReceiveKeepsInv == ASSUME Inv, Receive PROVE Inv'
<1>1. PICK b \in down, keep \in BOOLEAN :
        /\ Repeat(keep)
        /\ down' \subseteq down
        /\ c'.ack = b.stamp /\ c'.seq = c.seq
        /\ c' \in [seq : Syncs, ack : Syncs, applied : Syncs \cup {Unapplied}]
        /\ hist'.age = b.age /\ hist'.gap = hist.gap
        /\ hist' \in [age : 0 .. Lifetime + 1, gap : 0 .. Modulus - 1, got : Syncs]
        /\ UNCHANGED <<srv, up, acct>>
  <2>1. PICK b \in down, keep \in BOOLEAN :
        /\ Repeat(keep)
        /\ down' = IF keep THEN down ELSE down \ {b}
        /\ IF IsFresh(c.applied, b.stamp)
           THEN /\ c' = [c EXCEPT !.ack = b.stamp, !.applied = b.stamp]
                /\ hist' = [hist EXCEPT !.age = b.age, !.got = Plus(@, 1)]
           ELSE /\ c' = [c EXCEPT !.ack = b.stamp]
                /\ hist' = [hist EXCEPT !.age = b.age]
        /\ UNCHANGED <<srv, up, acct>>
    BY DEF Receive
  <2>2. b.stamp \in Syncs /\ b.age \in 0 .. Lifetime + 1 /\ TypeOK
    BY LifetimeAssumption DEF Inv, TypeOK
  <2>3. Plus(hist.got, 1) \in Syncs
    BY <2>2, Arithmetic, Lives DEF TypeOK
  <2> QED BY <2>1, <2>2, <2>3 DEF TypeOK
<1>2. b.stamp = Minus(srv.spid, b.age) /\ b.age \in 0 .. Lifetime
  BY DEF Inv, Numbers, TypeOK
<1>3. TypeOK'
  BY <1>1, RepeatTyped DEF Inv, TypeOK
<1>4. \A d \in up : UpGood(d)'
  <2> SUFFICES ASSUME NEW d \in up PROVE UpGood(d)'  OBVIOUS
  <2>1. UpGood(d)
    BY DEF Inv, Numbers
  <2> QED BY <2>1, <1>1, <1>2, LifetimeAssumption DEF UpGood
<1>5. Numbers'
  BY <1>1, <1>2, <1>4 DEF Inv, Numbers
<1> QED BY <1>1, <1>3, <1>5 DEF Inv, NothingSkipped

LEMMA EatKeepsInv == ASSUME Inv, ServerEat PROVE Inv'
<1>1. PICK d \in up, keep \in BOOLEAN :
        /\ Repeat(keep)
        /\ up' \subseteq up
        /\ down' = down \cup {Bundle(srv.spid, 0)}
        /\ UNCHANGED <<c, srv, hist, acct>>
  BY DEF ServerEat
<1>2. /\ Bundle(srv.spid, 0) \in Downs
      /\ Bundle(srv.spid, 0).stamp = Minus(srv.spid, Bundle(srv.spid, 0).age)
  BY Zero, LifetimeAssumption DEF Bundle, Downs, Inv, TypeOK
<1>3. TypeOK'
  BY <1>1, <1>2, RepeatTyped DEF Inv, TypeOK, Downs
<1>4. \A e \in up : UpGood(e)'
  BY <1>1 DEF Inv, Numbers, UpGood
<1>5. Numbers'
  BY <1>1, <1>2, <1>4 DEF Inv, Numbers
<1> QED BY <1>1, <1>3, <1>5 DEF Inv, NothingSkipped

LEMMA LoseKeepsInv == ASSUME Inv, Lose PROVE Inv'
<1>1. /\ faults' \in [lost : 0 .. MaxLost, dup : 0 .. MaxDup]
      /\ up' \subseteq up /\ down' \subseteq down
      /\ UNCHANGED <<c, srv, hist, acct>>
  BY BoundsAssumption DEF Lose, Inv, TypeOK
<1>2. \A e \in up : UpGood(e)'
  BY <1>1 DEF Inv, Numbers, UpGood
<1> QED BY <1>1, <1>2 DEF Inv, TypeOK, Numbers, NothingSkipped

(* An accepted datagram: everything in the air grows one bundle older, and     *)
(* nothing that is left acks the new one.                                      *)
LEMMA TakeKeepsInv == ASSUME Inv, ServerTake PROVE Inv'
<1>1. PICK d \in up, keep \in BOOLEAN :
        /\ d.ack = srv.spid
        /\ Repeat(keep)
        /\ srv' = [cpid |-> d.header, spid |-> Plus(srv.spid, 1)]
        /\ up' = Aged(IF keep THEN up ELSE up \ {d})
        /\ down' = Aged(down) \cup {Bundle(srv'.spid, 0)}
        /\ acct' = [fate |-> Fate(d), tag |-> d.tag,
                    straddled |-> srv.cpid + hist.gap - d.behind >= Modulus]
        /\ hist' = [hist EXCEPT !.age = @ + 1, !.gap = d.behind]
        /\ UNCHANGED c
  BY DEF ServerTake
<1>2. TypeOK /\ Numbers /\ d \in Ups /\ UpGood(d)
  BY DEF Inv, TypeOK, Numbers, Ups
<1>3. d.age = 0
  <2>1. /\ d.age \in 0 .. Lifetime + 1 /\ srv.spid \in Syncs
        /\ Minus(srv.spid, d.age) = srv.spid
    BY <1>1, <1>2 DEF UpGood, Ups, TypeOK
  <2> QED BY <2>1, Lives, LifetimeAssumption, ModulusAssumption DEF Minus, Syncs
<1>4. hist.age \in 0 .. Lifetime /\ hist.age # Lifetime + 1
  BY <1>2, <1>3, LifetimeAssumption DEF UpGood, TypeOK
<1>5. /\ srv'.spid = Plus(srv.spid, 1) /\ srv'.cpid = d.header
      /\ srv' \in [cpid : Syncs, spid : Syncs]
      /\ hist'.age = hist.age + 1 /\ hist'.gap = d.behind /\ hist'.got = hist.got
      /\ hist' \in [age : 0 .. Lifetime + 1, gap : 0 .. Modulus - 1, got : Syncs]
  <2>1. Plus(srv.spid, 1) \in Syncs
    BY <1>2, Arithmetic, Lives DEF TypeOK
  <2>2. d.header \in Syncs /\ d.behind \in 0 .. Modulus - 1
        /\ hist.age + 1 \in 0 .. Lifetime + 1
    BY <1>2, <1>4, LifetimeAssumption DEF Ups
  <2>3. hist \in [age : 0 .. Lifetime + 1, gap : 0 .. Modulus - 1, got : Syncs]
    BY <1>2 DEF TypeOK
  <2> QED BY <1>1, <2>1, <2>2, <2>3
<1>6. \A x \in Syncs, a \in 0 .. Lifetime + 1 : Minus(Plus(x, 1), a + 1) = Minus(x, a)
  BY Lives, ModulusAssumption DEF Plus, Minus, Syncs
<1>7. ASSUME NEW e \in up'
      PROVE  e \in Ups /\ UpGood(e)'
  <2>1. PICK o \in up : o.age < Lifetime /\ e = Older(o)
    BY <1>1, <1>7 DEF Aged
  <2>2. o \in Ups /\ UpGood(o)
    BY <1>2 DEF TypeOK, Ups, Numbers
  <2>3. /\ e \in Ups
        /\ e = [first |-> o.first, n |-> o.n, header |-> o.header,
                ack |-> o.ack, age |-> o.age + 1,
                behind |-> o.behind, tag |-> o.tag]
    BY <2>1, <2>2, OlderFields
  <2>4. o.age + 1 # 0 /\ o.age \in 0 .. Lifetime + 1 /\ srv.spid \in Syncs
    BY <2>2, <1>2 DEF Ups, TypeOK
  <2>5. Minus(srv'.spid, o.age + 1) = Minus(srv.spid, o.age)
    BY <2>4, <1>5, <1>6
  <2> QED BY <2>2, <2>3, <2>4, <2>5, <1>1 DEF UpGood
<1>8. ASSUME NEW e \in down'
      PROVE  e \in Downs /\ e.stamp = Minus(srv'.spid, e.age)
  <2>1. CASE e = Bundle(srv'.spid, 0)
    BY <2>1, <1>5, Zero, LifetimeAssumption DEF Bundle, Downs
  <2>2. CASE e \in Aged(down)
    <3>1. PICK o \in down : o.age < Lifetime /\ e = Older(o)
      BY <2>2 DEF Aged
    <3>2. o \in Downs /\ o.stamp = Minus(srv.spid, o.age)
      BY <1>2 DEF TypeOK, Downs, Numbers
    <3>3. e \in Downs /\ e.stamp = o.stamp /\ e.age = o.age + 1
      BY <3>1, <3>2, OlderBundle DEF Bundle
    <3>4. o.age \in 0 .. Lifetime + 1 /\ srv.spid \in Syncs
      BY <3>2, <1>2, LifetimeAssumption DEF Downs, TypeOK
    <3> QED BY <3>2, <3>3, <3>4, <1>5, <1>6
  <2> QED BY <1>8, <1>1, <2>1, <2>2
<1>9. Fate(d) \in {"run", "dropped", "torn"}
  BY DEF Fate
<1>10. TypeOK'
  <2>1. up' \subseteq Ups /\ down' \subseteq Downs
    BY <1>7, <1>8
  <2>2. faults' \in [lost : 0 .. MaxLost, dup : 0 .. MaxDup]
    BY <1>1, <1>2, RepeatTyped
  <2>3. acct' \in [fate : {"run", "dropped", "torn"}, tag : BOOLEAN,
                   straddled : BOOLEAN]
    <3>1. d.tag \in BOOLEAN
      BY <1>2 DEF Ups
    <3>2. (srv.cpid + hist.gap - d.behind >= Modulus) \in BOOLEAN
      OBVIOUS
    <3> QED BY <1>1, <1>9, <3>1, <3>2
  <2>4. c' \in [seq : Syncs, ack : Syncs, applied : Syncs \cup {Unapplied}]
    BY <1>1, <1>2 DEF TypeOK
  <2> QED BY <2>1, <2>2, <2>3, <2>4, <1>5 DEF TypeOK, Ups, Downs
<1>11. c'.ack = Minus(srv'.spid, hist'.age)
  BY <1>1, <1>2, <1>4, <1>5, <1>6 DEF Numbers, TypeOK
<1>12. c'.seq = Plus(srv'.cpid, hist'.gap + 1)
  <2>1. d.header = Minus(c.seq, d.behind + 1) /\ c.seq \in Syncs
        /\ d.behind \in 0 .. Modulus - 1
    BY <1>2 DEF UpGood, TypeOK, Ups
  <2>2. Plus(d.header, d.behind + 1) = c.seq
    BY <2>1, ModulusAssumption DEF Plus, Minus, Syncs
  <2> QED BY <2>2, <1>1, <1>5
<1>13. Numbers'
  BY <1>7, <1>8, <1>11, <1>12 DEF Numbers
<1>14. NothingSkipped'
  <2>1. CASE d.tag
    BY <2>1, <1>1 DEF NothingSkipped
  <2>2. CASE ~d.tag
    BY <2>2, <1>1, <1>2, <1>3, WindowExact DEF NothingSkipped
  <2> QED BY <2>1, <2>2
<1> QED BY <1>10, <1>13, <1>14 DEF Inv

THEOREM InvInductive == Spec => []Inv
<1>1. Inv /\ [Next]_vars => Inv'
  <2> SUFFICES ASSUME Inv, [Next]_vars PROVE Inv'  OBVIOUS
  <2>1. CASE Send \/ SendTag
    BY <2>1, SendKeepsInv
  <2>2. CASE Receive
    BY <2>2, ReceiveKeepsInv
  <2>3. CASE ServerTake
    BY <2>3, TakeKeepsInv
  <2>4. CASE ServerEat
    BY <2>4, EatKeepsInv
  <2>5. CASE Lose
    BY <2>5, LoseKeepsInv
  <2>6. CASE UNCHANGED vars
    BY <2>6 DEF vars, Inv, TypeOK, Numbers, UpGood, NothingSkipped
  <2> QED BY <2>1, <2>2, <2>3, <2>4, <2>5, <2>6 DEF Next
<1> QED BY <1>1, InvInit, PTL DEF Spec

(* The types are correct, whatever the network does: numbers stay in 16 bits, *)
(* ages within a datagram's life.                                             *)
THEOREM TypeCorrect == Spec => []TypeOK
BY InvInductive, PTL DEF Inv

(* Every datagram of the loop the server accepts runs to its last subpacket,  *)
(* save the one that crosses the wrap (datagram_header_id's claim).           *)
THEOREM RunsWhole == Spec => []NothingSkipped
BY InvInductive, PTL DEF Inv

-----------------------------------------------------------------------------
(* The bundles applied are all those made, or all but the last; in the latter *)
(* case nobody has acked the last yet.                                        *)
Behind ==
    /\ hist.got = srv.spid \/ hist.got = Minus(srv.spid, 1)
    /\ hist.age = 0 => hist.got = srv.spid
    /\ \A d \in up : d.age = 0 => hist.got = srv.spid

(* Until the loop has applied a bundle of its own, only the one that answers  *)
(* its first datagram can reach it.                                           *)
Untouched == /\ hist.got = srv.spid /\ hist.age = 0 /\ down = {}
             /\ \A d \in up : d.age = 0
Unanswered == /\ hist.got # srv.spid /\ hist.age = 1
              /\ \A b \in down : b.age = 0

Exchange == /\ Behind
            /\ IF c.applied = Unapplied THEN Untouched \/ Unanswered
                                        ELSE c.applied = hist.got

LEMMA ExchangeInit == ASSUME MaxStale = 0 PROVE Init => Exchange
<1> SUFFICES ASSUME Init PROVE Exchange  OBVIOUS
<1>1. /\ c.applied = Unapplied /\ hist.age = 0 /\ hist.got = srv.spid
      /\ up = {} /\ down = {}
  BY DEF Init
<1> QED BY <1>1 DEF Exchange, Behind, Untouched

(* What freshness decides: the last bundle is fresh exactly until applied,    *)
(* older ones never are.                                                      *)
LEMMA FreshExact ==
    ASSUME NEW x \in Syncs, NEW a \in 0 .. Lifetime
    PROVE  /\ ~IsFresh(x, Minus(x, a))
           /\ IsFresh(Minus(x, 1), Minus(x, a)) <=> a = 0
<1>1. Minus(x, a) \in Syncs /\ Minus(x, 1) \in Syncs
  BY ModulusAssumption, LifetimeAssumption DEF Minus, Syncs
<1>2. ~IsFresh(x, Minus(x, a))
  BY <1>1, ModulusAssumption, LifetimeAssumption, BoundsAssumption
  DEF IsFresh, Minus, Syncs
<1>3. IsFresh(Minus(x, 1), Minus(x, a)) <=> a = 0
  BY <1>1, ModulusAssumption, LifetimeAssumption, BoundsAssumption
  DEF IsFresh, Minus, Syncs
<1> QED BY <1>2, <1>3

LEMMA PutExchange ==
    ASSUME Inv, Exchange, Send \/ SendTag
    PROVE  Exchange' /\ UNCHANGED <<srv.spid, hist.got>>
<1>1. /\ c'.applied = c.applied /\ hist'.age = hist.age /\ hist'.got = hist.got
      /\ UNCHANGED <<srv, down>>
      /\ \A d \in up' : d.age = hist.age \/ \E e \in up : d.age = e.age
  <2>1. PICK n, header, behind, tag : Put(n, header, behind, tag)
    BY DEF Send, SendTag
  <2>2. \A d \in up' : d.age = hist.age \/ \E e \in up : d.age = e.age
    <3> SUFFICES ASSUME NEW d \in up'
                 PROVE  d.age = hist.age \/ \E e \in up : d.age = e.age
      OBVIOUS
    <3>1. CASE d = Datagram(c.seq, n, header, behind, tag)
      BY <3>1 DEF Datagram
    <3>2. CASE d \in Passed(up, n)
      <4>1. PICK e \in up : d = Later(e, n)
        BY <3>2 DEF Passed
      <4>2. e \in Ups
        BY DEF Inv, TypeOK, Ups
      <4>3. d.age = e.age
        BY <4>1, <4>2 DEF Later, Ups
      <4> QED BY <4>3
    <3> QED BY <2>1, <3>1, <3>2 DEF Put
  <2>3. c \in [seq : Syncs, ack : Syncs, applied : Syncs \cup {Unapplied}]
        /\ hist \in [age : 0 .. Lifetime + 1, gap : 0 .. Modulus - 1, got : Syncs]
    BY DEF Inv, TypeOK
  <2> QED BY <2>1, <2>2, <2>3 DEF Put
<1> QED BY <1>1 DEF Exchange, Behind, Untouched, Unanswered

LEMMA ReceiveExchange ==
    ASSUME Inv, Exchange, Receive
    PROVE  /\ Exchange'
           /\ srv' = srv
           /\ \/ hist'.got = hist.got
              \/ hist.got # srv.spid /\ hist'.got = srv.spid
<1>1. PICK b \in down, keep \in BOOLEAN :
        /\ down' = IF keep THEN down ELSE down \ {b}
        /\ IF IsFresh(c.applied, b.stamp)
           THEN /\ c' = [c EXCEPT !.ack = b.stamp, !.applied = b.stamp]
                /\ hist' = [hist EXCEPT !.age = b.age, !.got = Plus(@, 1)]
           ELSE /\ c' = [c EXCEPT !.ack = b.stamp]
                /\ hist' = [hist EXCEPT !.age = b.age]
        /\ UNCHANGED <<srv, up, acct>>
  BY DEF Receive
<1>2. /\ b.stamp = Minus(srv.spid, b.age) /\ b.age \in 0 .. Lifetime
      /\ srv.spid \in Syncs /\ hist.got \in Syncs /\ b.stamp \in Syncs
      /\ c \in [seq : Syncs, ack : Syncs, applied : Syncs \cup {Unapplied}]
      /\ hist \in [age : 0 .. Lifetime + 1, gap : 0 .. Modulus - 1, got : Syncs]
  BY DEF Inv, Numbers, TypeOK
<1>3. hist.got # srv.spid => Plus(hist.got, 1) = srv.spid
  BY <1>2, ModulusAssumption DEF Exchange, Behind, Plus, Minus, Syncs
<1>4. b.age = 0 => b.stamp = srv.spid
  BY <1>2, Zero
<1>5. CASE c.applied = Unapplied
  <2>1. hist.got # srv.spid /\ b.age = 0
    BY <1>1, <1>5 DEF Exchange, Untouched, Unanswered
  <2>2. IsFresh(c.applied, b.stamp)
    BY <1>5 DEF IsFresh
  <2>3. /\ c'.applied = srv.spid /\ hist'.got = srv.spid /\ hist'.age = 0
        /\ srv' = srv
    BY <1>1, <1>2, <1>3, <1>4, <2>1, <2>2
  <2>4. c'.applied # Unapplied
    BY <2>3, <1>2, BoundsAssumption
  <2> QED BY <2>1, <2>3, <2>4 DEF Exchange, Behind
<1>6. CASE c.applied # Unapplied /\ hist.got = srv.spid
  <2>1. c.applied = srv.spid /\ ~IsFresh(c.applied, b.stamp)
    BY <1>2, <1>6, FreshExact DEF Exchange
  <2>2. /\ c'.applied = c.applied /\ hist'.got = hist.got /\ hist'.age = b.age
        /\ srv' = srv /\ up' = up
    BY <1>1, <1>2, <2>1
  <2> QED BY <1>6, <2>2 DEF Exchange, Behind
<1>7. CASE c.applied # Unapplied /\ hist.got # srv.spid
  <2>1. c.applied = Minus(srv.spid, 1) /\ c.applied = hist.got
    BY <1>7 DEF Exchange, Behind
  <2>2. IsFresh(c.applied, b.stamp) <=> b.age = 0
    BY <1>2, <2>1, FreshExact
  <2>3. CASE b.age = 0
    <3>1. /\ c'.applied = srv.spid /\ hist'.got = srv.spid /\ hist'.age = 0
          /\ srv' = srv /\ up' = up
      BY <1>1, <1>2, <1>3, <1>4, <1>7, <2>2, <2>3
    <3>2. c'.applied # Unapplied
      BY <3>1, <1>2, BoundsAssumption
    <3> QED BY <1>7, <3>1, <3>2 DEF Exchange, Behind
  <2>4. CASE b.age # 0
    <3>1. /\ c'.applied = c.applied /\ hist'.got = hist.got /\ hist'.age = b.age
          /\ srv' = srv /\ up' = up
      BY <1>1, <1>2, <2>2, <2>4
    <3> QED BY <1>7, <2>4, <3>1 DEF Exchange, Behind
  <2> QED BY <2>3, <2>4
<1> QED BY <1>5, <1>6, <1>7

LEMMA TakeExchange ==
    ASSUME Inv, Exchange, ServerTake
    PROVE  /\ Exchange'
           /\ hist.got = srv.spid
           /\ srv'.spid = Plus(srv.spid, 1) /\ hist'.got = hist.got
<1>1. PICK d \in up :
        /\ d.ack = srv.spid
        /\ srv' = [cpid |-> d.header, spid |-> Plus(srv.spid, 1)]
        /\ up' \subseteq Aged(up)
        /\ down' = Aged(down) \cup {Bundle(srv'.spid, 0)}
        /\ hist' = [hist EXCEPT !.age = @ + 1, !.gap = d.behind]
        /\ UNCHANGED c
  BY DEF ServerTake, Aged
<1>2. /\ UpGood(d) /\ d \in Ups /\ srv.spid \in Syncs
      /\ hist \in [age : 0 .. Lifetime + 1, gap : 0 .. Modulus - 1, got : Syncs]
      /\ up \subseteq Ups /\ down \subseteq Downs
  BY DEF Inv, Numbers, TypeOK, Ups, Downs
<1>3. d.age = 0
  <2>1. /\ d.age \in 0 .. Lifetime + 1
        /\ Minus(srv.spid, d.age) = srv.spid
    BY <1>1, <1>2 DEF UpGood, Ups
  <2> QED BY <2>1, <1>2, Lives, LifetimeAssumption, ModulusAssumption
          DEF Minus, Syncs
<1>4. hist.got = srv.spid
  BY <1>3 DEF Exchange, Behind
<1>5. /\ srv'.spid = Plus(srv.spid, 1) /\ hist'.got = hist.got
      /\ hist'.age = hist.age + 1 /\ c'.applied = c.applied
  BY <1>1, <1>2
<1>6. Plus(srv.spid, 1) # srv.spid /\ Minus(Plus(srv.spid, 1), 1) = srv.spid
  BY <1>2, ModulusAssumption DEF Plus, Minus, Syncs
<1>7. \A e \in up' : e.age # 0
  <2> SUFFICES ASSUME NEW e \in up' PROVE e.age # 0  OBVIOUS
  <2>1. PICK o \in up : o.age < Lifetime /\ e = Older(o)
    BY <1>1 DEF Aged
  <2>2. e.age = o.age + 1 /\ o.age \in 0 .. Lifetime + 1
    BY <1>2, <2>1, OlderFields DEF Ups
  <2> QED BY <2>2, LifetimeAssumption
<1>8. Behind'
  BY <1>2, <1>4, <1>5, <1>6, <1>7, LifetimeAssumption DEF Behind
<1>9. CASE c.applied = Unapplied
  <2>1. Untouched
    BY <1>4, <1>9 DEF Exchange, Unanswered
  <2>2. \A b \in down' : b.age = 0
    BY <1>1, <2>1 DEF Untouched, Aged, Bundle
  <2>3. hist'.age = 1
    BY <1>5, <2>1 DEF Untouched
  <2> QED BY <1>4, <1>5, <1>6, <1>8, <1>9, <2>2, <2>3 DEF Exchange, Unanswered
<1>10. CASE c.applied # Unapplied
  BY <1>4, <1>5, <1>8, <1>10 DEF Exchange
<1> QED BY <1>9, <1>10

LEMMA EatExchange ==
    ASSUME Inv, Exchange, ServerEat
    PROVE  Exchange' /\ UNCHANGED <<srv, hist>>
<1>1. PICK d \in up :
        /\ d.ack # srv.spid
        /\ up' \subseteq up
        /\ down' = down \cup {Bundle(srv.spid, 0)}
        /\ UNCHANGED <<c, srv, hist, acct>>
  BY DEF ServerEat
<1>2. d.age # 0
  BY <1>1, Zero DEF Inv, Numbers, UpGood, TypeOK
<1>3. ~Untouched
  BY <1>2 DEF Untouched
<1>4. Unanswered => Unanswered'
  BY <1>1 DEF Unanswered, Bundle
<1>5. Behind'
  BY <1>1 DEF Exchange, Behind
<1> QED BY <1>1, <1>3, <1>4, <1>5 DEF Exchange

LEMMA LoseExchange ==
    ASSUME Exchange, Lose
    PROVE  Exchange' /\ UNCHANGED <<srv, hist>>
<1>1. up' \subseteq up /\ down' \subseteq down /\ UNCHANGED <<c, srv, hist, acct>>
  BY DEF Lose
<1> QED BY <1>1 DEF Exchange, Behind, Untouched, Unanswered

(* Above a network that loses, repeats and reorders, requests and bundles go  *)
(* in lockstep: each bundle is applied once and in order, and the server never *)
(* makes one before the client has applied the last.  The flood may leave no  *)
(* older copies behind (MaxStale).                                            *)
THEOREM Refinement == ASSUME MaxStale = 0 PROVE Spec => InLockstep
<1>1. Init => L!Init
  BY DEF Init, L!Init, Syncs
<1>2. Inv /\ Exchange /\ [Next]_vars
      => Exchange' /\ [L!Next]_<<srv.spid, hist.got>>
  <2> SUFFICES ASSUME Inv, Exchange, [Next]_vars
               PROVE  Exchange' /\ [L!Next]_<<srv.spid, hist.got>>
    OBVIOUS
  <2>1. /\ srv.spid \in Syncs /\ hist.got \in Syncs
        /\ \A x \in Syncs : L!Wrapped(x) = Plus(x, 1)
    BY ModulusAssumption DEF Inv, TypeOK, L!Wrapped, Plus, Syncs
  <2>2. CASE Send \/ SendTag
    BY <2>2, PutExchange
  <2>3. CASE Receive
    <3>1. hist.got # srv.spid => srv.spid = Plus(hist.got, 1)
      BY <2>1, ModulusAssumption DEF Exchange, Behind, Plus, Minus, Syncs
    <3> QED BY <2>1, <2>3, <3>1, ReceiveExchange DEF L!Next, L!Apply
  <2>4. CASE ServerTake
    BY <2>1, <2>4, TakeExchange DEF L!Next, L!Take
  <2>5. CASE ServerEat
    BY <2>5, EatExchange
  <2>6. CASE Lose
    BY <2>6, LoseExchange
  <2>7. CASE UNCHANGED vars
    BY <2>7 DEF vars, Exchange, Behind, Untouched, Unanswered
  <2> QED BY <2>2, <2>3, <2>4, <2>5, <2>6, <2>7 DEF Next
<1> QED BY <1>1, <1>2, InvInductive, ExchangeInit, PTL DEF Spec, InLockstep, L!Spec
=============================================================================
