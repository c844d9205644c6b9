---------------------------- MODULE EventProofs ----------------------------
(***************************************************************************)
(* Proofs about EventLifecycle, for any events, graces and bounds.         *)
(***************************************************************************)
EXTENDS EventLifecycle, TLAPS

\* A script of e that the VM keeps, and what a step of it may report.
ScriptOf(e) ==
    [ev: {e}, park: Frames \cup {"wait", "tag"}, need: SUBSET Replies,
     ctl: BOOLEAN, age: 0..TagGrace]
Results(e) ==
    [out: {"frame", "wait", "tag", "ended", "stopped"}, dlg: {NoDialog} \cup ScriptOf(e)]

\* A script is the script of an event that is owed and pinned.
Held(t) ==
    t.dlg # NoDialog =>
      \E e \in Events : t.dlg \in ScriptOf(e) /\ t.pending[e] > 0 /\ t.open

Good(t) == t \in Locals /\ Held(t)

Inv == TypeOK /\ Held(s)

-----------------------------------------------------------------------------
(* What a script reports.                                                  *)

LEMMA NoDialogTyped == NoDialog \in Dialogs /\ NoDialog.ev = NoEvent /\ NoDialog.need = {}
BY BoundAssumption DEF NoDialog, Dialogs

LEMMA ScriptTyped ==
    ASSUME NEW e \in Events, NEW d \in ScriptOf(e)
    PROVE  d \in Dialogs /\ d.ev = e /\ d # NoDialog /\ d.need \subseteq Replies
<1>1. d.ev = e /\ d \in Dialogs /\ d.need \subseteq Replies
  BY DEF ScriptOf, Dialogs
<1> QED BY <1>1, NoDialogTyped, EventsAssumption

LEMMA ParkedTyped ==
    ASSUME NEW e \in Events
    PROVE  Parked(e) \subseteq ScriptOf(e)
<1>1. TagKinds \subseteq SUBSET Replies
  BY TagAssumption
<1>2. 0 \in 0..TagGrace
  BY BoundAssumption
<1> QED BY <1>1, <1>2 DEF Parked, ScriptOf, Frames

LEMMA RunTyped ==
    ASSUME NEW e \in Events, NEW ctl
    PROVE  Run(e, ctl) \subseteq Results(e)
<1> SUFFICES ASSUME NEW r \in Run(e, ctl) PROVE r \in Results(e)
  OBVIOUS
<1>1. CASE \E d \in Parked(e) : r = [out |-> Outcome(d), dlg |-> d]
  <2>1. PICK d \in Parked(e) : r = [out |-> Outcome(d), dlg |-> d]
    BY <1>1
  <2>2. d \in ScriptOf(e)
    BY ParkedTyped
  <2>3. Outcome(d) \in {"frame", "wait", "tag"}
    BY <2>2 DEF ScriptOf, Outcome, Frames
  <2> QED BY <2>1, <2>2, <2>3 DEF Results
<1>2. CASE \E o \in {"ended", "stopped"} : r = [out |-> o, dlg |-> NoDialog]
  BY <1>2 DEF Results
<1> QED BY <1>1, <1>2 DEF Run

LEMMA StepTyped ==
    ASSUME NEW e \in Events, NEW d \in ScriptOf(e)
    PROVE  /\ Unmoved(d) \in Results(e) /\ Reemit(d) \in Results(e) /\ Stalled \in Results(e)
           /\ d.age < TagGrace => Unmoved([d EXCEPT !.age = @ + 1]) \in Results(e)
<1>1. 0 \in 0..TagGrace
  BY BoundAssumption
<1>2. [d EXCEPT !.age = 0] \in ScriptOf(e)
  BY <1>1 DEF ScriptOf
<1>3. d.age < TagGrace => d.age + 1 \in 0..TagGrace
  BY BoundAssumption DEF ScriptOf
<1>4. d.age < TagGrace => [d EXCEPT !.age = @ + 1] \in ScriptOf(e)
  BY <1>3 DEF ScriptOf
<1> QED BY <1>2, <1>4 DEF Unmoved, Reemit, Stalled, Results

\* Whatever moves a script on, a tick, a choice or a cancel, it reports
\* either the end of the script or a script of the same event.
LEMMA MovesTyped ==
    ASSUME NEW e \in Events, NEW d \in ScriptOf(e)
    PROVE  /\ ByTick(d) \subseteq Results(e)
           /\ ByChoice(d) \subseteq Results(e)
           /\ ByCancel(d) \subseteq Results(e)
<1>1. d.park \in {"frame", "auto", "wait", "tag"} /\ d.ev = e
  BY DEF ScriptOf, Frames
<1>2. Run(d.ev, d.ctl) \subseteq Results(e)
  BY <1>1, RunTyped
<1>3. /\ Unmoved(d) \in Results(e) /\ Reemit(d) \in Results(e) /\ Stalled \in Results(e)
      /\ d.age < TagGrace => Unmoved([d EXCEPT !.age = @ + 1]) \in Results(e)
  BY StepTyped
<1>4. ByTick(d) \subseteq Results(e)
  BY <1>1, <1>2, <1>3 DEF ByTick
<1>5. ByChoice(d) \subseteq Results(e)
  BY <1>2, <1>3 DEF ByChoice
<1>6. ByCancel(d) \subseteq Results(e)
  BY <1>1, <1>2, <1>3 DEF ByCancel, Frames
<1> QED BY <1>4, <1>5, <1>6

-----------------------------------------------------------------------------
(* The pieces of the handlers keep the loop's state good.                  *)

LEMMA EndTyped ==
    ASSUME NEW E \in SUBSET Events
    PROVE  EndOf(E) \in Datagrams
BY DEF EndOf, Datagrams

LEMMA TagTyped ==
    ASSUME NEW e \in Events, NEW n \in SUBSET Replies
    PROVE  TagOf(e, n) \in Datagrams
BY DEF TagOf, Datagrams

LEMMA WireKeeps ==
    ASSUME NEW t, t \in Locals, NEW msgs \in Datagrams
    PROVE  /\ Wire(t, msgs) \in Locals
           /\ Wire(t, msgs).dlg = t.dlg /\ Wire(t, msgs).pending = t.pending
           /\ Wire(t, msgs).open = t.open
<1>1. Append(t.out, msgs) \in Seq(Datagrams)
  BY DEF Locals
<1> QED BY <1>1 DEF Wire, Locals

LEMMA WireGood ==
    ASSUME NEW t, Good(t), NEW msgs \in Datagrams
    PROVE  Good(Wire(t, msgs))
BY WireKeeps DEF Good, Held

LEMMA FinishGood ==
    ASSUME NEW t \in Locals, t.dlg = NoDialog
    PROVE  Good(Finish(t))
BY DEF Good, Held, Finish, CloseScope, Locals, Boxes

LEMMA BoxGood ==
    ASSUME NEW t, Good(t), NEW b \in Boxes
    PROVE  Good([t EXCEPT !.box = b])
BY DEF Good, Held, Locals

LEMMA PrepareGood ==
    ASSUME NEW t, Good(t), NEW e \in Events, t.dlg \in ScriptOf(e),
           NEW r \in Results(e), NEW place \in Places
    PROVE  /\ Good(Prepare(t, r, place))
           /\ Prepare(t, r, place).dlg = r.dlg
           /\ PreparedEnd(t, r) \in Datagrams
<1>1. t.dlg.ev = e /\ t.dlg # NoDialog
  BY ScriptTyped
<1>2. t.pending[e] > 0 /\ t.open
  BY <1>1, ScriptTyped DEF Good, Held
<1>3. r.dlg \in Dialogs
  BY ScriptTyped, NoDialogTyped DEF Results
<1>4. t \in Locals
  BY DEF Good
<1>5. PreparedEnd(t, r) \in Datagrams
  BY <1>1, EndTyped DEF PreparedEnd, Datagrams
<1>6. CASE Over(r)
  <2>1. Prepare(t, r, place) = [t EXCEPT !.dlg = r.dlg, !.pos = place,
                                         !.pending = [t.pending EXCEPT ![e] = 0]]
    BY <1>6, <1>1 DEF Prepare, None
  <2>2. [t.pending EXCEPT ![e] = 0] \in [Events -> Nat]
    BY <1>4 DEF Locals
  <2>3. Prepare(t, r, place) \in Locals /\ Prepare(t, r, place).dlg = r.dlg
    BY <2>1, <2>2, <1>3, <1>4 DEF Locals
  <2> QED BY <2>3, <1>5, <1>6 DEF Good, Held, Over
<1>7. CASE ~Over(r)
  <2>1. Prepare(t, r, place) = [t EXCEPT !.dlg = r.dlg, !.pos = place]
    BY <1>7, <1>4 DEF Prepare, Locals
  <2>2. /\ Prepare(t, r, place) \in Locals /\ Prepare(t, r, place).dlg = r.dlg
        /\ Prepare(t, r, place).pending = t.pending /\ Prepare(t, r, place).open = t.open
    BY <2>1, <1>3, <1>4 DEF Locals
  <2>3. r.dlg \in ScriptOf(e)
    BY <1>7 DEF Over, Results
  <2> QED BY <2>2, <2>3, <1>2, <1>5 DEF Good, Held
<1> QED BY <1>6, <1>7

LEMMA ShowGood ==
    ASSUME NEW t, Good(t), NEW e \in Events, NEW d \in ScriptOf(e),
           NEW r \in Results(e), t.dlg = r.dlg
    PROVE  Good(Show(t, d, r))
<1> DEFINE u == IF d.park \in Frames /\ r.dlg.park \notin Frames
                THEN [t EXCEPT !.box = NoEvent] ELSE t
<1>1. Good(u)
  BY BoxGood DEF Boxes
<1>2. d.ev = e /\ d.ev \in Boxes
  BY ScriptTyped DEF Boxes
<1>3. r.dlg.need \in SUBSET Replies
  BY ScriptTyped, NoDialogTyped DEF Results
<1>4. Good(Wire(u, TagOf(d.ev, r.dlg.need)))
  BY <1>1, <1>2, <1>3, TagTyped, WireGood
<1>5. Good([t EXCEPT !.box = d.ev])
  BY <1>2, BoxGood
<1>6. Over(r) => Good(Finish(t))
  BY FinishGood DEF Over, Good
<1> QED BY <1>1, <1>4, <1>5, <1>6, Zenon DEF Show

LEMMA DriveGood ==
    ASSUME NEW t, Good(t), NEW e \in Events, t.dlg \in ScriptOf(e),
           NEW r \in Results(e), NEW place \in Places
    PROVE  Good(Drive(t, r, place))
<1> DEFINE p == Prepare(t, r, place)
           w == Wire(p, PreparedEnd(t, r))
<1>1. Good(p) /\ p.dlg = r.dlg /\ PreparedEnd(t, r) \in Datagrams
  BY PrepareGood
<1>2. Good(w) /\ w.dlg = r.dlg
  BY <1>1, WireGood, WireKeeps DEF Good
<1>3. Good(Show(w, t.dlg, r))
  BY <1>2, ShowGood
<1> QED BY <1>3, Zenon DEF Drive

LEMMA WatchedGood ==
    ASSUME NEW t, Good(t)
    PROVE  /\ Good(Watched(t))
           /\ Watched(t).pending = t.pending /\ Watched(t).auto = t.auto
<1> DEFINE w == Watched(t).watch
<1>1. t \in Locals
  BY DEF Good
<1>2. /\ Watched(t) = [t EXCEPT !.watch = w]
      /\ w \in {NoWatch, [age |-> 0, anchor |-> t.pos],
               [t.watch EXCEPT !.age = IF t.watch.age > Grace THEN t.watch.age
                                       ELSE t.watch.age + 1]}
  BY <1>1 DEF Watched, Locals
<1>3. /\ NoWatch \in [age: 0..(Grace + 1), anchor: 0..2]
      /\ [age |-> 0, anchor |-> t.pos] \in [age: 0..(Grace + 1), anchor: 0..2]
  BY <1>1, BoundAssumption DEF NoWatch, Locals, Places
<1>4. [t.watch EXCEPT !.age = IF t.watch.age > Grace THEN t.watch.age ELSE t.watch.age + 1]
        \in [age: 0..(Grace + 1), anchor: 0..2]
  <2>1. t.watch \in [age: 0..(Grace + 1), anchor: 0..2]
    BY <1>1 DEF Locals
  <2> QED BY <2>1, BoundAssumption
<1> HIDE DEF w
<1>5. w \in [age: 0..(Grace + 1), anchor: 0..2]
  BY <1>2, <1>3, <1>4
<1> QED BY <1>1, <1>2, <1>5 DEF Good, Held, Locals

LEMMA FlushGood ==
    ASSUME NEW t, Good(t)
    PROVE  Good(Flush(t)) /\ Flush(t).auto = t.auto
<1>1. CASE ~Flushes(t)
  BY <1>1 DEF Flush
<1>2. CASE Flushes(t)
  <2>1. t \in Locals
    BY DEF Good
  <2>2. t.dlg # NoDialog => WalkedAway(t) /\ t.pending[t.dlg.ev] > 0
    BY <1>2, ScriptTyped DEF Flushes, Good, Held
  <2>3. Nothing \in [Events -> Nat] /\ NoWatch \in [age: 0..(Grace + 1), anchor: 0..2]
    BY BoundAssumption DEF Nothing, NoWatch
  <2>4. Finish(t) \in Locals /\ Finish(t).dlg = t.dlg /\ Finish(t).auto = t.auto
    BY <2>1 DEF Finish, CloseScope, Locals, Boxes
  <2>5. Flush(t) = [Finish(t) EXCEPT !.pending = Nothing, !.watch = NoWatch, !.dlg = NoDialog]
    BY <1>2, <2>2, <2>4 DEF Flush, Locals
  <2> QED BY <2>3, <2>4, <2>5, NoDialogTyped DEF Good, Held, Locals
<1> QED BY <1>1, <1>2

LEMMA ReleaseGood ==
    ASSUME NEW t, Good(t)
    PROVE  Good(Release(t))
<1> DEFINE u == Watched(t)
           released == Owed(u.auto) \cup (IF Flushes(u) THEN Owed(u.pending) ELSE {})
           f == [Flush(u) EXCEPT !.auto = Nothing]
<1>1. Good(Flush(u))
  BY WatchedGood, FlushGood
<1>2. Nothing \in [Events -> Nat]
  BY DEF Nothing
<1>3. Good(f)
  BY <1>1, <1>2 DEF Good, Held, Locals
<1>4. EndOf(released) \in Datagrams
  BY EndTyped DEF Owed
<1>5. Good(Wire(f, EndOf(released)))
  BY <1>3, <1>4, WireGood
<1> QED BY <1>5, Zenon DEF Release

\* An event the server starts replaces the script that ran, and is owed.
LEMMA BeginGood ==
    ASSUME NEW t \in Locals, NEW e \in Events, NEW r \in Results(e)
    PROVE  Good(Begin(t, e, r))
<1> DEFINE p == [t.pending EXCEPT ![e] = @ + 1]
           u == [Push(OpenScope(t), e) EXCEPT !.dlg = r.dlg]
<1>1. p \in [Events -> Nat] /\ p[e] > 0
  BY DEF Locals
<1>2. u = [t EXCEPT !.open = TRUE, !.pending = p, !.strolled = FALSE, !.dlg = r.dlg]
  BY DEF Push, OpenScope, More, Locals
<1>3. r.dlg \in Dialogs /\ r.dlg.need \in SUBSET Replies
  BY ScriptTyped, NoDialogTyped DEF Results
<1>4. u \in Locals /\ u.open /\ u.pending = p /\ u.dlg = r.dlg /\ u.auto = t.auto
  <2> HIDE DEF p
  <2> QED BY <1>1, <1>2, <1>3 DEF Locals
<1>5. CASE Over(r)
  <2> DEFINE a == [t.auto EXCEPT ![e] = @ + 1]
  <2>1. a \in [Events -> Nat]
    BY DEF Locals
  <2>2. Begin(t, e, r) = [CloseScope(t) EXCEPT !.dlg = NoDialog, !.auto = a]
    BY <1>5 DEF Begin, More
  <2> HIDE DEF a, u
  <2> QED BY <2>1, <2>2, NoDialogTyped DEF Good, Held, CloseScope, Locals
<1>6. CASE ~Over(r)
  <2>1. r.dlg \in ScriptOf(e)
    BY <1>6 DEF Over, Results
  <2>2. Good(u)
    BY <2>1, <1>1, <1>4 DEF Good, Held
  <2>3. Good([u EXCEPT !.box = e])
    BY <2>2, BoxGood DEF Boxes
  <2>4. Good(Wire(u, TagOf(e, r.dlg.need)))
    BY <2>2, <1>3, TagTyped, WireGood
  <2> QED BY <1>6, <2>2, <2>3, <2>4, Zenon DEF Begin
<1> QED BY <1>5, <1>6

LEMMA CommitGood ==
    ASSUME NEW t, Good(t), toServer \in Seq(Datagrams), Commit(t)
    PROVE  s' \in Locals /\ Held(s') /\ toServer' \in Seq(Datagrams)
<1> DEFINE l == t.live \ UNION {Ended(t.out[i]) : i \in DOMAIN t.out}
<1>1. t \in Locals
  BY DEF Good
<1>2. l \in SUBSET Events
  BY <1>1 DEF Locals
<1>3. <<>> \in Seq(Datagrams)
  OBVIOUS
<1>4. s' = [t EXCEPT !.out = <<>>, !.live = l]
  BY <1>1 DEF Commit, Locals
<1>5. toServer' \in Seq(Datagrams)
  BY <1>1 DEF Commit, Locals
<1> HIDE DEF l
<1> QED BY <1>1, <1>2, <1>3, <1>4, <1>5 DEF Good, Held, Locals

-----------------------------------------------------------------------------
(* The steps keep the invariant.                                           *)

Budget == [triggers: Nat, cancels: Nat, lost: Nat, outages: Nat, resend: Nat]

LEMMA CountTyped ==
    ASSUME NEW u \in Budget
    PROVE  /\ [u EXCEPT !.triggers = u.triggers + 1] \in Budget
           /\ [u EXCEPT !.cancels = u.cancels + 1] \in Budget
           /\ [u EXCEPT !.lost = u.lost + 1] \in Budget
           /\ [u EXCEPT !.outages = u.outages + 1] \in Budget
           /\ [u EXCEPT !.resend = u.resend + 1] \in Budget
           /\ [u EXCEPT !.resend = u.resend] \in Budget
<1>1. \A n \in Nat : n + 1 \in Nat
  OBVIOUS
<1> QED BY <1>1 DEF Budget

Orders == [k: {"choice", "end"}, ev: Boxes]

LEMMA ConsumeTyped ==
    ASSUME Inv, NEW k, Consume(k)
    PROVE  cmds' \in Seq(Orders) /\ Head(cmds) \in Orders
<1>1. cmds \in Seq(Orders)
  BY DEF Inv, TypeOK, Orders
<1>2. cmds # <<>> /\ cmds' = Tail(cmds)
  BY DEF Consume
<1> QED BY <1>1, <1>2

LEMMA ArrivesTyped ==
    ASSUME Inv, NEW k, Arrives(k)
    PROVE  /\ toClient' \in Seq(ToClient) /\ Head(toClient) \in ToClient
           /\ k = "EVENT" => Head(toClient).ev \in Events
<1>1. toClient' \in Seq(ToClient) /\ Head(toClient) \in ToClient /\ Head(toClient).k = k
  BY DEF Inv, TypeOK, Arrives
<1> QED BY <1>1 DEF ToClient, Replies

LEMMA SayTyped ==
    ASSUME NEW q \in Seq(ToClient)
    PROVE  /\ \A e \in Events : q \o Say("EVENT", e) \in Seq(ToClient)
           /\ \A e \in Events \cup {NoEvent} : \A k \in {"CANCEL"} \cup Replies :
                q \o Say(k, e) \in Seq(ToClient)
<1>1. \A m \in ToClient : q \o <<m>> \in Seq(ToClient)
  OBVIOUS
<1>2. \A e \in Events : [k |-> "EVENT", ev |-> e] \in ToClient
  BY DEF ToClient
<1>3. \A e \in Events \cup {NoEvent} : \A k \in {"CANCEL"} \cup Replies :
        [k |-> k, ev |-> e] \in ToClient
  BY DEF ToClient
<1> QED BY <1>1, <1>2, <1>3 DEF Say

\* A handler that keeps the loop's state good and commits it keeps the
\* invariant, whatever it takes off the channels.
LEMMA CommitKeepsInv ==
    ASSUME Inv, NEW t, Good(t), Commit(t),
           cmds' \in Seq(Orders), toClient' \in Seq(ToClient),
           link' = link, srv' = srv, used' \in Budget
    PROVE  Inv'
<1>1. s' \in Locals /\ Held(s') /\ toServer' \in Seq(Datagrams)
  BY CommitGood DEF Inv, TypeOK
<1> QED BY <1>1 DEF Inv, TypeOK, Orders, Budget

\* The menu's box and flag are no part of what Held speaks of.
LEMMA MenuGood ==
    ASSUME NEW t, Good(t), NEW m \in BOOLEAN, NEW b \in Boxes
    PROVE  Good([t EXCEPT !.menu = m, !.box = b])
BY DEF Good, Held, Locals

LEMMA AbortGood ==
    ASSUME NEW t, Good(t)
    PROVE  Good([t EXCEPT !.dead = TRUE])
BY DEF Good, Held, Locals

\* The script that runs is the script of its event.
LEMMA ScriptRuns ==
    ASSUME Inv, s.dlg # NoDialog
    PROVE  /\ Good(s) /\ s.dlg.ev \in Events /\ s.dlg \in ScriptOf(s.dlg.ev)
           /\ s.pending[s.dlg.ev] > 0 /\ s.open
BY ScriptTyped DEF Inv, TypeOK, Good, Held

LEMMA DriveOrAbortKeeps ==
    ASSUME Inv, s.dlg # NoDialog, NEW R, R \subseteq Results(s.dlg.ev), DriveOrAbort(R),
           cmds' \in Seq(Orders), UNCHANGED <<link, toClient, srv, used>>
    PROVE  Inv'
<1>1. PICK r \in R, place \in Places :
        IF SendFails(s, r, place # s.pos) THEN Abort(Prepare(s, r, place))
        ELSE Commit(Drive(s, r, place))
  BY Zenon DEF DriveOrAbort
<1>2. r \in Results(s.dlg.ev)
  OBVIOUS
<1>3. Good(Prepare(s, r, place)) /\ Good(Drive(s, r, place))
  BY <1>2, ScriptRuns, PrepareGood, DriveGood
<1>4. Good([Prepare(s, r, place) EXCEPT !.dead = TRUE])
  BY <1>3, AbortGood
<1>5. \E t : Good(t) /\ Commit(t)
  BY <1>1, <1>3, <1>4, Zenon DEF Abort
<1>6. toClient' \in Seq(ToClient) /\ used' \in Budget /\ link' = link /\ srv' = srv
  BY DEF Inv, TypeOK, Budget
<1> QED BY <1>5, <1>6, CommitKeepsInv

LEMMA CommandsKeepInv ==
    ASSUME Inv,
           EndMenu \/ EndScript \/ EndPinned \/ ChooseInMenu \/ ChooseInScript \/ ChooseRaw
    PROVE  Inv'
<1>1. cmds' \in Seq(Orders) /\ Head(cmds) \in Orders
  BY ConsumeTyped
     DEF EndMenu, EndScript, EndPinned, ChooseInMenu, ChooseInScript, ChooseRaw
<1>2. UNCHANGED <<link, toClient, srv, used>>
  BY DEF EndMenu, EndScript, EndPinned, ChooseInMenu, ChooseInScript, ChooseRaw
<1>3. toClient' \in Seq(ToClient) /\ used' \in Budget /\ link' = link /\ srv' = srv
  BY <1>2 DEF Inv, TypeOK, Budget
<1>4. Good(s)
  BY DEF Inv, TypeOK, Good
<1>5. CASE EndScript
  <2>1. s.dlg # NoDialog /\ DriveOrAbort(ByCancel(s.dlg))
    BY <1>5 DEF EndScript
  <2>2. ByCancel(s.dlg) \subseteq Results(s.dlg.ev)
    BY <2>1, ScriptRuns, MovesTyped
  <2> QED BY <2>1, <2>2, <1>1, <1>2, DriveOrAbortKeeps
<1>6. CASE ChooseInScript
  <2>1. s.dlg # NoDialog /\ DriveOrAbort(ByChoice(s.dlg))
    BY <1>6 DEF ChooseInScript
  <2>2. ByChoice(s.dlg) \subseteq Results(s.dlg.ev)
    BY <2>1, ScriptRuns, MovesTyped
  <2> QED BY <2>1, <2>2, <1>1, <1>2, DriveOrAbortKeeps
<1>7. CASE EndMenu \/ ChooseInMenu
  <2>1. \E m \in BOOLEAN, b \in Boxes : Commit([s EXCEPT !.menu = m, !.box = b])
    BY <1>7 DEF EndMenu, ChooseInMenu, Boxes
  <2>2. \E t : Good(t) /\ Commit(t)
    BY <2>1, <1>4, MenuGood
  <2> QED BY <2>2, <1>1, <1>3, CommitKeepsInv
<1>8. CASE EndPinned
  <2> DEFINE t == [s EXCEPT !.pending = Nothing]
             w == Wire(t, EndOf(Owed(s.pending)))
  <2>1. s.dlg = NoDialog /\ Commit(Finish(w))
    BY <1>8 DEF EndPinned
  <2>2. Nothing \in [Events -> Nat]
    BY DEF Nothing
  <2>3. t \in Locals /\ t.dlg = NoDialog
    BY <2>1, <2>2, <1>4 DEF Good, Locals
  <2>4. EndOf(Owed(s.pending)) \in Datagrams
    BY EndTyped DEF Owed
  <2>5. w \in Locals /\ w.dlg = NoDialog
    BY <2>3, <2>4, WireKeeps
  <2>6. Good(Finish(w))
    BY <2>5, FinishGood
  <2> QED BY <2>1, <2>6, <1>1, <1>3, CommitKeepsInv
<1>9. CASE ChooseRaw
  <2> DEFINE e == Head(cmds).ev
             w == Wire(s, EndOf({e}))
             t == IF e \in Events THEN Take(w, e) ELSE s
  <2>1. s.dlg = NoDialog /\ Commit(Finish(t))
    BY <1>9, Zenon DEF ChooseRaw
  <2>2. ASSUME e \in Events PROVE Take(w, e) \in Locals /\ Take(w, e).dlg = NoDialog
    <3>1. w \in Locals /\ w.dlg = NoDialog
      BY <2>1, <2>2, <1>4, EndTyped, WireKeeps DEF Good
    <3> HIDE DEF w, e
    <3>2. None(w.pending, e) \in [Events -> Nat]
      BY <3>1, <2>2 DEF None, Locals
    <3> QED BY <3>1, <3>2 DEF Take, Locals
  <2>3. t \in Locals /\ t.dlg = NoDialog
    BY <2>1, <2>2, <1>4 DEF Good
  <2>4. Good(Finish(t))
    BY <2>3, FinishGood
  <2> QED BY <2>1, <2>4, <1>1, <1>3, CommitKeepsInv
<1> QED BY <1>5, <1>6, <1>7, <1>8, <1>9

LEMMA TicksKeepInv ==
    ASSUME Inv, TickQuiet \/ TickScript
    PROVE  Inv'
<1>1. Good(s) /\ used \in Budget
  BY DEF Inv, TypeOK, Good, Budget
<1>2. cmds' \in Seq(Orders) /\ toClient' \in Seq(ToClient) /\ link' = link /\ srv' = srv
  BY DEF TickQuiet, TickScript, Inv, TypeOK, Orders
<1>3. CASE TickQuiet
  <2>1. Commit(Release(s)) /\ used' = used
    BY <1>3 DEF TickQuiet
  <2> QED BY <2>1, <1>1, <1>2, ReleaseGood, CommitKeepsInv
<1>4. CASE TickScript
  <2>1. s.dlg # NoDialog
    BY <1>4 DEF TickScript
  <2>2. PICK r \in ByTick(s.dlg), place \in Places :
          /\ IF SendFails(s, r, place # s.pos) THEN Abort(Prepare(s, r, place))
             ELSE Commit(Release(Drive(s, r, place)))
          /\ used' = [used EXCEPT !.resend = IF r.out = "tag" /\ s.dlg.park = "tag"
                                             THEN used.resend + 1 ELSE used.resend]
    BY <1>4, Zenon DEF TickScript
  <2>3. r \in Results(s.dlg.ev)
    BY <2>1, ScriptRuns, MovesTyped
  <2>4. Good(Prepare(s, r, place)) /\ Good(Drive(s, r, place))
    BY <2>1, <2>3, ScriptRuns, PrepareGood, DriveGood
  <2>5. /\ Good([Prepare(s, r, place) EXCEPT !.dead = TRUE])
        /\ Good(Release(Drive(s, r, place)))
    BY <2>4, AbortGood, ReleaseGood
  <2>6. \E t : Good(t) /\ Commit(t)
    BY <2>2, <2>5, Zenon DEF Abort
  <2>7. used' \in Budget
    BY <2>2, <1>1, CountTyped
  <2> QED BY <2>6, <2>7, <1>2, CommitKeepsInv
<1> QED BY <1>3, <1>4

LEMMA AnswerKeepsInv ==
    ASSUME Inv, ReceiveAnswer
    PROVE  Inv'
<1>1. s.dlg # NoDialog
  BY DEF ReceiveAnswer, Matches, NoDialog
<1>2. PICK k \in Replies : Arrives(k)
  BY DEF ReceiveAnswer
<1>3. PICK r \in Run(s.dlg.ev, s.dlg.ctl), place \in Places :
        Commit(IF SendFails(s, r, place # s.pos) THEN Prepare(s, r, place) ELSE Drive(s, r, place))
  BY Zenon DEF ReceiveAnswer
<1>4. r \in Results(s.dlg.ev)
  BY <1>1, ScriptRuns, RunTyped
<1>5. Good(Prepare(s, r, place)) /\ Good(Drive(s, r, place))
  BY <1>1, <1>4, ScriptRuns, PrepareGood, DriveGood
<1>6. \E t : Good(t) /\ Commit(t)
  BY <1>3, <1>5, Zenon
<1>7. toClient' \in Seq(ToClient)
  BY <1>2, ArrivesTyped
<1>8. cmds' \in Seq(Orders) /\ link' = link /\ srv' = srv /\ used' \in Budget
  BY DEF ReceiveAnswer, Inv, TypeOK, Orders, Budget
<1> QED BY <1>6, <1>7, <1>8, CommitKeepsInv

LEMMA HalfKeepsInv ==
    ASSUME Inv, ReceiveHalf
    PROVE  Inv'
<1> DEFINE n == s.dlg.need \ {Head(toClient).k}
           d == [s.dlg EXCEPT !.need = n]
           t == [s EXCEPT !.dlg = d]
<1>1. s.dlg # NoDialog
  BY DEF ReceiveHalf, Matches, NoDialog
<1>2. PICK k \in Replies : Arrives(k)
  BY DEF ReceiveHalf
<1>3. s \in Locals /\ Good(s)
  BY DEF Inv, TypeOK, Good
<1>4. Commit(t)
  BY <1>3 DEF ReceiveHalf, Locals, Dialogs
<1>5. s.dlg \in ScriptOf(s.dlg.ev) /\ s.dlg.ev \in Events
  BY <1>1, ScriptRuns
<1>6. d \in ScriptOf(s.dlg.ev)
  BY <1>5 DEF ScriptOf
<1>7. s.pending[s.dlg.ev] > 0 /\ s.open
  BY <1>1, ScriptRuns
<1>8. d \in Dialogs
  BY <1>5, <1>6, ScriptTyped
<1>9. Good(t)
  <2> HIDE DEF d
  <2> QED BY <1>3, <1>5, <1>6, <1>7, <1>8 DEF Good, Held, Locals
<1>10. toClient' \in Seq(ToClient)
  BY <1>2, ArrivesTyped
<1>11. cmds' \in Seq(Orders) /\ link' = link /\ srv' = srv /\ used' \in Budget
  BY DEF ReceiveHalf, Inv, TypeOK, Orders, Budget
<1> QED BY <1>4, <1>9, <1>10, <1>11, CommitKeepsInv

LEMMA ReceivesKeepInv ==
    ASSUME Inv, ReceiveEvent \/ ReceiveCancel \/ ReceiveStray
    PROVE  Inv'
<1>1. s \in Locals
  BY DEF Inv, TypeOK
<1>2. cmds' \in Seq(Orders) /\ link' = link /\ srv' = srv /\ used' \in Budget
  BY DEF ReceiveEvent, ReceiveCancel, ReceiveStray, Inv, TypeOK, Orders, Budget
<1>3. CASE ReceiveEvent
  <2> DEFINE e == Head(toClient).ev
             t == [s EXCEPT !.live = s.live \cup {e}]
  <2>1. PICK r \in Run(e, FALSE) : Commit(Begin(t, e, r))
    BY <1>3 DEF ReceiveEvent
  <2>2. e \in Events /\ toClient' \in Seq(ToClient)
    BY <1>3, ArrivesTyped DEF ReceiveEvent
  <2>3. t \in Locals
    BY <1>1, <2>2 DEF Locals
  <2>4. r \in Results(e)
    BY <2>2, RunTyped
  <2>5. Good(Begin(t, e, r))
    BY <2>2, <2>3, <2>4, BeginGood
  <2> QED BY <2>1, <2>2, <2>5, <1>2, CommitKeepsInv
<1>4. CASE ReceiveCancel
  <2> DEFINE t == [s EXCEPT !.dlg = NoDialog, !.pending = Nothing, !.live = {}, !.box = NoEvent]
             u == [s EXCEPT !.dlg = NoDialog, !.pending = Nothing, !.live = {}]
  <2>1. Commit(Finish(u)) /\ toClient' \in Seq(ToClient)
    BY <1>4, ArrivesTyped DEF ReceiveCancel
  <2>2. u \in Locals /\ u.dlg = NoDialog
    BY <1>1, NoDialogTyped DEF Locals, Nothing
  <2>3. Good(Finish(u))
    BY <2>2, FinishGood
  <2> QED BY <2>1, <2>3, <1>2, CommitKeepsInv
<1>5. CASE ReceiveStray
  <2>1. PICK k \in Replies : Arrives(k)
    BY <1>5 DEF ReceiveStray
  <2>2. toClient' \in Seq(ToClient)
    BY <2>1, ArrivesTyped
  <2>3. UNCHANGED <<s, link, cmds, toServer, srv, used>>
    BY <1>5 DEF ReceiveStray
  <2> QED BY <2>2, <2>3 DEF Inv, TypeOK, Held
<1> QED BY <1>3, <1>4, <1>5

\* The steps of the loop that send nothing.
LEMMA QuietStepsKeepInv ==
    ASSUME Inv, OpenMenu \/ Stroll \/ ChangeZone
    PROVE  Inv'
<1>1. Good(s)
  BY DEF Inv, TypeOK, Good
<1>2. CASE OpenMenu
  <2>1. s' = [s EXCEPT !.menu = TRUE, !.box = MenuBox]
    BY <1>2 DEF OpenMenu
  <2>2. s' \in Locals /\ Held(s')
    BY <2>1, <1>1, MenuGood DEF Good, Boxes
  <2> QED BY <2>2, <1>2 DEF OpenMenu, Inv, TypeOK
<1>3. CASE Stroll
  <2>1. PICK place \in Places : s' = [s EXCEPT !.pos = place, !.strolled = TRUE]
    BY <1>3 DEF Stroll
  <2>2. s' \in Locals /\ Held(s')
    BY <2>1, <1>1 DEF Good, Held, Locals
  <2> QED BY <2>2, <1>3 DEF Stroll, Inv, TypeOK
<1>4. CASE ChangeZone
  <2>1. Nothing \in [Events -> Nat] /\ NoWatch \in [age: 0..(Grace + 1), anchor: 0..2]
    BY BoundAssumption DEF Nothing, NoWatch
  <2>2. s' = [[s EXCEPT !.open = FALSE] EXCEPT
                 !.dlg = NoDialog, !.pending = Nothing, !.auto = Nothing,
                 !.menu = FALSE, !.watch = NoWatch, !.live = {}]
    BY <1>4 DEF ChangeZone, CloseScope
  <2>3. s' \in Locals /\ s'.dlg = NoDialog
    BY <2>1, <2>2, <1>1, NoDialogTyped DEF Good, Locals
  <2>4. <<>> \in Seq(Datagrams) /\ <<>> \in Seq(ToClient)
    OBVIOUS
  <2> QED BY <2>3, <2>4, <1>4 DEF ChangeZone, Inv, TypeOK, Held
<1> QED BY <1>2, <1>3, <1>4

LEMMA OutsideKeepsInv ==
    ASSUME Inv, Command \/ LinkDown \/ LinkUp \/ Lose
    PROVE  Inv'
<1>1. used \in Budget
  BY DEF Inv, TypeOK, Budget
<1>2. CASE Command
  <2>1. cmds \in Seq(Orders) /\ s.box \in Boxes
    BY DEF Inv, TypeOK, Locals, Orders
  <2>2. [k |-> "end", ev |-> NoEvent] \in Orders /\ [k |-> "choice", ev |-> s.box] \in Orders
    BY <2>1 DEF Orders, Boxes
  <2>3. cmds' \in Seq(Orders)
    BY <1>2, <2>1, <2>2 DEF Command
  <2> QED BY <1>2, <2>3 DEF Command, Inv, TypeOK, Held, Orders
<1>3. CASE LinkDown
  <2>1. used' \in Budget
    BY <1>1, <1>3, CountTyped DEF LinkDown
  <2> QED BY <1>3, <2>1 DEF LinkDown, Inv, TypeOK, Held, Budget
<1>4. CASE LinkUp
  BY <1>4 DEF LinkUp, Inv, TypeOK, Held
<1>5. CASE Lose
  <2>1. used' \in Budget
    BY <1>1, <1>5, CountTyped DEF Lose
  <2>2. toServer' \in Seq(Datagrams)
    BY <1>5 DEF Lose, Inv, TypeOK
  <2> QED BY <1>5, <2>1, <2>2 DEF Lose, Inv, TypeOK, Held, Budget
<1> QED BY <1>2, <1>3, <1>4, <1>5

LEMMA ServerKeepsInv ==
    ASSUME Inv, Server
    PROVE  Inv'
<1>1. /\ toClient \in Seq(ToClient) /\ used \in Budget
      /\ srv \in Events \cup {NoEvent} /\ toServer \in Seq(Datagrams)
  BY DEF Inv, TypeOK, Budget
<1>2. UNCHANGED <<s, link, cmds>>
  BY DEF Server, Trigger, Drop, ServeEnd, ServeTag, ServeNone
<1> SUFFICES /\ toClient' \in Seq(ToClient) /\ used' \in Budget
             /\ srv' \in Events \cup {NoEvent} /\ toServer' \in Seq(Datagrams)
  BY <1>2 DEF Inv, TypeOK, Held, Budget
<1>3. CASE Trigger
  BY <1>1, <1>3, SayTyped, CountTyped DEF Trigger
<1>4. CASE Drop
  BY <1>1, <1>4, SayTyped, CountTyped DEF Drop
<1>5. toServer # <<>> => Tail(toServer) \in Seq(Datagrams) /\ Head(toServer) \in Datagrams
  BY <1>1
<1>6. CASE ServeEnd
  <2>1. toServer' \in Seq(Datagrams)
    BY <1>5, <1>6 DEF ServeEnd
  <2>2. CASE srv' = NoEvent /\ toClient' = toClient \o Say("ack", NoEvent) /\ UNCHANGED used
    BY <2>1, <2>2, <1>1, SayTyped DEF Replies
  <2>3. ASSUME NEW e \in Events, srv' = e,
               toClient' = toClient \o Say("EVENT", e) \o Say("ack", NoEvent),
               used' = [used EXCEPT !.triggers = used.triggers + 1]
        PROVE  /\ toClient' \in Seq(ToClient) /\ used' \in Budget
               /\ srv' \in Events \cup {NoEvent}
    <3>1. toClient \o Say("EVENT", e) \in Seq(ToClient)
      BY <1>1, SayTyped
    <3> QED BY <2>3, <3>1, <1>1, SayTyped, CountTyped DEF Replies
  <2> QED BY <1>6, <2>1, <2>2, <2>3 DEF ServeEnd
<1>7. CASE ServeTag
  <2>1. PICK m \in Names("TAG") :
          toClient' = toClient \o (IF "reply" \in m.need THEN Say("reply", m.ev) ELSE <<>>)
                               \o (IF "ack" \in m.need THEN Say("ack", m.ev) ELSE <<>>)
    BY <1>7 DEF ServeTag
  <2>2. m.ev \in Events
    BY <1>5, <1>7 DEF ServeTag, Names, Datagrams
  <2> DEFINE q == toClient \o (IF "reply" \in m.need THEN Say("reply", m.ev) ELSE <<>>)
  <2>3. q \in Seq(ToClient)
    BY <1>1, <2>2, SayTyped DEF Replies
  <2>4. q \o (IF "ack" \in m.need THEN Say("ack", m.ev) ELSE <<>>) \in Seq(ToClient)
    <3> HIDE DEF q
    <3> QED BY <2>2, <2>3, SayTyped DEF Replies
  <2>5. toServer' \in Seq(Datagrams) /\ srv' = srv /\ used' = used
    BY <1>5, <1>7 DEF ServeTag
  <2> QED BY <2>1, <2>4, <2>5, <1>1
<1>8. CASE ServeNone
  BY <1>1, <1>5, <1>8 DEF ServeNone
<1> QED BY <1>3, <1>4, <1>6, <1>7, <1>8 DEF Server

LEMMA InitInv == Init => Inv
<1> SUFFICES ASSUME Init PROVE Inv
  OBVIOUS
<1>1. PICK E \in {{}} \cup {{e} : e \in Events} :
        /\ s = [dlg |-> NoDialog,
                pending |-> [e \in Events |-> IF e \in E THEN 1 ELSE 0],
                auto |-> Nothing, open |-> FALSE,
                box |-> IF E = {} THEN NoEvent ELSE CHOOSE e \in E : TRUE,
                menu |-> FALSE, pos |-> 0, dead |-> FALSE,
                watch |-> NoWatch, out |-> <<>>, live |-> E, strolled |-> FALSE]
        /\ srv = IF E = {} THEN NoEvent ELSE CHOOSE e \in E : TRUE
        /\ used = [triggers |-> IF E = {} THEN 0 ELSE 1,
                   cancels |-> 0, lost |-> 0, outages |-> 0, resend |-> 0]
  BY DEF Init
<1>2. E \subseteq Events
  OBVIOUS
<1>3. (IF E = {} THEN NoEvent ELSE CHOOSE e \in E : TRUE) \in Events \cup {NoEvent}
  <2>1. E # {} => (CHOOSE e \in E : TRUE) \in E
    OBVIOUS
  <2> QED BY <2>1, <1>2
<1>4. [e \in Events |-> IF e \in E THEN 1 ELSE 0] \in [Events -> Nat]
  OBVIOUS
<1>5. Nothing \in [Events -> Nat] /\ NoWatch \in [age: 0..(Grace + 1), anchor: 0..2]
  BY BoundAssumption DEF Nothing, NoWatch
<1>6. <<>> \in Seq(Datagrams)
  OBVIOUS
<1>7. s \in Locals /\ s.dlg = NoDialog
  BY <1>1, <1>2, <1>3, <1>4, <1>5, <1>6, NoDialogTyped DEF Locals, Boxes, Places
<1>8. used \in [triggers: Nat, cancels: Nat, lost: Nat, outages: Nat, resend: Nat]
  BY <1>1
<1>9. srv \in Events \cup {NoEvent}
  BY <1>1, <1>3
<1>10. /\ link \in BOOLEAN /\ cmds \in Seq([k: {"choice", "end"}, ev: Boxes])
       /\ toServer \in Seq(Datagrams) /\ toClient \in Seq(ToClient)
  BY DEF Init
<1> QED BY <1>7, <1>8, <1>9, <1>10 DEF Inv, TypeOK, Held

\* The inductive invariant: types, and a running script's event is owed its
\* EVENT_END and pinned.
THEOREM InvInductive == Spec => []Inv
<1>1. Inv /\ [Next]_vars => Inv'
  <2> SUFFICES ASSUME Inv, [Next]_vars PROVE Inv'
    OBVIOUS
  <2>1. CASE Loop
    BY <2>1, CommandsKeepInv, TicksKeepInv, ReceivesKeepInv, HalfKeepsInv, AnswerKeepsInv,
       QuietStepsKeepInv, Zenon DEF Loop
  <2>2. CASE Command \/ LinkDown \/ LinkUp \/ Lose
    BY <2>2, OutsideKeepsInv
  <2>3. CASE Server
    BY <2>3, ServerKeepsInv
  <2>4. CASE UNCHANGED vars
    BY <2>4 DEF vars, Inv, TypeOK, Held
  <2> QED BY <2>1, <2>2, <2>3, <2>4, Zenon DEF Next
<1> QED BY InitInv, <1>1, PTL DEF Spec

\* Every trigger in flight names an event, a held tag never counts past its
\* grace, and what the loop holds is what its declarations allow.
THEOREM TypesHold == Spec => []TypeOK
<1>1. Inv => TypeOK
  BY DEF Inv
<1> QED BY InvInductive, <1>1, PTL

\* A running script's event still owes its END, and no handler closes its
\* cutscene scope.
THEOREM ScriptsStand == Spec => []ScriptStands
<1>1. Inv => ScriptStands
  BY ScriptTyped DEF Inv, Held, ScriptStands
<1> QED BY InvInductive, <1>1, PTL

-----------------------------------------------------------------------------
(* The link.                                                               *)

\* The link stays up when it may not go down.
LEMMA LinkStays ==
    ASSUME Inv, link = TRUE, MaxOutages = 0, [Next]_vars
    PROVE  link' = TRUE
<1>1. ~LinkDown
  BY BoundAssumption DEF LinkDown, Inv, TypeOK
<1>2. CASE Loop
  BY <1>2 DEF Loop, EndMenu, EndScript, EndPinned, ChooseInMenu, ChooseInScript, ChooseRaw,
     TickQuiet, TickScript, ReceiveEvent, ReceiveCancel, ReceiveStray, ReceiveHalf,
     ReceiveAnswer, OpenMenu, Stroll, ChangeZone
<1>3. CASE ~Loop
  BY <1>1, <1>3 DEF Next, Command, LinkUp, Lose, Server, Trigger, Drop, ServeEnd, ServeTag,
     ServeNone, vars
<1> QED BY <1>2, <1>3

-----------------------------------------------------------------------------
(* A pin has an owner.  A driven step whose send fails leaves the scope     *)
(* open (OverIsReleased), so this is for a link that does not fail.        *)

Owned(t) == t.open => Owed(t.pending) # {}

InvOwned == Inv /\ link = TRUE /\ Owned(s)

LEMMA ScriptOwned ==
    ASSUME NEW t, Good(t), t.dlg # NoDialog
    PROVE  Owned(t)
BY DEF Good, Held, Owned, Owed

LEMMA FinishOwned ==
    ASSUME NEW t \in Locals
    PROVE  Owned(Finish(t))
BY DEF Finish, CloseScope, Owned, Locals

LEMMA CommitOwned ==
    ASSUME NEW t, Good(t), Owned(t), Commit(t)
    PROVE  Owned(s')
BY DEF Good, Owned, Commit, Locals

LEMMA DriveOwned ==
    ASSUME NEW t, Good(t), NEW e \in Events, t.dlg \in ScriptOf(e),
           NEW r \in Results(e), NEW place \in Places
    PROVE  Owned(Drive(t, r, place))
<1> DEFINE p == Prepare(t, r, place)
           w == Wire(p, PreparedEnd(t, r))
<1>1. Good(p) /\ p.dlg = r.dlg /\ PreparedEnd(t, r) \in Datagrams
  BY PrepareGood
<1>2. Good(w) /\ w.dlg = r.dlg /\ w \in Locals
  BY <1>1, WireGood, WireKeeps DEF Good
<1>3. Drive(t, r, place) = Show(w, t.dlg, r)
  BY Zenon DEF Drive
<1> HIDE DEF w
<1>4. CASE Over(r)
  BY <1>2, <1>3, <1>4, FinishOwned DEF Show
<1>5. CASE ~Over(r)
  <2> DEFINE u == IF t.dlg.park \in Frames /\ r.dlg.park \notin Frames
                  THEN [w EXCEPT !.box = NoEvent] ELSE w
  <2>1. u \in Locals /\ u.dlg = r.dlg
    BY <1>2 DEF Locals, Boxes
  <2>2. r.dlg.need \in SUBSET Replies /\ t.dlg.ev \in Events
    BY ScriptTyped, NoDialogTyped DEF Results
  <2>3. Wire(u, TagOf(t.dlg.ev, r.dlg.need)).dlg = r.dlg
    BY <2>1, <2>2, TagTyped, WireKeeps
  <2>4. [w EXCEPT !.box = t.dlg.ev].dlg = r.dlg
    BY <1>2 DEF Locals
  <2>5. Drive(t, r, place).dlg = r.dlg
    BY <1>3, <1>5, <2>1, <2>3, <2>4, Zenon DEF Show
  <2>6. Good(Drive(t, r, place))
    BY DriveGood
  <2> QED BY <1>5, <2>5, <2>6, ScriptOwned DEF Over
<1> QED BY <1>4, <1>5

LEMMA ReleaseOwned ==
    ASSUME NEW t, Good(t), Owned(t)
    PROVE  Owned(Release(t))
<1> DEFINE u == Watched(t)
           released == Owed(u.auto) \cup (IF Flushes(u) THEN Owed(u.pending) ELSE {})
           f == [Flush(u) EXCEPT !.auto = Nothing]
<1>1. Good(u) /\ u.pending = t.pending /\ u.open = t.open
  BY WatchedGood DEF Watched, Good, Locals
<1> HIDE DEF u
<1>2. u \in Locals /\ Flush(u) \in Locals
  BY <1>1, FlushGood DEF Good
<1>3. Owned(Flush(u))
  <2>1. CASE Flushes(u)
    <3>1. Finish(u).open = FALSE /\ Finish(u) \in Locals
      BY <1>2 DEF Finish, CloseScope, Locals, Boxes
    <3>2. Flush(u).open = FALSE
      BY <2>1, <3>1 DEF Flush, Locals
    <3> QED BY <3>2 DEF Owned
  <2>2. CASE ~Flushes(u)
    BY <2>2, <1>1 DEF Flush, Owned
  <2> QED BY <2>1, <2>2
<1>4. f \in Locals /\ Owned(f)
  BY <1>2, <1>3 DEF Nothing, Owned, Locals
<1>5. EndOf(released) \in Datagrams
  BY EndTyped DEF Owed
<1>6. Owned(Wire(f, EndOf(released)))
  BY <1>4, <1>5, WireKeeps DEF Owned
<1> QED BY <1>6, Zenon DEF Release, u

LEMMA BeginOwned ==
    ASSUME NEW t \in Locals, NEW e \in Events, NEW r \in Results(e)
    PROVE  Owned(Begin(t, e, r))
<1> DEFINE u == [Push(OpenScope(t), e) EXCEPT !.dlg = r.dlg]
           p == [t.pending EXCEPT ![e] = @ + 1]
<1>1. CASE Over(r)
  <2>1. Begin(t, e, r) = [CloseScope(t) EXCEPT !.dlg = NoDialog, !.auto = More(t.auto, e)]
    BY <1>1 DEF Begin
  <2> QED BY <2>1 DEF Owned, CloseScope, Locals
<1>2. CASE ~Over(r)
  <2>1. p \in [Events -> Nat] /\ p[e] > 0
    BY DEF Locals
  <2>2. u = [t EXCEPT !.open = TRUE, !.pending = p, !.strolled = FALSE, !.dlg = r.dlg]
    BY DEF Push, OpenScope, More, Locals
  <2>3. r.dlg \in Dialogs /\ r.dlg.need \in SUBSET Replies
    BY ScriptTyped, NoDialogTyped DEF Results
  <2>4. u \in Locals /\ u.pending = p
    <3> HIDE DEF p
    <3> QED BY <2>1, <2>2, <2>3 DEF Locals
  <2> HIDE DEF u, p
  <2>5. Wire(u, TagOf(e, r.dlg.need)).pending = p /\ [u EXCEPT !.box = e].pending = p
    BY <2>3, <2>4, TagTyped, WireKeeps DEF Locals
  <2>6. Begin(t, e, r).pending = p
    BY <1>2, <2>4, <2>5, Zenon DEF Begin, u
  <2> QED BY <2>1, <2>6 DEF Owned, Owed
<1> QED BY <1>1, <1>2

LEMMA LoopOwned ==
    ASSUME InvOwned, Loop
    PROVE  Owned(s')
<1>1. Good(s) /\ s \in Locals /\ Owned(s) /\ Inv /\ ~(~link)
  BY DEF InvOwned, Inv, TypeOK, Good
<1>2. ASSUME NEW t, Good(t), Owned(t), Commit(t) PROVE Owned(s')
  BY <1>2, CommitOwned
<1>3. \A r, place, moved : ~SendFails(s, r, moved)
  BY <1>1 DEF SendFails
<1>4. ASSUME s.dlg # NoDialog, NEW R, R \subseteq Results(s.dlg.ev), DriveOrAbort(R)
      PROVE  Owned(s')
  <2>1. PICK r \in R, place \in Places : Commit(Drive(s, r, place))
    BY <1>3, <1>4, Zenon DEF DriveOrAbort
  <2>2. r \in Results(s.dlg.ev)
    BY <1>4
  <2>3. Good(Drive(s, r, place)) /\ Owned(Drive(s, r, place))
    BY <1>1, <1>4, <2>2, ScriptRuns, DriveGood, DriveOwned
  <2> QED BY <2>1, <2>3, <1>2
<1>5. CASE EndMenu \/ ChooseInMenu
  <2>1. PICK m \in BOOLEAN, b \in Boxes : Commit([s EXCEPT !.menu = m, !.box = b])
    BY <1>5 DEF EndMenu, ChooseInMenu, Boxes
  <2>2. Good([s EXCEPT !.menu = m, !.box = b])
    BY <1>1, MenuGood
  <2>3. Owned([s EXCEPT !.menu = m, !.box = b])
    BY <1>1 DEF Owned, Locals
  <2> QED BY <2>1, <2>2, <2>3, <1>2
<1>6. CASE EndScript
  <2>1. s.dlg # NoDialog /\ DriveOrAbort(ByCancel(s.dlg))
    BY <1>6 DEF EndScript
  <2> QED BY <2>1, <1>1, <1>4, ScriptRuns, MovesTyped
<1>7. CASE ChooseInScript
  <2>1. s.dlg # NoDialog /\ DriveOrAbort(ByChoice(s.dlg))
    BY <1>7 DEF ChooseInScript
  <2> QED BY <2>1, <1>1, <1>4, ScriptRuns, MovesTyped
<1>8. CASE EndPinned \/ ChooseRaw \/ ReceiveCancel
  <2>1. \E t \in Locals : Commit(Finish(t))
    <3>1. CASE EndPinned
      <4> DEFINE t == [s EXCEPT !.pending = Nothing]
      <4>1. t \in Locals /\ EndOf(Owed(s.pending)) \in Datagrams
        BY <1>1, EndTyped DEF Nothing, Locals, Owed
      <4> QED BY <3>1, <4>1, WireKeeps DEF EndPinned
    <3>2. CASE ChooseRaw
      <4> DEFINE e == Head(cmds).ev
                 w == Wire(s, EndOf({e}))
                 t == IF e \in Events THEN Take(w, e) ELSE s
      <4>1. Commit(Finish(t))
        BY <3>2, Zenon DEF ChooseRaw
      <4>2. ASSUME e \in Events PROVE Take(w, e) \in Locals
        <5>1. w \in Locals
          BY <1>1, <4>2, EndTyped, WireKeeps
        <5> HIDE DEF w, e
        <5>2. None(w.pending, e) \in [Events -> Nat]
          BY <5>1, <4>2 DEF None, Locals
        <5> QED BY <5>1, <5>2 DEF Take, Locals
      <4> QED BY <4>1, <4>2, <1>1
    <3>3. CASE ReceiveCancel
      <4>1. [s EXCEPT !.dlg = NoDialog, !.pending = Nothing, !.live = {}] \in Locals
        BY <1>1, NoDialogTyped DEF Nothing, Locals
      <4> QED BY <3>3, <4>1 DEF ReceiveCancel
    <3> QED BY <1>8, <3>1, <3>2, <3>3
  <2>2. PICK t \in Locals : Commit(Finish(t))
    BY <2>1
  <2>3. s'.open = FALSE
    BY <2>2 DEF Commit, Finish, CloseScope, Locals
  <2> QED BY <2>3 DEF Owned
<1>9. CASE TickQuiet
  BY <1>9, <1>1, <1>2, ReleaseGood, ReleaseOwned DEF TickQuiet
<1>10. CASE TickScript
  <2>1. s.dlg # NoDialog
    BY <1>10 DEF TickScript
  <2>2. PICK r \in ByTick(s.dlg), place \in Places : Commit(Release(Drive(s, r, place)))
    BY <1>10, <1>3, Zenon DEF TickScript
  <2>3. r \in Results(s.dlg.ev)
    BY <2>1, <1>1, ScriptRuns, MovesTyped
  <2>4. Good(Drive(s, r, place)) /\ Owned(Drive(s, r, place))
    BY <1>1, <2>1, <2>3, ScriptRuns, DriveGood, DriveOwned
  <2> QED BY <2>2, <2>4, <1>2, ReleaseGood, ReleaseOwned
<1>11. CASE ReceiveEvent
  <2> DEFINE e == Head(toClient).ev
             t == [s EXCEPT !.live = s.live \cup {e}]
  <2>1. PICK r \in Run(e, FALSE) : Commit(Begin(t, e, r))
    BY <1>11 DEF ReceiveEvent
  <2>2. e \in Events
    BY <1>11, <1>1, ArrivesTyped DEF ReceiveEvent
  <2>3. t \in Locals
    BY <1>1, <2>2 DEF Locals
  <2>4. r \in Results(e)
    BY <2>2, RunTyped
  <2> QED BY <2>1, <2>2, <2>3, <2>4, <1>2, BeginGood, BeginOwned
<1>12. CASE ReceiveAnswer
  <2>1. s.dlg # NoDialog
    BY <1>12 DEF ReceiveAnswer, Matches, NoDialog
  <2>2. PICK r \in Run(s.dlg.ev, s.dlg.ctl), place \in Places : Commit(Drive(s, r, place))
    BY <1>12, <1>3, Zenon DEF ReceiveAnswer
  <2>3. r \in Results(s.dlg.ev)
    BY <1>1, <2>1, ScriptRuns, RunTyped
  <2>4. Good(Drive(s, r, place)) /\ Owned(Drive(s, r, place))
    BY <1>1, <2>1, <2>3, ScriptRuns, DriveGood, DriveOwned
  <2> QED BY <2>2, <2>4, <1>2
<1>13. CASE ReceiveHalf
  <2>1. s'.open = s.open /\ s'.pending = s.pending
    BY <1>13, <1>1 DEF ReceiveHalf, Commit, Locals
  <2> QED BY <2>1, <1>1 DEF Owned
<1>14. CASE ReceiveStray \/ OpenMenu \/ Stroll
  <2>1. s'.open = s.open /\ s'.pending = s.pending
    BY <1>14, <1>1 DEF ReceiveStray, OpenMenu, Stroll, Locals
  <2> QED BY <2>1, <1>1 DEF Owned
<1>15. CASE ChangeZone
  <2>1. s'.open = FALSE
    BY <1>15, <1>1 DEF ChangeZone, CloseScope, Locals
  <2> QED BY <2>1 DEF Owned
<1> QED BY <1>5, <1>6, <1>7, <1>8, <1>9, <1>10, <1>11, <1>12, <1>13, <1>14, <1>15, <1>1,
           Zenon DEF Loop

\* The player is pinned only while a script runs or an event is pinned, so
\* that something will release him, as long as the link does not fail: every
\* handler that takes the last entry closes the scope.
THEOREM PinsHaveOwners == MaxOutages = 0 => (Spec => []PinHasOwner)
<1> SUFFICES ASSUME MaxOutages = 0 PROVE Spec => []PinHasOwner
  OBVIOUS
<1>1. Init => InvOwned
  <2> SUFFICES ASSUME Init PROVE InvOwned
    OBVIOUS
  <2>1. s.open = FALSE /\ link = TRUE
    BY DEF Init
  <2> QED BY <2>1, InitInv DEF InvOwned, Owned
<1>2. InvOwned /\ Inv' /\ [Next]_vars => InvOwned'
  <2> SUFFICES ASSUME InvOwned, Inv', [Next]_vars PROVE InvOwned'
    OBVIOUS
  <2>1. Owned(s) /\ link' = TRUE
    BY LinkStays DEF InvOwned
  <2>2. CASE Loop
    BY <2>1, <2>2, LoopOwned DEF InvOwned
  <2>3. CASE ~Loop
    <3>1. s' = s
      BY <2>3 DEF Next, Command, LinkDown, LinkUp, Lose, Server, Trigger, Drop, ServeEnd,
         ServeTag, ServeNone, vars
    <3> QED BY <3>1, <2>1 DEF InvOwned, Owned
  <2> QED BY <2>2, <2>3
<1>3. InvOwned => PinHasOwner
  BY DEF InvOwned, Owned, PinHasOwner
<1> QED BY <1>1, <1>2, <1>3, InvInductive, PTL DEF Spec

-----------------------------------------------------------------------------
(* A script's frame is on screen.  A local menu takes the box over, and an  *)
(* answer whose send fails runs the script on and shows nothing, so this is *)
(* for a session without local menus whose link does not fail.              *)

Shown(t) == t.dlg.park \in Frames => t.box = t.dlg.ev

InvShown == Inv /\ link = TRUE /\ ~s.menu /\ Shown(s)

\* A result that leaves the script of d on a frame says so, or is d itself.
Framed(d, r) == r.dlg.park \in Frames => r.out = "frame" \/ r.dlg = d

LEMMA IdleShown ==
    ASSUME NEW t, t.dlg = NoDialog
    PROVE  Shown(t)
BY DEF Shown, NoDialog, Frames

LEMMA RunFramed ==
    ASSUME NEW e, NEW ctl, NEW r \in Run(e, ctl)
    PROVE  r.dlg.park \in Frames => r.out = "frame"
BY DEF Run, Outcome, NoDialog, Frames

LEMMA MovesFramed ==
    ASSUME NEW e \in Events, NEW d \in ScriptOf(e)
    PROVE  /\ \A r \in ByTick(d) : Framed(d, r)
           /\ \A r \in ByChoice(d) : Framed(d, r)
           /\ \A r \in ByCancel(d) : Framed(d, r)
<1>1. d.park \in {"frame", "auto", "wait", "tag"}
  BY DEF ScriptOf, Frames
<1>2. \A r \in Run(d.ev, d.ctl) : Framed(d, r)
  BY RunFramed DEF Framed
<1>3. Framed(d, Unmoved(d)) /\ Framed(d, Stalled)
  BY DEF Framed, Unmoved, Stalled, NoDialog, Frames
<1>4. ASSUME d.park = "tag"
      PROVE  Framed(d, Reemit(d)) /\ Framed(d, Unmoved([d EXCEPT !.age = @ + 1]))
  <2>1. [d EXCEPT !.age = 0].park = "tag" /\ [d EXCEPT !.age = @ + 1].park = "tag"
    BY <1>4 DEF ScriptOf
  <2> QED BY <2>1 DEF Framed, Reemit, Unmoved, Frames
<1>5. \A r \in ByTick(d) : Framed(d, r)
  BY <1>1, <1>2, <1>3, <1>4 DEF ByTick
<1>6. \A r \in ByChoice(d) : Framed(d, r)
  BY <1>2, <1>4 DEF ByChoice
<1>7. \A r \in ByCancel(d) : Framed(d, r)
  BY <1>1, <1>2, <1>3, <1>4 DEF ByCancel, Frames
<1> QED BY <1>5, <1>6, <1>7

LEMMA WireShows ==
    ASSUME NEW t \in Locals, NEW msgs
    PROVE  /\ Wire(t, msgs).dlg = t.dlg /\ Wire(t, msgs).box = t.box
           /\ Wire(t, msgs).menu = t.menu
BY DEF Wire, Locals

LEMMA CommitShown ==
    ASSUME NEW t \in Locals, Shown(t), ~t.menu, Commit(t)
    PROVE  Shown(s') /\ ~s'.menu
<1>1. s'.dlg = t.dlg /\ s'.box = t.box /\ s'.menu = t.menu
  BY DEF Commit, Locals
<1> QED BY <1>1 DEF Shown

LEMMA DriveShown ==
    ASSUME NEW t, Good(t), Shown(t), NEW e \in Events, t.dlg \in ScriptOf(e),
           NEW r \in Results(e), Framed(t.dlg, r), NEW place \in Places
    PROVE  Shown(Drive(t, r, place)) /\ Drive(t, r, place).menu = t.menu
<1> DEFINE p == Prepare(t, r, place)
           w == Wire(p, PreparedEnd(t, r))
           u == IF t.dlg.park \in Frames /\ r.dlg.park \notin Frames
                THEN [w EXCEPT !.box = NoEvent] ELSE w
           sent == Wire(u, TagOf(t.dlg.ev, r.dlg.need))
           framed == [w EXCEPT !.box = t.dlg.ev]
<1>1. t \in Locals /\ t.dlg.ev = e
  BY ScriptTyped DEF Good
<1>2. Good(p) /\ p.dlg = r.dlg /\ PreparedEnd(t, r) \in Datagrams
  BY PrepareGood
<1>3. p.box = t.box /\ p.menu = t.menu
  BY <1>1 DEF Prepare, Locals
<1>4. w \in Locals /\ w.dlg = r.dlg /\ w.box = t.box /\ w.menu = t.menu
  <2>1. p \in Locals
    BY <1>2 DEF Good
  <2> HIDE DEF p
  <2> QED BY <2>1, <1>2, <1>3, WireKeeps, WireShows
<1>5. Drive(t, r, place) = Show(w, t.dlg, r)
  BY Zenon DEF Drive
<1>6. Show(w, t.dlg, r) =
        IF Over(r) THEN Finish(w)
        ELSE IF r.out = "frame" THEN framed
        ELSE IF r.out = "tag" THEN sent ELSE u
  BY Zenon DEF Show
<1> HIDE DEF w, p
<1>7. CASE Over(r)
  <2>1. Finish(w).dlg = NoDialog /\ Finish(w).menu = t.menu
    BY <1>4, <1>7 DEF Finish, CloseScope, Over, Locals
  <2> QED BY <2>1, <1>5, <1>6, <1>7, IdleShown
<1>8. CASE ~Over(r) /\ r.out = "frame"
  <2>1. r.dlg \in ScriptOf(e)
    BY <1>8 DEF Over, Results
  <2>2. r.dlg.ev = e
    BY <2>1, ScriptTyped
  <2>3. framed.dlg = r.dlg /\ framed.box = e /\ framed.menu = t.menu
    BY <1>1, <1>4 DEF Locals
  <2>4. Drive(t, r, place) = framed
    BY <1>5, <1>6, <1>8, Zenon
  <2> HIDE DEF framed
  <2> QED BY <2>2, <2>3, <2>4 DEF Shown
<1>9. CASE ~Over(r) /\ r.out # "frame"
  <2>1. u \in Locals /\ u.dlg = r.dlg /\ u.menu = t.menu
    BY <1>4 DEF Locals, Boxes
  <2>2. r.dlg.park \in Frames => u.box = r.dlg.ev
    <3> SUFFICES ASSUME r.dlg.park \in Frames PROVE u.box = r.dlg.ev
      OBVIOUS
    <3>1. r.dlg = t.dlg
      BY <1>9 DEF Framed
    <3>2. u = w
      BY Zenon
    <3> QED BY <3>1, <3>2, <1>4 DEF Shown
  <2> HIDE DEF u
  <2>3. sent.dlg = r.dlg /\ sent.menu = t.menu /\ sent.box = u.box
    BY <2>1, WireShows
  <2>4. Drive(t, r, place) = sent \/ Drive(t, r, place) = u
    BY <1>5, <1>6, <1>9, Zenon
  <2> HIDE DEF sent
  <2> QED BY <2>1, <2>2, <2>3, <2>4 DEF Shown
<1> QED BY <1>7, <1>8, <1>9

LEMMA ReleaseShown ==
    ASSUME NEW t, Good(t), Shown(t)
    PROVE  Shown(Release(t)) /\ Release(t).menu = t.menu
<1> DEFINE u == Watched(t)
           released == Owed(u.auto) \cup (IF Flushes(u) THEN Owed(u.pending) ELSE {})
           f == [Flush(u) EXCEPT !.auto = Nothing]
<1>1. Good(u) /\ u.dlg = t.dlg /\ u.box = t.box /\ u.menu = t.menu
  BY WatchedGood DEF Watched, Good, Locals
<1> HIDE DEF u
<1>2. Good(Flush(u)) /\ Flush(u) \in Locals /\ u \in Locals
  BY <1>1, FlushGood DEF Good
<1>3. Shown(Flush(u)) /\ Flush(u).menu = t.menu
  <2>1. CASE ~Flushes(u)
    BY <2>1, <1>1 DEF Flush, Shown
  <2>2. CASE Flushes(u)
    <3>1. u.dlg # NoDialog => WalkedAway(u) /\ u.pending[u.dlg.ev] > 0
      BY <2>2, <1>1, ScriptTyped DEF Flushes, Good, Held
    <3>2. Finish(u) \in Locals /\ Finish(u).dlg = u.dlg /\ Finish(u).menu = u.menu
      BY <1>2 DEF Finish, CloseScope, Locals, Boxes
    <3>3. Flush(u).dlg = NoDialog /\ Flush(u).menu = u.menu
      BY <2>2, <3>1, <3>2 DEF Flush, Locals
    <3> QED BY <3>3, <1>1, IdleShown
  <2> QED BY <2>1, <2>2
<1>4. f \in Locals /\ f.dlg = Flush(u).dlg /\ f.box = Flush(u).box /\ f.menu = t.menu
  BY <1>2, <1>3 DEF Nothing, Locals
<1>5. Shown(f)
  BY <1>3, <1>4 DEF Shown
<1> HIDE DEF f
<1>6. Shown(Wire(f, EndOf(released))) /\ Wire(f, EndOf(released)).menu = t.menu
  BY <1>4, <1>5, WireShows DEF Shown
<1> QED BY <1>6, Zenon DEF Release, u, f

LEMMA BeginShown ==
    ASSUME NEW t \in Locals, NEW e \in Events, NEW r \in Run(e, FALSE)
    PROVE  Shown(Begin(t, e, r)) /\ Begin(t, e, r).menu = t.menu
<1> DEFINE u == [Push(OpenScope(t), e) EXCEPT !.dlg = r.dlg]
           p == [t.pending EXCEPT ![e] = @ + 1]
<1>1. r \in Results(e)
  BY RunTyped
<1>2. CASE Over(r)
  <2>1. Begin(t, e, r) = [CloseScope(t) EXCEPT !.dlg = NoDialog, !.auto = More(t.auto, e)]
    BY <1>2 DEF Begin
  <2>2. Begin(t, e, r).dlg = NoDialog /\ Begin(t, e, r).menu = t.menu
    BY <2>1 DEF CloseScope, Locals
  <2> QED BY <2>2, IdleShown
<1>3. CASE ~Over(r)
  <2>1. p \in [Events -> Nat]
    BY DEF Locals
  <2>2. u = [t EXCEPT !.open = TRUE, !.pending = p, !.strolled = FALSE, !.dlg = r.dlg]
    BY DEF Push, OpenScope, More, Locals
  <2>3. r.dlg \in Dialogs /\ r.dlg.ev = e
    BY <1>1, <1>3, ScriptTyped, NoDialogTyped DEF Results, Over
  <2>4. u \in Locals /\ u.dlg = r.dlg /\ u.menu = t.menu
    <3> HIDE DEF p
    <3> QED BY <2>1, <2>2, <2>3 DEF Locals
  <2> HIDE DEF u, p
  <2>5. CASE r.out = "frame"
    <3>1. Begin(t, e, r) = [u EXCEPT !.box = e]
      BY <1>3, <2>5, Zenon DEF Begin, u
    <3>2. Begin(t, e, r).box = e /\ Begin(t, e, r).dlg = r.dlg /\ Begin(t, e, r).menu = t.menu
      BY <3>1, <2>4 DEF Locals
    <3> QED BY <3>2, <2>3 DEF Shown
  <2>6. CASE r.out # "frame"
    <3>1. Begin(t, e, r) = Wire(u, TagOf(e, r.dlg.need)) \/ Begin(t, e, r) = u
      BY <1>3, <2>6, Zenon DEF Begin, u
    <3>2. Begin(t, e, r).dlg = r.dlg /\ Begin(t, e, r).menu = t.menu
      BY <3>1, <2>4, WireShows
    <3>3. r.dlg.park \notin Frames
      BY <2>6, RunFramed
    <3> QED BY <3>2, <3>3 DEF Shown
  <2> QED BY <2>5, <2>6
<1> QED BY <1>2, <1>3

LEMMA LoopShown ==
    ASSUME InvShown, Menus = FALSE, Loop
    PROVE  Shown(s') /\ ~s'.menu
<1>1. Good(s) /\ s \in Locals /\ Shown(s) /\ Inv /\ ~(~link) /\ ~s.menu
  BY DEF InvShown, Inv, TypeOK, Good
<1>2. ASSUME NEW t, Good(t), Shown(t), ~t.menu, Commit(t) PROVE Shown(s') /\ ~s'.menu
  BY <1>2, CommitShown DEF Good
<1>3. \A r, place, moved : ~SendFails(s, r, moved)
  BY <1>1 DEF SendFails
<1>4. ASSUME s.dlg # NoDialog, NEW r \in Results(s.dlg.ev), Framed(s.dlg, r), NEW place \in Places
      PROVE  /\ Good(Drive(s, r, place)) /\ Shown(Drive(s, r, place))
             /\ ~Drive(s, r, place).menu
  BY <1>1, <1>4, ScriptRuns, DriveGood, DriveShown
<1>5. ASSUME s.dlg # NoDialog, NEW R, R \subseteq Results(s.dlg.ev),
             \A r \in R : Framed(s.dlg, r), DriveOrAbort(R)
      PROVE  Shown(s') /\ ~s'.menu
  <2>1. PICK r \in R, place \in Places : Commit(Drive(s, r, place))
    BY <1>3, <1>5, Zenon DEF DriveOrAbort
  <2> QED BY <2>1, <1>5, <1>4, <1>2
<1>6. ASSUME NEW t \in Locals, t.dlg = NoDialog, ~t.menu, Commit(t) PROVE Shown(s') /\ ~s'.menu
  BY <1>6, IdleShown, CommitShown
<1>7. ASSUME NEW t \in Locals, t.dlg = NoDialog, ~t.menu
      PROVE  Finish(t) \in Locals /\ Finish(t).dlg = NoDialog /\ ~Finish(t).menu
  BY <1>7 DEF Finish, CloseScope, Locals, Boxes
<1>8. ~EndMenu /\ ~ChooseInMenu /\ ~OpenMenu
  BY <1>1 DEF EndMenu, ChooseInMenu, OpenMenu
<1>9. CASE EndScript
  <2>1. s.dlg # NoDialog /\ DriveOrAbort(ByCancel(s.dlg))
    BY <1>9 DEF EndScript
  <2> QED BY <2>1, <1>1, <1>5, ScriptRuns, MovesTyped, MovesFramed
<1>10. CASE ChooseInScript
  <2>1. s.dlg # NoDialog /\ DriveOrAbort(ByChoice(s.dlg))
    BY <1>10 DEF ChooseInScript
  <2> QED BY <2>1, <1>1, <1>5, ScriptRuns, MovesTyped, MovesFramed
<1>11. CASE EndPinned
  <2> DEFINE t == [s EXCEPT !.pending = Nothing]
             w == Wire(t, EndOf(Owed(s.pending)))
  <2>1. s.dlg = NoDialog /\ Commit(Finish(w))
    BY <1>11 DEF EndPinned
  <2>2. t \in Locals /\ EndOf(Owed(s.pending)) \in Datagrams /\ t.dlg = NoDialog /\ ~t.menu
    BY <2>1, <1>1, EndTyped DEF Nothing, Locals, Owed
  <2>3. w \in Locals /\ w.dlg = NoDialog /\ ~w.menu
    <3> HIDE DEF t
    <3> QED BY <2>2, WireKeeps, WireShows
  <2> HIDE DEF w
  <2> QED BY <2>1, <2>3, <1>6, <1>7
<1>12. CASE ChooseRaw
  <2> DEFINE e == Head(cmds).ev
             w == Wire(s, EndOf({e}))
             t == IF e \in Events THEN Take(w, e) ELSE s
  <2>1. s.dlg = NoDialog /\ Commit(Finish(t))
    BY <1>12, Zenon DEF ChooseRaw
  <2>2. ASSUME e \in Events
        PROVE  Take(w, e) \in Locals /\ Take(w, e).dlg = NoDialog /\ ~Take(w, e).menu
    <3>1. w \in Locals /\ w.dlg = NoDialog /\ ~w.menu
      BY <2>1, <2>2, <1>1, EndTyped, WireKeeps, WireShows
    <3> HIDE DEF w, e
    <3>2. None(w.pending, e) \in [Events -> Nat]
      BY <3>1, <2>2 DEF None, Locals
    <3> QED BY <3>1, <3>2 DEF Take, Locals
  <2>3. t \in Locals /\ t.dlg = NoDialog /\ ~t.menu
    BY <2>1, <2>2, <1>1
  <2> HIDE DEF t
  <2> QED BY <2>1, <2>3, <1>6, <1>7
<1>13. CASE TickQuiet
  BY <1>13, <1>1, <1>2, ReleaseGood, ReleaseShown DEF TickQuiet
<1>14. CASE TickScript
  <2>1. s.dlg # NoDialog
    BY <1>14 DEF TickScript
  <2>2. PICK r \in ByTick(s.dlg), place \in Places : Commit(Release(Drive(s, r, place)))
    BY <1>14, <1>3, Zenon DEF TickScript
  <2>3. r \in Results(s.dlg.ev) /\ Framed(s.dlg, r)
    BY <2>1, <1>1, ScriptRuns, MovesTyped, MovesFramed
  <2>4. Good(Drive(s, r, place)) /\ Shown(Drive(s, r, place)) /\ ~Drive(s, r, place).menu
    BY <2>1, <2>3, <1>4
  <2>5. /\ Good(Release(Drive(s, r, place))) /\ Shown(Release(Drive(s, r, place)))
        /\ ~Release(Drive(s, r, place)).menu
    BY <2>4, ReleaseGood, ReleaseShown
  <2> QED BY <2>2, <2>5, <1>2
<1>15. CASE ReceiveEvent
  <2> DEFINE e == Head(toClient).ev
             t == [s EXCEPT !.live = s.live \cup {e}]
  <2>1. PICK r \in Run(e, FALSE) : Commit(Begin(t, e, r))
    BY <1>15 DEF ReceiveEvent
  <2>2. e \in Events
    BY <1>15, <1>1, ArrivesTyped DEF ReceiveEvent
  <2>3. t \in Locals /\ ~t.menu
    BY <1>1, <2>2 DEF Locals
  <2>4. r \in Results(e)
    BY <2>2, RunTyped
  <2> HIDE DEF t, e
  <2> QED BY <2>1, <2>2, <2>3, <2>4, <1>2, BeginGood, BeginShown
<1>16. CASE ReceiveCancel
  <2> DEFINE t == [s EXCEPT !.dlg = NoDialog, !.pending = Nothing, !.live = {}]
  <2>1. t \in Locals /\ t.dlg = NoDialog /\ ~t.menu
    BY <1>1, NoDialogTyped DEF Nothing, Locals
  <2>2. Commit(Finish(t))
    BY <1>16 DEF ReceiveCancel
  <2> HIDE DEF t
  <2> QED BY <2>1, <2>2, <1>6, <1>7
<1>17. CASE ReceiveHalf
  <2>1. s.dlg.park = "tag"
    BY <1>17 DEF ReceiveHalf, Matches
  <2>2. s'.dlg.park = s.dlg.park /\ s'.menu = s.menu
    BY <1>17, <1>1 DEF ReceiveHalf, Commit, Locals, Dialogs
  <2> QED BY <2>1, <2>2, <1>1 DEF Shown, Frames
<1>18. CASE ReceiveAnswer
  <2>1. s.dlg # NoDialog
    BY <1>18 DEF ReceiveAnswer, Matches, NoDialog
  <2>2. PICK r \in Run(s.dlg.ev, s.dlg.ctl), place \in Places : Commit(Drive(s, r, place))
    BY <1>18, <1>3, Zenon DEF ReceiveAnswer
  <2>3. r \in Results(s.dlg.ev) /\ Framed(s.dlg, r)
    BY <1>1, <2>1, ScriptRuns, RunTyped, RunFramed DEF Framed
  <2> QED BY <2>1, <2>2, <2>3, <1>4, <1>2
<1>19. CASE ReceiveStray \/ Stroll
  <2>1. s'.dlg = s.dlg /\ s'.box = s.box /\ s'.menu = s.menu
    BY <1>19, <1>1 DEF ReceiveStray, Stroll, Locals
  <2> QED BY <2>1, <1>1 DEF Shown
<1>20. CASE ChangeZone
  <2>1. s'.dlg = NoDialog /\ s'.menu = FALSE
    BY <1>20, <1>1 DEF ChangeZone, CloseScope, Locals
  <2> QED BY <2>1, IdleShown
<1> QED BY <1>8, <1>9, <1>10, <1>11, <1>12, <1>13, <1>14, <1>15, <1>16, <1>17, <1>18, <1>19,
           <1>20, Zenon DEF Loop

\* A script that waits for an answer has its box on screen, as long as no
\* local menu takes the box over and the link does not fail: a dialog that
\* was dismissed was dismissed before the frame that replaced it.
THEOREM FramesAreShown == Menus = FALSE /\ MaxOutages = 0 => (Spec => []FrameIsShown)
<1> SUFFICES ASSUME Menus = FALSE, MaxOutages = 0 PROVE Spec => []FrameIsShown
  OBVIOUS
<1>1. Init => InvShown
  <2> SUFFICES ASSUME Init PROVE InvShown
    OBVIOUS
  <2>1. s.dlg = NoDialog /\ ~s.menu /\ link = TRUE
    BY DEF Init
  <2> QED BY <2>1, InitInv, IdleShown DEF InvShown
<1>2. InvShown /\ Inv' /\ [Next]_vars => InvShown'
  <2> SUFFICES ASSUME InvShown, Inv', [Next]_vars PROVE InvShown'
    OBVIOUS
  <2>1. Shown(s) /\ ~s.menu
    BY DEF InvShown
  <2>2. link' = TRUE
    BY LinkStays DEF InvShown
  <2>3. CASE Loop
    BY <2>2, <2>3, LoopShown DEF InvShown, Shown
  <2>4. CASE ~Loop
    <3>1. s' = s
      BY <2>4 DEF Next, Command, LinkDown, LinkUp, Lose, Server, Trigger, Drop, ServeEnd,
         ServeTag, ServeNone, vars
    <3> QED BY <3>1, <2>1, <2>2 DEF InvShown, Shown
  <2> QED BY <2>3, <2>4
<1>3. InvShown => FrameIsShown
  BY DEF InvShown, Shown, FrameIsShown
<1> QED BY <1>1, <1>2, <1>3, InvInductive, PTL DEF Spec

-----------------------------------------------------------------------------
(* What the loop owes the server, and the ENDs in a queue of datagrams.     *)

Owes(t)  == Owed(t.pending) \cup Owed(t.auto)
Ends(q)  == {i \in DOMAIN q : \E m \in q[i] : m.k = "END"}
Named(q) == {e \in Events : \E i \in DOMAIN q : \E m \in q[i] : m.k = "END" /\ m.ev = e}
Alone(S) == \A a, b \in S : a = b

\* One event at most is owed or has its END under way, in one place.
Lone(t) ==
    /\ Alone(Owes(t)) /\ Alone(Ends(t.out))
    /\ Owed(t.pending) = {} \/ Owed(t.auto) = {}
    /\ Owes(t) = {} \/ Ends(t.out) = {}

\* From t to u the loop owes nothing new, and what it stopped to owe it put
\* on the wire, if the link is up.
Hands(t, u) ==
    /\ Owes(u) \subseteq Owes(t)
    /\ link = TRUE => Owes(t) \subseteq Owes(u) \cup Named(u.out)
    /\ Named(t.out) \subseteq Named(u.out)
    /\ Named(u.out) \subseteq Named(t.out) \cup Owes(t)
    /\ Lone(t) => Lone(u)
    /\ u.live = t.live

LEMMA NamesAppend ==
    ASSUME NEW q \in Seq(Datagrams), NEW D \in Datagrams
    PROVE  /\ Named(Append(q, D)) =
                Named(q) \cup {e \in Events : \E m \in D : m.k = "END" /\ m.ev = e}
           /\ Ends(Append(q, D)) =
                Ends(q) \cup (IF \E m \in D : m.k = "END" THEN {Len(q) + 1} ELSE {})
<1> DEFINE a == Append(q, D)
<1>1. Len(q) \in Nat /\ DOMAIN q = 1..Len(q) /\ DOMAIN a = 1..(Len(q) + 1)
  OBVIOUS
<1>2. /\ \A i \in DOMAIN q : a[i] = q[i]
      /\ a[Len(q) + 1] = D
  OBVIOUS
<1>3. DOMAIN a = DOMAIN q \cup {Len(q) + 1}
  BY <1>1
<1> HIDE DEF a
<1>4. Named(a) = Named(q) \cup {e \in Events : \E m \in D : m.k = "END" /\ m.ev = e}
  BY <1>2, <1>3, Zenon DEF Named
<1>5. Ends(a) = Ends(q) \cup (IF \E m \in D : m.k = "END" THEN {Len(q) + 1} ELSE {})
  <2>1. \A i : i \in Ends(a) <=> i \in Ends(q) \/ (i = Len(q) + 1 /\ \E m \in D : m.k = "END")
    <3>1. Len(q) + 1 \notin DOMAIN q
      BY <1>1
    <3> QED BY <3>1, <1>2, <1>3, Zenon DEF Ends
  <2> QED BY <2>1
<1> QED BY <1>4, <1>5 DEF a

LEMMA NamesConcat ==
    ASSUME NEW p \in Seq(Datagrams), NEW q \in Seq(Datagrams)
    PROVE  /\ Named(p \o q) = Named(p) \cup Named(q)
           /\ Ends(p) = {} /\ Alone(Ends(q)) => Alone(Ends(p \o q))
           /\ Ends(q) = {} /\ Alone(Ends(p)) => Alone(Ends(p \o q))
           /\ Ends(p) = {} /\ Ends(q) = {} => Ends(p \o q) = {}
<1> DEFINE c == p \o q
<1>1. /\ Len(p) \in Nat /\ Len(q) \in Nat /\ DOMAIN p = 1..Len(p) /\ DOMAIN q = 1..Len(q)
      /\ DOMAIN c = 1..(Len(p) + Len(q))
  OBVIOUS
<1>2. /\ \A i \in DOMAIN p : i \in DOMAIN c /\ c[i] = p[i]
      /\ \A i \in DOMAIN q : Len(p) + i \in DOMAIN c /\ c[Len(p) + i] = q[i]
  OBVIOUS
<1>3. \A i \in DOMAIN c : i \in DOMAIN p \/ \E j \in DOMAIN q : i = Len(p) + j
  <2> SUFFICES ASSUME NEW i \in DOMAIN c, i \notin DOMAIN p PROVE \E j \in DOMAIN q : i = Len(p) + j
    OBVIOUS
  <2>1. i - Len(p) \in DOMAIN q /\ i = Len(p) + (i - Len(p))
    BY <1>1
  <2> QED BY <2>1
<1> HIDE DEF c
<1>4. Named(c) = Named(p) \cup Named(q)
  <2>1. Named(p) \subseteq Named(c)
    BY <1>2, Zenon DEF Named
  <2>2. Named(q) \subseteq Named(c)
    BY <1>2, Zenon DEF Named
  <2>3. Named(c) \subseteq Named(p) \cup Named(q)
    <3> SUFFICES ASSUME NEW e \in Named(c) PROVE e \in Named(p) \/ e \in Named(q)
      OBVIOUS
    <3>1. PICK i \in DOMAIN c : \E m \in c[i] : m.k = "END" /\ m.ev = e
      BY DEF Named
    <3>2. e \in Events
      BY DEF Named
    <3>3. CASE i \in DOMAIN p
      BY <3>1, <3>2, <3>3, <1>2, Zenon DEF Named
    <3>4. CASE i \notin DOMAIN p
      <4>1. PICK j \in DOMAIN q : i = Len(p) + j
        BY <3>4, <1>3
      <4>2. c[i] = q[j]
        BY <4>1, <1>2
      <4> QED BY <4>1, <4>2, <3>1, <3>2, Zenon DEF Named
    <3> QED BY <3>3, <3>4
  <2> QED BY <2>1, <2>2, <2>3
<1>5. \A i \in Ends(c) : i \in Ends(p) \/ \E j \in Ends(q) : i = Len(p) + j
  <2> SUFFICES ASSUME NEW i \in Ends(c), i \notin Ends(p) PROVE \E j \in Ends(q) : i = Len(p) + j
    OBVIOUS
  <2>1. i \in DOMAIN c /\ \E m \in c[i] : m.k = "END"
    BY DEF Ends
  <2>2. i \notin DOMAIN p
    BY <2>1, <1>2, Zenon DEF Ends
  <2>3. PICK j \in DOMAIN q : i = Len(p) + j
    BY <2>1, <2>2, <1>3
  <2>4. c[i] = q[j]
    BY <2>3, <1>2
  <2>5. j \in Ends(q)
    BY <2>1, <2>4, Zenon DEF Ends
  <2> QED BY <2>3, <2>5
<1> QED
  <2>1. Ends(p) = {} /\ Alone(Ends(q)) => Alone(Ends(c))
    BY <1>5 DEF Alone
  <2>2. Ends(q) = {} /\ Alone(Ends(p)) => Alone(Ends(c))
    BY <1>5 DEF Alone
  <2>3. Ends(p) = {} /\ Ends(q) = {} => Ends(c) = {}
    BY <1>5
  <2> QED BY <1>4, <2>1, <2>2, <2>3 DEF c

LEMMA NamesTail ==
    ASSUME NEW q \in Seq(Datagrams), q # <<>>
    PROVE  /\ Named(Tail(q)) \subseteq Named(q)
           /\ \A e \in Named(q) :
                e \in Named(Tail(q)) \/ \E m \in Head(q) : m.k = "END" /\ m.ev = e
           /\ Alone(Ends(q)) => Alone(Ends(Tail(q)))
           /\ Alone(Ends(q)) /\ (\E m \in Head(q) : m.k = "END") => Ends(Tail(q)) = {}
           /\ Ends(q) = {} => Ends(Tail(q)) = {}
<1> DEFINE r == Tail(q)
<1>1. /\ Len(q) \in Nat /\ Len(q) > 0 /\ DOMAIN q = 1..Len(q) /\ DOMAIN r = 1..(Len(q) - 1)
      /\ Head(q) = q[1] /\ 1 \in DOMAIN q
  OBVIOUS
<1>2. \A i \in DOMAIN r : i + 1 \in DOMAIN q /\ r[i] = q[i + 1] /\ i \in Nat /\ i > 0
  OBVIOUS
<1>3. \A i \in DOMAIN q : i = 1 \/ \E j \in DOMAIN r : i = j + 1
  <2> SUFFICES ASSUME NEW i \in DOMAIN q, i # 1 PROVE \E j \in DOMAIN r : i = j + 1
    OBVIOUS
  <2>1. i - 1 \in DOMAIN r /\ i = (i - 1) + 1
    BY <1>1
  <2> QED BY <2>1
<1> HIDE DEF r
<1>4. Named(r) \subseteq Named(q)
  BY <1>2, Zenon DEF Named
<1>5. \A e \in Named(q) : e \in Named(r) \/ \E m \in Head(q) : m.k = "END" /\ m.ev = e
  <2> SUFFICES ASSUME NEW e \in Named(q), ~(\E m \in Head(q) : m.k = "END" /\ m.ev = e)
               PROVE e \in Named(r)
    OBVIOUS
  <2>1. e \in Events
    BY DEF Named
  <2>2. PICK i \in DOMAIN q : \E m \in q[i] : m.k = "END" /\ m.ev = e
    BY DEF Named
  <2>3. i # 1
    BY <2>2, <1>1
  <2>4. PICK j \in DOMAIN r : i = j + 1
    BY <2>3, <1>3
  <2>5. r[j] = q[i]
    BY <2>4, <1>2
  <2> QED BY <2>1, <2>2, <2>5, Zenon DEF Named
<1>6. \A i \in Ends(r) : i + 1 \in Ends(q) /\ i \in Nat /\ i > 0
  <2> SUFFICES ASSUME NEW i \in Ends(r) PROVE i + 1 \in Ends(q) /\ i \in Nat /\ i > 0
    OBVIOUS
  <2>1. i \in DOMAIN r /\ \E m \in r[i] : m.k = "END"
    BY DEF Ends
  <2>2. i + 1 \in DOMAIN q /\ r[i] = q[i + 1] /\ i \in Nat /\ i > 0
    BY <2>1, <1>2
  <2> QED BY <2>1, <2>2, Zenon DEF Ends
<1>7. Alone(Ends(q)) => Alone(Ends(r))
  BY <1>6 DEF Alone
<1>8. (\E m \in Head(q) : m.k = "END") => 1 \in Ends(q)
  BY <1>1 DEF Ends
<1>9. Alone(Ends(q)) /\ (\E m \in Head(q) : m.k = "END") => Ends(r) = {}
  BY <1>6, <1>8 DEF Alone
<1>10. Ends(q) = {} => Ends(r) = {}
  BY <1>6
<1> QED BY <1>4, <1>5, <1>7, <1>9, <1>10 DEF r

LEMMA EndNames ==
    ASSUME NEW E \in SUBSET Events
    PROVE  /\ {e \in Events : \E m \in EndOf(E) : m.k = "END" /\ m.ev = e} = E
           /\ E # {} => (\E m \in EndOf(E) : m.k = "END") /\ EndOf(E) # {}
           /\ E = {} => EndOf(E) = {}
<1>1. \A e \in E : [k |-> "END", ev |-> e, need |-> {}] \in EndOf(E)
  BY DEF EndOf
<1>2. \A m \in EndOf(E) : m.k = "END" /\ m.ev \in E
  BY DEF EndOf
<1> QED BY <1>1, <1>2

\* The loop's state but for what the scene and the screen hold.
LEMMA SameHands ==
    ASSUME NEW t, NEW u, u.pending = t.pending, u.auto = t.auto, u.live = t.live,
           Named(u.out) = Named(t.out), Ends(u.out) = Ends(t.out)
    PROVE  Hands(t, u)
BY DEF Hands, Owes, Lone

LEMMA HandsOn ==
    ASSUME NEW t, NEW u, NEW v, Hands(t, u), Hands(u, v)
    PROVE  Hands(t, v)
BY DEF Hands

LEMMA TagNames ==
    ASSUME NEW t \in Locals, NEW e \in Events, NEW n \in SUBSET Replies
    PROVE  /\ Named(Wire(t, TagOf(e, n)).out) = Named(t.out)
           /\ Ends(Wire(t, TagOf(e, n)).out) = Ends(t.out)
<1> DEFINE D == TagOf(e, n)
<1>1. D \in Datagrams /\ ~(\E m \in D : m.k = "END")
  <2>1. D \in Datagrams
    BY TagTyped
  <2>2. \A m \in D : m.k = "TAG"
    BY DEF TagOf
  <2> QED BY <2>1, <2>2
<1> HIDE DEF D
<1>2. Wire(t, D).out = t.out \/ Wire(t, D).out = Append(t.out, D)
  BY DEF Wire, Locals
<1>3. t.out \in Seq(Datagrams)
  BY DEF Locals
<1>4. {a \in Events : \E m \in D : m.k = "END" /\ m.ev = a} = {}
  BY <1>1
<1>5. /\ Named(Append(t.out, D)) = Named(t.out) \cup {}
      /\ Ends(Append(t.out, D)) = Ends(t.out) \cup {}
  BY <1>1, <1>3, <1>4, NamesAppend, Zenon
<1> QED BY <1>2, <1>5 DEF D

LEMMA TagHands ==
    ASSUME NEW t \in Locals, NEW e \in Events, NEW n \in SUBSET Replies
    PROVE  Hands(t, Wire(t, TagOf(e, n)))
<1> DEFINE w == Wire(t, TagOf(e, n))
<1>1. w.pending = t.pending /\ w.auto = t.auto /\ w.live = t.live
  BY DEF Wire, Locals
<1>2. Named(w.out) = Named(t.out) /\ Ends(w.out) = Ends(t.out)
  BY TagNames
<1> HIDE DEF w
<1>3. Hands(t, w)
  BY <1>1, <1>2, SameHands
<1> QED BY <1>3 DEF w

\* An END leaves for every event of E, which the loop stops to owe.
LEMMA EndHands ==
    ASSUME NEW t \in Locals, NEW u \in Locals, NEW E \in SUBSET Events,
           Owed(u.pending) \subseteq Owed(t.pending), Owed(u.auto) \subseteq Owed(t.auto),
           E \subseteq Owes(t), Owes(t) \subseteq Owes(u) \cup E,
           Lone(t) => Owes(u) \cap E = {},
           u.live = t.live, u.out = t.out
    PROVE  Hands(t, Wire(u, EndOf(E)))
<1> DEFINE w == Wire(u, EndOf(E))
<1>1. EndOf(E) \in Datagrams /\ t.out \in Seq(Datagrams)
  BY EndTyped DEF Locals
<1>2. w.pending = u.pending /\ w.auto = u.auto /\ w.live = u.live
  BY DEF Wire, Locals
<1>3. Owes(w) = Owes(u) /\ Owes(w) \subseteq Owes(t)
  BY <1>2 DEF Owes
<1>4. CASE E = {} \/ ~link
  <2>1. w = u
    BY <1>4, EndNames DEF Wire
  <2>2. link = TRUE => Owes(t) \subseteq Owes(u)
    BY <1>4
  <2>3. Lone(t) => Lone(u)
    BY DEF Lone, Alone, Owes
  <2> HIDE DEF w
  <2>4. Hands(t, u)
    BY <2>2, <2>3, <1>3, <2>1 DEF Hands
  <2> QED BY <2>1, <2>4 DEF w
<1>5. CASE E # {} /\ link
  <2>1. w.out = Append(t.out, EndOf(E))
    BY <1>5, EndNames DEF Wire, Locals
  <2> HIDE DEF w
  <2>2. Named(w.out) = Named(t.out) \cup E
    BY <2>1, <1>1, NamesAppend, EndNames
  <2>3. Ends(w.out) = Ends(t.out) \cup {Len(t.out) + 1}
    BY <2>1, <1>1, <1>5, NamesAppend, EndNames
  <2>4. ASSUME Lone(t) PROVE Lone(w)
    <3>1. Owes(t) # {} /\ Ends(t.out) = {} /\ Alone(Owes(t))
      BY <2>4, <1>5 DEF Lone
    <3>2. Owes(w) = {}
      <4>1. Owes(w) \cap E = {} /\ E # {}
        BY <2>4, <1>3, <1>5
      <4> QED BY <4>1, <1>3, <3>1 DEF Alone
    <3>3. Alone(Ends(w.out))
      BY <2>3, <3>1 DEF Alone
    <3>4. Owed(w.pending) = {} /\ Alone(Owes(w))
      BY <3>2 DEF Owes, Alone
    <3> QED BY <3>2, <3>3, <3>4 DEF Lone
  <2>5. Hands(t, w)
    BY <2>2, <2>4, <1>2, <1>3 DEF Hands
  <2> QED BY <2>5 DEF w
<1> QED BY <1>4, <1>5

LEMMA NothingOwed == Owed(Nothing) = {} /\ Nothing \in [Events -> Nat]
BY DEF Owed, Nothing

LEMMA DriveHands ==
    ASSUME NEW t, Good(t), NEW e \in Events, t.dlg \in ScriptOf(e),
           NEW r \in Results(e), NEW place \in Places
    PROVE  Hands(t, Drive(t, r, place))
<1> DEFINE p == Prepare(t, r, place)
           E == IF Over(r) THEN {e} ELSE {}
           w == Wire(p, EndOf(E))
           u == IF t.dlg.park \in Frames /\ r.dlg.park \notin Frames
                THEN [w EXCEPT !.box = NoEvent] ELSE w
           sent == Wire(u, TagOf(t.dlg.ev, r.dlg.need))
           framed == [w EXCEPT !.box = t.dlg.ev]
<1>1. t \in Locals /\ t.dlg.ev = e /\ t.pending[e] > 0 /\ e \in Owes(t) /\ e \in Owed(t.pending)
  BY ScriptTyped DEF Good, Held, Owes, Owed
<1>2. Good(p) /\ p \in Locals
  BY PrepareGood DEF Good
<1>3. PreparedEnd(t, r) = EndOf(E)
  BY <1>1, EndNames DEF PreparedEnd
<1>4. /\ p.auto = t.auto /\ p.live = t.live /\ p.out = t.out
      /\ p.pending = IF Over(r) THEN None(t.pending, e) ELSE t.pending
  BY <1>1 DEF Prepare, Locals
<1>5. Owed(None(t.pending, e)) = Owed(t.pending) \ {e}
  BY <1>1 DEF Owed, None, Locals
<1>6. Owed(p.pending) = Owed(t.pending) \ E /\ Owed(p.auto) = Owed(t.auto)
  BY <1>4, <1>5
<1>7. Lone(t) => Owed(t.auto) = {}
  BY <1>1 DEF Lone
<1>8. Hands(t, w)
  <2>1. E \in SUBSET Events /\ E \subseteq Owes(t)
    BY <1>1
  <2> HIDE DEF p, E
  <2>2. Owes(t) \subseteq Owes(p) \cup E
    BY <1>6 DEF Owes
  <2>3. Lone(t) => Owes(p) \cap E = {}
    BY <1>6, <1>7 DEF Owes
  <2>4. Owed(p.pending) \subseteq Owed(t.pending) /\ Owed(p.auto) \subseteq Owed(t.auto)
    BY <1>6
  <2> QED BY <1>1, <1>2, <1>4, <2>1, <2>2, <2>3, <2>4, EndHands
<1>9. w \in Locals
  <2>1. EndOf(E) \in Datagrams
    BY EndTyped
  <2> HIDE DEF p, E
  <2> QED BY <1>2, <2>1, WireKeeps
<1>10. Drive(t, r, place) = Show(w, t.dlg, r)
  BY <1>3, Zenon DEF Drive
<1>11. Show(w, t.dlg, r) =
        IF Over(r) THEN Finish(w)
        ELSE IF r.out = "frame" THEN framed
        ELSE IF r.out = "tag" THEN sent ELSE u
  BY Zenon DEF Show
<1> HIDE DEF w, p, E
<1>12. Hands(w, Finish(w))
  <2>1. /\ Finish(w).pending = w.pending /\ Finish(w).auto = w.auto
        /\ Finish(w).live = w.live /\ Finish(w).out = w.out
    BY <1>9 DEF Finish, CloseScope, Locals
  <2> QED BY <2>1, SameHands
<1>13. Hands(w, framed)
  <2>1. /\ framed.pending = w.pending /\ framed.auto = w.auto
        /\ framed.live = w.live /\ framed.out = w.out
    BY <1>9 DEF Locals
  <2> QED BY <2>1, SameHands
<1>14. Hands(w, u) /\ u \in Locals
  <2>1. /\ [w EXCEPT !.box = NoEvent].pending = w.pending
        /\ [w EXCEPT !.box = NoEvent].auto = w.auto
        /\ [w EXCEPT !.box = NoEvent].live = w.live
        /\ [w EXCEPT !.box = NoEvent].out = w.out
        /\ [w EXCEPT !.box = NoEvent] \in Locals
    BY <1>9 DEF Locals, Boxes
  <2>2. Hands(w, [w EXCEPT !.box = NoEvent]) /\ Hands(w, w)
    BY <2>1, SameHands
  <2> QED BY <1>9, <2>1, <2>2, Zenon
<1>15. Hands(w, sent)
  <2>1. r.dlg.need \in SUBSET Replies
    BY ScriptTyped, NoDialogTyped DEF Results
  <2> HIDE DEF u
  <2>2. Hands(u, sent)
    BY <1>1, <1>14, <2>1, TagHands
  <2> HIDE DEF sent
  <2> QED BY <2>2, <1>14, HandsOn
<1> HIDE DEF sent, u, framed
<1>16. Hands(w, Drive(t, r, place))
  BY <1>10, <1>11, <1>12, <1>13, <1>14, <1>15, Zenon
<1> QED BY <1>8, <1>16, HandsOn

LEMMA ReleaseHands ==
    ASSUME NEW t, Good(t)
    PROVE  Hands(t, Release(t))
<1> DEFINE u == Watched(t)
           released == Owed(u.auto) \cup (IF Flushes(u) THEN Owed(u.pending) ELSE {})
           f == [Flush(u) EXCEPT !.auto = Nothing]
<1>1. /\ Good(u) /\ u \in Locals /\ t \in Locals
      /\ u.pending = t.pending /\ u.auto = t.auto /\ u.live = t.live /\ u.out = t.out
  BY WatchedGood DEF Watched, Good, Locals
<1> HIDE DEF u
<1>2. Flush(u) \in Locals
  BY <1>1, FlushGood DEF Good
<1>3. /\ Flush(u).live = u.live /\ Flush(u).out = u.out
      /\ Flush(u).pending = IF Flushes(u) THEN Nothing ELSE u.pending
  <2>1. CASE ~Flushes(u)
    BY <2>1 DEF Flush
  <2>2. CASE Flushes(u)
    <3>1. /\ Finish(u) \in Locals
          /\ Finish(u).live = u.live /\ Finish(u).out = u.out
      BY <1>1 DEF Finish, CloseScope, Locals, Boxes
    <3>2. /\ Flush(u).live = u.live /\ Flush(u).out = u.out /\ Flush(u).pending = Nothing
      BY <2>2, <3>1 DEF Flush, Locals
    <3> QED BY <3>2, <2>2
  <2> QED BY <2>1, <2>2
<1>4. /\ f \in Locals /\ f.auto = Nothing /\ f.live = t.live /\ f.out = t.out
      /\ f.pending = IF Flushes(u) THEN Nothing ELSE t.pending
  BY <1>1, <1>2, <1>3, NothingOwed DEF Locals
<1>5. released \in SUBSET Events /\ released \subseteq Owes(t)
  BY <1>1 DEF Owed, Owes
<1>6. /\ Owed(f.pending) \subseteq Owed(t.pending) /\ Owed(f.auto) \subseteq Owed(t.auto)
      /\ Owes(t) \subseteq Owes(f) \cup released
      /\ Lone(t) => Owes(f) \cap released = {}
  <2> HIDE DEF f
  <2>1. CASE Flushes(u)
    BY <2>1, <1>1, <1>4, NothingOwed DEF Owes
  <2>2. CASE ~Flushes(u)
    BY <2>2, <1>1, <1>4, NothingOwed DEF Owes, Lone
  <2> QED BY <2>1, <2>2
<1>7. Hands(t, Wire(f, EndOf(released)))
  <2> HIDE DEF f, released
  <2> QED BY <1>1, <1>4, <1>5, <1>6, EndHands
<1> QED BY <1>7, Zenon DEF Release, u

LEMMA PrepareHands ==
    ASSUME NEW t, Good(t), NEW e \in Events, t.dlg \in ScriptOf(e),
           NEW r \in Results(e), NEW place \in Places, ~link
    PROVE  Hands(t, Prepare(t, r, place))
<1> DEFINE p == Prepare(t, r, place)
           E == IF Over(r) THEN {e} ELSE {}
<1>1. t \in Locals /\ t.dlg.ev = e /\ e \in Owed(t.pending)
  BY ScriptTyped DEF Good, Held, Owed
<1>2. p \in Locals
  BY PrepareGood DEF Good
<1>3. /\ p.auto = t.auto /\ p.live = t.live /\ p.out = t.out
      /\ p.pending = IF Over(r) THEN None(t.pending, e) ELSE t.pending
  BY <1>1 DEF Prepare, Locals
<1>4. Owed(None(t.pending, e)) = Owed(t.pending) \ {e}
  BY <1>1 DEF Owed, None, Locals
<1>5. Owed(p.pending) = Owed(t.pending) \ E /\ Owed(p.auto) = Owed(t.auto)
  BY <1>3, <1>4
<1>6. E \in SUBSET Events /\ E \subseteq Owes(t)
  BY <1>1 DEF Owes
<1> HIDE DEF p, E
<1>7. Lone(t) => Owed(t.auto) = {}
  BY <1>1 DEF Lone
<1>8. Owes(t) \subseteq Owes(p) \cup E /\ (Lone(t) => Owes(p) \cap E = {})
  BY <1>5, <1>7 DEF Owes
<1>9. Owed(p.pending) \subseteq Owed(t.pending) /\ Owed(p.auto) \subseteq Owed(t.auto)
  BY <1>5
<1>10. Hands(t, Wire(p, EndOf(E)))
  BY <1>1, <1>2, <1>3, <1>6, <1>8, <1>9, EndHands
<1>11. Wire(p, EndOf(E)) = p
  BY DEF Wire
<1> QED BY <1>10, <1>11 DEF p

\* Every handler but the raw choice, the trigger and the cancel hands over
\* what it stops to owe.
LEMMA StepHands ==
    ASSUME Inv,
           \/ EndMenu \/ ChooseInMenu \/ EndScript \/ ChooseInScript \/ EndPinned
           \/ TickQuiet \/ TickScript \/ ReceiveHalf \/ ReceiveAnswer
    PROVE  \E t \in Locals : Hands(s, t) /\ Commit(t)
<1>1. Good(s) /\ s \in Locals
  BY DEF Inv, TypeOK, Good
<1>2. \A r, place, moved : SendFails(s, r, moved) => ~link
  BY DEF SendFails
<1>3. ASSUME NEW t \in Locals, Hands(s, t)
      PROVE  [t EXCEPT !.dead = TRUE] \in Locals /\ Hands(s, [t EXCEPT !.dead = TRUE])
  <2>1. [t EXCEPT !.dead = TRUE] \in Locals
    BY DEF Locals
  <2>2. /\ [t EXCEPT !.dead = TRUE].pending = t.pending /\ [t EXCEPT !.dead = TRUE].auto = t.auto
        /\ [t EXCEPT !.dead = TRUE].live = t.live /\ [t EXCEPT !.dead = TRUE].out = t.out
    BY DEF Locals
  <2>3. Hands(t, [t EXCEPT !.dead = TRUE])
    BY <2>2, SameHands
  <2> QED BY <2>1, <2>3, <1>3, HandsOn
<1>4. ASSUME s.dlg # NoDialog, NEW r \in Results(s.dlg.ev), NEW place \in Places
      PROVE  /\ Good(Drive(s, r, place)) /\ Drive(s, r, place) \in Locals
             /\ Hands(s, Drive(s, r, place))
             /\ Prepare(s, r, place) \in Locals
             /\ ~link => Hands(s, Prepare(s, r, place))
  BY <1>1, <1>4, ScriptRuns, DriveGood, DriveHands, PrepareGood, PrepareHands DEF Good
<1>5. ASSUME s.dlg # NoDialog, NEW R, R \subseteq Results(s.dlg.ev), DriveOrAbort(R)
      PROVE  \E t \in Locals : Hands(s, t) /\ Commit(t)
  <2>1. PICK r \in R, place \in Places :
          IF SendFails(s, r, place # s.pos) THEN Abort(Prepare(s, r, place))
          ELSE Commit(Drive(s, r, place))
    BY <1>5, Zenon DEF DriveOrAbort
  <2>2. r \in Results(s.dlg.ev)
    BY <1>5
  <2>3. CASE SendFails(s, r, place # s.pos)
    <3>1. Commit([Prepare(s, r, place) EXCEPT !.dead = TRUE])
      BY <2>1, <2>3, Zenon DEF Abort
    <3>2. Prepare(s, r, place) \in Locals /\ Hands(s, Prepare(s, r, place))
      BY <2>2, <2>3, <1>5, <1>4, <1>2
    <3> QED BY <3>1, <3>2, <1>3
  <2>4. CASE ~SendFails(s, r, place # s.pos)
    BY <2>1, <2>2, <2>4, <1>5, <1>4, Zenon
  <2> QED BY <2>3, <2>4
<1>6. CASE EndMenu \/ ChooseInMenu
  <2>1. PICK m \in BOOLEAN, b \in Boxes : Commit([s EXCEPT !.menu = m, !.box = b])
    BY <1>6 DEF EndMenu, ChooseInMenu, Boxes
  <2> DEFINE t == [s EXCEPT !.menu = m, !.box = b]
  <2>2. t \in Locals /\ t.pending = s.pending /\ t.auto = s.auto /\ t.live = s.live /\ t.out = s.out
    BY <1>1 DEF Locals
  <2> HIDE DEF t
  <2>3. Hands(s, t)
    BY <2>2, SameHands
  <2> QED BY <2>1, <2>2, <2>3 DEF t
<1>7. CASE EndScript
  <2>1. s.dlg # NoDialog /\ DriveOrAbort(ByCancel(s.dlg))
    BY <1>7 DEF EndScript
  <2> QED BY <2>1, <1>5, ScriptRuns, MovesTyped
<1>8. CASE ChooseInScript
  <2>1. s.dlg # NoDialog /\ DriveOrAbort(ByChoice(s.dlg))
    BY <1>8 DEF ChooseInScript
  <2> QED BY <2>1, <1>5, ScriptRuns, MovesTyped
<1>9. CASE EndPinned
  <2> DEFINE t == [s EXCEPT !.pending = Nothing]
             E == Owed(s.pending)
             w == Wire(t, EndOf(E))
  <2>1. Commit(Finish(w))
    BY <1>9 DEF EndPinned
  <2>2. /\ t \in Locals /\ t.pending = Nothing /\ t.auto = s.auto /\ t.live = s.live
        /\ t.out = s.out
    BY <1>1, NothingOwed DEF Locals
  <2>3. E \in SUBSET Events /\ E \subseteq Owes(s)
    BY DEF Owed, Owes
  <2> HIDE DEF t
  <2>4. /\ Owed(t.pending) \subseteq Owed(s.pending) /\ Owed(t.auto) \subseteq Owed(s.auto)
        /\ Owes(s) \subseteq Owes(t) \cup E
        /\ Lone(s) => Owes(t) \cap E = {}
    BY <2>2, NothingOwed DEF Owes, Lone
  <2>5. Hands(s, w)
    <3> HIDE DEF E
    <3> QED BY <1>1, <2>2, <2>3, <2>4, EndHands
  <2>6. w \in Locals
    BY <2>2, <2>3, EndTyped, WireKeeps
  <2> HIDE DEF w
  <2>7. Finish(w) \in Locals /\ Hands(w, Finish(w))
    <3>1. Finish(w) \in Locals
      BY <2>6 DEF Finish, CloseScope, Locals, Boxes
    <3>2. /\ Finish(w).pending = w.pending /\ Finish(w).auto = w.auto
          /\ Finish(w).live = w.live /\ Finish(w).out = w.out
      BY <2>6 DEF Finish, CloseScope, Locals
    <3> QED BY <3>1, <3>2, SameHands
  <2> QED BY <2>1, <2>5, <2>7, HandsOn
<1>10. CASE TickQuiet
  <2>1. Commit(Release(s)) /\ Release(s) \in Locals /\ Hands(s, Release(s))
    BY <1>10, <1>1, ReleaseGood, ReleaseHands DEF TickQuiet, Good
  <2> QED BY <2>1
<1>11. CASE TickScript
  <2>1. s.dlg # NoDialog
    BY <1>11 DEF TickScript
  <2>2. PICK r \in ByTick(s.dlg), place \in Places :
          IF SendFails(s, r, place # s.pos) THEN Abort(Prepare(s, r, place))
          ELSE Commit(Release(Drive(s, r, place)))
    BY <1>11, Zenon DEF TickScript
  <2>3. r \in Results(s.dlg.ev)
    BY <2>1, ScriptRuns, MovesTyped
  <2>4. CASE SendFails(s, r, place # s.pos)
    <3>1. Commit([Prepare(s, r, place) EXCEPT !.dead = TRUE])
      BY <2>2, <2>4, Zenon DEF Abort
    <3>2. Prepare(s, r, place) \in Locals /\ Hands(s, Prepare(s, r, place))
      BY <2>1, <2>3, <2>4, <1>4, <1>2
    <3> QED BY <3>1, <3>2, <1>3
  <2>5. CASE ~SendFails(s, r, place # s.pos)
    <3>1. Commit(Release(Drive(s, r, place)))
      BY <2>2, <2>5, Zenon
    <3>2. Good(Drive(s, r, place)) /\ Hands(s, Drive(s, r, place))
      BY <2>1, <2>3, <1>4
    <3>3. /\ Release(Drive(s, r, place)) \in Locals
          /\ Hands(s, Release(Drive(s, r, place)))
      BY <3>2, ReleaseGood, ReleaseHands, HandsOn DEF Good
    <3> QED BY <3>1, <3>3
  <2> QED BY <2>4, <2>5
<1>12. CASE ReceiveHalf
  <2> DEFINE n == s.dlg.need \ {Head(toClient).k}
             d == [s.dlg EXCEPT !.need = n]
             t == [s EXCEPT !.dlg = d]
  <2>1. Commit(t)
    BY <1>1, <1>12 DEF ReceiveHalf, Locals, Dialogs
  <2>2. n \in SUBSET Replies
    BY <1>1 DEF Locals, Dialogs
  <2>3. d \in Dialogs
    <3> HIDE DEF n
    <3> QED BY <2>2, <1>1 DEF Locals, Dialogs
  <2> HIDE DEF d
  <2>4. t \in Locals /\ t.pending = s.pending /\ t.auto = s.auto /\ t.live = s.live /\ t.out = s.out
    BY <2>3, <1>1 DEF Locals
  <2> HIDE DEF t
  <2> QED BY <2>1, <2>4, SameHands
<1>13. CASE ReceiveAnswer
  <2>1. s.dlg # NoDialog
    BY <1>13 DEF ReceiveAnswer, Matches, NoDialog
  <2>2. PICK r \in Run(s.dlg.ev, s.dlg.ctl), place \in Places :
          Commit(IF SendFails(s, r, place # s.pos) THEN Prepare(s, r, place)
                 ELSE Drive(s, r, place))
    BY <1>13, Zenon DEF ReceiveAnswer
  <2>3. r \in Results(s.dlg.ev)
    BY <2>1, ScriptRuns, RunTyped
  <2>4. CASE SendFails(s, r, place # s.pos)
    <3>1. Commit(Prepare(s, r, place))
      BY <2>2, <2>4, Zenon
    <3>2. Prepare(s, r, place) \in Locals /\ Hands(s, Prepare(s, r, place))
      BY <2>1, <2>3, <2>4, <1>4, <1>2
    <3> QED BY <3>1, <3>2
  <2>5. CASE ~SendFails(s, r, place # s.pos)
    <3>1. Commit(Drive(s, r, place))
      BY <2>2, <2>5, Zenon
    <3>2. Drive(s, r, place) \in Locals /\ Hands(s, Drive(s, r, place))
      BY <2>1, <2>3, <1>4
    <3> QED BY <3>1, <3>2
  <2> QED BY <2>4, <2>5
<1> QED BY <1>6, <1>7, <1>8, <1>9, <1>10, <1>11, <1>12, <1>13

LEMMA CommitHands ==
    ASSUME NEW t \in Locals, toServer \in Seq(Datagrams), Commit(t)
    PROVE  /\ s'.pending = t.pending /\ s'.auto = t.auto /\ s'.dlg = t.dlg
           /\ s'.out = <<>>
           /\ t.live \ Named(t.out) \subseteq s'.live
           /\ toServer' = toServer \o t.out /\ t.out \in Seq(Datagrams)
           /\ Named(toServer') = Named(toServer) \cup Named(t.out)
<1> DEFINE gone == UNION {Ended(t.out[i]) : i \in DOMAIN t.out}
<1>1. t.out \in Seq(Datagrams) /\ t.live \in SUBSET Events
  BY DEF Locals
<1>2. s' = [t EXCEPT !.out = <<>>, !.live = t.live \ gone] /\ toServer' = toServer \o t.out
  BY DEF Commit, Locals
<1>3. Named(toServer') = Named(toServer) \cup Named(t.out)
  BY <1>1, <1>2, NamesConcat
<1>4. \A e \in gone : e \in Events => e \in Named(t.out)
  <2> SUFFICES ASSUME NEW e \in gone, e \in Events PROVE e \in Named(t.out)
    OBVIOUS
  <2>1. PICK i \in DOMAIN t.out : e \in Ended(t.out[i])
    OBVIOUS
  <2>2. \E m \in t.out[i] : m.k = "END" /\ m.ev = e
    BY <2>1 DEF Ended
  <2> QED BY <2>2, Zenon DEF Named
<1> HIDE DEF gone
<1>5. /\ s'.pending = t.pending /\ s'.auto = t.auto /\ s'.dlg = t.dlg
      /\ s'.out = <<>> /\ s'.live = t.live \ gone
  BY <1>2 DEF Locals
<1> QED BY <1>1, <1>2, <1>3, <1>4, <1>5

LEMMA BeginHands ==
    ASSUME NEW t \in Locals, NEW e \in Events, NEW r \in Results(e)
    PROVE  /\ Begin(t, e, r) \in Locals
           /\ Owes(Begin(t, e, r)) = Owes(t) \cup {e}
           /\ \/ Owed(Begin(t, e, r).pending) = Owed(t.pending)
              \/ Owed(Begin(t, e, r).auto) = Owed(t.auto)
           /\ Named(Begin(t, e, r).out) = Named(t.out)
           /\ Ends(Begin(t, e, r).out) = Ends(t.out)
           /\ Begin(t, e, r).live = t.live
<1> DEFINE u == [Push(OpenScope(t), e) EXCEPT !.dlg = r.dlg]
           p == More(t.pending, e)
           a == More(t.auto, e)
           b == Begin(t, e, r)
<1>1. b \in Locals
  BY BeginGood DEF Good
<1>2. /\ p \in [Events -> Nat] /\ a \in [Events -> Nat]
      /\ Owed(p) = Owed(t.pending) \cup {e} /\ Owed(a) = Owed(t.auto) \cup {e}
  BY DEF More, Owed, Locals
<1>3. CASE Over(r)
  <2>1. b = [CloseScope(t) EXCEPT !.dlg = NoDialog, !.auto = a]
    BY <1>3 DEF Begin
  <2> HIDE DEF a
  <2>2. b.pending = t.pending /\ b.auto = a /\ b.out = t.out /\ b.live = t.live
    BY <2>1 DEF CloseScope, Locals
  <2> HIDE DEF b
  <2>3. /\ Owes(b) = Owes(t) \cup {e} /\ Owed(b.pending) = Owed(t.pending)
        /\ Named(b.out) = Named(t.out) /\ Ends(b.out) = Ends(t.out)
    BY <2>2, <1>2 DEF Owes
  <2> QED BY <1>1, <2>2, <2>3 DEF b
<1>4. CASE ~Over(r)
  <2>1. u = [t EXCEPT !.open = TRUE, !.pending = p, !.strolled = FALSE, !.dlg = r.dlg]
    BY DEF Push, OpenScope, Locals
  <2>2. r.dlg \in Dialogs /\ r.dlg.need \in SUBSET Replies
    BY ScriptTyped, NoDialogTyped DEF Results
  <2>3. u \in Locals /\ u.pending = p /\ u.auto = t.auto /\ u.out = t.out /\ u.live = t.live
    <3> HIDE DEF p
    <3> QED BY <1>2, <2>1, <2>2 DEF Locals
  <2> HIDE DEF u, p
  <2>4. b = [u EXCEPT !.box = e] \/ b = Wire(u, TagOf(e, r.dlg.need)) \/ b = u
    BY <1>4, Zenon DEF Begin, u
  <2> HIDE DEF b
  <2>5. /\ b.pending = p /\ b.auto = t.auto /\ b.live = t.live
        /\ Named(b.out) = Named(t.out) /\ Ends(b.out) = Ends(t.out)
    <3>1. CASE b = [u EXCEPT !.box = e] \/ b = u
      <4>1. b.pending = p /\ b.auto = t.auto /\ b.live = t.live /\ b.out = t.out
        BY <3>1, <2>3 DEF Locals
      <4> QED BY <4>1
    <3>2. CASE b = Wire(u, TagOf(e, r.dlg.need))
      <4>1. b.pending = p /\ b.auto = t.auto /\ b.live = t.live
        BY <3>2, <2>3 DEF Wire, Locals
      <4>2. Named(b.out) = Named(u.out) /\ Ends(b.out) = Ends(u.out)
        BY <3>2, <2>2, <2>3, TagNames
      <4> QED BY <4>1, <4>2, <2>3
    <3> QED BY <2>4, <3>1, <3>2
  <2>6. Owes(b) = Owes(t) \cup {e} /\ Owed(b.auto) = Owed(t.auto)
    BY <2>5, <1>2 DEF Owes, p
  <2> QED BY <1>1, <2>5, <2>6 DEF b
<1> QED BY <1>3, <1>4

-----------------------------------------------------------------------------
(* The event the server waits for has an owner, when nothing is lost.       *)

Brings(q, e) == \E i \in DOMAIN q : q[i] = [k |-> "EVENT", ev |-> e]

\* The trigger of e comes after every cancel in flight, so that no cancel
\* takes from the client what the server goes on to wait for.
Fenced(q, e) ==
    \A i \in DOMAIN q : q[i].k = "CANCEL" =>
      \E j \in DOMAIN q : j > i /\ q[j] = [k |-> "EVENT", ev |-> e]

Owner ==
    srv # NoEvent =>
      /\ Brings(toClient, srv) \/ srv \in Owes(s) \cup Named(toServer)
      /\ Fenced(toClient, srv)

InvOwner == Inv /\ link = TRUE /\ Owner

LEMMA QueueSays ==
    ASSUME NEW q \in Seq(ToClient), NEW k, NEW x
    PROVE  /\ \A e : Brings(q, e) => Brings(q \o Say(k, x), e)
           /\ \A e : k # "CANCEL" /\ Fenced(q, e) => Fenced(q \o Say(k, x), e)
           /\ Brings(q \o Say("EVENT", x), x) /\ Fenced(q \o Say("EVENT", x), x)
<1> DEFINE m == [k |-> k, ev |-> x]
           v == [k |-> "EVENT", ev |-> x]
           w == q \o Say("EVENT", x)
           c == q \o Say(k, x)
<1>1. /\ Len(q) \in Nat /\ DOMAIN q = 1..Len(q)
      /\ DOMAIN c = 1..(Len(q) + 1) /\ DOMAIN w = 1..(Len(q) + 1)
  BY DEF Say
<1>2. /\ \A i \in DOMAIN q : i \in DOMAIN c /\ c[i] = q[i]
      /\ c[Len(q) + 1] = m
      /\ \A i \in DOMAIN q : i \in DOMAIN w /\ w[i] = q[i]
      /\ w[Len(q) + 1] = v
  BY DEF Say
<1>3. v.k = "EVENT" /\ m.k = k
  OBVIOUS
<1>4. Len(q) + 1 \in DOMAIN w /\ \A i \in DOMAIN q : Len(q) + 1 > i
  BY <1>1
<1>5. /\ \A i \in DOMAIN c : i \in DOMAIN q \/ i = Len(q) + 1
      /\ \A i \in DOMAIN w : i \in DOMAIN q \/ i = Len(q) + 1
  BY <1>1
<1> HIDE DEF c, w, m
<1>6. \A e : Brings(q, e) => Brings(c, e)
  BY <1>2, Zenon DEF Brings
<1>7. ASSUME NEW e, k # "CANCEL", Fenced(q, e) PROVE Fenced(c, e)
  <2> SUFFICES ASSUME NEW i \in DOMAIN c, c[i].k = "CANCEL"
               PROVE \E j \in DOMAIN c : j > i /\ c[j] = [k |-> "EVENT", ev |-> e]
    BY DEF Fenced
  <2>1. i \in DOMAIN q /\ q[i].k = "CANCEL"
    BY <1>2, <1>3, <1>5, <1>7
  <2>2. PICK j \in DOMAIN q : j > i /\ q[j] = [k |-> "EVENT", ev |-> e]
    BY <2>1, <1>7 DEF Fenced
  <2> QED BY <2>2, <1>2
<1>8. Brings(w, x)
  BY <1>2, <1>4 DEF Brings
<1>9. Fenced(w, x)
  <2> SUFFICES ASSUME NEW i \in DOMAIN w, w[i].k = "CANCEL"
               PROVE \E j \in DOMAIN w : j > i /\ w[j] = v
    BY DEF Fenced
  <2>1. i \in DOMAIN q
    BY <1>2, <1>3, <1>5
  <2> QED BY <2>1, <1>2, <1>4
<1> QED BY <1>6, <1>7, <1>8, <1>9 DEF c, w

LEMMA QueueTakes ==
    ASSUME NEW q \in Seq(ToClient), q # <<>>, NEW e
    PROVE  /\ Brings(q, e) => Brings(Tail(q), e) \/ Head(q) = [k |-> "EVENT", ev |-> e]
           /\ Fenced(q, e) => Fenced(Tail(q), e)
           /\ Fenced(q, e) /\ Head(q).k = "CANCEL" => Brings(Tail(q), e)
<1> DEFINE r == Tail(q)
           v == [k |-> "EVENT", ev |-> e]
<1>1. /\ Len(q) \in Nat /\ Len(q) > 0 /\ DOMAIN q = 1..Len(q) /\ DOMAIN r = 1..(Len(q) - 1)
      /\ Head(q) = q[1] /\ 1 \in DOMAIN q
  OBVIOUS
<1>2. \A i \in DOMAIN r : i + 1 \in DOMAIN q /\ r[i] = q[i + 1]
  OBVIOUS
<1>3. \A i \in DOMAIN q : i > 1 => i - 1 \in DOMAIN r /\ r[i - 1] = q[i]
  BY <1>1, <1>2
<1>4. \A i \in DOMAIN q : i = 1 \/ i > 1
  BY <1>1
<1> HIDE DEF r
<1>5. ASSUME Brings(q, e) PROVE Brings(r, e) \/ Head(q) = v
  <2>1. PICK i \in DOMAIN q : q[i] = v
    BY <1>5 DEF Brings
  <2> QED BY <2>1, <1>1, <1>3, <1>4 DEF Brings
<1>6. ASSUME Fenced(q, e) PROVE Fenced(r, e)
  <2> SUFFICES ASSUME NEW i \in DOMAIN r, r[i].k = "CANCEL"
               PROVE \E j \in DOMAIN r : j > i /\ r[j] = v
    BY DEF Fenced
  <2>1. i + 1 \in DOMAIN q /\ q[i + 1].k = "CANCEL"
    BY <1>2
  <2>2. PICK j \in DOMAIN q : j > i + 1 /\ q[j] = v
    BY <2>1, <1>6 DEF Fenced
  <2>3. i \in Nat /\ i > 0 /\ j \in Nat
    BY <1>1
  <2>4. j > 1 /\ j - 1 > i
    BY <2>2, <2>3
  <2> QED BY <2>2, <2>4, <1>3
<1>7. ASSUME Fenced(q, e), Head(q).k = "CANCEL" PROVE Brings(r, e)
  <2>1. PICK j \in DOMAIN q : j > 1 /\ q[j] = v
    BY <1>1, <1>7 DEF Fenced
  <2> QED BY <2>1, <1>3 DEF Brings
<1> QED BY <1>5, <1>6, <1>7 DEF r

LEMMA LoopOwner ==
    ASSUME InvOwner, Loop
    PROVE  Owner'
<1> SUFFICES ASSUME srv' # NoEvent
             PROVE  /\ Brings(toClient', srv') \/ srv' \in Owes(s') \cup Named(toServer')
                    /\ Fenced(toClient', srv')
  BY DEF Owner, Owes, Owed
<1>1. /\ Inv /\ s \in Locals /\ link = TRUE /\ toServer \in Seq(Datagrams)
      /\ toClient \in Seq(ToClient) /\ srv \in Events \cup {NoEvent}
  BY DEF InvOwner, Inv, TypeOK
<1>2. srv' = srv /\ ~ChangeZone
  BY DEF Loop, EndMenu, EndScript, EndPinned, ChooseInMenu, ChooseInScript, ChooseRaw,
     TickQuiet, TickScript, ReceiveEvent, ReceiveCancel, ReceiveStray, ReceiveHalf,
     ReceiveAnswer, OpenMenu, Stroll, ChangeZone
<1>3. /\ Brings(toClient, srv) \/ srv \in Owes(s) \cup Named(toServer)
      /\ Fenced(toClient, srv) /\ srv \in Events
  BY <1>1, <1>2 DEF InvOwner, Owner
<1>4. ASSUME NEW t \in Locals, Commit(t), Owes(s) \subseteq Owes(t) \cup Named(t.out)
      PROVE  srv \in Owes(s) \cup Named(toServer) => srv \in Owes(s') \cup Named(toServer')
  BY <1>1, <1>4, CommitHands DEF Owes
<1>5. CASE EndMenu \/ ChooseInMenu \/ EndScript \/ ChooseInScript \/ EndPinned
             \/ TickQuiet \/ TickScript
  <2>1. PICK t \in Locals : Hands(s, t) /\ Commit(t)
    BY <1>1, <1>5, StepHands
  <2>2. toClient' = toClient
    BY <1>5 DEF EndMenu, ChooseInMenu, EndScript, ChooseInScript, EndPinned, TickQuiet, TickScript
  <2>3. Owes(s) \subseteq Owes(t) \cup Named(t.out)
    BY <2>1, <1>1 DEF Hands
  <2> QED BY <2>1, <2>2, <2>3, <1>2, <1>3, <1>4
<1>6. CASE ChooseRaw
  <2> DEFINE e == Head(cmds).ev
             w == Wire(s, EndOf({e}))
             t == IF e \in Events THEN Take(w, e) ELSE s
  <2>1. Commit(Finish(t)) /\ toClient' = toClient
    BY <1>6, Zenon DEF ChooseRaw
  <2>2. ASSUME e \in Events
        PROVE  /\ Take(w, e) \in Locals
               /\ Owes(s) \subseteq Owes(Take(w, e)) \cup Named(Take(w, e).out)
    <3>1. w = [s EXCEPT !.out = Append(s.out, EndOf({e}))] /\ EndOf({e}) \in Datagrams
      BY <1>1, <2>2, EndNames, EndTyped DEF Wire
    <3>2. s.out \in Seq(Datagrams)
      BY <1>1 DEF Locals
    <3>3. e \in Named(Append(s.out, EndOf({e})))
      BY <2>2, <3>1, <3>2, NamesAppend, EndNames
    <3>4. /\ w \in Locals /\ w.pending = s.pending /\ w.auto = s.auto
          /\ w.out = Append(s.out, EndOf({e}))
      <4>1. w \in Locals
        BY <3>1, <1>1, WireKeeps
      <4>2. w.pending = s.pending /\ w.auto = s.auto /\ w.out = Append(s.out, EndOf({e}))
        BY <3>1, <1>1 DEF Locals
      <4> QED BY <4>1, <4>2
    <3> HIDE DEF w, e
    <3>5. /\ None(s.pending, e) \in [Events -> Nat]
          /\ Owed(s.pending) \subseteq Owed(None(s.pending, e)) \cup {e}
      BY <1>1 DEF None, Owed, Locals
    <3>6. /\ Take(w, e) \in Locals /\ Take(w, e).pending = None(s.pending, e)
          /\ Take(w, e).auto = s.auto /\ Take(w, e).out = w.out
      BY <3>4, <3>5 DEF Take, Locals
    <3> QED BY <3>3, <3>4, <3>5, <3>6 DEF Owes
  <2>3. t \in Locals /\ Owes(s) \subseteq Owes(t) \cup Named(t.out)
    BY <2>2, <1>1
  <2> HIDE DEF t
  <2>4. /\ Finish(t) \in Locals /\ Finish(t).pending = t.pending /\ Finish(t).auto = t.auto
        /\ Finish(t).out = t.out
    BY <2>3 DEF Finish, CloseScope, Locals, Boxes
  <2>5. Owes(s) \subseteq Owes(Finish(t)) \cup Named(Finish(t).out)
    BY <2>3, <2>4 DEF Owes
  <2> QED BY <2>1, <2>4, <2>5, <1>2, <1>3, <1>4
<1>7. ASSUME NEW k, Arrives(k)
      PROVE  /\ toClient' = Tail(toClient) /\ Fenced(toClient', srv)
             /\ k # "EVENT" /\ Brings(toClient, srv) => Brings(toClient', srv)
             /\ k = "CANCEL" => Brings(toClient', srv)
             /\ k = "EVENT" /\ Head(toClient).ev # srv /\ Brings(toClient, srv)
                  => Brings(toClient', srv)
  <2>1. toClient # <<>> /\ toClient' = Tail(toClient) /\ Head(toClient).k = k
    BY <1>7 DEF Arrives
  <2>2. ASSUME Head(toClient) = [k |-> "EVENT", ev |-> srv]
        PROVE  k = "EVENT" /\ Head(toClient).ev = srv
    BY <2>1, <2>2
  <2> QED BY <2>1, <2>2, <1>1, <1>3, QueueTakes
<1>8. CASE ReceiveHalf \/ ReceiveAnswer
  <2>1. PICK t \in Locals : Hands(s, t) /\ Commit(t)
    BY <1>1, <1>8, StepHands
  <2>2. PICK k \in Replies : Arrives(k)
    BY <1>8 DEF ReceiveHalf, ReceiveAnswer
  <2>3. k # "EVENT"
    BY DEF Replies
  <2>4. Owes(s) \subseteq Owes(t) \cup Named(t.out)
    BY <2>1, <1>1 DEF Hands
  <2> QED BY <2>1, <2>2, <2>3, <2>4, <1>2, <1>3, <1>4, <1>7
<1>9. CASE ReceiveStray
  <2>1. PICK k \in Replies : Arrives(k)
    BY <1>9 DEF ReceiveStray
  <2>2. k # "EVENT" /\ s' = s /\ toServer' = toServer
    BY <1>9 DEF Replies, ReceiveStray
  <2> QED BY <2>1, <2>2, <1>2, <1>3, <1>7
<1>10. CASE ReceiveEvent
  <2> DEFINE e == Head(toClient).ev
             t == [s EXCEPT !.live = s.live \cup {e}]
  <2>1. Arrives("EVENT") /\ \E r \in Run(e, FALSE) : Commit(Begin(t, e, r))
    BY <1>10 DEF ReceiveEvent
  <2>2. PICK r \in Run(e, FALSE) : Commit(Begin(t, e, r))
    BY <2>1
  <2>3. e \in Events
    BY <2>1, <1>1, ArrivesTyped
  <2>4. /\ t \in Locals /\ t.pending = s.pending /\ t.auto = s.auto
    BY <1>1, <2>3 DEF Locals
  <2>5. r \in Results(e)
    BY <2>3, RunTyped
  <2> HIDE DEF t, e
  <2>6. Begin(t, e, r) \in Locals /\ Owes(Begin(t, e, r)) = Owes(t) \cup {e}
    BY <2>3, <2>4, <2>5, BeginHands
  <2>7. Owes(t) = Owes(s)
    BY <2>4 DEF Owes
  <2>8. srv \in Owes(s) \cup Named(toServer) \cup {e} => srv \in Owes(s') \cup Named(toServer')
    BY <2>2, <2>6, <2>7, <1>1, CommitHands DEF Owes
  <2>9. CASE e = srv
    BY <2>1, <2>8, <2>9, <1>2, <1>7
  <2>10. CASE e # srv
    <3>1. Brings(toClient, srv) => Brings(toClient', srv)
      BY <2>1, <2>10, <1>7 DEF e
    <3> QED BY <2>1, <2>8, <3>1, <1>2, <1>3, <1>7
  <2> QED BY <2>9, <2>10
<1>11. CASE ReceiveCancel
  <2>1. Arrives("CANCEL")
    BY <1>11 DEF ReceiveCancel
  <2> QED BY <2>1, <1>2, <1>7
<1>12. CASE OpenMenu \/ Stroll
  <2>1. s'.pending = s.pending /\ s'.auto = s.auto /\ toServer' = toServer /\ toClient' = toClient
    BY <1>1, <1>12 DEF OpenMenu, Stroll, Locals
  <2>2. Owes(s') = Owes(s)
    BY <2>1 DEF Owes
  <2> QED BY <2>1, <2>2, <1>2, <1>3
<1> QED BY <1>2, <1>5, <1>6, <1>8, <1>9, <1>10, <1>11, <1>12, Zenon DEF Loop

LEMMA ServerOwner ==
    ASSUME InvOwner, Server
    PROVE  Owner'
<1> SUFFICES ASSUME srv' # NoEvent
             PROVE  /\ Brings(toClient', srv') \/ srv' \in Owes(s') \cup Named(toServer')
                    /\ Fenced(toClient', srv')
  BY DEF Owner, Owes, Owed
<1>1. /\ toServer \in Seq(Datagrams) /\ toClient \in Seq(ToClient)
      /\ srv \in Events \cup {NoEvent}
  BY DEF InvOwner, Inv, TypeOK
<1>2. s' = s
  BY DEF Server, Trigger, Drop, ServeEnd, ServeTag, ServeNone
<1>3. CASE Trigger
  <2>1. srv' \in Events /\ toClient' = toClient \o Say("EVENT", srv')
    BY <1>3 DEF Trigger
  <2> QED BY <2>1, <1>1, QueueSays
<1>4. CASE Drop
  BY <1>4 DEF Drop
<1>5. CASE ServeEnd
  <2>1. PICK e \in Events : /\ srv' = e
                            /\ toClient' = toClient \o Say("EVENT", e) \o Say("ack", NoEvent)
    BY <1>5 DEF ServeEnd
  <2> DEFINE q == toClient \o Say("EVENT", e)
  <2>2. q \in Seq(ToClient)
    BY <1>1, SayTyped
  <2>3. Brings(q, e) /\ Fenced(q, e)
    BY <1>1, QueueSays
  <2> HIDE DEF q
  <2>4. Brings(q \o Say("ack", NoEvent), e) /\ Fenced(q \o Say("ack", NoEvent), e)
    BY <2>2, <2>3, QueueSays
  <2> QED BY <2>1, <2>4 DEF q
<1>6. CASE ServeTag \/ ServeNone
  <2>1. /\ srv' = srv /\ toServer # <<>> /\ toServer' = Tail(toServer) /\ Names("END") = {}
    BY <1>6 DEF ServeTag, ServeNone
  <2>2. /\ srv \in Events
        /\ Brings(toClient, srv) \/ srv \in Owes(s) \cup Named(toServer)
        /\ Fenced(toClient, srv)
    BY <2>1, <1>1 DEF InvOwner, Owner
  <2>3. srv \in Named(toServer) => srv \in Named(toServer')
    <3>1. ~(\E m \in Head(toServer) : m.k = "END" /\ m.ev = srv)
      BY <2>1 DEF Names
    <3> QED BY <2>1, <3>1, <1>1, NamesTail
  <2>4. Fenced(toClient', srv) /\ (Brings(toClient, srv) => Brings(toClient', srv))
    <3>1. CASE ServeNone
      BY <3>1, <2>2 DEF ServeNone
    <3>2. CASE ServeTag
      <4>1. PICK m \in Names("TAG") :
              toClient' = toClient \o (IF "reply" \in m.need THEN Say("reply", m.ev) ELSE <<>>)
                                   \o (IF "ack" \in m.need THEN Say("ack", m.ev) ELSE <<>>)
        BY <3>2 DEF ServeTag
      <4>2. m.ev \in Events
        <5>1. Head(toServer) \in Datagrams
          BY <2>1, <1>1
        <5> QED BY <5>1 DEF Names, Datagrams
      <4> DEFINE q == toClient \o (IF "reply" \in m.need THEN Say("reply", m.ev) ELSE <<>>)
      <4>3. /\ q \in Seq(ToClient) /\ Fenced(q, srv)
            /\ Brings(toClient, srv) => Brings(q, srv)
        <5>1. CASE "reply" \in m.need
          BY <5>1, <4>2, <1>1, <2>2, SayTyped, QueueSays DEF Replies
        <5>2. CASE "reply" \notin m.need
          <6>1. q = toClient
            BY <5>2, <1>1
          <6> QED BY <6>1, <1>1, <2>2
        <5> QED BY <5>1, <5>2
      <4> HIDE DEF q
      <4>4. toClient' = q \o (IF "ack" \in m.need THEN Say("ack", m.ev) ELSE <<>>)
        BY <4>1 DEF q
      <4>5. CASE "ack" \in m.need
        BY <4>3, <4>4, <4>5, QueueSays
      <4>6. CASE "ack" \notin m.need
        <5>1. toClient' = q
          BY <4>3, <4>4, <4>6
        <5> QED BY <5>1, <4>3
      <4> QED BY <4>5, <4>6
    <3> QED BY <1>6, <3>1, <3>2
  <2> QED BY <1>2, <2>1, <2>2, <2>3, <2>4
<1> QED BY <1>3, <1>4, <1>5, <1>6 DEF Server

LEMMA InitOwner == Init => InvOwner
<1> SUFFICES ASSUME Init PROVE InvOwner
  OBVIOUS
<1>1. toClient = <<>> /\ link = TRUE
  BY DEF Init
<1>2. Inv
  BY InitInv
<1>3. srv # NoEvent => Fenced(toClient, srv)
  BY <1>1 DEF Fenced
<1>4. srv # NoEvent => srv \in Owes(s)
  <2>1. PICK E \in {{}} \cup {{e} : e \in Events} :
          /\ s.pending = [e \in Events |-> IF e \in E THEN 1 ELSE 0]
          /\ srv = IF E = {} THEN NoEvent ELSE CHOOSE e \in E : TRUE
    <3>1. PICK E \in {{}} \cup {{e} : e \in Events} :
            /\ s = [dlg |-> NoDialog,
                    pending |-> [e \in Events |-> IF e \in E THEN 1 ELSE 0],
                    auto |-> Nothing, open |-> FALSE,
                    box |-> IF E = {} THEN NoEvent ELSE CHOOSE e \in E : TRUE,
                    menu |-> FALSE, pos |-> 0, dead |-> FALSE,
                    watch |-> NoWatch, out |-> <<>>, live |-> E, strolled |-> FALSE]
            /\ srv = IF E = {} THEN NoEvent ELSE CHOOSE e \in E : TRUE
      BY DEF Init
    <3> QED BY <3>1
  <2>2. E # {} => (CHOOSE e \in E : TRUE) \in E
    OBVIOUS
  <2>3. E \subseteq Events
    OBVIOUS
  <2>4. srv # NoEvent => srv \in E
    BY <2>1, <2>2
  <2>5. srv \in E => s.pending[srv] = 1
    BY <2>1, <2>3
  <2> QED BY <2>3, <2>4, <2>5 DEF Owes, Owed
<1> QED BY <1>1, <1>2, <1>3, <1>4 DEF InvOwner, Owner

\* The character never sticks InEvent: as long as no datagram is lost and the
\* link does not fail, the event the server waits for is on its way, owed, or
\* has its END under way, whatever cancels crossed it.
THEOREM EventsHaveOwners == MaxLost = 0 /\ MaxOutages = 0 => (Spec => []EventHasOwner)
<1> SUFFICES ASSUME MaxLost = 0, MaxOutages = 0 PROVE Spec => []EventHasOwner
  OBVIOUS
<1>1. InvOwner /\ Inv' /\ [Next]_vars => InvOwner'
  <2> SUFFICES ASSUME InvOwner, Inv', [Next]_vars PROVE InvOwner'
    OBVIOUS
  <2>1. link' = TRUE
    BY LinkStays DEF InvOwner
  <2>2. CASE Loop
    BY <2>1, <2>2, LoopOwner DEF InvOwner
  <2>3. CASE Server
    BY <2>1, <2>3, ServerOwner DEF InvOwner
  <2>4. CASE ~Loop /\ ~Server
    <3>1. ~Lose
      <4>1. used.lost \in Nat
        BY DEF InvOwner, Inv, TypeOK
      <4>2. ~(used.lost < MaxLost)
        BY <4>1
      <4> QED BY <4>2 DEF Lose
    <3>2. UNCHANGED <<s, srv, toServer, toClient>>
      BY <2>4, <3>1 DEF Next, Command, LinkDown, LinkUp, vars
    <3>3. Owner'
      BY <3>2 DEF InvOwner, Owner, Owes, Owed, Named, Brings, Fenced
    <3> QED BY <2>1, <3>3 DEF InvOwner
  <2> QED BY <2>2, <2>3, <2>4
<1>2. InvOwner => EventHasOwner
  <2> SUFFICES ASSUME InvOwner, srv # NoEvent
               PROVE  \/ \E i \in DOMAIN toClient : toClient[i] = [k |-> "EVENT", ev |-> srv]
                      \/ s.pending[srv] > 0 \/ s.auto[srv] > 0
                      \/ srv \in InFlight("END")
    BY DEF EventHasOwner
  <2> QED BY DEF InvOwner, Owner, Brings, Owes, Owed, Named, InFlight
<1> QED BY InitOwner, <1>1, <1>2, InvInductive, PTL DEF Spec

-----------------------------------------------------------------------------
(* One END for one event, when nobody commands and the server drops no      *)
(* event by itself.  A raw choice ends an event it does not own, and an     *)
(* event the VM had finished outlives a cancel in auto_event_end.           *)

Comes(q) == {i \in DOMAIN q : q[i].k = "EVENT"}

\* At most one trigger is in flight, of e, and no cancel.
One(q, e) ==
    /\ \A i \in DOMAIN q : q[i].k # "CANCEL"
    /\ Alone(Comes(q)) /\ \A i \in Comes(q) : q[i].ev = e

\* The server's event is in one place: its trigger in flight, owed by the
\* loop as pending or as automatic, or its END in flight.
Token ==
    /\ s.out = <<>> /\ cmds = <<>>
    /\ One(toClient, srv)
    /\ Owes(s) \subseteq {srv} /\ Named(toServer) \subseteq {srv}
    /\ Owed(s.pending) = {} \/ Owed(s.auto) = {}
    /\ Owes(s) # {} => Ends(toServer) = {} /\ Comes(toClient) = {}
    /\ Ends(toServer) # {} => Comes(toClient) = {}
    /\ Alone(Ends(toServer))
    /\ Owes(s) \subseteq s.live

InvToken == Inv /\ Token

LEMMA ComesTail ==
    ASSUME NEW q \in Seq(ToClient), q # <<>>, NEW e, One(q, e)
    PROVE  /\ One(Tail(q), e)
           /\ Comes(q) = {} => Comes(Tail(q)) = {}
           /\ Head(q).k = "EVENT" => Comes(Tail(q)) = {} /\ Head(q).ev = e /\ Comes(q) # {}
           /\ Head(q).k # "CANCEL"
<1> DEFINE r == Tail(q)
<1>1. /\ Len(q) \in Nat /\ Len(q) > 0 /\ DOMAIN q = 1..Len(q) /\ DOMAIN r = 1..(Len(q) - 1)
      /\ Head(q) = q[1] /\ 1 \in DOMAIN q
  OBVIOUS
<1>2. \A i \in DOMAIN r : i + 1 \in DOMAIN q /\ r[i] = q[i + 1] /\ i \in Nat /\ i > 0
  OBVIOUS
<1> HIDE DEF r
<1>3. \A i \in Comes(r) : i + 1 \in Comes(q) /\ r[i] = q[i + 1] /\ i \in Nat /\ i > 0
  BY <1>2 DEF Comes
<1>4. \A i \in DOMAIN r : r[i].k # "CANCEL"
  BY <1>2 DEF One
<1>5. Alone(Comes(r))
  BY <1>3 DEF One, Alone
<1>6. \A i \in Comes(r) : r[i].ev = e
  BY <1>3 DEF One
<1>7. Comes(q) = {} => Comes(r) = {}
  BY <1>3
<1>8. Head(q).k = "EVENT" => 1 \in Comes(q)
  BY <1>1 DEF Comes
<1>9. Head(q).k = "EVENT" => Comes(r) = {} /\ Head(q).ev = e
  BY <1>1, <1>3, <1>8 DEF One, Alone
<1>10. Head(q).k # "CANCEL"
  BY <1>1 DEF One
<1> QED BY <1>4, <1>5, <1>6, <1>7, <1>8, <1>9, <1>10 DEF One, r

LEMMA ComesSay ==
    ASSUME NEW q \in Seq(ToClient), NEW k, k # "CANCEL", NEW x, NEW e, One(q, e)
    PROVE  /\ k # "EVENT" => One(q \o Say(k, x), e) /\ Comes(q \o Say(k, x)) = Comes(q)
           /\ Comes(q) = {} => One(q \o Say(k, x), x)
<1> DEFINE m == [k |-> k, ev |-> x]
           c == q \o Say(k, x)
<1>1. /\ Len(q) \in Nat /\ DOMAIN q = 1..Len(q) /\ DOMAIN c = 1..(Len(q) + 1)
  BY DEF Say
<1>2. /\ \A i \in DOMAIN q : i \in DOMAIN c /\ c[i] = q[i]
      /\ c[Len(q) + 1] = m
  BY DEF Say
<1>3. m.k = k /\ m.ev = x
  OBVIOUS
<1>4. \A i \in DOMAIN c : i \in DOMAIN q \/ i = Len(q) + 1
  BY <1>1
<1> HIDE DEF c, m
<1>5. \A i \in DOMAIN c : c[i].k # "CANCEL"
  BY <1>2, <1>3, <1>4 DEF One
<1>6. Comes(q) \subseteq Comes(c)
  BY <1>2 DEF Comes
<1>7. \A i \in Comes(c) : i \in Comes(q) \/ (i = Len(q) + 1 /\ k = "EVENT")
  BY <1>2, <1>3, <1>4 DEF Comes
<1>8. ASSUME k # "EVENT" PROVE One(c, e) /\ Comes(c) = Comes(q)
  <2>1. Comes(c) = Comes(q)
    BY <1>6, <1>7, <1>8
  <2>2. \A i \in Comes(c) : c[i].ev = e
    <3>1. \A i \in Comes(q) : i \in DOMAIN q
      BY DEF Comes
    <3> QED BY <2>1, <3>1, <1>2 DEF One
  <2> QED BY <2>1, <2>2, <1>5 DEF One
<1>9. ASSUME Comes(q) = {} PROVE One(c, x)
  <2>1. \A i \in Comes(c) : i = Len(q) + 1 /\ c[i].ev = x
    BY <1>2, <1>3, <1>7, <1>9
  <2> QED BY <2>1, <1>5 DEF One, Alone
<1> QED BY <1>8, <1>9 DEF c

LEMMA NamesEnds ==
    ASSUME NEW q \in Seq(Datagrams)
    PROVE  Ends(q) = {} <=> Named(q) = {}
<1>1. \A i \in DOMAIN q : \A m \in q[i] : m.ev \in Events
  <2>1. \A i \in DOMAIN q : q[i] \in Datagrams
    OBVIOUS
  <2> QED BY <2>1 DEF Datagrams
<1>2. ASSUME Ends(q) # {} PROVE Named(q) # {}
  <2>1. PICK i \in DOMAIN q : \E m \in q[i] : m.k = "END"
    BY <1>2 DEF Ends
  <2>2. PICK m \in q[i] : m.k = "END"
    BY <2>1
  <2>3. m.ev \in Named(q)
    BY <2>1, <2>2, <1>1, Zenon DEF Named
  <2> QED BY <2>3
<1>3. ASSUME Named(q) # {} PROVE Ends(q) # {}
  BY <1>3 DEF Named, Ends
<1> QED BY <1>2, <1>3

\* An END in the range that Commit appended was in the handler's datagrams.
LEMMA SentNamed ==
    ASSUME NEW q \in Seq(Datagrams), toServer \in Seq(Datagrams), toServer' = toServer \o q
    PROVE  EndsSent \subseteq Named(q)
<1> SUFFICES ASSUME NEW e \in EndsSent PROVE e \in Named(q)
  OBVIOUS
<1>1. PICK i \in (Len(toServer) + 1)..Len(toServer') : e \in Ended(toServer'[i])
  BY DEF EndsSent
<1> DEFINE j == i - Len(toServer)
<1>2. j \in DOMAIN q /\ toServer'[i] = q[j]
  BY <1>1
<1> HIDE DEF j
<1>3. q[j] \in Datagrams
  BY <1>2
<1>4. PICK m \in q[j] : m.k = "END" /\ m.ev = e
  BY <1>1, <1>2 DEF Ended
<1>5. e \in Events
  BY <1>3, <1>4 DEF Datagrams
<1> QED BY <1>2, <1>4, <1>5, Zenon DEF Named

LEMMA NothingSent ==
    ASSUME toServer \in Seq(Datagrams),
           \/ toServer' = toServer \/ toServer' = <<>>
           \/ toServer # <<>> /\ toServer' = Tail(toServer)
    PROVE  EndsSent = {}
<1>1. Len(toServer) \in Nat /\ Len(toServer') \in Nat /\ Len(toServer') <= Len(toServer)
  <2>1. CASE toServer # <<>> /\ toServer' = Tail(toServer)
    <3>1. Len(Tail(toServer)) = Len(toServer) - 1 /\ Len(toServer) \in Nat /\ Len(toServer) > 0
      BY <2>1
    <3>2. Len(toServer') = Len(toServer) - 1
      BY <2>1, <3>1
    <3> QED BY <3>1, <3>2
  <2>2. CASE toServer' = toServer
    BY <2>2
  <2>3. CASE toServer' = <<>>
    <3>1. Len(toServer') = 0 /\ Len(toServer) \in Nat
      BY <2>3
    <3> QED BY <3>1
  <2> QED BY <2>1, <2>2, <2>3
<1>2. (Len(toServer) + 1)..Len(toServer') = {}
  BY <1>1
<1> QED BY <1>2 DEF EndsSent

\* What a step with a token may not do.
Honest ==
    /\ EndsSent \subseteq s.live
    /\ s.dlg # NoDialog /\ s'.dlg # NoDialog /\ s'.dlg.ev = s.dlg.ev => s.dlg.ev \notin EndsSent

\* The handlers that hand over.
LEMMA HandsToken ==
    ASSUME InvToken, Inv', NEW t \in Locals, Hands(s, t), Commit(t), srv' = srv, cmds' = <<>>,
           One(toClient', srv), Comes(toClient) = {} => Comes(toClient') = {}
    PROVE  Token' /\ Honest
<1>1. /\ toServer \in Seq(Datagrams) /\ s.out = <<>> /\ Inv
      /\ Owes(s) \subseteq {srv} /\ Named(toServer) \subseteq {srv}
      /\ Owed(s.pending) = {} \/ Owed(s.auto) = {}
      /\ Owes(s) # {} => Ends(toServer) = {} /\ Comes(toClient) = {}
      /\ Ends(toServer) # {} => Comes(toClient) = {}
      /\ Alone(Ends(toServer)) /\ Owes(s) \subseteq s.live
  BY DEF InvToken, Token, Inv, TypeOK
<1>2. /\ s'.pending = t.pending /\ s'.auto = t.auto /\ s'.dlg = t.dlg /\ s'.out = <<>>
      /\ t.live \ Named(t.out) \subseteq s'.live
      /\ toServer' = toServer \o t.out /\ t.out \in Seq(Datagrams)
      /\ Named(toServer') = Named(toServer) \cup Named(t.out)
  BY <1>1, CommitHands
<1>3. Ends(s.out) = {} /\ Named(s.out) = {}
  BY <1>1 DEF Ends, Named
<1>4. Lone(s)
  BY <1>1, <1>3 DEF Lone, Alone
<1>5. /\ Owes(t) \subseteq Owes(s) /\ Named(t.out) \subseteq Owes(s) /\ Lone(t)
      /\ t.live = s.live
  BY <1>3, <1>4 DEF Hands
<1>6. Owes(s') = Owes(t)
  BY <1>2 DEF Owes
<1>7. Ends(t.out) = {} <=> Named(t.out) = {}
  BY <1>2, NamesEnds
<1>8. Ends(t.out) # {} =>
        Owes(s) # {} /\ Owes(t) = {} /\ Ends(toServer) = {} /\ Comes(toClient) = {}
  BY <1>1, <1>5, <1>7 DEF Lone
<1>9. /\ Alone(Ends(toServer'))
      /\ Ends(toServer) = {} /\ Ends(t.out) = {} => Ends(toServer') = {}
  BY <1>1, <1>2, <1>5, <1>8, NamesConcat DEF Lone
<1>10. Owes(s') # {} => Ends(toServer') = {} /\ Comes(toClient') = {}
  BY <1>1, <1>5, <1>6, <1>8, <1>9
<1>11. Ends(toServer') # {} => Comes(toClient') = {}
  BY <1>1, <1>8, <1>9
<1>12. Owes(s') \subseteq s'.live
  BY <1>1, <1>2, <1>5, <1>6, <1>7, <1>8
<1>13. Owed(s'.pending) = {} \/ Owed(s'.auto) = {}
  BY <1>2, <1>5 DEF Lone
<1>14. Owes(s') \subseteq {srv} /\ Named(toServer') \subseteq {srv}
  BY <1>1, <1>2, <1>5, <1>6
<1>15. Token'
  BY <1>2, <1>9, <1>10, <1>11, <1>12, <1>13, <1>14 DEF Token, Owes, Owed
<1>16. EndsSent \subseteq Named(t.out)
  BY <1>1, <1>2, SentNamed
<1>17. EndsSent \subseteq s.live
  BY <1>1, <1>5, <1>16
<1>18. ASSUME s'.dlg # NoDialog PROVE EndsSent = {}
  <2>1. PICK e \in Events : s'.pending[e] > 0
    BY <1>18 DEF Inv, Held
  <2>2. Owes(t) # {}
    BY <2>1, <1>2 DEF Owes, Owed
  <2> QED BY <2>2, <1>7, <1>8, <1>16
<1> QED BY <1>15, <1>17, <1>18 DEF Honest

LEMMA LoopToken ==
    ASSUME InvToken, Inv', Loop
    PROVE  Token' /\ Honest
<1>1. /\ Inv /\ s \in Locals /\ toServer \in Seq(Datagrams) /\ toClient \in Seq(ToClient)
      /\ s.out = <<>> /\ cmds = <<>> /\ One(toClient, srv) /\ NoEvent \notin Events
  BY EventsAssumption DEF InvToken, Token, Inv, TypeOK
<1>2. ~(\E k : Consume(k))
  BY <1>1 DEF Consume
<1>3. ~EndMenu /\ ~EndScript /\ ~EndPinned /\ ~ChooseInMenu /\ ~ChooseInScript /\ ~ChooseRaw
  BY <1>2 DEF EndMenu, EndScript, EndPinned, ChooseInMenu, ChooseInScript, ChooseRaw
<1>4. ASSUME NEW k, Arrives(k)
      PROVE  /\ One(toClient', srv) /\ k # "CANCEL"
             /\ Comes(toClient) = {} => Comes(toClient') = {}
             /\ k = "EVENT" =>
                  Comes(toClient') = {} /\ Head(toClient).ev = srv /\ Comes(toClient) # {}
  BY <1>1, <1>4, ComesTail DEF Arrives
<1>5. CASE TickQuiet \/ TickScript
  <2>1. PICK t \in Locals : Hands(s, t) /\ Commit(t)
    BY <1>1, <1>5, StepHands
  <2>2. srv' = srv /\ cmds' = cmds /\ toClient' = toClient
    BY <1>5 DEF TickQuiet, TickScript
  <2> QED BY <2>1, <2>2, <1>1, HandsToken
<1>6. CASE ReceiveHalf \/ ReceiveAnswer
  <2>1. PICK t \in Locals : Hands(s, t) /\ Commit(t)
    BY <1>1, <1>6, StepHands
  <2>2. PICK k \in Replies : Arrives(k)
    BY <1>6 DEF ReceiveHalf, ReceiveAnswer
  <2>3. srv' = srv /\ cmds' = cmds
    BY <1>6 DEF ReceiveHalf, ReceiveAnswer
  <2> QED BY <2>1, <2>2, <2>3, <1>1, <1>4, HandsToken
<1>7. CASE ReceiveEvent
  <2> DEFINE e == Head(toClient).ev
             t == [s EXCEPT !.live = s.live \cup {e}]
  <2>1. Arrives("EVENT") /\ \E r \in Run(e, FALSE) : Commit(Begin(t, e, r))
    BY <1>7 DEF ReceiveEvent
  <2>2. PICK r \in Run(e, FALSE) : Commit(Begin(t, e, r))
    BY <2>1
  <2>3. e \in Events /\ e = srv /\ srv' = srv /\ cmds' = cmds
    BY <2>1, <1>1, <1>4, <1>7, ArrivesTyped DEF ReceiveEvent
  <2>4. /\ t \in Locals /\ t.pending = s.pending /\ t.auto = s.auto /\ t.out = <<>>
        /\ t.live = s.live \cup {e}
    BY <1>1, <2>3 DEF Locals
  <2>5. r \in Results(e)
    BY <2>3, RunTyped
  <2>6. Comes(toClient') = {} /\ Comes(toClient) # {} /\ One(toClient', srv)
    BY <2>1, <1>4
  <2> HIDE DEF t, e
  <2> DEFINE b == Begin(t, e, r)
  <2>7. /\ b \in Locals /\ Owes(b) = Owes(t) \cup {e}
        /\ Owed(b.pending) = Owed(t.pending) \/ Owed(b.auto) = Owed(t.auto)
        /\ Named(b.out) = Named(t.out) /\ Ends(b.out) = Ends(t.out) /\ b.live = t.live
    BY <2>3, <2>4, <2>5, BeginHands
  <2> HIDE DEF b
  <2>8. Owes(s) = {} /\ Ends(toServer) = {} /\ Named(toServer) = {}
    BY <2>6, <1>1, NamesEnds DEF InvToken, Token
  <2>9. Owes(t) = {} /\ Owed(t.pending) = {} /\ Owed(t.auto) = {}
    BY <2>4, <2>8 DEF Owes
  <2>10. Named(b.out) = {} /\ Ends(b.out) = {}
    BY <2>4, <2>7 DEF Named, Ends
  <2>11. /\ s'.pending = b.pending /\ s'.auto = b.auto /\ s'.out = <<>>
         /\ b.live \ Named(b.out) \subseteq s'.live
         /\ toServer' = toServer \o b.out /\ b.out \in Seq(Datagrams)
         /\ Named(toServer') = Named(toServer) \cup Named(b.out)
    BY <2>2, <2>7, <1>1, CommitHands DEF b
  <2>12. Owes(s') = {srv} /\ srv \in s'.live
    BY <2>3, <2>4, <2>7, <2>9, <2>10, <2>11 DEF Owes
  <2>13. Ends(toServer') = {} /\ Named(toServer') = {}
    BY <2>8, <2>10, <2>11, <1>1, NamesConcat
  <2>14. Owed(s'.pending) = {} \/ Owed(s'.auto) = {}
    BY <2>7, <2>9, <2>11
  <2>15. Token'
    BY <2>3, <2>6, <2>11, <2>12, <2>13, <2>14, <1>1 DEF Token, Owes, Owed, Alone
  <2>16. EndsSent = {}
    BY <2>10, <2>11, <1>1, SentNamed
  <2> QED BY <2>15, <2>16 DEF Honest
<1>8. CASE ReceiveStray
  <2>1. PICK k \in Replies : Arrives(k)
    BY <1>8 DEF ReceiveStray
  <2>2. UNCHANGED <<s, cmds, toServer, srv>>
    BY <1>8 DEF ReceiveStray
  <2>3. One(toClient', srv) /\ (Comes(toClient) = {} => Comes(toClient') = {})
    BY <2>1, <1>4
  <2>4. Token'
    BY <2>2, <2>3 DEF InvToken, Token, Owes, Owed, Ends, Named
  <2>5. EndsSent = {}
    BY <2>2, <1>1, NothingSent
  <2> QED BY <2>4, <2>5 DEF Honest
<1>9. ~ReceiveCancel
  BY <1>4 DEF ReceiveCancel
<1>10. CASE OpenMenu \/ Stroll
  <2>1. /\ s'.pending = s.pending /\ s'.auto = s.auto /\ s'.out = s.out /\ s'.live = s.live
        /\ UNCHANGED <<cmds, toServer, toClient, srv>>
    BY <1>1, <1>10 DEF OpenMenu, Stroll, Locals
  <2>2. Token'
    BY <2>1 DEF InvToken, Token, Owes, Owed, Ends, Named, One, Comes
  <2>3. EndsSent = {}
    BY <2>1, <1>1, NothingSent
  <2> QED BY <2>2, <2>3 DEF Honest
<1>11. CASE ChangeZone
  <2>1. /\ s'.pending = Nothing /\ s'.auto = Nothing /\ s'.out = <<>>
        /\ toServer' = <<>> /\ toClient' = <<>> /\ cmds' = cmds
    BY <1>1, <1>11 DEF ChangeZone, CloseScope, Locals
  <2>2. /\ Owes(s') = {} /\ Owed(s'.pending) = {} /\ Ends(toServer') = {}
        /\ Named(toServer') = {} /\ Comes(toClient') = {}
    BY <2>1, NothingOwed DEF Owes, Ends, Named, Comes
  <2>3. One(toClient', srv')
    BY <2>1, <2>2 DEF One, Alone
  <2>4. Token'
    BY <2>1, <2>2, <2>3, <1>1 DEF Token, Owes, Owed, Alone
  <2>5. EndsSent = {}
    BY <2>1, <1>1, NothingSent
  <2> QED BY <2>4, <2>5 DEF Honest
<1> QED BY <1>3, <1>5, <1>6, <1>7, <1>8, <1>9, <1>10, <1>11, Zenon DEF Loop

\* What the server and the network do to the token.
LEMMA ServerToken ==
    ASSUME InvToken, MaxCancels = 0, Server \/ Lose
    PROVE  Token' /\ Honest
<1>1. /\ Inv /\ s \in Locals /\ toServer \in Seq(Datagrams) /\ toClient \in Seq(ToClient)
      /\ s.out = <<>> /\ cmds = <<>> /\ One(toClient, srv) /\ NoEvent \notin Events
      /\ srv \in Events \cup {NoEvent} /\ used.cancels \in Nat
      /\ Owes(s) \subseteq {srv} /\ Named(toServer) \subseteq {srv}
      /\ Owed(s.pending) = {} \/ Owed(s.auto) = {}
      /\ Owes(s) # {} => Ends(toServer) = {} /\ Comes(toClient) = {}
      /\ Ends(toServer) # {} => Comes(toClient) = {}
      /\ Alone(Ends(toServer)) /\ Owes(s) \subseteq s.live
  BY EventsAssumption DEF InvToken, Token, Inv, TypeOK
<1>2. UNCHANGED <<s, cmds>>
  BY DEF Server, Trigger, Drop, ServeEnd, ServeTag, ServeNone, Lose
<1>3. toServer' = toServer \/ (toServer # <<>> /\ toServer' = Tail(toServer))
  BY DEF Server, Trigger, Drop, ServeEnd, ServeTag, ServeNone, Lose
<1>4. Honest
  BY <1>1, <1>3, NothingSent DEF Honest
<1>5. /\ Named(toServer') \subseteq Named(toServer) /\ Alone(Ends(toServer'))
      /\ Ends(toServer) = {} => Ends(toServer') = {}
  BY <1>1, <1>3, NamesTail
<1>6. Owes(s) \in SUBSET Events /\ Named(toServer) \in SUBSET Events
  BY DEF Owes, Owed, Named
<1>7. ~Drop
  BY <1>1 DEF Drop
<1>8. ASSUME srv' = srv, One(toClient', srv), Comes(toClient') = Comes(toClient) PROVE Token'
  <2>1. Owes(s') = Owes(s) /\ s'.live = s.live /\ s'.pending = s.pending /\ s'.auto = s.auto
    BY <1>2 DEF Owes
  <2>2. /\ Owes(s') # {} => Ends(toServer') = {} /\ Comes(toClient') = {}
        /\ Ends(toServer') # {} => Comes(toClient') = {}
    BY <2>1, <1>1, <1>5, <1>8
  <2> QED BY <2>1, <2>2, <1>1, <1>2, <1>5, <1>8 DEF Token, Owes, Owed
<1>9. ASSUME Owes(s) = {}, Ends(toServer') = {}, One(toClient', srv') PROVE Token'
  <2>1. Owes(s') = {} /\ Owed(s'.pending) = {}
    BY <1>2, <1>9 DEF Owes
  <2>2. toServer' \in Seq(Datagrams)
    BY <1>1, <1>3
  <2>3. Named(toServer') = {}
    BY <2>2, <1>9, NamesEnds
  <2> QED BY <2>1, <2>3, <1>1, <1>2, <1>9 DEF Token, Owes, Owed, Alone
<1>10. CASE Trigger
  <2>1. /\ srv = NoEvent /\ srv' \in Events /\ toServer' = toServer
        /\ toClient' = toClient \o Say("EVENT", srv')
    BY <1>10 DEF Trigger
  <2>2. Owes(s) = {} /\ Named(toServer) = {}
    BY <2>1, <1>1, <1>6
  <2>3. Ends(toServer') = {}
    BY <2>1, <2>2, <1>1, NamesEnds
  <2>4. Comes(toClient) = {}
    <3>1. \A i \in DOMAIN toClient : toClient[i] \in ToClient
      BY <1>1
    <3>2. \A i \in Comes(toClient) : toClient[i].ev \in Events
      BY <3>1 DEF Comes, ToClient, Replies
    <3>3. \A i \in Comes(toClient) : toClient[i].ev = NoEvent
      BY <2>1, <1>1 DEF One
    <3> QED BY <3>2, <3>3, <1>1
  <2>5. One(toClient', srv')
    BY <2>1, <2>4, <1>1, ComesSay
  <2> QED BY <2>2, <2>3, <2>5, <1>4, <1>9
<1>11. CASE ServeEnd
  <2>1. toServer # <<>> /\ toServer' = Tail(toServer) /\ \E m \in Head(toServer) : m.k = "END"
    BY <1>11 DEF ServeEnd, Names
  <2>2. Ends(toServer') = {} /\ Ends(toServer) # {}
    <3>1. Head(toServer) = toServer[1] /\ 1 \in DOMAIN toServer
      BY <2>1, <1>1
    <3>2. 1 \in Ends(toServer)
      BY <2>1, <3>1 DEF Ends
    <3> QED BY <2>1, <3>2, <1>1, NamesTail
  <2>3. Owes(s) = {} /\ Comes(toClient) = {}
    BY <2>2, <1>1
  <2>4. One(toClient', srv')
    <3>1. CASE toClient' = toClient \o Say("ack", NoEvent) /\ srv' = NoEvent
      BY <3>1, <2>3, <1>1, ComesSay
    <3>2. ASSUME NEW e \in Events, srv' = e,
                 toClient' = toClient \o Say("EVENT", e) \o Say("ack", NoEvent)
          PROVE  One(toClient', srv')
      <4> DEFINE q == toClient \o Say("EVENT", e)
      <4>1. q \in Seq(ToClient)
        BY <1>1, SayTyped
      <4>2. One(q, e)
        BY <2>3, <1>1, ComesSay
      <4> HIDE DEF q
      <4>3. One(q \o Say("ack", NoEvent), e)
        BY <4>1, <4>2, ComesSay
      <4> QED BY <3>2, <4>3 DEF q
    <3> QED BY <1>11, <3>1, <3>2 DEF ServeEnd
  <2> QED BY <2>2, <2>3, <2>4, <1>4, <1>9
<1>12. CASE ServeTag
  <2>1. PICK m \in Names("TAG") :
          toClient' = toClient \o (IF "reply" \in m.need THEN Say("reply", m.ev) ELSE <<>>)
                               \o (IF "ack" \in m.need THEN Say("ack", m.ev) ELSE <<>>)
    BY <1>12 DEF ServeTag
  <2>2. m.ev \in Events
    <3>1. Head(toServer) \in Datagrams
      BY <1>12, <1>1 DEF ServeTag
    <3> QED BY <3>1 DEF Names, Datagrams
  <2> DEFINE q == toClient \o (IF "reply" \in m.need THEN Say("reply", m.ev) ELSE <<>>)
  <2>3. q \in Seq(ToClient) /\ One(q, srv) /\ Comes(q) = Comes(toClient)
    <3>1. CASE "reply" \in m.need
      BY <3>1, <2>2, <1>1, SayTyped, ComesSay DEF Replies
    <3>2. CASE "reply" \notin m.need
      <4>1. q = toClient
        BY <3>2, <1>1
      <4> QED BY <4>1, <1>1
    <3> QED BY <3>1, <3>2
  <2> HIDE DEF q
  <2>4. toClient' = q \o (IF "ack" \in m.need THEN Say("ack", m.ev) ELSE <<>>)
    BY <2>1 DEF q
  <2>5. One(toClient', srv) /\ Comes(toClient') = Comes(q)
    <3>1. CASE "ack" \in m.need
      BY <2>3, <2>4, <3>1, ComesSay
    <3>2. CASE "ack" \notin m.need
      <4>1. toClient' = q
        BY <2>3, <2>4, <3>2
      <4> QED BY <4>1, <2>3
    <3> QED BY <3>1, <3>2
  <2>6. srv' = srv
    BY <1>12 DEF ServeTag
  <2> QED BY <2>3, <2>5, <2>6, <1>4, <1>8
<1>13. CASE ServeNone \/ Lose
  <2>1. toClient' = toClient /\ srv' = srv
    BY <1>13 DEF ServeNone, Lose
  <2>2. One(toClient', srv) /\ Comes(toClient') = Comes(toClient)
    BY <2>1, <1>1
  <2> QED BY <2>1, <2>2, <1>4, <1>8
<1> QED BY <1>7, <1>10, <1>11, <1>12, <1>13 DEF Server

LEMMA InitToken == Init => InvToken
<1> SUFFICES ASSUME Init PROVE InvToken
  OBVIOUS
<1>1. Inv
  BY InitInv
<1>2. cmds = <<>> /\ toServer = <<>> /\ toClient = <<>>
  BY DEF Init
<1>3. PICK E \in {{}} \cup {{e} : e \in Events} :
        /\ s = [dlg |-> NoDialog,
                pending |-> [e \in Events |-> IF e \in E THEN 1 ELSE 0],
                auto |-> Nothing, open |-> FALSE,
                box |-> IF E = {} THEN NoEvent ELSE CHOOSE e \in E : TRUE,
                menu |-> FALSE, pos |-> 0, dead |-> FALSE,
                watch |-> NoWatch, out |-> <<>>, live |-> E, strolled |-> FALSE]
        /\ srv = IF E = {} THEN NoEvent ELSE CHOOSE e \in E : TRUE
  BY DEF Init
<1>4. E # {} => (CHOOSE e \in E : TRUE) \in E
  OBVIOUS
<1>5. E \subseteq Events /\ \A a \in E : E = {a}
  OBVIOUS
<1>6. E \subseteq {srv}
  BY <1>3, <1>4, <1>5
<1>7. Owed(s.pending) = E /\ Owed(s.auto) = {} /\ s.live = E /\ s.out = <<>>
  <2>1. /\ s.pending = [e \in Events |-> IF e \in E THEN 1 ELSE 0]
        /\ s.auto = Nothing /\ s.live = E /\ s.out = <<>>
    BY <1>3
  <2>2. Owed(s.pending) = E
    <3>1. \A e \in Events : s.pending[e] = IF e \in E THEN 1 ELSE 0
      BY <2>1
    <3>2. ASSUME NEW e \in Events PROVE s.pending[e] > 0 <=> e \in E
      <4>1. CASE e \in E
        <5>1. s.pending[e] = 1
          BY <3>1, <4>1, Zenon
        <5> QED BY <4>1, <5>1
      <4>2. CASE e \notin E
        <5>1. s.pending[e] = 0
          BY <3>1, <4>2, Zenon
        <5> QED BY <4>2, <5>1
      <4> QED BY <4>1, <4>2
    <3> QED BY <3>2, <1>5 DEF Owed
  <2> QED BY <2>1, <2>2, NothingOwed
<1>8. Ends(toServer) = {} /\ Named(toServer) = {} /\ Comes(toClient) = {}
  BY <1>2 DEF Ends, Named, Comes
<1>9. One(toClient, srv)
  BY <1>2, <1>8 DEF One, Alone
<1> QED BY <1>1, <1>2, <1>6, <1>7, <1>8, <1>9 DEF InvToken, Token, Owes, Alone

LEMMA StepToken ==
    ASSUME InvToken, Inv', CmdCap = 0, MaxCancels = 0, [Next]_vars
    PROVE  Token' /\ Honest
<1>1. CASE Loop
  BY <1>1, LoopToken
<1>2. CASE Server \/ Lose
  BY <1>2, ServerToken
<1>3. CASE ~Loop /\ ~(Server \/ Lose)
  <2>1. ~Command
    <3>1. cmds = <<>>
      BY DEF InvToken, Token
    <3> QED BY <3>1 DEF Command
  <2>2. UNCHANGED <<s, cmds, toServer, toClient, srv>>
    BY <1>3, <2>1 DEF Next, LinkDown, LinkUp, vars
  <2>3. Token'
    BY <2>2 DEF InvToken, Token, Owes, Owed, Ends, Named, One, Comes
  <2>4. toServer \in Seq(Datagrams)
    BY DEF InvToken, Inv, TypeOK
  <2>5. EndsSent = {}
    BY <2>2, <2>4, NothingSent
  <2> QED BY <2>3, <2>5 DEF Honest
<1> QED BY <1>1, <1>2, <1>3

\* While nobody commands and the server drops no event by itself, the event
\* the server waits for is in one place.
THEOREM TokensStand == CmdCap = 0 /\ MaxCancels = 0 => (Spec => []InvToken)
<1> SUFFICES ASSUME CmdCap = 0, MaxCancels = 0 PROVE Spec => []InvToken
  OBVIOUS
<1>1. InvToken /\ Inv' /\ [Next]_vars => InvToken'
  BY StepToken DEF InvToken
<1> QED BY InitToken, <1>1, InvInductive, PTL DEF Spec

\* Every EVENT_END is for an event the client was given and has not given
\* back, whatever is lost, wherever the player walks and however the scripts
\* end, as long as nobody commands and the server drops no event by itself.
THEOREM NoStrayEnds == CmdCap = 0 /\ MaxCancels = 0 => (Spec => NoStrayEnd)
<1> SUFFICES ASSUME CmdCap = 0, MaxCancels = 0 PROVE Spec => NoStrayEnd
  OBVIOUS
<1>1. InvToken /\ Inv' /\ [Next]_vars => [EndsSent \subseteq s.live]_vars
  BY StepToken DEF Honest
<1> QED BY TokensStand, <1>1, InvInductive, PTL DEF Spec, NoStrayEnd

\* A live script keeps its event open on the server under the same
\* conditions: no tick and no chained trigger ends the event under it.
THEOREM LiveScriptsKeep == CmdCap = 0 /\ MaxCancels = 0 => (Spec => LiveScriptKeepsEvent)
<1> SUFFICES ASSUME CmdCap = 0, MaxCancels = 0 PROVE Spec => LiveScriptKeepsEvent
  OBVIOUS
<1>1. InvToken /\ Inv' /\ [Next]_vars =>
        [s.dlg # NoDialog /\ s'.dlg # NoDialog /\ s'.dlg.ev = s.dlg.ev
           => s.dlg.ev \notin EndsSent]_vars
  BY StepToken DEF Honest
<1> QED BY TokensStand, <1>1, InvInductive, PTL DEF Spec, LiveScriptKeepsEvent

=============================================================================
