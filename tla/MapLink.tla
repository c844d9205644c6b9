------------------------------- MODULE MapLink -------------------------------
(* The encrypted UDP link between the keepalive loop and the map server:      *)
(* sequence numbers and acks (session/mod.rs, map_client.rs), the server's    *)
(* dispatch window and retransmit guard (external: MapNetworking::parse, as    *)
(* the comments of the client describe it), and a network that loses,          *)
(* repeats and reorders.  Sequence numbers are 16-bit in the code.             *)
EXTENDS Integers, FiniteSets

CONSTANTS Modulus,    \* 2^16 in the code
          Unapplied,  \* server_seq_applied = None
          MaxSubs,    \* bound: subpackets in one datagram
          Lifetime,   \* bound: a datagram this many bundles old is dead
          MaxFlight,  \* bound: datagrams in the air when the client sends
          Burst,      \* bound: subpackets sent past an unread current bundle
          MaxStale,   \* bound: older bundles in the air when the loop starts
          MaxLost, MaxDup  \* bounds: datagrams lost, deliveries repeated

Syncs == 0 .. Modulus - 1

ASSUME ModulusAssumption == Modulus \in Nat /\ Modulus > 2
ASSUME LifetimeAssumption == Lifetime \in Nat /\ 2 * Lifetime < Modulus
ASSUME BoundsAssumption ==
    /\ MaxSubs \in Nat /\ MaxFlight \in Nat /\ Burst \in Nat
    /\ MaxLost \in Nat /\ MaxDup \in Nat
    /\ MaxStale \in Nat /\ MaxStale <= Lifetime
    /\ Unapplied \notin Syncs

VARIABLES c,      \* seq: sub_seq; ack: server_last_seq; applied: server_seq_applied
          srv,    \* cpid: client_packet_id; spid: server_packet_id
          up,     \* datagrams of requests in the air
          down,   \* bundles in the air
          hist,   \* history: age of c.ack, subpackets sent since cpid, bundles applied
          acct,   \* history: what became of the last datagram the server accepted
          faults  \* losses and repetitions so far
vars == <<c, srv, up, down, hist, acct, faults>>

\* u16 wrapping_add and wrapping_sub.
Plus(x, k) == IF x + k >= Modulus THEN x + k - Modulus ELSE x + k
Minus(x, k) == IF x >= k THEN x - k ELSE x - k + Modulus

\* Mutant of HeaderId: no wrapping subtraction.
HeaderIdPlain(next) == next - 1

(* The sync of the last subpacket of a datagram, given the next unused one.   *)
HeaderId(next) == Minus(next, 1)

\* Mutant of IsFresh: newer means greater.
IsFreshPlain(last, incoming) == last = Unapplied \/ incoming > last

IsFresh(last, incoming) ==
    \/ last = Unapplied
    \/ incoming # last /\ 2 * Minus(incoming, last) < Modulus

(* A datagram, with three fields no code reads: how many bundles the server   *)
(* has made since the one it acks, how many subpackets follow its header's,   *)
(* and whether it is a tag's.                                                 *)
Datagram(first, n, header, behind, tag) ==
    [first |-> first, n |-> n, header |-> header, ack |-> c.ack,
     age |-> hist.age, behind |-> behind, tag |-> tag]
Bundle(stamp, age) == [stamp |-> stamp, age |-> age]

SyncsOf(d) == {Plus(d.first, k) : k \in 0 .. d.n - 1}

Later(d, n) == [d EXCEPT !.behind = @ + n]
Passed(net, n) == {Later(d, n) : d \in {e \in net : e.behind + n < Modulus}}
Older(d) == [d EXCEPT !.age = @ + 1]
Aged(net) == {Older(d) : d \in {e \in net : e.age < Lifetime}}

-----------------------------------------------------------------------------
(* The loop starts behind the zone-in flood, which applied every bundle it    *)
(* drained and read the last one's number; older ones may still be under way. *)
Init ==
    /\ \E spid \in Syncs :
        /\ srv = [cpid |-> 1, spid |-> spid]
        /\ c = [seq |-> 2, ack |-> spid, applied |-> Unapplied]
        /\ hist = [age |-> 0, gap |-> 0, got |-> spid]
        /\ down \in SUBSET {Bundle(Minus(spid, k), k) : k \in 1 .. MaxStale}
    /\ up = {}
    /\ acct = [fate |-> "run", tag |-> FALSE, straddled |-> FALSE]
    /\ faults = [lost |-> 0, dup |-> 0]

(* A session that has sent all numbers without an answer is long timed out,   *)
(* and a current bundle is read before too many further sends.                *)
Paced(n) ==
    /\ hist.gap + n < Modulus
    /\ Cardinality(up) + Cardinality(down) < MaxFlight
    /\ \/ hist.gap + n <= Burst
       \/ up = {} /\ (hist.age = 0 \/ \A b \in down : b.age > 0)

Put(n, header, behind, tag) ==
    /\ c' = [c EXCEPT !.seq = Plus(@, n)]
    /\ up' = Passed(up, n) \cup {Datagram(c.seq, n, header, behind, tag)}
    /\ hist' = [hist EXCEPT !.gap = @ + n]
    /\ UNCHANGED <<srv, down, acct, faults>>

\* Mutant of Send: the header is taken before the syncs move on.
SendHeaderFirst == \E n \in 1 .. MaxSubs :
    Paced(n) /\ Put(n, HeaderId(c.seq), n, FALSE)

(* Every send of the loop but one: the syncs first, then the header.          *)
Send == \E n \in 1 .. MaxSubs :
    Paced(n) /\ Put(n, HeaderId(Plus(c.seq, n)), 0, FALSE)

(* send_pending_tag takes the header before it moves the sync on.             *)
SendTag == Paced(1) /\ Put(1, HeaderId(c.seq), 1, TRUE)

Repeat(keep) ==
    IF keep THEN /\ faults.dup < MaxDup
                 /\ faults' = [faults EXCEPT !.dup = @ + 1]
            ELSE UNCHANGED faults

\* Mutant of Receive: an ack never moves back.
ReceiveNewest == \E b \in down, keep \in BOOLEAN :
    /\ Repeat(keep)
    /\ down' = IF keep THEN down ELSE down \ {b}
    /\ c' = [c EXCEPT !.ack = IF b.stamp > @ THEN b.stamp ELSE @,
                     !.applied = IF IsFresh(@, b.stamp) THEN b.stamp ELSE @]
    /\ hist' = [hist EXCEPT !.age = IF b.stamp > c.ack THEN b.age ELSE @,
                           !.got = IF IsFresh(c.applied, b.stamp)
                                   THEN Plus(@, 1) ELSE @]
    /\ UNCHANGED <<srv, up, acct>>

(* The receive branch: any bundle's number is the next ack; only a fresh one  *)
(* is applied.                                                                *)
Receive == \E b \in down, keep \in BOOLEAN :
    /\ Repeat(keep)
    /\ down' = IF keep THEN down ELSE down \ {b}
    /\ IF IsFresh(c.applied, b.stamp)
       THEN /\ c' = [c EXCEPT !.ack = b.stamp, !.applied = b.stamp]
            /\ hist' = [hist EXCEPT !.age = b.age, !.got = Plus(@, 1)]
       ELSE /\ c' = [c EXCEPT !.ack = b.stamp]
            /\ hist' = [hist EXCEPT !.age = b.age]
    /\ UNCHANGED <<srv, up, acct>>

-----------------------------------------------------------------------------
(* The server dispatches what lies in (client_packet_id, header], comparing   *)
(* plain numbers, and moves on to the header.                                 *)
Dispatched(d) == {s \in SyncsOf(d) : srv.cpid < s /\ s <= d.header}

Fate(d) == IF Dispatched(d) = SyncsOf(d) THEN "run"
           ELSE IF Dispatched(d) = {} THEN "dropped" ELSE "torn"

ServerTake == \E d \in up, keep \in BOOLEAN :
    /\ d.ack = srv.spid
    /\ Repeat(keep)
    /\ srv' = [cpid |-> d.header, spid |-> Plus(srv.spid, 1)]
    /\ up' = Aged(IF keep THEN up ELSE up \ {d})
    /\ down' = Aged(down) \cup {Bundle(srv'.spid, 0)}
    /\ acct' = [fate |-> Fate(d), tag |-> d.tag,
                straddled |-> srv.cpid + hist.gap - d.behind >= Modulus]
    /\ hist' = [hist EXCEPT !.age = @ + 1, !.gap = d.behind]
    /\ UNCHANGED c

(* The retransmit guard: a wrong ack gets the last bundle again, unread.      *)
ServerEat == \E d \in up, keep \in BOOLEAN :
    /\ d.ack # srv.spid
    /\ Repeat(keep)
    /\ up' = IF keep THEN up ELSE up \ {d}
    /\ down' = down \cup {Bundle(srv.spid, 0)}
    /\ UNCHANGED <<c, srv, hist, acct>>

Lose ==
    /\ faults.lost < MaxLost
    /\ faults' = [faults EXCEPT !.lost = @ + 1]
    /\ \/ \E d \in up : up' = up \ {d} /\ UNCHANGED down
       \/ \E b \in down : down' = down \ {b} /\ UNCHANGED up
    /\ UNCHANGED <<c, srv, hist, acct>>

Next == Send \/ SendTag \/ Receive \/ ServerTake \/ ServerEat \/ Lose
Spec == Init /\ [][Next]_vars

(* The tick sends as long as there is something to say, a waiting packet is   *)
(* received, and what the network neither loses for ever nor holds arrives.   *)
FairSpec == Spec /\ WF_vars(Send) /\ WF_vars(Receive)
                 /\ WF_vars(ServerTake) /\ WF_vars(ServerEat)
-----------------------------------------------------------------------------
TypeOK ==
    /\ c \in [seq : Syncs, ack : Syncs, applied : Syncs \cup {Unapplied}]
    /\ srv \in [cpid : Syncs, spid : Syncs]
    /\ up \subseteq [first : Syncs, n : 1 .. Modulus - 1, header : Syncs,
                     ack : Syncs, age : 0 .. Lifetime + 1,
                     behind : 0 .. Modulus - 1, tag : BOOLEAN]
    /\ down \subseteq [stamp : Syncs, age : 0 .. Lifetime]
    /\ hist \in [age : 0 .. Lifetime + 1, gap : 0 .. Modulus - 1, got : Syncs]
    /\ acct \in [fate : {"run", "dropped", "torn"}, tag : BOOLEAN, straddled : BOOLEAN]
    /\ faults \in [lost : 0 .. MaxLost, dup : 0 .. MaxDup]

(* A datagram the server accepts runs to its last subpacket, whatever was     *)
(* lost, repeated or eaten before it; only the one with which the numbers     *)
(* cross the wrap is dropped, and then as a whole (datagram_header_id: "the   *)
(* one datagram straddling u16 wrap is dropped"; its test: "nothing is ever   *)
(* skipped").  Of send_pending_tag's own datagrams TagRuns speaks.             *)
NothingSkipped ==
    \/ acct.tag \/ acct.fate = "run"
    \/ acct.fate = "dropped" /\ acct.straddled

(* The datagram of a held tag runs like any other (map_client.rs, on          *)
(* send_encrypted: "`last_sub_sync` must be the sync of the LAST subpacket"). *)
TagRuns == acct.tag => acct.fate = "run" \/ acct.straddled

(* Retransmissions, copies and stale bundles notwithstanding, every bundle is *)
(* applied exactly once and in order, before the server makes the next one    *)
(* (is_fresh_bundle; the ack read off every packet).                          *)
L == INSTANCE Lockstep WITH made <- srv.spid, got <- hist.got
InLockstep == L!Spec

(* After any finite number of losses, copies and eaten datagrams the server   *)
(* goes on accepting what the client sends, across the wrap too: an ack moved *)
(* back by a late copy is put right by the retransmission it provokes.        *)
FlowResumes == \A x \in Syncs : []<>(srv.spid = x)
=============================================================================
