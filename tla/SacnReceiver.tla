---------------------------- MODULE SacnReceiver ----------------------------
(***************************************************************************)
(* The sACN side of the DMX thread (src/user/e131.c, sACN_main): which     *)
(* packets of a lighting desk reach the SAMD, given that UDP may lose,     *)
(* delay and duplicate them and that sequence numbers have eight bits.     *)
(*                                                                         *)
(* The desk numbers its packets; n is that number without bound, seq the   *)
(* byte in the packet.  When the desk restarts it begins a new epoch with  *)
(* any sequence number.  Another universe may share the port.              *)
(***************************************************************************)
EXTENDS Integers, FiniteSets

CONSTANTS
  Starts,       \* sequence numbers with which a desk may begin
  Gaps,         \* step to the next packet that is not lost in the network
  MaxDelay,     \* packets the desk sends while one of its packets is under way
  MaxSent,      \* bound: packets the desk sends
  MaxOther,     \* bound: packets of another universe, or malformed
  MaxEpoch,     \* bound: restarts of the desk
  MaxInFlight   \* bound: packets under way

ASSUME StartsAssumption == Starts \subseteq 0 .. 255 /\ Starts # {}
ASSUME GapsAssumption == Gaps \subseteq Nat \ {0}
ASSUME BoundsAssumption ==
  {MaxDelay, MaxSent, MaxOther, MaxEpoch, MaxInFlight} \subseteq Nat

VARIABLES
  last_seq,             \* sACN_main
  shown,                \* the packet that was last sent to the SAMD
  prev,                 \* history: the packet that was received last
  newest,               \* history: the newest of our packets received
  net,                  \* packets under way
  epoch, start, n, sent, others    \* the senders

desk == <<epoch, start, n, sent, others>>
vars == <<last_seq, shown, prev, newest, net, epoch, start, n, sent, others>>

Kinds == {"ours", "other", "bad"}

\* dmx: the start code, the first property value, is zero.
Packet == [kind : Kinds, epoch : Nat, n : Nat, seq : 0 .. 255, dmx : BOOLEAN]

NoPacket == [kind |-> "none", epoch |-> 0, n |-> 0, seq |-> 0, dmx |-> FALSE]

Init ==
  /\ last_seq = 0
  /\ shown = NoPacket /\ prev = NoPacket /\ newest = NoPacket
  /\ net = {}
  /\ epoch = 0 /\ start \in Starts /\ n = 0 /\ sent = 0 /\ others = 0

-----------------------------------------------------------------------------
(* The network and the senders. *)

\* The network takes packet p and may lose any others; what the desk sent more
\* than MaxDelay packets ago has arrived or is lost.
Carry(p, m) ==
  \E kept \in SUBSET {q \in net : q.kind = "ours" => m - q.n <= MaxDelay} :
    /\ Cardinality(kept) < MaxInFlight
    /\ net' = kept \cup {p}

DeskSends ==
  /\ sent < MaxSent
  /\ \E g \in Gaps, dmx \in BOOLEAN :
       /\ Carry([kind |-> "ours", epoch |-> epoch, n |-> n + g,
                 seq |-> (start + n + g) % 256, dmx |-> dmx], n + g)
       /\ n' = n + g
  /\ sent' = sent + 1
  /\ UNCHANGED <<last_seq, shown, prev, newest, epoch, start, others>>

\* A restart takes longer than a packet can be under way.
DeskRestarts ==
  /\ epoch < MaxEpoch
  /\ epoch' = epoch + 1
  /\ start' \in Starts
  /\ n' = 0
  /\ net' = {p \in net : p.kind # "ours"}
  /\ UNCHANGED <<last_seq, shown, prev, newest, sent, others>>

OtherSends ==
  /\ others < MaxOther
  /\ \E kind \in {"other", "bad"}, seq \in Starts :
       Carry([kind |-> kind, epoch |-> 0, n |-> others, seq |-> seq, dmx |-> TRUE], n)
  /\ others' = others + 1
  /\ UNCHANGED <<last_seq, shown, prev, newest, epoch, start, n, sent>>

-----------------------------------------------------------------------------
(* The receiver. *)

\* A byte read as int8_t.
Int8(x) == LET b == x % 256 IN IF b < 128 THEN b ELSE b - 256

e131_pkt_discard(p) == Int8(p.seq - last_seq) > -20 /\ Int8(p.seq - last_seq) <= 0

\* Packet p is received; a duplicate of it may follow.
Recv(p) ==
  /\ net' \in {net, net \ {p}}
  /\ prev' = p
  /\ newest' = IF \/ p.kind # "ours"
                  \/ newest # NoPacket /\ newest.epoch = p.epoch /\ newest.n >= p.n
               THEN newest ELSE p
  /\ UNCHANGED desk

Malformed(p) ==
  /\ p.kind = "bad"
  /\ UNCHANGED <<last_seq, shown>>

\* Faulty variant: a discarded packet leaves last_seq as it was.
OutOfOrder_Keeps(p) ==
  /\ p.kind # "bad"
  /\ e131_pkt_discard(p)
  /\ UNCHANGED <<last_seq, shown>>

\* A packet of any universe that is out of order is dropped, and counted from.
OutOfOrder(p) ==
  /\ p.kind # "bad"
  /\ e131_pkt_discard(p)
  /\ last_seq' = p.seq
  /\ UNCHANGED shown

\* Faulty variant: a packet of another universe is counted from.
OtherUniverse_Counted(p) ==
  /\ p.kind = "other"
  /\ ~e131_pkt_discard(p)
  /\ last_seq' = p.seq
  /\ UNCHANGED shown

\* Faulty variant: the universe is not compared.
OtherUniverse_Shown(p) ==
  /\ p.kind = "other"
  /\ ~e131_pkt_discard(p)
  /\ last_seq' = p.seq
  /\ shown' = p

OtherUniverse(p) ==
  /\ p.kind = "other"
  /\ ~e131_pkt_discard(p)
  /\ UNCHANGED <<last_seq, shown>>

\* Only packets with start code zero are sent to the SAMD.
InOrder(p) ==
  /\ p.kind = "ours"
  /\ ~e131_pkt_discard(p)
  /\ last_seq' = p.seq
  /\ shown' = IF p.dmx THEN p ELSE shown

Receive ==
  \E p \in net :
    /\ Recv(p)
    /\ Malformed(p) \/ OutOfOrder(p) \/ OtherUniverse(p) \/ InOrder(p)

Next == DeskSends \/ DeskRestarts \/ OtherSends \/ Receive

Spec == Init /\ [][Next]_vars

-----------------------------------------------------------------------------
(* Properties. *)

\* last_seq is a byte, and what is shown is DMX of our universe.
TypeOK ==
  /\ last_seq \in 0 .. 255
  /\ shown \in Packet \cup {NoPacket} /\ prev \in Packet \cup {NoPacket}
  /\ shown # NoPacket => shown.kind = "ours" /\ shown.dmx
  /\ newest \in Packet \cup {NoPacket}
  /\ net \subseteq Packet /\ Cardinality(net) <= MaxInFlight
  /\ epoch \in 0 .. MaxEpoch /\ start \in Starts /\ n \in Nat
  /\ sent \in 0 .. MaxSent /\ others \in 0 .. MaxOther

Ours(p) == p.kind = "ours"

\* What the SAMD gets does not go back in time: a packet that the desk sent
\* before the one that is shown is not shown any more.
NeverStale ==
  [][shown' # shown /\ shown # NoPacket /\ shown'.epoch = shown.epoch
       => shown'.n > shown.n]_vars

\* Of two packets that come one after the other, the second is shown if its
\* number follows the first: a desk that restarts, with whatever number, loses
\* no more than one packet.  (This is why a discarded packet sets last_seq.)
SecondIsShown ==
  [][   prev' # prev /\ Ours(prev) /\ Ours(prev') /\ prev'.dmx /\ Int8(prev'.seq - prev.seq) > 0
     => shown' = prev']_vars

\* A packet newer than all received in its epoch is shown, although delayed
\* packets and another universe have moved last_seq meanwhile, as long as it
\* is not so far ahead that its number counts as old.
Reach == 127 - MaxDelay - 19 * MaxOther

Newer(p, q) == p.epoch = q.epoch /\ p.n > q.n /\ p.n - q.n <= Reach

NewestIsShown ==
  [][   prev' # prev /\ Ours(prev') /\ prev'.dmx /\ newest # NoPacket /\ Newer(prev', newest)
     => shown' = prev']_vars
=============================================================================
