--------------------------- MODULE DmxThreadProofs ---------------------------
(***************************************************************************)
(* For any channels, universes, ranges, frames, packets and sequence       *)
(* numbers: the types of the DMX thread, what it does with the range of    *)
(* the gaffer and with the frames under Art-Net, and SecondIsShown and     *)
(* NewestIsShown under sACN.                                               *)
(*                                                                         *)
(* Art-Net: a frame during which nothing was saved meets one and the same  *)
(* settings from its first test to its last move, and what was remembered  *)
(* of the gaffer was remembered under them too.                            *)
(***************************************************************************)
EXTENDS DmxThread, FiniteSetTheorems, TLAPS

-----------------------------------------------------------------------------
(* sACN *)

\* The last packet of ours was counted from, shown or not.
LastCounts == Ours(prev) => last_seq = prev.seq

Typed == TypeOK /\ IsFiniteSet(net) /\ LastCounts

LEMMA NoPacketIsNone == NoPacket.kind = "none" /\ NoPacket.seq \in 0 .. 255
BY DEF NoPacket

LEMMA SacnInit == Init => Typed
<1> SUFFICES ASSUME Init PROVE Typed
  OBVIOUS
<1>1. IsFiniteSet(net) /\ Cardinality(net) = 0
  BY FS_EmptySet DEF Init
<1>2. {MaxDelay, MaxSent, MaxOther, MaxEpoch, MaxInFlight} \subseteq Nat
  BY BoundsAssumption
<1>3. LastCounts
  BY NoPacketIsNone DEF Init, LastCounts, Ours
<1>4. TypeOK
  BY <1>1, <1>2 DEF Init, TypeOK
<1>5. QED
  BY <1>1, <1>3, <1>4 DEF Typed

\* What the network takes up.
LEMMA CarryTyped ==
  ASSUME NEW p \in Packet, NEW m, Typed, Carry(p, m)
  PROVE  net' \subseteq Packet /\ IsFiniteSet(net') /\ Cardinality(net') <= MaxInFlight
<1>1. PICK kept \in SUBSET net : Cardinality(kept) < MaxInFlight /\ net' = kept \cup {p}
  BY DEF Carry
<1>2. IsFiniteSet(kept)
  BY <1>1, FS_Subset DEF Typed
<1>3. /\ IsFiniteSet(kept \cup {p})
      /\ Cardinality(kept \cup {p}) = Cardinality(kept) \/ Cardinality(kept \cup {p}) = Cardinality(kept) + 1
  BY <1>2, FS_AddElement
<1>4. Cardinality(kept) \in Nat /\ MaxInFlight \in Nat
  BY <1>2, FS_CardinalityType, BoundsAssumption
<1>5. Cardinality(net') <= MaxInFlight
  BY <1>1, <1>3, <1>4
<1>6. QED
  BY <1>1, <1>3, <1>5 DEF Typed, TypeOK

LEMMA RecvTyped ==
  ASSUME NEW p \in net, Typed, Recv(p)
  PROVE  net' \subseteq Packet /\ IsFiniteSet(net') /\ Cardinality(net') <= MaxInFlight
<1>1. net' \subseteq net
  BY DEF Recv
<1>2. IsFiniteSet(net') /\ Cardinality(net') <= Cardinality(net)
  BY <1>1, FS_Subset DEF Typed
<1>3. Cardinality(net) \in Nat /\ Cardinality(net') \in Nat /\ MaxInFlight \in Nat
  BY <1>2, FS_CardinalityType, BoundsAssumption DEF Typed
<1>4. QED
  BY <1>1, <1>2, <1>3 DEF Typed, TypeOK

LEMMA SacnNext == Typed /\ Next => Typed'
<1> SUFFICES ASSUME Typed, Next PROVE Typed'
  OBVIOUS
<1> USE DEF Typed, TypeOK
<1>0. /\ Starts \subseteq 0 .. 255 /\ Gaps \subseteq Nat \ {0}
      /\ MaxDelay \in Nat /\ MaxSent \in Nat /\ MaxOther \in Nat /\ MaxEpoch \in Nat
  BY StartsAssumption, GapsAssumption, BoundsAssumption
<1>1. CASE DeskSends
  <2>1. PICK g \in Gaps, dmx \in BOOLEAN :
          /\ Carry([kind |-> "ours", epoch |-> epoch, n |-> n + g,
                    seq |-> (start + n + g) % 256, dmx |-> dmx], n + g)
          /\ n' = n + g
    BY <1>1 DEF DeskSends
  <2>2. n + g \in Nat /\ (start + n + g) % 256 \in 0 .. 255
    BY <1>0
  <2>3. [kind |-> "ours", epoch |-> epoch, n |-> n + g,
         seq |-> (start + n + g) % 256, dmx |-> dmx] \in Packet
    BY <2>2, <1>0 DEF Packet, Kinds
  <2>4. net' \subseteq Packet /\ IsFiniteSet(net') /\ Cardinality(net') <= MaxInFlight
    BY <2>1, <2>3, CarryTyped
  <2>5. /\ sent' \in 0 .. MaxSent /\ n' \in Nat
        /\ UNCHANGED <<last_seq, shown, prev, newest, epoch, start, others>>
    BY <1>0, <1>1, <2>1, <2>2 DEF DeskSends
  <2>6. QED
    BY <2>4, <2>5 DEF LastCounts, Ours
<1>2. CASE DeskRestarts
  <2>1. net' \subseteq net
    BY <1>2 DEF DeskRestarts
  <2>2. IsFiniteSet(net') /\ Cardinality(net') <= Cardinality(net)
    BY <2>1, FS_Subset
  <2>3. Cardinality(net) \in Nat /\ Cardinality(net') \in Nat /\ MaxInFlight \in Nat
    BY <2>2, FS_CardinalityType, BoundsAssumption
  <2>4. Cardinality(net') <= MaxInFlight
    BY <2>2, <2>3
  <2>5. /\ epoch' \in 0 .. MaxEpoch /\ start' \in Starts /\ n' = 0
        /\ UNCHANGED <<last_seq, shown, prev, newest, sent, others>>
    BY <1>0, <1>2 DEF DeskRestarts
  <2>6. QED
    BY <2>1, <2>2, <2>4, <2>5 DEF LastCounts, Ours
<1>3. CASE OtherSends
  <2>1. PICK kind \in {"other", "bad"}, seq \in Starts :
          Carry([kind |-> kind, epoch |-> 0, n |-> others, seq |-> seq, dmx |-> TRUE], n)
    BY <1>3 DEF OtherSends
  <2>2. [kind |-> kind, epoch |-> 0, n |-> others, seq |-> seq, dmx |-> TRUE] \in Packet
    BY <1>0 DEF Packet, Kinds
  <2>3. net' \subseteq Packet /\ IsFiniteSet(net') /\ Cardinality(net') <= MaxInFlight
    BY <2>1, <2>2, CarryTyped
  <2>4. /\ others' \in 0 .. MaxOther
        /\ UNCHANGED <<last_seq, shown, prev, newest, epoch, start, n, sent>>
    BY <1>0, <1>3 DEF OtherSends
  <2>5. QED
    BY <2>3, <2>4 DEF LastCounts, Ours
<1>4. ASSUME NEW p \in net, Recv(p),
             Malformed(p) \/ OutOfOrder(p) \/ OtherUniverse(p) \/ InOrder(p)
      PROVE  Typed'
  <2>1. p \in Packet /\ p.seq \in 0 .. 255
    BY DEF Packet
  <2>2. net' \subseteq Packet /\ IsFiniteSet(net') /\ Cardinality(net') <= MaxInFlight
    BY <1>4, RecvTyped
  <2>3. prev' = p /\ newest' \in {newest, p} /\ UNCHANGED desk
    BY <1>4 DEF Recv
  <2>4. last_seq' \in 0 .. 255
    BY <1>4, <2>1 DEF Malformed, OutOfOrder, OtherUniverse, InOrder
  <2>5. shown' = shown \/ (shown' = p /\ p.kind = "ours" /\ p.dmx)
    BY <1>4 DEF Malformed, OutOfOrder, OtherUniverse, InOrder
  <2>6. Ours(p) => last_seq' = p.seq
    BY <1>4 DEF Malformed, OutOfOrder, OtherUniverse, InOrder, Ours
  <2>7. LastCounts'
    BY <2>3, <2>6 DEF LastCounts, Ours
  <2>8. QED
    BY <2>1, <2>2, <2>3, <2>4, <2>5, <2>7 DEF desk
<1>5. QED
  BY <1>1, <1>2, <1>3, <1>4 DEF Next, Receive

\* A step that receives a packet whose number follows the last one shows it.
LEMMA FollowerIsShown ==
  ASSUME Typed, Next,
         prev' # prev, Ours(prev), Ours(prev'), prev'.dmx, Int8(prev'.seq - prev.seq) > 0
  PROVE  shown' = prev'
<1>1. Receive
  BY DEF Next, DeskSends, DeskRestarts, OtherSends
<1>2. PICK p \in net : Recv(p) /\ (Malformed(p) \/ OutOfOrder(p) \/ OtherUniverse(p) \/ InOrder(p))
  BY <1>1 DEF Receive
<1>3. prev' = p /\ p.kind = "ours" /\ p.dmx
  BY <1>2 DEF Recv, Ours
<1>4. last_seq = prev.seq
  BY DEF Typed, LastCounts
<1>5. p \in Packet /\ p.seq \in 0 .. 255 /\ prev.seq \in 0 .. 255
  BY <1>4 DEF Typed, TypeOK, Packet
<1>6. Int8(p.seq - last_seq) > 0
  BY <1>3, <1>4
<1> DEFINE d == p.seq - last_seq
<1>7. d % 256 \in Int
  <2>1. p.seq \in Int /\ last_seq \in Int
    BY <1>5 DEF Typed, TypeOK
  <2>2. d \in Int
    BY <2>1
  <2> HIDE DEF d
  <2>3. QED
    BY <2>2
<1>8. Int8(d) \in Int
  BY <1>7 DEF Int8
<1>9. ~(Int8(d) <= 0)
  BY <1>6, <1>8
<1>10. ~e131_pkt_discard(p)
  BY <1>9 DEF e131_pkt_discard
<1>11. InOrder(p)
  BY <1>2, <1>3, <1>10 DEF Malformed, OutOfOrder, OtherUniverse
<1>12. QED
  BY <1>3, <1>11 DEF InOrder

-----------------------------------------------------------------------------
(* sACN: how far last_seq may be behind. *)

\* Packets under way are as the senders made them; the numbers of the others
\* are those of their sending.
NetKnown ==
  /\ \A p \in net :
       IF Ours(p)
       THEN p.epoch = epoch /\ p.n <= n /\ n - p.n <= MaxDelay /\ p.seq = (start + p.n) % 256
       ELSE p.n < others
  /\ \A p, q \in net : ~Ours(p) /\ ~Ours(q) /\ p.n = q.n => p = q
  /\ newest # NoPacket =>
       Ours(newest) /\ newest.epoch <= epoch /\ (newest.epoch = epoch => newest.n <= n)

\* The sequence number of the packet that the desk sent x packets before the newest.
Behind(x) == (start + newest.n - x) % 256

\* last_seq lags behind the newest packet: by what a late packet of ours took it
\* back, and at most 19 for each packet of others that has moved it since (those
\* of V).  None of these can move it once more.
Lagging(lag, V) ==
  /\ lag <= MaxDelay + 19 * Cardinality(V)
  /\ last_seq = Behind(lag)
  /\ \A p \in net : ~Ours(p) /\ p.n \in V => \E a \in 0 .. lag : p.seq = Behind(a)

Follows ==
  Reach > 0 /\ newest # NoPacket /\ newest.epoch = epoch =>
    \E V \in SUBSET (0 .. others - 1), lag \in 0 .. 127 : Lagging(lag, V)

\* The difference of two bytes, as a signed byte.
LEMMA BytesDiffer ==
  ASSUME NEW x \in Int, NEW y \in Int
  PROVE  Int8((x % 256) - (y % 256)) = Int8(x - y)
<1>1. ((x % 256) - (y % 256)) % 256 = (x - y) % 256
  OBVIOUS
<1>2. QED
  BY <1>1 DEF Int8

LEMMA ByteTwice ==
  ASSUME NEW x \in Int, NEW k \in Int
  PROVE  ((x % 256) - k) % 256 = (x - k) % 256
OBVIOUS

LEMMA SmallDifference ==
  ASSUME NEW d \in 0 .. 127
  PROVE  Int8(d) = d
<1>1. d % 256 = d
  OBVIOUS
<1>2. QED
  BY <1>1 DEF Int8

\* A packet that is discarded is at most 19 behind.
LEMMA DiscardedIsNear ==
  ASSUME NEW p, p.seq \in 0 .. 255, last_seq \in 0 .. 255, e131_pkt_discard(p)
  PROVE  \E k \in 0 .. 19 : p.seq = (last_seq - k) % 256
<1>1. PICK s \in 0 .. 255, l \in 0 .. 255 : s = p.seq /\ l = last_seq
  OBVIOUS
<1> DEFINE b == (s - l) % 256
<1>2. Int8(s - l) > -20 /\ Int8(s - l) <= 0
  BY <1>1 DEF e131_pkt_discard
<1>3. b \in 0 .. 255 /\ Int8(s - l) = IF b < 128 THEN b ELSE b - 256
  BY DEF Int8
<1>4. b = 0 \/ (b > 236 /\ b < 256)
  BY <1>2, <1>3
<1>5. /\ s >= l => b = s - l
      /\ s < l => b = s - l + 256
  OBVIOUS
<1>6. PICK k \in 0 .. 19 : (b = 0 /\ k = 0) \/ k = 256 - b
  BY <1>3, <1>4
<1>7. \/ l - k = s /\ l - k >= 0
      \/ l - k = s - 256 /\ l - k < 0
  BY <1>3, <1>5, <1>6
<1>8. s = (l - k) % 256
  <2>1. s % 256 = s /\ (s - 256) % 256 = s
    OBVIOUS
  <2>2. QED
    BY <1>7, <2>1
<1>9. p.seq = (last_seq - k) % 256
  BY <1>1, <1>8
<1>10. QED
  BY <1>6, <1>9

LEMMA NetKnownInit == Init => NetKnown
BY DEF Init, NetKnown

\* What is under way stays as it was made.
LEMMA NetKnownNext == Typed /\ NetKnown /\ Next => NetKnown'
<1> SUFFICES ASSUME Typed, NetKnown, Next PROVE NetKnown'
  OBVIOUS
<1>0. /\ n \in Nat /\ others \in Nat /\ epoch \in Nat /\ MaxDelay \in Nat
      /\ start \in 0 .. 255 /\ Gaps \subseteq Nat \ {0}
      /\ \A p \in net : p \in Packet /\ p.n \in Nat
  BY BoundsAssumption, GapsAssumption, StartsAssumption DEF Typed, TypeOK, Packet
<1>00. newest # NoPacket => newest.n \in Nat /\ newest.epoch \in Nat
  BY DEF Typed, TypeOK, Packet
<1>1. CASE DeskSends
  <2>1. PICK g \in Gaps, dmx \in BOOLEAN :
          /\ Carry([kind |-> "ours", epoch |-> epoch, n |-> n + g,
                    seq |-> (start + n + g) % 256, dmx |-> dmx], n + g)
          /\ n' = n + g
    BY <1>1 DEF DeskSends
  <2> DEFINE new == [kind |-> "ours", epoch |-> epoch, n |-> n + g,
                     seq |-> (start + n + g) % 256, dmx |-> dmx]
  <2>2. PICK kept \in SUBSET {q \in net : q.kind = "ours" => (n + g) - q.n <= MaxDelay} :
          net' = kept \cup {new}
    BY <2>1 DEF Carry
  <2>3. UNCHANGED <<newest, epoch, start, others>>
    BY <1>1 DEF DeskSends
  <2>4. /\ Ours(new) /\ new.epoch = epoch /\ new.n = n + g
        /\ new.seq = (start + (n + g)) % 256
    BY <1>0 DEF Ours
  <2>5. g \in Nat
    BY <1>0
  <2> HIDE DEF new
  <2>6. ASSUME NEW p \in net'
        PROVE  IF Ours(p)
               THEN /\ p.epoch = epoch /\ p.n <= n' /\ n' - p.n <= MaxDelay
                    /\ p.seq = (start + p.n) % 256
               ELSE p.n < others
    <3>1. CASE p = new
      BY <1>0, <2>1, <2>4, <2>5, <3>1
    <3>2. CASE p \in kept
      <4>1. p \in net /\ (p.kind = "ours" => (n + g) - p.n <= MaxDelay)
        BY <2>2, <3>2
      <4>2. IF Ours(p)
            THEN /\ p.epoch = epoch /\ p.n <= n /\ n - p.n <= MaxDelay
                 /\ p.seq = (start + p.n) % 256
            ELSE p.n < others
        BY <4>1 DEF NetKnown
      <4>3. p.n <= n => p.n <= n + g
        BY <1>0, <2>5, <4>1
      <4>4. QED
        BY <2>1, <4>1, <4>2, <4>3 DEF Ours
    <3>3. QED
      BY <2>2, <3>1, <3>2
  <2>7. ASSUME NEW p \in net', NEW q \in net', ~Ours(p), ~Ours(q), p.n = q.n PROVE p = q
    <3>1. p \in net /\ q \in net
      BY <2>2, <2>4, <2>7
    <3>2. QED
      BY <2>7, <3>1 DEF NetKnown
  <2>8. newest # NoPacket =>
          Ours(newest) /\ newest.epoch <= epoch /\ (newest.epoch = epoch => newest.n <= n + g)
    BY <1>0, <1>00, <2>5 DEF NetKnown
  <2>9. QED
    BY <2>1, <2>3, <2>6, <2>7, <2>8 DEF NetKnown, Ours
<1>2. CASE DeskRestarts
  <2>1. /\ net' \subseteq net /\ \A p \in net' : ~Ours(p)
        /\ epoch' = epoch + 1 /\ UNCHANGED <<newest, others>>
    BY <1>2 DEF DeskRestarts, Ours
  <2>2. newest # NoPacket => Ours(newest) /\ newest.epoch <= epoch' /\ newest.epoch # epoch'
    BY <1>0, <1>00, <2>1 DEF NetKnown
  <2>3. QED
    BY <2>1, <2>2 DEF NetKnown, Ours
<1>3. CASE OtherSends
  <2>1. PICK kind \in {"other", "bad"}, seq \in Starts :
          Carry([kind |-> kind, epoch |-> 0, n |-> others, seq |-> seq, dmx |-> TRUE], n)
    BY <1>3 DEF OtherSends
  <2> DEFINE new == [kind |-> kind, epoch |-> 0, n |-> others, seq |-> seq, dmx |-> TRUE]
  <2>2. PICK kept \in SUBSET net : net' = kept \cup {new}
    BY <2>1 DEF Carry
  <2>3. ~Ours(new) /\ new.n = others
    BY DEF Ours
  <2> HIDE DEF new
  <2>4. others' = others + 1 /\ UNCHANGED <<newest, epoch, start, n>>
    BY <1>3 DEF OtherSends
  <2>5. \A p \in net : ~Ours(p) => p.n < others
    BY DEF NetKnown
  <2>6. ASSUME NEW p \in net', NEW q \in net', ~Ours(p), ~Ours(q), p.n = q.n PROVE p = q
    <3>1. \A r \in kept : ~Ours(r) => r.n # others
      BY <1>0, <2>2, <2>5
    <3>2. QED
      BY <2>2, <2>3, <2>6, <3>1 DEF NetKnown
  <2>7. ASSUME NEW p \in net', ~Ours(p) PROVE p.n < others'
    BY <1>0, <2>2, <2>3, <2>4, <2>5, <2>7
  <2>8. ASSUME NEW p \in net', Ours(p)
        PROVE  p.epoch = epoch /\ p.n <= n /\ n - p.n <= MaxDelay /\ p.seq = (start + p.n) % 256
    <3>1. p \in net
      BY <2>2, <2>3, <2>8
    <3>2. QED
      BY <2>8, <3>1 DEF NetKnown
  <2>9. QED
    BY <2>4, <2>6, <2>7, <2>8 DEF NetKnown, Ours
<1>4. ASSUME NEW p \in net, Recv(p) PROVE NetKnown'
  <2>1. net' \subseteq net /\ UNCHANGED <<epoch, start, n, others>>
    BY <1>4 DEF Recv, desk
  <2>2. newest' = newest \/ (newest' = p /\ Ours(p))
    BY <1>4 DEF Recv, Ours
  <2>3. Ours(p) => p.epoch = epoch /\ p.n <= n
    BY DEF NetKnown
  <2>4. newest' # NoPacket => Ours(newest') /\ newest'.epoch <= epoch
                              /\ (newest'.epoch = epoch => newest'.n <= n)
    BY <1>0, <2>2, <2>3 DEF NetKnown
  <2>5. QED
    BY <2>1, <2>4 DEF NetKnown, Ours
<1>5. QED
  BY <1>1, <1>2, <1>3, <1>4 DEF Next, Receive

LEMMA MovedByFew ==
  ASSUME Typed, NEW V \in SUBSET (0 .. others - 1)
  PROVE  IsFiniteSet(V) /\ Cardinality(V) \in Nat /\ Cardinality(V) <= MaxOther
<1>1. others \in Nat /\ others <= MaxOther /\ MaxOther \in Nat /\ others - 1 \in Int
  BY BoundsAssumption DEF Typed, TypeOK
<1>2. /\ IsFiniteSet(0 .. others - 1)
      /\ Cardinality(0 .. others - 1) = IF 0 > others - 1 THEN 0 ELSE others - 1 - 0 + 1
  BY <1>1, FS_Interval
<1>3. IsFiniteSet(V) /\ Cardinality(V) <= Cardinality(0 .. others - 1)
  BY <1>2, FS_Subset
<1>4. QED
  BY <1>1, <1>2, <1>3, FS_CardinalityType

LEMMA MoreNumbers ==
  ASSUME NEW a \in Nat, NEW b \in Nat, a <= b
  PROVE  \A v \in 0 .. a - 1 : v \in 0 .. b - 1 /\ v # a
OBVIOUS

\* A step that leaves the numbers alone and brings no packet of V.
LEMMA FollowsKept ==
  ASSUME Typed, Follows, UNCHANGED <<last_seq, newest, epoch, start>>, others <= others',
         others' \in Nat,
         \A p \in net' : ~Ours(p) => p \in net \/ p.n = others
  PROVE  Follows'
<1> SUFFICES ASSUME Reach > 0, newest # NoPacket, newest.epoch = epoch
             PROVE  \E V \in SUBSET (0 .. others' - 1), lag \in 0 .. 127 : Lagging(lag, V)'
  BY DEF Follows, Reach
<1>1. PICK V \in SUBSET (0 .. others - 1), lag \in 0 .. 127 : Lagging(lag, V)
  BY DEF Follows
<1>2. others \in Nat
  BY DEF Typed, TypeOK
<1>3. V \in SUBSET (0 .. others' - 1) /\ others \notin V
  <2>1. \A v \in 0 .. others - 1 : v \in 0 .. others' - 1 /\ v # others
    BY <1>2, MoreNumbers
  <2>2. QED
    BY <2>1
<1>4. \A x : Behind(x)' = Behind(x)
  BY DEF Behind
<1>5. Lagging(lag, V)'
  BY <1>1, <1>3, <1>4 DEF Lagging, Ours
<1>6. QED
  BY <1>3, <1>5

\* A packet of ours sets last_seq, and what others did is forgotten.
LEMMA FollowsOurs ==
  ASSUME Typed, Typed', NetKnown, NetKnown', NEW p \in net, Recv(p), Ours(p)
  PROVE  Follows'
<1> SUFFICES ASSUME Reach > 0
             PROVE  \E V \in SUBSET (0 .. others' - 1), lag \in 0 .. 127 : Lagging(lag, V)'
  BY DEF Follows, Reach
<1>0. /\ MaxDelay \in Nat /\ MaxOther \in Nat /\ MaxDelay <= 127
      /\ p.n \in Nat /\ n \in Nat /\ start \in 0 .. 255
  BY BoundsAssumption, StartsAssumption DEF Reach, Typed, TypeOK, Packet
<1>1. p.epoch = epoch /\ p.n <= n /\ n - p.n <= MaxDelay /\ p.seq = (start + p.n) % 256
  BY DEF NetKnown
<1>2. prev' = p /\ UNCHANGED <<epoch, start, n, others>>
  BY DEF Recv, desk
<1>3. last_seq' = p.seq
  BY <1>2 DEF Typed, LastCounts, Ours
<1>4. PICK lag : lag = newest'.n - p.n
  OBVIOUS
<1>5. /\ newest'.n \in Nat /\ newest'.n >= p.n /\ newest'.n <= n
  <2>1. CASE newest' = p
    BY <1>0, <1>1, <2>1
  <2>2. CASE newest' # p
    <3>1. newest' = newest /\ newest # NoPacket /\ newest.epoch = p.epoch /\ newest.n >= p.n
      BY <2>2 DEF Recv, Ours
    <3>2. newest.n \in Nat /\ newest.n <= n
      BY <1>1, <3>1 DEF NetKnown, Typed, TypeOK, Packet
    <3>3. QED
      BY <3>1, <3>2
  <2>3. QED
    BY <2>1, <2>2
<1>6. lag \in 0 .. 127 /\ lag <= MaxDelay
  BY <1>0, <1>1, <1>4, <1>5
<1>7. p.seq = (start + newest'.n - lag) % 256
  BY <1>0, <1>1, <1>4, <1>5
<1>8. Cardinality({}) = 0
  BY FS_EmptySet
<1>9. Lagging(lag, {})'
  BY <1>0, <1>2, <1>3, <1>6, <1>7, <1>8 DEF Lagging, Behind
<1>10. QED
  BY <1>6, <1>9

\* A packet of another universe takes last_seq back by 19 at most, and once.
LEMMA FollowsOther ==
  ASSUME Typed, NetKnown, Follows, NEW p \in net, Recv(p), ~Ours(p), OutOfOrder(p)
  PROVE  Follows'
<1> SUFFICES ASSUME Reach > 0, newest # NoPacket, newest.epoch = epoch
             PROVE  \E V \in SUBSET (0 .. others' - 1), lag \in 0 .. 127 : Lagging(lag, V)'
  BY DEF Follows, Reach, Recv, Ours, desk
<1>1. PICK V \in SUBSET (0 .. others - 1), lag \in 0 .. 127 : Lagging(lag, V)
  BY DEF Follows
<1>2. /\ newest' = newest /\ net' \subseteq net /\ last_seq' = p.seq
      /\ UNCHANGED <<epoch, start, n, others>>
  BY DEF Recv, OutOfOrder, Ours, desk
<1>3. /\ start \in Int /\ newest.n \in Int /\ last_seq \in 0 .. 255 /\ p.seq \in 0 .. 255
      /\ p.n \in Nat /\ others \in Nat /\ p.n < others
      /\ MaxDelay \in Nat /\ MaxOther \in Nat
  BY BoundsAssumption, StartsAssumption DEF Typed, TypeOK, Packet, NetKnown
<1>4. \A x : Behind(x)' = Behind(x)
  BY <1>2 DEF Behind
<1>5. Int8(p.seq - last_seq) > -20 /\ Int8(p.seq - last_seq) <= 0
  BY DEF OutOfOrder, e131_pkt_discard
<1>6. last_seq = Behind(lag) /\ lag <= MaxDelay + 19 * Cardinality(V)
      /\ \A q \in net : ~Ours(q) /\ q.n \in V => \E a \in 0 .. lag : q.seq = Behind(a)
  BY <1>1 DEF Lagging
<1>7. CASE p.n \in V
  <2>1. PICK a \in 0 .. lag : p.seq = Behind(a)
    BY <1>6, <1>7
  <2>2. Int8(p.seq - last_seq) = Int8((start + newest.n - a) - (start + newest.n - lag))
    <3>1. start + newest.n - a \in Int /\ start + newest.n - lag \in Int
      BY <1>3
    <3>2. QED
      BY <1>6, <2>1, <3>1, BytesDiffer DEF Behind
  <2>3. (start + newest.n - a) - (start + newest.n - lag) = lag - a /\ lag - a \in 0 .. 127
    BY <1>3
  <2>4. lag - a <= 0
    BY <1>5, <2>2, <2>3, SmallDifference
  <2>5. a = lag
    BY <2>4
  <2>6. last_seq' = last_seq
    BY <1>2, <1>6, <2>1, <2>5
  <2>7. Lagging(lag, V)'
    BY <1>2, <1>4, <1>6, <2>6 DEF Lagging, Ours
  <2>8. QED
    BY <1>2, <2>7
<1>8. CASE p.n \notin V
  <2>1. PICK k \in 0 .. 19 : p.seq = (last_seq - k) % 256
    <3>1. p.seq \in 0 .. 255 /\ last_seq \in 0 .. 255 /\ e131_pkt_discard(p)
      BY <1>3 DEF OutOfOrder
    <3>2. QED
      BY <3>1, DiscardedIsNear, Zenon
  <2>2. p.seq = (start + newest.n - lag - k) % 256
    <3>1. PICK z \in Int : z = start + newest.n - lag
      BY <1>3
    <3>2. ((z % 256) - k) % 256 = (z - k) % 256
      BY ByteTwice
    <3>3. p.seq = (z - k) % 256
      BY <1>6, <2>1, <3>1, <3>2 DEF Behind
    <3>4. z - k = start + newest.n - lag - k
      BY <1>3, <3>1
    <3>5. QED
      BY <3>3, <3>4
  <2>3. p.seq = Behind(lag + k)
    <3>1. start + newest.n - lag - k = start + newest.n - (lag + k)
      BY <1>3
    <3>2. QED
      BY <2>2, <3>1 DEF Behind
  <2>4. PICK W : W = V \cup {p.n}
    OBVIOUS
  <2>5. W \in SUBSET (0 .. others - 1)
    <3>1. p.n \in 0 .. others - 1
      BY <1>3
    <3>2. QED
      BY <2>4, <3>1
  <2>6. /\ Cardinality(W) = Cardinality(V) + 1 /\ Cardinality(V) \in Nat
        /\ Cardinality(W) <= MaxOther
    BY <1>8, <2>4, <2>5, MovedByFew, FS_AddElement
  <2>7. PICK l : l = lag + k
    OBVIOUS
  <2>8. l \in Nat /\ lag <= l /\ l <= MaxDelay + 19 * Cardinality(W)
    BY <1>3, <1>6, <2>6, <2>7
  <2>9. l \in 0 .. 127
    BY <1>3, <2>6, <2>8 DEF Reach
  <2>10. ASSUME NEW q \in net, ~Ours(q), q.n \in W
         PROVE  \E a \in 0 .. l : q.seq = Behind(a)
    <3>1. CASE q.n \in V
      <4>1. PICK a \in 0 .. lag : q.seq = Behind(a)
        BY <1>6, <2>10, <3>1
      <4>2. a \in 0 .. l
        BY <2>8
      <4>3. QED
        BY <4>1, <4>2
    <3>2. CASE q.n = p.n
      <4>1. q = p
        BY <2>10, <3>2 DEF NetKnown
      <4>2. l \in 0 .. l
        BY <2>8
      <4>3. QED
        BY <2>3, <2>7, <4>1, <4>2
    <3>3. QED
      BY <2>4, <2>10, <3>1, <3>2
  <2>11. Lagging(l, W)'
    BY <1>2, <1>4, <2>3, <2>7, <2>8, <2>10 DEF Lagging, Ours
  <2>12. QED
    BY <1>2, <2>5, <2>9, <2>11
<1>9. QED
  BY <1>7, <1>8

LEMMA FollowsNext == Typed /\ Typed' /\ NetKnown /\ NetKnown' /\ Follows /\ Next => Follows'
<1> SUFFICES ASSUME Typed, Typed', NetKnown, NetKnown', Follows, Next PROVE Follows'
  OBVIOUS
<1>0. others \in Nat /\ others' \in Nat /\ epoch \in Nat
  BY DEF Typed, TypeOK
<1>1. CASE DeskSends
  <2>1. UNCHANGED <<last_seq, newest, epoch, start, others>>
    BY <1>1 DEF DeskSends
  <2>2. \A p \in net' : ~Ours(p) => p \in net
    BY <1>1 DEF DeskSends, Carry, Ours
  <2>3. QED
    BY <1>0, <2>1, <2>2, FollowsKept
<1>2. CASE DeskRestarts
  <2>1. newest' = newest /\ epoch' = epoch + 1
    BY <1>2 DEF DeskRestarts
  <2>2. newest # NoPacket => newest.epoch \in Nat /\ newest.epoch <= epoch
    BY DEF NetKnown, Typed, TypeOK, Packet
  <2>3. QED
    BY <1>0, <2>1, <2>2 DEF Follows
<1>3. CASE OtherSends
  <2>1. UNCHANGED <<last_seq, newest, epoch, start>> /\ others' = others + 1
    BY <1>3 DEF OtherSends
  <2>2. \A p \in net' : p \in net \/ p.n = others
    BY <1>3 DEF OtherSends, Carry
  <2>3. QED
    BY <1>0, <2>1, <2>2, FollowsKept
<1>4. ASSUME NEW p \in net, Recv(p),
             Malformed(p) \/ OutOfOrder(p) \/ OtherUniverse(p) \/ InOrder(p)
      PROVE  Follows'
  <2>1. CASE Ours(p)
    BY <1>4, <2>1, FollowsOurs
  <2>2. CASE ~Ours(p) /\ OutOfOrder(p)
    BY <1>4, <2>2, FollowsOther
  <2>3. CASE ~Ours(p) /\ (Malformed(p) \/ OtherUniverse(p))
    <3>1. /\ UNCHANGED <<last_seq, newest, epoch, start, others>> /\ net' \subseteq net
      BY <1>4, <2>3 DEF Malformed, OtherUniverse, Recv, Ours, desk
    <3>2. QED
      BY <1>0, <3>1, FollowsKept
  <2>4. QED
    BY <1>4, <2>1, <2>2, <2>3 DEF InOrder, Ours
<1>5. QED
  BY <1>1, <1>2, <1>3, <1>4 DEF Next, Receive

\* The packet x with y the newest, of which last_seq lags behind, is ahead of it.
LEMMA LagFits ==
  ASSUME NEW x \in Int, NEW y \in Int, NEW s \in Int, NEW lag \in Nat, NEW c \in Nat,
         NEW m \in Nat, NEW d \in Nat,
         c <= m, lag <= d + 19 * c, x > y, x - y <= 127 - d - 19 * m
  PROVE  (s + x) - (s + y - lag) = x - y + lag /\ x - y + lag \in 1 .. 127
OBVIOUS

\* A step that receives a packet newer than all of its epoch shows it.
LEMMA NewerIsShown ==
  ASSUME Typed, NetKnown, Follows, Next,
         prev' # prev, Ours(prev'), prev'.dmx, newest # NoPacket, Newer(prev', newest)
  PROVE  shown' = prev'
<1>1. Receive
  BY DEF Next, DeskSends, DeskRestarts, OtherSends
<1>2. PICK p \in net : Recv(p) /\ (Malformed(p) \/ OutOfOrder(p) \/ OtherUniverse(p) \/ InOrder(p))
  BY <1>1 DEF Receive
<1>3. prev' = p /\ Ours(p) /\ p.dmx /\ p.epoch = newest.epoch
      /\ p.n > newest.n /\ p.n - newest.n <= Reach
  BY <1>2 DEF Recv, Newer
<1>4. p.epoch = epoch /\ p.seq = (start + p.n) % 256
  BY <1>3 DEF NetKnown
<1>5. /\ start \in Int /\ newest.n \in Int /\ p.n \in Int /\ MaxDelay \in Nat /\ MaxOther \in Nat
      /\ Reach = 127 - MaxDelay - 19 * MaxOther
  BY BoundsAssumption, StartsAssumption DEF Typed, TypeOK, Packet, Reach
<1>6. Reach > 0
  BY <1>3, <1>5
<1>7. PICK V \in SUBSET (0 .. others - 1), lag \in 0 .. 127 : Lagging(lag, V)
  BY <1>3, <1>4, <1>6 DEF Follows
<1>8. Cardinality(V) \in Nat /\ Cardinality(V) <= MaxOther
  BY MovedByFew
<1>9. last_seq = Behind(lag) /\ lag <= MaxDelay + 19 * Cardinality(V)
  BY <1>7 DEF Lagging
<1>10. (start + p.n) - (start + newest.n - lag) = p.n - newest.n + lag
       /\ p.n - newest.n + lag \in 1 .. 127
  <2>1. lag \in Nat /\ p.n > newest.n
    BY <1>3
  <2>2. p.n - newest.n <= 127 - MaxDelay - 19 * MaxOther
    BY <1>3, <1>5
  <2>3. QED
    BY <1>5, <1>8, <1>9, <2>1, <2>2, LagFits
<1>11. Int8(p.seq - last_seq) = p.n - newest.n + lag
  <2>1. Int8(p.seq - last_seq) = Int8((start + p.n) - (start + newest.n - lag))
    <3>1. PICK x \in Int, y \in Int : x = start + p.n /\ y = start + newest.n - lag
      BY <1>5
    <3>2. p.seq = x % 256 /\ last_seq = y % 256
      BY <1>4, <1>9, <3>1 DEF Behind
    <3>3. Int8((x % 256) - (y % 256)) = Int8(x - y)
      BY BytesDiffer
    <3>4. QED
      BY <3>1, <3>2, <3>3
  <2>2. QED
    BY <1>10, <2>1, SmallDifference
<1>12. ~e131_pkt_discard(p)
  BY <1>10, <1>11 DEF e131_pkt_discard
<1>13. InOrder(p)
  BY <1>2, <1>3, <1>12 DEF Malformed, OutOfOrder, OtherUniverse, Ours
<1>14. QED
  BY <1>3, <1>13 DEF InOrder

-----------------------------------------------------------------------------
(* Art-Net *)

Item(i, v) == [item |-> i, val |-> v]
Digit == 0 .. 15
End == 0 .. Slots

LEMMA Sizes ==
  /\ Slots \in Nat \ {0} /\ MaxSaves \in Nat
  /\ Universes \subseteq 0 .. 255 /\ Lengths \subseteq 1 .. Slots
  /\ \A t \in Texts : t.number \in Int /\ t.atoi \in End
BY ArtNetAssumption DEF End

Cfg == [uni : Digit, sub : Digit, guni : Digit, gsub : Digit,
        enable : {0, 1}, lower : End, upper : End]

ArtTyped == ArtNet!TypeOK /\ cfg \in Cfg

\* The items that are still to be saved are the rest of one page, and when the
\* last is saved the range is not turned round, but by an odd text.
Saving ==
  \/ todo = <<>> /\ (odd \/ cfg.lower <= cfg.upper)
  \/ /\ odd \/ cfg.lower <= cfg.upper
     /\ \E u, s \in Digit : todo \in {<<Item("uni", u), Item("sub", s)>>, <<Item("sub", s)>>}
  \/ \E l, h \in End, e \in {0, 1}, s, u \in Digit :
       /\ odd \/ l <= h
       /\ \/ todo = <<Item("enable", e), Item("gsub", s), Item("guni", u),
                      Item("lower", l), Item("upper", h)>>
          \/ todo = <<Item("gsub", s), Item("guni", u), Item("lower", l), Item("upper", h)>>
          \/ todo = <<Item("guni", u), Item("lower", l), Item("upper", h)>>
          \/ todo = <<Item("lower", l), Item("upper", h)>>
          \/ todo = <<Item("upper", h)>> /\ cfg.lower = l

\* Two plain texts that the script lets pass are in order for the program too.
LEMMA Ordered ==
  ASSUME NEW low \in Texts, NEW high \in Texts, ArtNet!Accepted(low, high)
  PROVE  /\ low.atoi \in End /\ high.atoi \in End
         /\ ~(ArtNet!Plain(low) /\ ArtNet!Plain(high)) \/ low.atoi <= high.atoi
BY Sizes DEF ArtNet!Accepted, ArtNet!Plain

LEMMA Digits ==
  ASSUME NEW u \in Universes
  PROVE  ArtNet!Low(u) \in Digit /\ ArtNet!High(u) \in Digit
<1>1. u \in 0 .. 255
  BY Sizes
<1>2. u % 16 \in 0 .. 15 /\ u \div 16 \in 0 .. 15
  BY <1>1
<1>3. QED
  BY <1>2 DEF ArtNet!Low, ArtNet!High, Digit

LEMMA ArtInit == ArtNet!Init => ArtTyped /\ Saving
<1> SUFFICES ASSUME ArtNet!Init PROVE ArtTyped /\ Saving
  OBVIOUS
<1>1. PICK own \in Universes, second \in Universes, enable \in {0, 1}, low \in Texts, high \in Texts :
        /\ ArtNet!Accepted(low, high)
        /\ cfg = ArtNet!Config(own, second, enable, low, high)
        /\ odd = ~(ArtNet!Plain(low) /\ ArtNet!Plain(high))
  BY DEF ArtNet!Init
<1>2. cfg \in Cfg /\ (odd \/ cfg.lower <= cfg.upper) /\ odd \in BOOLEAN
  BY <1>1, Digits, Ordered DEF ArtNet!Config, Cfg
<1>3. Saving
  BY <1>2 DEF ArtNet!Init, Saving
<1>4. /\ saves \in 0 .. MaxSaves /\ lower \in 0 .. Slots /\ uni \in 0 .. 15
      /\ raw \in [ArtNet!Ch -> ArtNet!Contents] /\ gaffer_data \in [ArtNet!Ch -> ArtNet!Contents]
  BY Sizes DEF ArtNet!Init, ArtNet!Contents
<1>5. ArtNet!TypeOK
  BY <1>2, <1>4 DEF ArtNet!Init, ArtNet!TypeOK, Cfg, Digit, End
<1>6. QED
  BY <1>2, <1>3, <1>5 DEF ArtTyped

LEMMA FirstItem ==
  ASSUME NEW a, NEW b, NEW c, NEW d, NEW e
  PROVE  /\ Head(<<a>>) = a /\ Tail(<<a>>) = <<>>
         /\ Head(<<a, b>>) = a /\ Tail(<<a, b>>) = <<b>>
         /\ Head(<<a, b, c>>) = a /\ Tail(<<a, b, c>>) = <<b, c>>
         /\ Head(<<a, b, c, d>>) = a /\ Tail(<<a, b, c, d>>) = <<b, c, d>>
         /\ Head(<<a, b, c, d, e>>) = a /\ Tail(<<a, b, c, d, e>>) = <<b, c, d, e>>
OBVIOUS

LEMMA ItemSaved ==
  ASSUME ArtNet!SaveItem, NEW i, NEW v, Head(todo) = Item(i, v)
  PROVE  cfg' = [cfg EXCEPT ![i] = v] /\ todo' = Tail(todo) /\ odd' = odd
<1>1. Head(todo).item = i /\ Head(todo).val = v
  BY DEF Item
<1>2. QED
  BY <1>1 DEF ArtNet!SaveItem

\* The step in which the web server saves the next item.
LEMMA SaveItemKeeps ==
  ArtTyped /\ Saving /\ ArtNet!SaveItem => cfg' \in Cfg /\ Saving'
<1> SUFFICES ASSUME ArtTyped, Saving, ArtNet!SaveItem PROVE cfg' \in Cfg /\ Saving'
  OBVIOUS
<1>1. todo # <<>>
  BY DEF ArtNet!SaveItem
<1>2. cfg \in Cfg /\ odd' = odd
  BY DEF ArtTyped, ArtNet!SaveItem
<1>3. CASE (odd \/ cfg.lower <= cfg.upper) /\ \E u, s \in Digit :
             todo \in {<<Item("uni", u), Item("sub", s)>>, <<Item("sub", s)>>}
  <2>1. PICK u \in Digit, s \in Digit :
          todo = <<Item("uni", u), Item("sub", s)>> \/ todo = <<Item("sub", s)>>
    BY <1>3
  <2>2. CASE todo = <<Item("uni", u), Item("sub", s)>>
    <3>1. cfg' = [cfg EXCEPT !.uni = u] /\ todo' = <<Item("sub", s)>>
      BY <2>2, FirstItem, ItemSaved
    <3>2. cfg' \in Cfg /\ (odd \/ cfg'.lower <= cfg'.upper)
      BY <1>2, <1>3, <3>1 DEF Cfg
    <3>3. QED
      BY <1>2, <3>1, <3>2 DEF Saving
  <2>3. CASE todo = <<Item("sub", s)>>
    <3>1. cfg' = [cfg EXCEPT !.sub = s] /\ todo' = <<>>
      BY <2>3, FirstItem, ItemSaved
    <3>2. cfg' \in Cfg /\ (odd \/ cfg'.lower <= cfg'.upper)
      BY <1>2, <1>3, <3>1 DEF Cfg
    <3>3. QED
      BY <1>2, <3>1, <3>2 DEF Saving
  <2>4. QED
    BY <2>1, <2>2, <2>3
<1>4. ASSUME NEW l \in End, NEW h \in End, odd \/ l <= h, NEW e \in {0, 1}, NEW s \in Digit, NEW u \in Digit,
             \/ todo = <<Item("enable", e), Item("gsub", s), Item("guni", u),
                         Item("lower", l), Item("upper", h)>>
             \/ todo = <<Item("gsub", s), Item("guni", u), Item("lower", l), Item("upper", h)>>
             \/ todo = <<Item("guni", u), Item("lower", l), Item("upper", h)>>
             \/ todo = <<Item("lower", l), Item("upper", h)>>
             \/ todo = <<Item("upper", h)>> /\ cfg.lower = l
      PROVE  cfg' \in Cfg /\ Saving'
  <2>1. CASE todo = <<Item("enable", e), Item("gsub", s), Item("guni", u),
                      Item("lower", l), Item("upper", h)>>
    <3>1. /\ cfg' = [cfg EXCEPT !.enable = e]
          /\ todo' = <<Item("gsub", s), Item("guni", u), Item("lower", l), Item("upper", h)>>
      BY <2>1, FirstItem, ItemSaved
    <3>2. cfg' \in Cfg
      BY <1>2, <3>1 DEF Cfg
    <3>3. QED
      BY <1>2, <1>4, <3>1, <3>2 DEF Saving
  <2>2. CASE todo = <<Item("gsub", s), Item("guni", u), Item("lower", l), Item("upper", h)>>
    <3>1. /\ cfg' = [cfg EXCEPT !.gsub = s]
          /\ todo' = <<Item("guni", u), Item("lower", l), Item("upper", h)>>
      BY <2>2, FirstItem, ItemSaved
    <3>2. cfg' \in Cfg
      BY <1>2, <3>1 DEF Cfg
    <3>3. QED
      BY <1>2, <1>4, <3>1, <3>2 DEF Saving
  <2>3. CASE todo = <<Item("guni", u), Item("lower", l), Item("upper", h)>>
    <3>1. /\ cfg' = [cfg EXCEPT !.guni = u]
          /\ todo' = <<Item("lower", l), Item("upper", h)>>
      BY <2>3, FirstItem, ItemSaved
    <3>2. cfg' \in Cfg
      BY <1>2, <3>1 DEF Cfg
    <3>3. QED
      BY <1>2, <1>4, <3>1, <3>2 DEF Saving
  <2>4. CASE todo = <<Item("lower", l), Item("upper", h)>>
    <3>1. cfg' = [cfg EXCEPT !.lower = l] /\ todo' = <<Item("upper", h)>>
      BY <2>4, FirstItem, ItemSaved
    <3>2. cfg' \in Cfg /\ cfg'.lower = l
      BY <1>2, <3>1 DEF Cfg
    <3>3. QED
      BY <1>2, <1>4, <3>1, <3>2 DEF Saving
  <2>5. CASE todo = <<Item("upper", h)>> /\ cfg.lower = l
    <3>1. cfg' = [cfg EXCEPT !.upper = h] /\ todo' = <<>>
      BY <2>5, FirstItem, ItemSaved
    <3>2. cfg' \in Cfg /\ (odd \/ cfg'.lower <= cfg'.upper)
      BY <1>2, <1>4, <2>5, <3>1 DEF Cfg
    <3>3. QED
      BY <1>2, <1>4, <3>1, <3>2 DEF Saving
  <2>6. QED
    BY <1>4, <2>1, <2>2, <2>3, <2>4, <2>5
<1>5. QED
  BY <1>1, <1>3, <1>4 DEF Saving

LEMMA ArtStep == ArtTyped /\ Saving /\ ArtNet!Next => ArtTyped' /\ Saving'
<1> SUFFICES ASSUME ArtTyped, Saving, ArtNet!Next PROVE ArtTyped' /\ Saving'
  OBVIOUS
<1> USE DEF ArtTyped, ArtNet!TypeOK
<1>1. CASE ArtNet!SaveGaffer
  <2>1. PICK second \in Universes, enable \in {0, 1}, low \in Texts, high \in Texts :
          /\ ArtNet!Accepted(low, high)
          /\ todo' = <<Item("enable", enable), Item("gsub", ArtNet!High(second)),
                       Item("guni", ArtNet!Low(second)), Item("lower", low.atoi),
                       Item("upper", high.atoi)>>
          /\ odd' = ~(ArtNet!Plain(low) /\ ArtNet!Plain(high))
    BY <1>1 DEF ArtNet!SaveGaffer, Item
  <2>2. Saving' /\ odd' \in BOOLEAN
    BY <2>1, Digits, Ordered DEF Saving
  <2>3. saves' \in 0 .. MaxSaves /\ UNCHANGED <<cfg, ArtNet!thread, heard, torn>>
    BY <1>1, Sizes DEF ArtNet!SaveGaffer
  <2>4. QED
    BY <2>2, <2>3 DEF ArtNet!thread
<1>2. CASE ArtNet!SaveUniverse
  <2>1. PICK own \in Universes :
          todo' = <<Item("uni", ArtNet!Low(own)), Item("sub", ArtNet!High(own))>>
    BY <1>2 DEF ArtNet!SaveUniverse, Item
  <2>2. todo = <<>> /\ cfg' = cfg /\ odd' = odd
    BY <1>2 DEF ArtNet!SaveUniverse
  <2>3. odd' \/ cfg'.lower <= cfg'.upper
    BY <2>2 DEF Saving
  <2>4. Saving'
    BY <2>1, <2>3, Digits DEF Saving
  <2>5. saves' \in 0 .. MaxSaves /\ UNCHANGED <<cfg, ArtNet!thread, heard, torn>>
    BY <1>2, Sizes DEF ArtNet!SaveUniverse
  <2>6. QED
    BY <2>2, <2>4, <2>5 DEF ArtNet!thread
<1>3. CASE ArtNet!SaveItem
  <2>1. cfg' \in Cfg /\ Saving'
    BY <1>3, SaveItemKeeps
  <2>2. heard' = ArtNet!NoFrame /\ torn' = TRUE /\ UNCHANGED <<saves, ArtNet!thread, odd>>
    BY <1>3 DEF ArtNet!SaveItem
  <2>3. QED
    BY <2>1, <2>2 DEF ArtNet!thread, Cfg, Digit, End
<1>4. CASE ArtNet!ThreadStep
  <2>1. UNCHANGED <<cfg, todo, saves, odd>>
    BY <1>4 DEF ArtNet!ThreadStep, ArtNet!Receive, ArtNet!CheckEnable, ArtNet!CheckUniverse,
                ArtNet!CheckSubnet, ArtNet!ReadLower, ArtNet!Remember, ArtNet!ReadUniverse,
                ArtNet!ReadSubnet, ArtNet!ReplaceEnable, ArtNet!Replace, ArtNet!Send
  <2>2. Saving'
    BY <2>1 DEF Saving
  <2>3. CASE ArtNet!Receive
    <3>1. PICK f \in ArtNet!Frame, artnet_enable \in BOOLEAN :
            /\ frame' = f
            /\ raw' = [ch \in ArtNet!Ch |-> IF ch <= f.length THEN ArtNet!ContentOf(f) ELSE raw[ch]]
            /\ pc' \in {"check", "recv"}
            /\ heard' \in {f, heard}
      BY <2>3 DEF ArtNet!Receive
    <3>2. ArtNet!ContentOf(f) \in ArtNet!Contents
      BY DEF ArtNet!Frame, ArtNet!ContentOf, ArtNet!Contents
    <3>3. raw' \in [ArtNet!Ch -> ArtNet!Contents]
      BY <3>1, <3>2
    <3>4. torn' = FALSE /\ UNCHANGED <<gaffer_data, lower, uni>>
      BY <2>3 DEF ArtNet!Receive
    <3>5. QED
      BY <2>1, <2>2, <3>1, <3>3, <3>4
  <2>4. CASE ArtNet!Remember
    <3>1. gaffer_data' \in [ArtNet!Ch -> ArtNet!Contents] /\ pc' \in {"wild", "own"}
      BY <2>4 DEF ArtNet!Remember, ArtNet!Overlay
    <3>2. UNCHANGED <<frame, raw, lower, uni, heard, torn>>
      BY <2>4 DEF ArtNet!Remember
    <3>3. QED
      BY <2>1, <2>2, <3>1, <3>2
  <2>5. CASE ArtNet!Replace
    <3>1. raw' \in [ArtNet!Ch -> ArtNet!Contents] /\ pc' \in {"wild", "send"}
      BY <2>5 DEF ArtNet!Replace, ArtNet!Overlay
    <3>2. UNCHANGED <<frame, gaffer_data, lower, uni, heard, torn>>
      BY <2>5 DEF ArtNet!Replace
    <3>3. QED
      BY <2>1, <2>2, <3>1, <3>2
  <2>6. CASE ArtNet!ReadLower("lower", "upper") \/ ArtNet!ReadLower("lower2", "upper2")
    <3>1. lower' \in 0 .. Slots /\ pc' \in {"upper", "upper2"}
      BY <2>6 DEF ArtNet!ReadLower
    <3>2. UNCHANGED <<frame, raw, gaffer_data, uni, heard, torn>>
      BY <2>6 DEF ArtNet!ReadLower
    <3>3. QED
      BY <2>1, <2>2, <3>1, <3>2
  <2>7. CASE \/ ArtNet!CheckEnable \/ ArtNet!CheckUniverse \/ ArtNet!CheckSubnet
             \/ ArtNet!ReadUniverse \/ ArtNet!ReadSubnet \/ ArtNet!ReplaceEnable \/ ArtNet!Send
    <3>1. pc' \in {"guni", "gsub", "lower", "own", "subnet", "recv", "enable", "lower2", "send"}
      BY <2>7 DEF ArtNet!CheckEnable, ArtNet!CheckUniverse, ArtNet!CheckSubnet,
                  ArtNet!ReadUniverse, ArtNet!ReadSubnet, ArtNet!ReplaceEnable, ArtNet!Send
    <3>2. uni' \in 0 .. 15
      BY <2>7 DEF ArtNet!CheckEnable, ArtNet!CheckUniverse, ArtNet!CheckSubnet,
                  ArtNet!ReadUniverse, ArtNet!ReadSubnet, ArtNet!ReplaceEnable, ArtNet!Send
    <3>3. UNCHANGED <<frame, raw, gaffer_data, lower, heard, torn>>
      BY <2>7 DEF ArtNet!CheckEnable, ArtNet!CheckUniverse, ArtNet!CheckSubnet,
                  ArtNet!ReadUniverse, ArtNet!ReadSubnet, ArtNet!ReplaceEnable, ArtNet!Send
    <3>4. QED
      BY <2>1, <2>2, <3>1, <3>2, <3>3
  <2>8. QED
    BY <1>4, <2>3, <2>4, <2>5, <2>6, <2>7 DEF ArtNet!ThreadStep
<1>5. QED
  BY <1>1, <1>2, <1>3, <1>4 DEF ArtNet!Next

-----------------------------------------------------------------------------
(* Settings that stand still while a frame is handled *)

Front(content) == \A ch \in 1 .. frame.length : raw[ch] = content

\* The channels of the last gaffer frame are in gaffer_data.
Remembered ==
  \A ch \in ArtNet!Ch :
    ArtNet!InRange(ch) /\ ch <= heard.length => gaffer_data[ch] = ArtNet!ContentOf(heard)

Mixed ==
  \A ch \in 1 .. frame.length :
    /\ ~ArtNet!InRange(ch) => raw[ch] = ArtNet!ContentOf(frame)
    /\ ArtNet!InRange(ch) /\ ch <= heard.length => raw[ch] = ArtNet!ContentOf(heard)

\* What holds at each place of process_artnet_msg if nothing was saved since
\* the frame came.
Steady ==
  /\ pc \in {"check", "guni", "gsub", "lower", "upper", "own", "subnet", "enable", "lower2", "upper2"}
       => Front(ArtNet!ContentOf(frame))
  /\ pc \in {"guni", "gsub", "lower2", "upper2"} => ArtNet!Enabled(cfg)
  /\ pc = "gsub" => uni = cfg.guni
  /\ pc \in {"lower", "upper"} => ArtNet!IsGaffer
  /\ pc \in {"check", "guni", "gsub", "lower", "upper"} /\ ArtNet!IsGaffer => heard = frame
  /\ pc \in {"upper", "upper2"} => lower = cfg.lower
  /\ pc = "subnet" => uni = cfg.uni
  /\ pc \in {"enable", "lower2", "upper2", "send"} => frame.universe = ArtNet!Own(cfg)
  /\ pc \in {"recv", "own", "subnet", "enable", "lower2", "upper2", "send"} => Remembered
  /\ pc \in {"check", "guni", "gsub"} /\ ~ArtNet!IsGaffer => Remembered
  /\ pc = "send" => Mixed

Along == (torn /\ heard = ArtNet!NoFrame) \/ (~torn /\ Steady)

WildSaved == pc = "wild" => torn \/ todo # <<>> \/ odd

ArtInv == ArtTyped /\ Saving /\ Along /\ WildSaved

LEMMA AlongInit == ArtNet!Init => Along /\ WildSaved
BY Sizes DEF ArtNet!Init, Along, WildSaved, Steady, Remembered, ArtNet!NoFrame, ArtNet!Ch

\* A char is equal to a universe only below 128.
LEMMA GafferMeans ==
  ASSUME NEW c \in Cfg, NEW u \in 0 .. 255
  PROVE  ArtNet!Gaffer(c) = ArtNet!Char(u) <=> u = ArtNet!Gaffer(c) /\ u < 128
<1>1. c.guni \in 0 .. 15 /\ c.gsub \in 0 .. 15
  BY DEF Cfg, Digit
<1>2. ArtNet!Gaffer(c) \in 0 .. 255
  BY <1>1 DEF ArtNet!Gaffer, ArtNet!Number
<1>3. QED
  BY <1>2 DEF ArtNet!Char

LEMMA FrameLength == ArtTyped => frame.length \in 0 .. Slots
<1> SUFFICES ASSUME ArtTyped PROVE frame.length \in 0 .. Slots
  OBVIOUS
<1>1. frame \in ArtNet!Frame \/ frame = ArtNet!NoFrame
  BY DEF ArtTyped, ArtNet!TypeOK
<1>2. 0 \in 0 .. Slots /\ \A l \in Lengths : l \in 0 .. Slots
  BY Sizes
<1>3. CASE frame \in ArtNet!Frame
  <2>1. frame.length \in Lengths
    BY <1>3 DEF ArtNet!Frame
  <2>2. QED
    BY <1>2, <2>1
<1>4. CASE frame = ArtNet!NoFrame
  <2>1. frame.length = 0
    BY <1>4 DEF ArtNet!NoFrame
  <2>2. QED
    BY <1>2, <2>1
<1>5. QED
  BY <1>1, <1>3, <1>4

LEMMA FrameFits ==
  ASSUME ArtTyped, NEW ch \in 1 .. frame.length
  PROVE  ch \in ArtNet!Ch
<1>1. Slots \in Nat /\ frame.length \in 0 .. Slots
  BY FrameLength, Sizes
<1>2. QED
  BY <1>1 DEF ArtNet!Ch

LEMMA NothingHeard == heard = ArtNet!NoFrame => Remembered
BY DEF Remembered, ArtNet!NoFrame, ArtNet!Ch

LEMMA AlongReceive == ArtInv /\ ArtNet!Receive => Along'
<1> SUFFICES ASSUME ArtInv, ArtNet!Receive PROVE Along'
  OBVIOUS
<1>1. PICK f \in ArtNet!Frame, artnet_enable \in BOOLEAN :
        /\ frame' = f
        /\ raw' = [ch \in ArtNet!Ch |-> IF ch <= f.length THEN ArtNet!ContentOf(f) ELSE raw[ch]]
        /\ pc' = IF artnet_enable THEN "check" ELSE "recv"
        /\ heard' = IF artnet_enable /\ ArtNet!Enabled(cfg) /\ f.universe = ArtNet!Gaffer(cfg)
                        /\ f.universe < 128
                    THEN f ELSE heard
  BY DEF ArtNet!Receive
<1>2. pc = "recv" /\ torn' = FALSE /\ UNCHANGED <<cfg, gaffer_data>>
  BY DEF ArtNet!Receive
<1>3. f.length \in 1 .. Slots /\ f.universe \in 0 .. 255
  BY Sizes DEF ArtNet!Frame
<1>4. Front(ArtNet!ContentOf(frame))'
  <2>1. ArtNet!ContentOf(frame)' = ArtNet!ContentOf(f)
    BY <1>1 DEF ArtNet!ContentOf
  <2>2. \A ch \in 1 .. f.length : ch \in ArtNet!Ch /\ ch <= f.length
    BY <1>3, Sizes DEF ArtNet!Ch
  <2>3. \A ch \in 1 .. f.length : raw'[ch] = ArtNet!ContentOf(f)
    BY <1>1, <2>2
  <2>4. (1 .. frame.length)' = 1 .. f.length
    BY <1>1
  <2>5. QED
    BY <2>1, <2>3, <2>4 DEF Front
<1>5. cfg \in Cfg
  BY DEF ArtInv, ArtTyped
<1>6. ArtNet!IsGaffer' <=>
        ArtNet!Enabled(cfg) /\ f.universe = ArtNet!Gaffer(cfg) /\ f.universe < 128
  BY <1>1, <1>2, <1>3, <1>5, GafferMeans
     DEF ArtNet!IsGaffer, ArtNet!Enabled, ArtNet!Gaffer, ArtNet!Number, ArtNet!Char
<1>7. Remembered
  BY <1>2, NothingHeard DEF ArtInv, Along, Steady
<1>8. heard' = heard => Remembered'
  BY <1>2, <1>7 DEF Remembered, ArtNet!InRange, ArtNet!Enabled, ArtNet!ContentOf
<1>9. pc' = "check" /\ ArtNet!IsGaffer' => heard' = frame'
  BY <1>1, <1>6
<1>10. pc' = "recv" \/ (pc' = "check" /\ ~ArtNet!IsGaffer') => heard' = heard
  BY <1>1, <1>6
<1>11. pc' \in {"check", "recv"}
  BY <1>1
<1>12. Steady'
  BY <1>4, <1>8, <1>9, <1>10, <1>11 DEF Steady
<1>13. QED
  BY <1>2, <1>12 DEF Along

\* What does not change with the place of the thread.
Still == UNCHANGED <<cfg, todo, saves, frame, heard, torn, odd>>

LEMMA StillSettings ==
  Still => /\ ArtNet!IsGaffer' = ArtNet!IsGaffer /\ ArtNet!Enabled(cfg)' = ArtNet!Enabled(cfg)
           /\ ArtNet!Own(cfg)' = ArtNet!Own(cfg)
           /\ ArtNet!ContentOf(frame)' = ArtNet!ContentOf(frame)
           /\ \A ch \in ArtNet!Ch : ArtNet!InRange(ch)' = ArtNet!InRange(ch)
BY DEF Still, ArtNet!IsGaffer, ArtNet!Enabled, ArtNet!Own, ArtNet!ContentOf, ArtNet!InRange,
       ArtNet!Gaffer, ArtNet!Number

LEMMA StillFront ==
  Still /\ raw' = raw /\ Front(ArtNet!ContentOf(frame)) => Front(ArtNet!ContentOf(frame))'
BY DEF Still, Front, ArtNet!ContentOf

LEMMA StillRemembered ==
  Still /\ gaffer_data' = gaffer_data /\ Remembered => Remembered'
BY DEF Still, Remembered, ArtNet!InRange, ArtNet!Enabled, ArtNet!ContentOf

\* What is copied is copied under the settings there are.
LEMMA Copied ==
  ASSUME NEW to, NEW from, lower = cfg.lower,
         NEW ch \in ArtNet!Ch
  PROVE  /\ cfg.lower <= ch /\ ch <= cfg.upper => ArtNet!Overlay(to, from, cfg.upper)[ch] = from[ch]
         /\ ~(cfg.lower <= ch /\ ch <= cfg.upper) => ArtNet!Overlay(to, from, cfg.upper)[ch] = to[ch]
BY DEF ArtNet!Overlay

\* A range is turned round only by a page that is being saved or an odd text.
LEMMA NotWild ==
  ArtInv /\ ~torn /\ todo = <<>> /\ ~odd /\ pc \in {"upper", "upper2"} => ~ArtNet!Wild(cfg.upper)
<1> SUFFICES ASSUME ArtInv, ~torn, todo = <<>>, ~odd, pc \in {"upper", "upper2"}
             PROVE  ~ArtNet!Wild(cfg.upper)
  OBVIOUS
<1>1. lower = cfg.lower
  BY DEF ArtInv, Along, Steady
<1>2. cfg.lower <= cfg.upper
  BY FirstItem DEF ArtInv, Saving
<1>3. cfg.lower \in Int /\ cfg.upper \in Int
  BY Sizes DEF ArtInv, ArtTyped, Cfg, End
<1>4. QED
  BY <1>1, <1>2, <1>3 DEF ArtNet!Wild

LEMMA AlongThread ==
  ASSUME ArtInv, ArtNet!ThreadStep, ~ArtNet!Receive
  PROVE  Along' /\ WildSaved'
<1> DEFINE C == ArtNet!ContentOf(frame)
<1>0. Still
  BY DEF Still, ArtNet!ThreadStep, ArtNet!CheckEnable, ArtNet!CheckUniverse, ArtNet!CheckSubnet,
         ArtNet!ReadLower, ArtNet!Remember, ArtNet!ReadUniverse, ArtNet!ReadSubnet,
         ArtNet!ReplaceEnable, ArtNet!Replace, ArtNet!Send
<1>1. cfg' = cfg /\ todo' = todo /\ frame' = frame /\ heard' = heard /\ (torn' <=> torn) /\ (odd' <=> odd)
  BY <1>0 DEF Still
<1>2. CASE torn
  <2>1. heard = ArtNet!NoFrame
    BY <1>2 DEF ArtInv, Along
  <2>2. QED
    BY <1>1, <1>2, <2>1 DEF Along, WildSaved, ArtNet!NoFrame
<1>3. CASE ~torn
  <2>0. Steady
    BY <1>3 DEF ArtInv, Along
  <2>1. CASE ArtNet!CheckEnable
    <3>1. /\ pc = "check" /\ pc' = IF ArtNet!Enabled(cfg) THEN "guni" ELSE "own"
          /\ UNCHANGED <<raw, gaffer_data, lower, uni>>
      BY <2>1 DEF ArtNet!CheckEnable
    <3>2. Front(C)'
      BY <1>0, <2>0, <3>1, StillFront DEF Steady
    <3>3. ~ArtNet!Enabled(cfg) => ~ArtNet!IsGaffer
      BY DEF ArtNet!IsGaffer
    <3>4. ~ArtNet!IsGaffer => Remembered'
      BY <1>0, <2>0, <3>1, StillRemembered DEF Steady
    <3>5. ArtNet!IsGaffer => heard = frame
      BY <2>0, <3>1 DEF Steady
    <3>6. Steady'
      BY <1>0, <1>1, <3>1, <3>2, <3>3, <3>4, <3>5, StillSettings DEF Steady
    <3>7. QED
      BY <1>1, <1>3, <3>1, <3>6 DEF Along, WildSaved
  <2>10. CASE ArtNet!CheckUniverse
    <3>1. /\ pc = "guni" /\ pc' = "gsub" /\ uni' = cfg.guni
          /\ UNCHANGED <<raw, gaffer_data, lower>>
      BY <2>10 DEF ArtNet!CheckUniverse
    <3>2. Front(C)' /\ ArtNet!Enabled(cfg)
      BY <1>0, <2>0, <3>1, StillFront DEF Steady
    <3>3. ~ArtNet!IsGaffer => Remembered'
      BY <1>0, <2>0, <3>1, StillRemembered DEF Steady
    <3>4. ArtNet!IsGaffer => heard = frame
      BY <2>0, <3>1 DEF Steady
    <3>5. Steady'
      BY <1>0, <1>1, <3>1, <3>2, <3>3, <3>4, StillSettings DEF Steady
    <3>6. QED
      BY <1>1, <1>3, <3>1, <3>5 DEF Along, WildSaved
  <2>11. CASE ArtNet!CheckSubnet
    <3>1. /\ pc = "gsub"
          /\ pc' = IF ArtNet!Number(uni, cfg.gsub) = ArtNet!Char(frame.universe) THEN "lower" ELSE "own"
          /\ UNCHANGED <<raw, gaffer_data, lower, uni>>
      BY <2>11 DEF ArtNet!CheckSubnet
    <3>2. Front(C)' /\ ArtNet!Enabled(cfg) /\ uni = cfg.guni
      BY <1>0, <2>0, <3>1, StillFront DEF Steady
    <3>3. pc' = (IF ArtNet!IsGaffer THEN "lower" ELSE "own")
      BY <3>1, <3>2 DEF ArtNet!IsGaffer, ArtNet!Gaffer
    <3>4. CASE ArtNet!IsGaffer
      <4>1. pc' = "lower" /\ heard = frame
        BY <2>0, <3>1, <3>3, <3>4 DEF Steady
      <4>2. Steady'
        BY <1>0, <1>1, <3>2, <3>4, <4>1, StillSettings DEF Steady
      <4>3. QED
        BY <1>1, <1>3, <4>1, <4>2 DEF Along, WildSaved
    <3>5. CASE ~ArtNet!IsGaffer
      <4>1. pc' = "own" /\ Remembered'
        BY <1>0, <2>0, <3>1, <3>3, <3>5, StillRemembered DEF Steady
      <4>2. Steady'
        BY <3>2, <4>1 DEF Steady
      <4>3. QED
        BY <1>1, <1>3, <4>1, <4>2 DEF Along, WildSaved
    <3>6. QED
      BY <3>4, <3>5
  <2>2. CASE ArtNet!ReadLower("lower", "upper")
    <3>1. pc = "lower" /\ pc' = "upper" /\ lower' = cfg.lower /\ UNCHANGED <<raw, gaffer_data, uni>>
      BY <2>2 DEF ArtNet!ReadLower
    <3>2. Front(C)' /\ ArtNet!IsGaffer /\ heard = frame
      BY <1>0, <2>0, <3>1, StillFront DEF Steady
    <3>3. Steady'
      BY <1>0, <1>1, <3>1, <3>2, StillSettings DEF Steady
    <3>4. QED
      BY <1>1, <1>3, <3>1, <3>3 DEF Along, WildSaved
  <2>3. CASE ArtNet!ReadLower("lower2", "upper2")
    <3>1. /\ pc = "lower2" /\ pc' = "upper2" /\ lower' = cfg.lower
          /\ UNCHANGED <<raw, gaffer_data, uni>>
      BY <2>3 DEF ArtNet!ReadLower
    <3>2. /\ Front(C)' /\ Remembered' /\ ArtNet!Enabled(cfg)
          /\ frame.universe = ArtNet!Own(cfg)
      BY <1>0, <2>0, <3>1, StillFront, StillRemembered DEF Steady
    <3>3. Steady'
      BY <1>0, <1>1, <3>1, <3>2, StillSettings DEF Steady
    <3>4. QED
      BY <1>1, <1>3, <3>1, <3>3 DEF Along, WildSaved
  <2>4. CASE ArtNet!Remember
    <3>1. pc = "upper" /\ raw' = raw /\ uni' = uni /\ lower' = lower
      BY <2>4 DEF ArtNet!Remember
    <3>2. lower = cfg.lower /\ heard = frame /\ Front(C)' /\ Front(C)
      BY <1>0, <2>0, <3>1, StillFront DEF Steady
    <3>3. CASE ArtNet!Wild(cfg.upper)
      <4>1. pc' = "wild" /\ (todo # <<>> \/ odd)
        BY <1>3, <2>4, <3>1, <3>3, NotWild DEF ArtNet!Remember
      <4>2. QED
        BY <1>1, <1>3, <4>1 DEF Along, Steady, WildSaved
    <3>4. CASE ~ArtNet!Wild(cfg.upper)
      <4>1. pc' = "own" /\ gaffer_data' = ArtNet!Overlay(gaffer_data, raw, cfg.upper)
        BY <2>4, <3>4 DEF ArtNet!Remember
      <4>2. ASSUME NEW ch \in ArtNet!Ch, ArtNet!InRange(ch), ch <= frame.length
            PROVE  gaffer_data'[ch] = C
        <5>1. gaffer_data'[ch] = raw[ch]
          BY <3>2, <4>1, <4>2, Copied DEF ArtNet!InRange
        <5>2. ch \in 1 .. frame.length
          <6>1. frame.length \in Int
            BY FrameLength DEF ArtInv
          <6>2. QED
            BY <4>2, <6>1 DEF ArtNet!Ch
        <5>3. QED
          BY <3>2, <5>1, <5>2 DEF Front
      <4>3. Remembered'
        BY <1>0, <1>1, <3>2, <4>2, StillSettings DEF Remembered
      <4>4. Steady'
        BY <3>2, <4>1, <4>3 DEF Steady
      <4>5. QED
        BY <1>1, <1>3, <4>1, <4>4 DEF Along, WildSaved
    <3>5. QED
      BY <3>3, <3>4
  <2>5. CASE ArtNet!ReadUniverse
    <3>1. /\ pc = "own" /\ pc' = "subnet" /\ uni' = cfg.uni
          /\ UNCHANGED <<raw, gaffer_data, lower>>
      BY <2>5 DEF ArtNet!ReadUniverse
    <3>2. Front(C)' /\ Remembered'
      BY <1>0, <2>0, <3>1, StillFront, StillRemembered DEF Steady
    <3>3. Steady'
      BY <1>1, <3>1, <3>2 DEF Steady
    <3>4. QED
      BY <1>1, <1>3, <3>1, <3>3 DEF Along, WildSaved
  <2>6. CASE ArtNet!ReadSubnet
    <3>1. /\ pc = "subnet"
          /\ pc' = IF ArtNet!Number(uni, cfg.sub) # frame.universe THEN "recv" ELSE "enable"
          /\ UNCHANGED <<raw, gaffer_data, lower, uni>>
      BY <2>6 DEF ArtNet!ReadSubnet
    <3>2. Front(C)' /\ Remembered' /\ uni = cfg.uni
      BY <1>0, <2>0, <3>1, StillFront, StillRemembered DEF Steady
    <3>3. pc' = "enable" => frame.universe = ArtNet!Own(cfg)
      BY <3>1, <3>2 DEF ArtNet!Own
    <3>4. Steady'
      BY <1>0, <1>1, <3>1, <3>2, <3>3, StillSettings DEF Steady
    <3>5. QED
      BY <1>1, <1>3, <3>1, <3>4 DEF Along, WildSaved
  <2>12. CASE ArtNet!ReplaceEnable
    <3>1. /\ pc = "enable" /\ pc' = IF ArtNet!Enabled(cfg) THEN "lower2" ELSE "send"
          /\ UNCHANGED <<raw, gaffer_data, lower, uni>>
      BY <2>12 DEF ArtNet!ReplaceEnable
    <3>2. Front(C)' /\ Remembered' /\ Front(C) /\ frame.universe = ArtNet!Own(cfg)
      BY <1>0, <2>0, <3>1, StillFront, StillRemembered DEF Steady
    <3>3. CASE ArtNet!Enabled(cfg)
      <4>1. pc' = "lower2"
        BY <3>1, <3>3
      <4>2. Steady'
        BY <1>0, <1>1, <3>2, <3>3, <4>1, StillSettings DEF Steady
      <4>3. QED
        BY <1>1, <1>3, <4>1, <4>2 DEF Along, WildSaved
    <3>4. CASE ~ArtNet!Enabled(cfg)
      <4>0. pc' = "send"
        BY <3>1, <3>4
      <4>1. Mixed'
        <5>1. \A ch \in 1 .. frame.length : raw[ch] = C
          BY <3>2 DEF Front
        <5>2. \A ch : ~ArtNet!InRange(ch)'
          BY <1>1, <3>4 DEF ArtNet!InRange, ArtNet!Enabled
        <5>3. (1 .. frame.length)' = 1 .. frame.length /\ C' = C /\ raw' = raw
          BY <1>0, <1>1, <3>1, StillSettings
        <5>4. QED
          BY <5>1, <5>2, <5>3 DEF Mixed
      <4>2. Steady'
        BY <1>0, <1>1, <3>2, <4>0, <4>1, StillSettings DEF Steady
      <4>3. QED
        BY <1>1, <1>3, <4>0, <4>2 DEF Along, WildSaved
    <3>5. QED
      BY <3>3, <3>4
  <2>7. CASE ArtNet!Replace
    <3>1. pc = "upper2" /\ UNCHANGED <<gaffer_data, lower, uni>>
      BY <2>7 DEF ArtNet!Replace
    <3>2. /\ lower = cfg.lower /\ Front(C) /\ Remembered /\ Remembered'
          /\ ArtNet!Enabled(cfg) /\ frame.universe = ArtNet!Own(cfg)
      BY <1>0, <2>0, <3>1, StillRemembered DEF Steady
    <3>3. CASE ArtNet!Wild(cfg.upper)
      <4>1. pc' = "wild" /\ (todo # <<>> \/ odd)
        BY <1>3, <2>7, <3>1, <3>3, NotWild DEF ArtNet!Replace
      <4>2. QED
        BY <1>1, <1>3, <4>1 DEF Along, Steady, WildSaved
    <3>4. CASE ~ArtNet!Wild(cfg.upper)
      <4>1. pc' = "send" /\ raw' = ArtNet!Overlay(raw, gaffer_data, cfg.upper)
        BY <2>7, <3>4 DEF ArtNet!Replace
      <4>2. ASSUME NEW ch \in 1 .. frame.length
            PROVE  /\ ~ArtNet!InRange(ch) => raw'[ch] = C
                   /\ ArtNet!InRange(ch) /\ ch <= heard.length => raw'[ch] = ArtNet!ContentOf(heard)
        <5>1. ch \in ArtNet!Ch
          BY FrameFits DEF ArtInv
        <5>2. raw[ch] = C
          BY <3>2 DEF Front
        <5>3. ~ArtNet!InRange(ch) => raw'[ch] = raw[ch]
          BY <3>2, <4>1, <5>1, Copied DEF ArtNet!InRange
        <5>4. ArtNet!InRange(ch) => raw'[ch] = gaffer_data[ch]
          BY <3>2, <4>1, <5>1, Copied DEF ArtNet!InRange
        <5>5. ArtNet!InRange(ch) /\ ch <= heard.length => gaffer_data[ch] = ArtNet!ContentOf(heard)
          BY <3>2, <5>1 DEF Remembered
        <5>6. QED
          BY <5>2, <5>3, <5>4, <5>5
      <4>3. Mixed'
        <5>1. (1 .. frame.length)' = 1 .. frame.length /\ C' = C
          BY <1>0, <1>1, StillSettings
        <5>2. ArtNet!ContentOf(heard)' = ArtNet!ContentOf(heard)
          BY <1>1 DEF ArtNet!ContentOf
        <5>3. \A ch \in 1 .. frame.length : ArtNet!InRange(ch)' <=> ArtNet!InRange(ch)
          BY <1>1 DEF ArtNet!InRange, ArtNet!Enabled
        <5>4. QED
          BY <1>1, <4>2, <5>1, <5>2, <5>3 DEF Mixed
      <4>4. Steady'
        BY <1>0, <1>1, <3>2, <4>1, <4>3, StillSettings DEF Steady
      <4>5. QED
        BY <1>1, <1>3, <4>1, <4>4 DEF Along, WildSaved
    <3>5. QED
      BY <3>3, <3>4
  <2>8. CASE ArtNet!Send
    <3>1. pc = "send" /\ pc' = "recv" /\ UNCHANGED gaffer_data
      BY <2>8 DEF ArtNet!Send
    <3>2. Remembered'
      BY <1>0, <2>0, <3>1, StillRemembered DEF Steady
    <3>3. Steady'
      BY <3>1, <3>2 DEF Steady
    <3>4. QED
      BY <1>1, <1>3, <3>1, <3>3 DEF Along, WildSaved
  <2>9. QED
    BY <2>1, <2>2, <2>3, <2>4, <2>5, <2>6, <2>7, <2>8, <2>10, <2>11, <2>12 DEF ArtNet!ThreadStep
<1>4. torn \in BOOLEAN
  BY DEF ArtInv, ArtTyped, ArtNet!TypeOK
<1>5. QED
  BY <1>2, <1>3, <1>4

LEMMA ArtInvInit == ArtNet!Init => ArtInv
BY ArtInit, AlongInit DEF ArtInv

LEMMA ArtInvStep == ArtInv /\ ArtNet!Next => ArtInv'
<1> SUFFICES ASSUME ArtInv, ArtNet!Next PROVE ArtInv'
  OBVIOUS
<1>1. ArtTyped' /\ Saving'
  BY ArtStep DEF ArtInv
<1>2. CASE ArtNet!SaveGaffer \/ ArtNet!SaveUniverse
  <2>1. UNCHANGED <<cfg, pc, frame, raw, gaffer_data, lower, uni, heard, torn>> /\ todo = <<>>
    BY <1>2 DEF ArtNet!SaveGaffer, ArtNet!SaveUniverse, ArtNet!thread
  <2>2. Along'
    BY <2>1 DEF ArtInv, Along, Steady, Front, Remembered, Mixed, ArtNet!NoFrame, ArtNet!IsGaffer,
                ArtNet!InRange, ArtNet!Enabled, ArtNet!Own, ArtNet!Gaffer, ArtNet!Number,
                ArtNet!ContentOf
  <2>3. WildSaved'
    <3>1. todo' # <<>>
      <4>1. CASE ArtNet!SaveGaffer
        BY <4>1 DEF ArtNet!SaveGaffer
      <4>2. CASE ArtNet!SaveUniverse
        BY <4>2 DEF ArtNet!SaveUniverse
      <4>3. QED
        BY <1>2, <4>1, <4>2
    <3>2. QED
      BY <3>1 DEF WildSaved
  <2>4. QED
    BY <1>1, <2>2, <2>3 DEF ArtInv
<1>3. CASE ArtNet!SaveItem
  <2>1. heard' = ArtNet!NoFrame /\ torn' = TRUE
    BY <1>3 DEF ArtNet!SaveItem
  <2>2. QED
    BY <1>1, <2>1 DEF ArtInv, Along, WildSaved, ArtNet!NoFrame
<1>4. CASE ArtNet!Receive
  <2>1. pc' # "wild"
    BY <1>4 DEF ArtNet!Receive
  <2>2. QED
    BY <1>1, <1>4, <2>1, AlongReceive DEF ArtInv, WildSaved
<1>5. CASE ArtNet!ThreadStep /\ ~ArtNet!Receive
  BY <1>1, <1>5, AlongThread DEF ArtInv
<1>6. QED
  BY <1>2, <1>3, <1>4, <1>5 DEF ArtNet!Next

-----------------------------------------------------------------------------
(* The thread *)

DmxInv == protocol \in {"0", "1"} /\ Typed /\ ArtInv

LEMMA DmxInvInit == DmxInit => DmxInv
BY SacnInit, ArtInvInit DEF DmxInit, DmxInv

LEMMA Unmoved == UNCHANGED vars /\ Typed => Typed'
BY DEF vars, Typed, TypeOK, LastCounts, Ours

LEMMA ArtUnmoved == UNCHANGED artVars /\ ArtInv => ArtInv'
<1> SUFFICES ASSUME UNCHANGED artVars, ArtInv PROVE ArtInv'
  OBVIOUS
<1>1. UNCHANGED <<cfg, todo, saves, pc, frame, raw, gaffer_data, lower, uni, heard, torn, odd>>
  BY DEF artVars
<1>2. ArtTyped' /\ Saving' /\ WildSaved'
  BY <1>1 DEF ArtInv, ArtTyped, ArtNet!TypeOK, Saving, WildSaved
<1>3. Along'
  BY <1>1 DEF ArtInv, Along, Steady, Front, Remembered, Mixed, ArtNet!NoFrame, ArtNet!IsGaffer,
              ArtNet!InRange, ArtNet!Enabled, ArtNet!Own, ArtNet!Gaffer, ArtNet!Number,
              ArtNet!ContentOf
<1>4. QED
  BY <1>2, <1>3 DEF ArtInv

LEMMA DmxInvStep == DmxInv /\ [DmxNext]_allVars => DmxInv'
<1> SUFFICES ASSUME DmxInv, [DmxNext]_allVars PROVE DmxInv'
  OBVIOUS
<1>1. CASE SacnStep
  <2>1. protocol' = protocol /\ Next /\ UNCHANGED artVars
    BY <1>1 DEF SacnStep
  <2>2. QED
    BY <2>1, SacnNext, ArtUnmoved DEF DmxInv
<1>2. CASE ArtNetStep
  <2>1. protocol' = protocol /\ ArtNet!Next /\ UNCHANGED vars
    BY <1>2 DEF ArtNetStep
  <2>2. QED
    BY <2>1, ArtInvStep, Unmoved DEF DmxInv
<1>3. CASE UNCHANGED allVars
  <2>1. protocol' = protocol /\ UNCHANGED artVars /\ UNCHANGED vars
    BY <1>3 DEF allVars, artVars, vars
  <2>2. QED
    BY <2>1, ArtUnmoved, Unmoved DEF DmxInv
<1>4. QED
  BY <1>1, <1>2, <1>3 DEF DmxNext

\* Every variable of both sides keeps the type of its declaration: the last
\* sequence number a byte, the universe and subnet four bits each, the range
\* within the channels of the frame.
THEOREM DmxTypeCorrect == DmxSpec => []DmxTypeOK
<1>1. DmxInv => DmxTypeOK
  BY DEF DmxInv, DmxTypeOK, Typed, ArtInv, ArtTyped
<1>2. QED
  BY <1>1, DmxInvInit, DmxInvStep, PTL DEF DmxSpec

\* What process_artnet_msg hands to the SAMD, while no page is saved, is a frame
\* of the own universe with the gaffer's channels inside the range and only
\* there, whatever went through the buffer before.
THEOREM FramesAreMixed == DmxSpec => []SignalsAreMixed
<1>1. ArtInv => SignalsAreMixed
  <2> SUFFICES ASSUME ArtInv, pc = "send", ~torn PROVE ArtNet!SignalsAreMixed
    BY DEF SignalsAreMixed, ArtNet!SignalsAreMixed
  <2>1. frame.universe = ArtNet!Own(cfg) /\ Mixed
    BY DEF ArtInv, Along, Steady
  <2>2. QED
    BY <2>1 DEF Mixed, ArtNet!SignalsAreMixed
<1>2. DmxInv => SignalsAreMixed
  BY <1>1 DEF DmxInv
<1>3. QED
  BY <1>2, DmxInvInit, DmxInvStep, PTL DEF DmxSpec

\* check_gaffer_packet and replace_channel_data compute a negative length only
\* while the web server saves the ends of the range, or after it saved a text
\* that atoi reads as another number than the script of the page did.
THEOREM WildHasACause == DmxSpec => []WildOnlyIfTornOrOdd
<1>1. DmxInv => WildOnlyIfTornOrOdd
  BY DEF DmxInv, ArtInv, WildSaved, WildOnlyIfTornOrOdd, ArtNet!WildOnlyIfTornOrOdd
<1>2. QED
  BY <1>1, DmxInvInit, DmxInvStep, PTL DEF DmxSpec

\* e131_pkt_discard after a discarded packet: of two packets of our universe that
\* come one after the other, the second is shown if its number follows the first.
THEOREM FollowersAreShown == DmxSpec => SecondIsShown
<1>1. ASSUME DmxInv, [DmxNext]_allVars
      PROVE  [prev' # prev /\ Ours(prev) /\ Ours(prev') /\ prev'.dmx
                /\ Int8(prev'.seq - prev.seq) > 0 => shown' = prev']_vars
  <2>1. Next \/ UNCHANGED vars
    BY <1>1 DEF DmxNext, SacnStep, ArtNetStep, allVars, vars
  <2>2. CASE Next
    BY <1>1, <2>2, FollowerIsShown DEF DmxInv
  <2>3. QED
    BY <2>1, <2>2
<1>2. QED
  BY <1>1, DmxInvInit, DmxInvStep, PTL DEF DmxSpec, SecondIsShown

\* The tests of e131_pkt_discard for packets that a lighting desk numbers: a
\* packet newer than all of its epoch that came before is shown, whatever late
\* packets, duplicates and packets of another universe have done to last_seq, as
\* long as it is within Reach: 127 numbers, less those that a late packet and
\* the packets of others can take last_seq back.
THEOREM NewestAreShown == DmxSpec => NewestIsShown
<1>1. DmxInit => NetKnown /\ Follows
  BY NetKnownInit DEF DmxInit, Init, Follows
<1>2. [DmxNext]_allVars => Next \/ UNCHANGED vars
  BY DEF DmxNext, SacnStep, ArtNetStep, allVars, vars
<1>3. ASSUME Typed, NetKnown, Follows, UNCHANGED vars
      PROVE  NetKnown' /\ Follows'
  <2>1. NetKnown'
    BY <1>3 DEF vars, NetKnown, Ours
  <2>2. UNCHANGED <<last_seq, newest, epoch, start, others, net>>
    BY <1>3 DEF vars
  <2>3. others <= others' /\ others' \in Nat
    BY <1>3, <2>2 DEF Typed, TypeOK
  <2>4. Follows'
    BY <1>3, <2>2, <2>3, FollowsKept
  <2>5. QED
    BY <2>1, <2>4
<1>4. DmxInv /\ DmxInv' /\ NetKnown /\ Follows /\ [DmxNext]_allVars => NetKnown' /\ Follows'
  BY <1>2, <1>3, NetKnownNext, FollowsNext DEF DmxInv
<1>5. ASSUME DmxInv, NetKnown, Follows, [DmxNext]_allVars
      PROVE  [prev' # prev /\ Ours(prev') /\ prev'.dmx /\ newest # NoPacket
                /\ Newer(prev', newest) => shown' = prev']_vars
  BY <1>2, <1>5, NewerIsShown DEF DmxInv
<1>6. QED
  BY <1>1, <1>4, <1>5, DmxInvInit, DmxInvStep, PTL DEF DmxSpec, NewestIsShown
=============================================================================
