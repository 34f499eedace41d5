--------------------------- MODULE MainLoopProofs ---------------------------
(***************************************************************************)
(* For any addresses, channels and readers: the types of MainLoop,         *)
(* ToldIsOurs and ChannelOfThisConnection.                                 *)
(*                                                                         *)
(* ToldIsOurs rests on what ipAddress is between two bytes (Mixed), and on *)
(* a reading that no byte disturbed (ReadSoFar).  ChannelOfThisConnection  *)
(* rests on the order of the loop: after an address was lost, the channel  *)
(* is looked at, and the scan forgotten, before another address can be     *)
(* published.                                                              *)
(***************************************************************************)
EXTENDS MainLoop, SequenceTheorems, TLAPS

Flags == scanned \in BOOLEAN /\ overlap \in BOOLEAN

\* TypeOK without the flags; a reading that is not done lacks a byte.
Typed ==
  /\ pc \in {"fvew", "wmode", "uart", "threads", "hung", "top", "channel", "ask", "publish"}
  /\ operation_mode \in {"none", "STA_ETH", "STA_WIFI", "AP"} /\ wan \in WanModes
  /\ artnet_enable \in {0, 1}
  /\ threads \in [{"client", "server"} -> {"none", "created", "running"}]
  /\ ipAddress \in [1 .. 4 -> Byte] /\ answer \in [1 .. 4 -> Byte]
  /\ published \in [1 .. 4 -> Byte]
  /\ k \in 1 .. 5
  /\ ap_wln_channel \in 0 .. 9
  /\ channel \in 0 .. 11 /\ boxes \subseteq near /\ near \subseteq BoxChannels
  /\ reader \in Readers /\ rpc \in {"idle", "read", "told"}
  /\ got \in Seq(Byte) /\ Len(got) <= 4
  /\ rpc = "read" => Len(got) < 4

LEMMA FlagsInit == Init => Flags
BY DEF Init, Flags

LEMMA FlagsStep == Flags /\ [Next]_vars => Flags'
<1> SUFFICES ASSUME Flags, [Next]_vars PROVE Flags'
  OBVIOUS
<1> USE DEF Flags
<1>1. CASE MainStep
  <2>1. scanned' \in BOOLEAN
    BY <1>1 DEF MainStep, BootFvew, BootWmode, BootUart, BootThreads, Top, ChannelHost,
                ChannelLost, ChannelScan, ChannelKnown, Ask, Publish, Rest, radio
  <2>2. overlap' \in BOOLEAN
    BY <1>1 DEF MainStep, BootFvew, BootWmode, BootUart, BootThreads, Top, ChannelHost,
                ChannelLost, ChannelScan, ChannelKnown, Ask, Publish, Rest
  <2>3. QED
    BY <2>1, <2>2
<1>2. CASE ReaderStep
  <2>1. overlap' \in BOOLEAN
    BY <1>2 DEF ReaderStep, BeginJoin, BeginPoll, BeginAnnounce, Begin, ReadByte, Again
  <2>2. scanned' = scanned
    BY <1>2 DEF ReaderStep, BeginJoin, BeginPoll, BeginAnnounce, Begin, ReadByte, Again, radio
  <2>3. QED
    BY <2>1, <2>2
<1>3. ASSUME NEW t \in {"client", "server"}, ThreadStarts(t) PROVE Flags'
  BY <1>3 DEF ThreadStarts, radio
<1>4. CASE GateMoves
  BY <1>4 DEF GateMoves, radio
<1>5. CASE BoxesChange
  BY <1>5 DEF BoxesChange, radio
<1>6. CASE UNCHANGED vars
  BY <1>6 DEF vars
<1>7. QED
  BY <1>1, <1>2, <1>3, <1>4, <1>5, <1>6 DEF Next

LEMMA AddressType == Addresses \cup {Zero} \subseteq [1 .. 4 -> Byte]
<1>1. Zero \in [1 .. 4 -> Byte]
  BY DEF Zero, Byte
<1>2. QED
  BY <1>1, MainLoopAssumption

\* What is parsed is four bytes: those of the address, or a 0 in front of three.
LEMMA ParsedType ==
  ASSUME NEW a \in Addresses
  PROVE  /\ Parsed(a) \in [1 .. 4 -> Byte]
         /\ ~Misread => Parsed(a) = a
         /\ Misread => Parsed(a)[1] = 0
<1>1. a \in [1 .. 4 -> Byte]
  BY MainLoopAssumption
<1>2. a[1] \in Byte /\ a[2] \in Byte /\ a[3] \in Byte /\ 0 \in Byte
  BY <1>1 DEF Byte
<1>3. <<0, a[1], a[2], a[3]>> \in [1 .. 4 -> Byte]
  BY <1>2
<1>4. QED
  BY <1>1, <1>3 DEF Parsed

LEMMA NothingRead == <<>> \in Seq(Byte) /\ Len(<<>>) = 0
OBVIOUS

LEMMA LessThanFour ==
  ASSUME NEW n \in Nat, n < 4
  PROVE  n \in 0 .. 3 /\ n + 1 \in 1 .. 4 /\ n + 1 <= 4 /\ (n # 3 => n + 1 < 4)
OBVIOUS

LEMMA FourBytes ==
  ASSUME NEW s \in Seq(Byte), Len(s) = 4
  PROVE  s \in [1 .. 4 -> Byte]
BY LenProperties

LEMMA TypedInit == Init => Typed
<1> SUFFICES ASSUME Init PROVE Typed
  OBVIOUS
<1>1. Zero \in [1 .. 4 -> Byte]
  BY AddressType
<1>2. got \in Seq(Byte) /\ Len(got) <= 4
  BY DEF Init
<1>3. threads \in [{"client", "server"} -> {"none", "created", "running"}]
  BY DEF Init
<1>4. QED
  BY <1>1, <1>2, <1>3, NothingRead DEF Init, Typed

LEMMA TypedStep == Typed /\ [Next]_vars => Typed'
<1> SUFFICES ASSUME Typed, [Next]_vars PROVE Typed'
  OBVIOUS
<1> USE DEF Typed
<1>1. CASE BootFvew \/ BootWmode \/ BootUart
  BY <1>1 DEF BootFvew, BootWmode, BootUart, boot, addr, radio, reads
<1>2. CASE BootThreads
  <2>1. threads' \in [{"client", "server"} -> {"none", "created", "running"}]
    BY <1>2 DEF BootThreads
  <2>2. QED
    BY <1>2, <2>1 DEF BootThreads, addr, radio, reads
<1>3. ASSUME NEW t \in {"client", "server"}, ThreadStarts(t) PROVE Typed'
  BY <1>3 DEF ThreadStarts, addr, radio, reads
<1>4. CASE GateMoves \/ BoxesChange
  BY <1>4 DEF GateMoves, BoxesChange, boot, addr, radio, reads
<1>5. CASE Top \/ Rest
  BY <1>5 DEF Top, Rest, boot, addr, radio, reads
<1>6. CASE ChannelHost
  BY <1>6 DEF ChannelHost, boot, addr, reads
<1>7. CASE ChannelLost \/ ChannelKnown
  BY <1>7 DEF ChannelLost, ChannelKnown, boot, addr, reads
<1>8. CASE ChannelScan
  <2>1. ASSUME NEW first \in boxes PROVE first % 10 \in 0 .. 9
    <3>1. first \in 1 .. 13
      BY MainLoopAssumption
    <3>2. QED
      BY <3>1
  <2>2. ap_wln_channel' \in 0 .. 9
    BY <1>8, <2>1 DEF ChannelScan
  <2>3. QED
    BY <1>8, <2>2 DEF ChannelScan, boot, addr, reads
<1>9. CASE Ask
  BY <1>9, AddressType, ParsedType DEF Ask, boot, radio, reads
<1>10. CASE Publish
  <2>1. answer[k] \in Byte /\ ipAddress' \in [1 .. 4 -> Byte]
    BY <1>10 DEF Publish
  <2>2. k' \in 1 .. 5 /\ published' \in [1 .. 4 -> Byte]
    BY <1>10 DEF Publish
  <2>3. QED
    BY <1>10, <2>1, <2>2 DEF Publish, boot, radio, reads
<1>11. CASE BeginJoin \/ BeginPoll \/ BeginAnnounce
  <2>1. got' \in Seq(Byte) /\ Len(got') = 0
    BY <1>11, NothingRead DEF BeginJoin, BeginPoll, BeginAnnounce, Begin
  <2>2. QED
    BY <1>11, <2>1 DEF BeginJoin, BeginPoll, BeginAnnounce, Begin, boot, addr, radio
<1>12. CASE ReadByte
  <2> DEFINE b == IF reader = "announce" /\ Len(got) = 3 THEN 255 ELSE ipAddress[Len(got) + 1]
  <2>1. b \in Byte
    <3>1. Len(got) \in Nat /\ Len(got) < 4
      BY <1>12 DEF ReadByte
    <3>2. ipAddress[Len(got) + 1] \in Byte
      BY <3>1, LessThanFour
    <3>3. 255 \in Byte
      BY DEF Byte
    <3>4. QED
      BY <3>2, <3>3
  <2>2. got' \in Seq(Byte) /\ Len(got') = Len(got) + 1
    <3>1. got' = Append(got, b)
      BY <1>12 DEF ReadByte
    <3>2. QED
      BY <2>1, <3>1
  <2>3. rpc' \in {"read", "told"} /\ (rpc' = "read" => Len(got) # 3) /\ Len(got) < 4
    BY <1>12 DEF ReadByte
  <2>4. UNCHANGED <<pc, boot, artnet_enable, addr, radio, boxes, near, reader>>
    BY <1>12 DEF ReadByte
  <2>5. Len(got) \in Nat
    OBVIOUS
  <2>6. Len(got') <= 4 /\ (rpc' = "read" => Len(got') < 4)
    BY <2>2, <2>3, <2>5, LessThanFour
  <2>7. QED
    BY <2>2, <2>3, <2>4, <2>6 DEF boot, addr, radio
<1>13. CASE Again
  <2>1. got' \in Seq(Byte) /\ Len(got') = 0
    BY <1>13, NothingRead DEF Again
  <2>2. QED
    BY <1>13, <2>1 DEF Again, boot, addr, radio
<1>14. CASE UNCHANGED vars
  BY <1>14 DEF vars
<1>15. QED
  BY <1>1, <1>2, <1>3, <1>4, <1>5, <1>6, <1>7, <1>8, <1>9, <1>10, <1>11, <1>12,
     <1>13, <1>14 DEF Next, MainStep, ReaderStep

\* Every variable keeps a value that its declaration in the code can hold,
\* through boot, loop and readings.
THEOREM TypeCorrect == Spec => []TypeOK
<1>1. Typed /\ Flags => TypeOK
  BY DEF Typed, Flags, TypeOK
<1>2. QED
  BY <1>1, FlagsInit, FlagsStep, TypedInit, TypedStep, PTL DEF Spec

-----------------------------------------------------------------------------
(* ChannelOfThisConnection *)

\* The last scan is of this connection while there is one, it is forgotten when
\* the loop has seen that there is none, and it is what the radio is told.
Scanned ==
  /\ ap_wln_channel # 0 => operation_mode = "STA_WIFI"
  /\ pc \in {"fvew", "wmode"} => ap_wln_channel = 0
  /\ Connected /\ ap_wln_channel # 0 => \E b \in near : ap_wln_channel = b % 10
  /\ pc = "ask" /\ ~Connected => ap_wln_channel = 0
  /\ pc = "publish" /\ k = 1 /\ ~Connected => ap_wln_channel = 0
  /\ pc = "ask" /\ operation_mode = "STA_WIFI" => channel = ap_wln_channel

LEMMA ScannedInit == Init => Scanned
BY DEF Init, Scanned

LEMMA ScannedStep == Typed /\ Scanned /\ [Next]_vars => Scanned'
<1> SUFFICES ASSUME Typed, Scanned, [Next]_vars PROVE Scanned'
  OBVIOUS
<1> USE DEF Typed, Scanned, Connected
<1>1. CASE BootFvew \/ BootWmode \/ BootUart \/ BootThreads
  BY <1>1 DEF BootFvew, BootWmode, BootUart, BootThreads, boot, addr, radio, reads
<1>2. ASSUME NEW t \in {"client", "server"}, ThreadStarts(t) PROVE Scanned'
  BY <1>2 DEF ThreadStarts, addr, radio, reads
<1>3. CASE GateMoves \/ Top \/ Rest
  BY <1>3 DEF GateMoves, Top, Rest, boot, addr, radio, reads
<1>4. CASE BoxesChange
  <2>1. UNCHANGED <<pc, operation_mode, ap_wln_channel, channel, ipAddress, k>>
    BY <1>4 DEF BoxesChange, boot, addr, radio
  <2>2. Connected => near \subseteq near'
    BY <1>4 DEF BoxesChange
  <2>3. QED
    BY <2>1, <2>2
<1>5. CASE ChannelHost
  BY <1>5 DEF ChannelHost, boot, addr, reads
<1>6. CASE ChannelLost \/ ChannelKnown
  BY <1>6 DEF ChannelLost, ChannelKnown, boot, addr, reads
<1>7. CASE ChannelScan
  <2>1. \/ \E first \in boxes : ap_wln_channel' = first % 10
        \/ ap_wln_channel' = ap_wln_channel
    BY <1>7 DEF ChannelScan
  <2>2. /\ UNCHANGED <<operation_mode, ipAddress, near>> /\ boxes \subseteq near
        /\ operation_mode = "STA_WIFI" /\ Connected /\ pc' = "ask"
        /\ channel' = ap_wln_channel'
    BY <1>7 DEF ChannelScan, boot, addr
  <2>3. QED
    BY <2>1, <2>2
<1>8. CASE Ask
  <2>1. UNCHANGED <<operation_mode, ap_wln_channel, channel, ipAddress, near>>
    BY <1>8 DEF Ask, boot, radio
  <2>2. pc = "ask" /\ pc' = "publish"
    BY <1>8 DEF Ask
  <2>3. QED
    BY <2>1, <2>2
\* Only the first byte matters, and it is published right after Ask.
<1>9. CASE Publish
  <2>1. k = 1 \/ ipAddress'[1] = ipAddress[1]
    BY <1>9 DEF Publish
  <2>2. k' # 1
    BY <1>9 DEF Publish
  <2>3. QED
    BY <1>9, <2>1, <2>2 DEF Publish, boot, radio, reads
<1>10. CASE ReaderStep
  <2>1. UNCHANGED <<pc, operation_mode, ap_wln_channel, channel, ipAddress, k, near>>
    BY <1>10 DEF ReaderStep, BeginJoin, BeginPoll, BeginAnnounce, Begin, ReadByte, Again,
                 boot, addr, radio
  <2>2. QED
    BY <2>1
<1>11. CASE UNCHANGED vars
  BY <1>11 DEF vars
<1>12. QED
  BY <1>1, <1>2, <1>3, <1>4, <1>5, <1>6, <1>7, <1>8, <1>9, <1>10, <1>11
     DEF Next, MainStep

\* Through every loss of the connection, and whatever boxes come and go, the
\* radio is told a channel that was scanned since we last had no address.
THEOREM ScanIsOfThisConnection == Spec => []ChannelOfThisConnection
<1>1. ASSUME Typed, Scanned, pc = "ask", operation_mode = "STA_WIFI", channel # 0
      PROVE  \E b \in near : channel = b % 10
  <2>1. channel = ap_wln_channel
    BY <1>1 DEF Scanned
  <2>2. Connected /\ ap_wln_channel # 0
    BY <1>1, <2>1 DEF Scanned
  <2>3. QED
    BY <1>1, <2>1, <2>2 DEF Scanned
<1>2. Typed /\ Scanned => ChannelOfThisConnection
  BY <1>1 DEF ChannelOfThisConnection
<1>3. QED
  BY <1>2, TypedInit, TypedStep, ScannedInit, ScannedStep, PTL DEF Spec

-----------------------------------------------------------------------------
(* ToldIsOurs *)

\* What the loop may have parsed: an address of ours or none, or, in a client with
\* a static address, four bytes that begin with 0.
Answers ==
  {a \in [1 .. 4 -> Byte] :
     a \in Addresses \cup {Zero} \/ (Misread /\ a[1] = 0)}

\* While an answer is published the bytes before k are its own, the others are
\* those of the address before.
Mixed ==
  /\ published \in Answers /\ answer \in Answers
  /\ pc \in {"fvew", "wmode"} => operation_mode = "none"
  /\ pc = "publish" =>
       /\ \A j \in 1 .. 4 : ipAddress[j] = IF j < k THEN answer[j] ELSE published[j]
       /\ k = 5 => published = answer
  /\ pc # "publish" => ipAddress = published

LEMMA AnswerType == (\A a \in Addresses : Parsed(a) \in Answers) /\ Zero \in Answers
BY AddressType, ParsedType DEF Answers

\* The mode is set once, at boot: a client stays one.
LEMMA MisreadStays ==
  ASSUME pc \in {"fvew", "wmode"} => operation_mode = "none", [Next]_vars
  PROVE  /\ Misread => Misread'
         /\ Answers \subseteq Answers'
         /\ pc' \in {"fvew", "wmode"} => operation_mode' = "none"
<1>1. CASE BootFvew \/ BootWmode
  <2>1. ~Misread
    BY <1>1 DEF BootFvew, BootWmode, Misread
  <2>2. pc' \in {"fvew", "wmode"} => operation_mode' = "none"
    BY <1>1 DEF BootFvew, BootWmode
  <2>3. QED
    BY <2>1, <2>2 DEF Answers
<1>2. CASE UNCHANGED <<operation_mode, wan>> /\ (pc' \in {"fvew", "wmode"} => pc' = pc)
  <2>1. Misread' = Misread
    BY <1>2 DEF Misread
  <2>2. QED
    BY <1>2, <2>1 DEF Answers
<1>3. CASE \/ BootUart \/ BootThreads \/ Top \/ ChannelHost \/ ChannelLost \/ ChannelScan
           \/ ChannelKnown \/ Ask \/ Publish \/ Rest
  <2>1. UNCHANGED <<operation_mode, wan>> /\ (pc' \in {"fvew", "wmode"} => pc' = pc)
    BY <1>3 DEF BootUart, BootThreads, Top, ChannelHost, ChannelLost, ChannelScan,
                ChannelKnown, Ask, Publish, Rest, boot
  <2>2. QED
    BY <1>2, <2>1
<1>4. CASE ReaderStep
  <2>1. UNCHANGED <<pc, operation_mode, wan>>
    BY <1>4 DEF ReaderStep, BeginJoin, BeginPoll, BeginAnnounce, Begin, ReadByte, Again, boot
  <2>2. QED
    BY <1>2, <2>1
<1>5. CASE GateMoves \/ BoxesChange \/ \E t \in {"client", "server"} : ThreadStarts(t)
  <2>1. UNCHANGED <<pc, operation_mode, wan>>
    BY <1>5 DEF GateMoves, BoxesChange, ThreadStarts, boot
  <2>2. QED
    BY <1>2, <2>1
<1>6. CASE UNCHANGED vars
  <2>1. UNCHANGED <<pc, operation_mode, wan>>
    BY <1>6 DEF vars
  <2>2. QED
    BY <1>2, <2>1
<1>7. QED
  BY <1>1, <1>3, <1>4, <1>5, <1>6 DEF Next, MainStep

LEMMA MixedInit == Init => Mixed
<1> SUFFICES ASSUME Init PROVE Mixed
  OBVIOUS
<1>1. Zero \in Answers
  BY AnswerType
<1>2. QED
  BY <1>1 DEF Init, Mixed

LEMMA MixedStep == Typed /\ Mixed /\ [Next]_vars => Mixed'
<1> SUFFICES ASSUME Typed, Mixed, [Next]_vars PROVE Mixed'
  OBVIOUS
<1> USE DEF Mixed
<1>0. /\ Answers \subseteq Answers'
      /\ pc' \in {"fvew", "wmode"} => operation_mode' = "none"
  BY MisreadStays
<1>1. CASE \/ BootFvew \/ BootWmode \/ BootUart \/ BootThreads \/ Top \/ ChannelHost
           \/ ChannelLost \/ ChannelScan \/ ChannelKnown
  <2>1. pc # "publish" /\ pc' # "publish"
    BY <1>1 DEF BootFvew, BootWmode, BootUart, BootThreads, Top, ChannelHost, ChannelLost,
                ChannelScan, ChannelKnown
  <2>2. UNCHANGED addr
    BY <1>1 DEF BootFvew, BootWmode, BootUart, BootThreads, Top, ChannelHost, ChannelLost,
                ChannelScan, ChannelKnown
  <2>3. QED
    BY <1>0, <2>1, <2>2 DEF addr
<1>2. CASE Ask
  <2>1. ipAddress' = published' /\ published' = published /\ k' = 1 /\ pc' = "publish"
    BY <1>2 DEF Ask
  <2>2. answer' \in Answers
    BY <1>2, AnswerType DEF Ask
  <2>3. QED
    BY <1>0, <2>1, <2>2
<1>3. CASE Publish
  <2>1. pc = "publish" /\ pc' = "publish" /\ answer' = answer /\ k \in 1 .. 4 /\ k' = k + 1
    BY <1>3 DEF Publish, Typed
  <2>2. ipAddress' = [ipAddress EXCEPT ![k] = answer[k]]
    BY <1>3 DEF Publish
  <2>3. published' = IF k = 4 THEN answer ELSE published
    BY <1>3 DEF Publish
  <2>4. ASSUME NEW j \in 1 .. 4
        PROVE  ipAddress'[j] = IF j < k' THEN answer'[j] ELSE published'[j]
    BY <2>1, <2>2, <2>3 DEF Typed
  <2>5. published' \in Answers /\ (k' = 5 => published' = answer')
    BY <2>1, <2>3
  <2>6. QED
    BY <1>0, <2>1, <2>4, <2>5
<1>4. CASE Rest
  <2>1. pc = "publish" /\ k = 5 /\ pc' = "top" /\ UNCHANGED addr
    BY <1>4 DEF Rest, Typed
  <2>2. \A j \in 1 .. 4 : ipAddress[j] = published[j]
    BY <2>1
  <2>3. ipAddress = published
    <3>1. published \in [1 .. 4 -> Byte] /\ ipAddress \in [1 .. 4 -> Byte]
      BY DEF Typed
    <3>2. QED
      BY <2>2, <3>1
  <2>4. QED
    BY <1>0, <2>1, <2>3 DEF addr
<1>5. CASE \/ \E t \in {"client", "server"} : ThreadStarts(t)
           \/ GateMoves \/ BoxesChange \/ ReaderStep \/ UNCHANGED vars
  <2>1. UNCHANGED <<pc, addr>>
    BY <1>5 DEF ThreadStarts, GateMoves, BoxesChange, ReaderStep, BeginJoin, BeginPoll,
                BeginAnnounce, Begin, ReadByte, Again, vars, addr
  <2>2. QED
    BY <1>0, <2>1 DEF addr
<1>6. QED
  BY <1>1, <1>2, <1>3, <1>4, <1>5 DEF Next, MainStep

\* What a reader makes of a whole address.
Told(a) == IF reader = "announce" THEN [a EXCEPT ![4] = 255] ELSE a

\* A reading that no byte disturbed has read the front of one address of ours,
\* or of none (or of one misread, if no announcement is made of it), and ends with
\* all of it.
ReadSoFar ==
  ~overlap /\ rpc # "idle" =>
    \E a \in [1 .. 4 -> Byte] :
      /\ a \in Addresses \cup {Zero} \/ (Misread /\ reader # "announce")
      /\ reader # "poll" => a # Zero
      /\ rpc = "read" => a = ipAddress /\ \A j \in 1 .. Len(got) : got[j] = a[j]
      /\ rpc = "told" => got = Told(a)

LEMMA ReadInit == Init => ReadSoFar
BY DEF Init, ReadSoFar

LEMMA ReadStep == Typed /\ Mixed /\ ReadSoFar /\ [Next]_vars => ReadSoFar'
<1> SUFFICES ASSUME Typed, Mixed, ReadSoFar, [Next]_vars PROVE ReadSoFar'
  OBVIOUS
<1> USE DEF ReadSoFar, Told
<1>0. Misread => Misread'
  BY MisreadStays DEF Mixed
<1>1. CASE UNCHANGED <<rpc, got, reader, overlap, ipAddress>>
  BY <1>0, <1>1
<1>2. CASE Publish
  <2>1. UNCHANGED <<rpc, got, reader>>
    BY <1>2 DEF Publish, reads
  <2>2. CASE rpc = "read"
    <3>1. ~overlap' => ~overlap /\ ipAddress' = ipAddress
      BY <1>2, <2>2 DEF Publish
    <3>2. QED
      BY <1>0, <2>1, <3>1
  <2>3. CASE rpc # "read"
    <3>1. ~overlap' => ~overlap
      BY <1>2, <2>3 DEF Publish
    <3>2. QED
      BY <1>0, <2>1, <2>3, <3>1
  <2>4. QED
    BY <2>2, <2>3
<1>3. CASE BeginJoin \/ BeginPoll \/ BeginAnnounce
  <2>1. rpc' = "read" /\ got' = <<>> /\ reader' = reader /\ ipAddress' = ipAddress
    BY <1>3 DEF BeginJoin, BeginPoll, BeginAnnounce, Begin, addr
  <2>2. reader # "poll" => ipAddress[1] # 0 \/ ipAddress[2] # 0
    BY <1>3 DEF BeginJoin, BeginPoll, BeginAnnounce
  <2>3. reader # "poll" => ipAddress # Zero
    BY <2>2 DEF Zero
  <2>4. ~overlap' => ipAddress \in Addresses \cup {Zero} \/ (Misread /\ reader # "announce")
    <3>1. ~overlap' => ipAddress \in Answers
      BY <1>3 DEF BeginJoin, BeginPoll, BeginAnnounce, Begin, Mixed
    <3>2. reader = "announce" => ipAddress[1] # 0
      BY <1>3 DEF BeginJoin, BeginPoll, BeginAnnounce
    <3>3. QED
      BY <3>1, <3>2 DEF Answers
  <2>5. Len(got') = 0
    BY <2>1, NothingRead
  <2>6. ipAddress \in [1 .. 4 -> Byte]
    BY DEF Typed
  <2>7. QED
    BY <1>0, <2>1, <2>3, <2>4, <2>5, <2>6
<1>4. CASE ReadByte
  <2> SUFFICES ASSUME ~overlap' PROVE ReadSoFar'
    OBVIOUS
  <2>1. rpc = "read" /\ ~overlap /\ reader' = reader /\ ipAddress' = ipAddress
    BY <1>4 DEF ReadByte, addr
  <2>2. PICK a \in [1 .. 4 -> Byte] :
          /\ a \in Addresses \cup {Zero} \/ (Misread /\ reader # "announce")
          /\ reader # "poll" => a # Zero
          /\ a = ipAddress
          /\ \A j \in 1 .. Len(got) : got[j] = a[j]
    BY <2>1
  <2> DEFINE b == IF reader = "announce" /\ Len(got) = 3 THEN 255 ELSE ipAddress[Len(got) + 1]
  <2>3. Len(got) \in 0 .. 3 /\ got \in Seq(Byte) /\ ipAddress \in [1 .. 4 -> Byte]
    <3>1. Len(got) \in Nat /\ Len(got) < 4
      BY <2>1 DEF Typed
    <3>2. QED
      BY <3>1, LessThanFour DEF Typed
  <2>4. b \in Byte /\ got' = Append(got, b)
    <3>1. Len(got) + 1 \in 1 .. 4 /\ ipAddress \in [1 .. 4 -> Byte]
      BY <2>1, LessThanFour DEF Typed
    <3>2. ipAddress[Len(got) + 1] \in Byte
      BY <3>1
    <3>3. b \in Byte
      BY <3>2 DEF Byte
    <3>4. QED
      BY <1>4, <3>3 DEF ReadByte
  <2> HIDE DEF b
  <2>5. got' \in Seq(Byte) /\ Len(got') = Len(got) + 1
    BY <2>3, <2>4
  <2>6. /\ \A j \in 1 .. Len(got) : got'[j] = got[j]
        /\ got'[Len(got) + 1] = b
    BY <2>3, <2>4
  <2>7. CASE Len(got) # 3
    <3>1. rpc' = "read" /\ b = a[Len(got) + 1]
      BY <1>4, <2>2, <2>7 DEF ReadByte, b
    <3>2. \A j \in 1 .. Len(got') : got'[j] = a[j]
      BY <2>2, <2>3, <2>5, <2>6, <3>1
    <3>3. QED
      BY <1>0, <2>1, <2>2, <3>1, <3>2
  <2>8. CASE Len(got) = 3
    <3>1. rpc' = "told"
      BY <1>4, <2>8 DEF ReadByte
    <3>2. b = Told(a)[4] /\ Told(a) \in [1 .. 4 -> Byte]
      <4>1. ipAddress[Len(got) + 1] = a[4] /\ 255 \in Byte
        BY <2>2, <2>8 DEF Byte
      <4>2. QED
        BY <2>8, <4>1 DEF b
    <3>3. \A j \in 1 .. 4 : got'[j] = Told(a)[j]
      <4>1. got'[4] = Told(a)[4]
        BY <2>6, <2>8, <3>2
      <4>2. \A j \in 1 .. 3 : got'[j] = a[j]
        BY <2>2, <2>6, <2>8
      <4>3. \A j \in 1 .. 3 : Told(a)[j] = a[j]
        OBVIOUS
      <4>4. ASSUME NEW j \in 1 .. 4 PROVE j = 4 \/ j \in 1 .. 3
        OBVIOUS
      <4>5. QED
        BY <4>1, <4>2, <4>3, <4>4
    <3>4. got' \in [1 .. 4 -> Byte]
      BY <2>5, <2>8, FourBytes
    <3>5. got' = Told(a)
      BY <3>2, <3>3, <3>4
    <3>6. got' = Told(a)'
      BY <2>1, <3>5
    <3>7. /\ a \in Addresses \cup {Zero} \/ (Misread' /\ reader' # "announce")
          /\ reader' # "poll" => a # Zero
      BY <1>0, <2>1, <2>2
    <3> HIDE DEF Told
    <3>8. QED
      BY <3>1, <3>6, <3>7
  <2>9. QED
    BY <2>7, <2>8
<1>5. CASE Again
  BY <1>5 DEF Again
<1>6. CASE (MainStep /\ ~Publish) \/ GateMoves \/ BoxesChange
  <2>1. UNCHANGED <<rpc, got, reader, overlap, ipAddress>>
    BY <1>6 DEF MainStep, BootFvew, BootWmode, BootUart, BootThreads, Top, ChannelHost,
                ChannelLost, ChannelScan, ChannelKnown, Ask, Rest, GateMoves, BoxesChange,
                addr, reads
  <2>2. QED
    BY <1>1, <2>1
<1>7. ASSUME NEW t \in {"client", "server"}, ThreadStarts(t) PROVE ReadSoFar'
  BY <1>1, <1>7 DEF ThreadStarts, addr, reads
<1>8. CASE UNCHANGED vars
  BY <1>1, <1>8 DEF vars
<1>9. QED
  BY <1>2, <1>3, <1>4, <1>5, <1>6, <1>7, <1>8 DEF Next, ReaderStep

\* What a poll, an announcement or the join of the group tells of our address,
\* read and written byte by byte without a lock, is an address of ours, but for
\* the poll and the join of a client whose static address is misread.
THEOREM AddressToldIsOurs == Spec => []ToldIsOurs
<1>1. ASSUME Typed, ReadSoFar, rpc = "told", ~overlap
      PROVE  ToldIsOurs
  <2>1. PICK a \in [1 .. 4 -> Byte] :
          /\ a \in Addresses \cup {Zero} \/ (Misread /\ reader # "announce")
          /\ reader # "poll" => a # Zero
          /\ got = Told(a)
    BY <1>1 DEF ReadSoFar
  <2>2. CASE Misread /\ reader # "announce"
    BY <2>2 DEF ToldIsOurs
  <2>3. CASE reader = "join" /\ a \in Addresses \cup {Zero}
    <3>1. got = a /\ a \in Addresses
      BY <2>1, <2>3 DEF Told
    <3>2. (\A j \in 1 .. 3 : got[j] < 128) => Used = got
      <4>1. got \in [1 .. 4 -> Byte]
        BY <3>1
      <4>2. QED
        BY <2>3, <4>1 DEF Used, Byte
    <3>3. \A j \in 1 .. 3 : got[j] \in Int
      BY <3>1 DEF Byte
    <3>4. QED
      BY <2>3, <3>1, <3>2, <3>3 DEF ToldIsOurs
  <2>4. CASE reader = "poll" /\ a \in Addresses \cup {Zero}
    BY <2>1, <2>4 DEF ToldIsOurs, Used, Told
  <2>5. CASE reader = "announce" /\ a \in Addresses \cup {Zero}
    BY <2>1, <2>5 DEF ToldIsOurs, Used, Told
  <2>6. QED
    BY <1>1, <2>1, <2>2, <2>3, <2>4, <2>5, MainLoopAssumption DEF Typed, ReaderNames
<1>2. Typed /\ ReadSoFar => ToldIsOurs
  BY <1>1 DEF ToldIsOurs
<1>3. QED
  BY <1>2, TypedInit, TypedStep, MixedInit, MixedStep, ReadInit, ReadStep, PTL DEF Spec
=============================================================================
