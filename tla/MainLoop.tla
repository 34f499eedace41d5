------------------------------ MODULE MainLoop ------------------------------
(***************************************************************************)
(* The boot and the main loop of the node (src/user/UserMain.c, UserMain), *)
(* and the threads that read the address it publishes: the DMX thread,     *)
(* which joins the sACN group once or answers Art-Net polls, and the       *)
(* client thread, which announces the node.                                *)
(*                                                                         *)
(* ipAddress is four bytes that the main loop writes one by one, every     *)
(* five seconds, and that the others read one by one without a lock.  The  *)
(* channel of the first "Ratpac AKS" box in a scan, which is made once per *)
(* connection, decides which part of the band the radio leaves alone.      *)
(***************************************************************************)
EXTENDS Integers, Sequences

CONSTANTS
  Addresses,   \* addresses that AT+LANN or AT+WANN may report, four bytes each
  WanModes,    \* how the address of a client may be configured: a subset of WanNames
  BoxChannels, \* channels of the boxes in range whose name begins with "Ratpac AKS"
  WlnChannels, \* values of the setting WLN_Channel
  Readers      \* who reads the address: a subset of ReaderNames

ReaderNames == {"join", "poll", "announce"}
WanNames == {"DHCP", "STATIC"}
Byte == 0 .. 255
Zero == <<0, 0, 0, 0>>

ASSUME MainLoopAssumption ==
  /\ \A a \in Addresses : a \in [1 .. 4 -> Byte] /\ a[1] # 0
  /\ BoxChannels \subseteq 1 .. 13 /\ WlnChannels \subseteq Nat
  /\ WanModes \subseteq WanNames /\ Readers \subseteq ReaderNames

VARIABLES
  pc, operation_mode,
  wan,                        \* the WAN port's mode, the first word of the answer to AT+WANN
  artnet_enable, threads,     \* the gate, and the threads that open it when they start
  ipAddress, answer, k,       \* published bytes; what was parsed; the next byte
  scanned, ap_wln_channel,    \* get_ap_wln_channel and the channel of the last scan
  channel,                    \* the channel of the frame for the radio
  boxes,                      \* the channels of the boxes in range
  reader, rpc, got,           \* a reader of the address, and the bytes it has read
  published,                  \* history: the last address published to the end
  overlap,                    \* history: bytes changed around the reading
  near                        \* history: the channels of all boxes in range since we
                              \* last had no address

boot   == <<operation_mode, wan, threads>>
radio  == <<scanned, ap_wln_channel, channel>>
addr   == <<ipAddress, answer, k, published>>
reads  == <<reader, rpc, got>>
vars   == <<pc, operation_mode, wan, artnet_enable, threads, ipAddress, answer, k, scanned,
            ap_wln_channel, channel, boxes, reader, rpc, got, published, overlap, near>>

Init ==
  /\ pc = "fvew" /\ operation_mode = "none" /\ wan \in WanModes
  /\ artnet_enable = 0 /\ threads = [t \in {"client", "server"} |-> "none"]
  /\ ipAddress = Zero /\ answer = Zero /\ k = 1 /\ published = Zero
  /\ scanned = FALSE /\ ap_wln_channel = 0 /\ channel = 0
  /\ boxes = {} /\ near = {}
  /\ reader \in Readers /\ rpc = "idle" /\ got = <<>>
  /\ overlap = FALSE

-----------------------------------------------------------------------------
(* Boot. *)

\* AT+FVEW tells whether the Ethernet port is the uplink.
BootFvew ==
  /\ pc = "fvew"
  /\ \/ pc' = "uart" /\ operation_mode' = "STA_ETH"
     \/ pc' = "wmode" /\ UNCHANGED operation_mode
  /\ UNCHANGED <<wan, artnet_enable, threads, addr, radio, boxes, reads, overlap, near>>

\* AT+WMODE; an answer that fails counts as access point.
BootWmode ==
  /\ pc = "wmode"
  /\ operation_mode' \in {"STA_WIFI", "AP"}
  /\ pc' = "uart"
  /\ UNCHANGED <<wan, artnet_enable, threads, addr, radio, boxes, reads, overlap, near>>

\* AT+UART: without an answer, or with another speed, the boot ends here and
\* waits for a reset.
BootUart ==
  /\ pc = "uart"
  /\ pc' \in {"threads", "hung"}
  /\ UNCHANGED <<boot, artnet_enable, addr, radio, boxes, reads, overlap, near>>

\* The client thread is created, then the server thread.
BootThreads ==
  /\ pc = "threads"
  /\ \/ pc' = "hung" /\ UNCHANGED threads
     \/ pc' = "hung" /\ threads' = [threads EXCEPT !["client"] = "created"]
     \/ pc' = "top" /\ threads' = [t \in {"client", "server"} |-> "created"]
  /\ UNCHANGED <<operation_mode, wan, artnet_enable, addr, radio, boxes, reads, overlap, near>>

\* client_thread_main and server_thread_main open the gate when they start.
ThreadStarts(t) ==
  /\ threads[t] = "created"
  /\ threads' = [threads EXCEPT ![t] = "running"]
  /\ artnet_enable' = 1
  /\ UNCHANGED <<pc, operation_mode, wan, addr, radio, boxes, reads, overlap, near>>

\* A download closes the gate and opens it; AT commands write it too.
GateMoves ==
  /\ artnet_enable' \in {0, 1}
  /\ UNCHANGED <<pc, boot, addr, radio, boxes, reads, overlap, near>>

-----------------------------------------------------------------------------
(* The main loop: first the frame for the radio, Timo. *)

\* While the gate is closed the loop waits.
Top ==
  /\ pc = "top"
  /\ artnet_enable # 0
  /\ pc' = "channel"
  /\ UNCHANGED <<boot, artnet_enable, addr, radio, boxes, reads, overlap, near>>

\* Faulty variant: the setting is not tested.
ChannelHost_Any ==
  /\ pc = "channel" /\ operation_mode \in {"STA_ETH", "AP"}
  /\ channel' \in WlnChannels
  /\ pc' = "ask"
  /\ UNCHANGED <<boot, artnet_enable, addr, scanned, ap_wln_channel, boxes, reads, overlap, near>>

\* As access point or over Ethernet: the setting if the radio knows it, or 1.
ChannelHost ==
  /\ pc = "channel"
  /\ \/ operation_mode = "STA_ETH" /\ channel' = 1
     \/ /\ operation_mode = "AP"
        /\ \E w \in WlnChannels : channel' = IF w \in 1 .. 11 THEN w ELSE 1
  /\ pc' = "ask"
  /\ UNCHANGED <<boot, artnet_enable, addr, scanned, ap_wln_channel, boxes, reads, overlap, near>>

Connected == ipAddress[1] # 0

\* Faulty variant: the last scan is kept when the connection is lost.
ChannelLost_Keeps ==
  /\ pc = "channel" /\ operation_mode = "STA_WIFI"
  /\ ~Connected
  /\ channel' = 0
  /\ near' = boxes
  /\ pc' = "ask"
  /\ UNCHANGED <<boot, artnet_enable, addr, scanned, ap_wln_channel, boxes, reads, overlap>>

\* As a client without an address: forget the scan.
ChannelLost ==
  /\ pc = "channel" /\ operation_mode = "STA_WIFI"
  /\ ~Connected
  /\ scanned' = FALSE /\ ap_wln_channel' = 0 /\ channel' = 0
  /\ near' = boxes
  /\ pc' = "ask"
  /\ UNCHANGED <<boot, artnet_enable, addr, boxes, reads, overlap>>

\* AT+WSCAN, until it succeeds and lists "Ratpac AKS".  The first such box
\* counts, whether or not we are connected to it, and the list has no order.  The
\* channel is the one character two before the name: of two digits the first is
\* lost.
ChannelScan ==
  /\ pc = "channel" /\ operation_mode = "STA_WIFI"
  /\ Connected /\ ~scanned
  /\ \/ scanned' = TRUE /\ \E first \in boxes : ap_wln_channel' = first % 10
     \/ UNCHANGED <<scanned, ap_wln_channel>>
  /\ channel' = ap_wln_channel'
  /\ pc' = "ask"
  /\ UNCHANGED <<boot, artnet_enable, addr, boxes, reads, overlap, near>>

ChannelKnown ==
  /\ pc = "channel" /\ operation_mode = "STA_WIFI"
  /\ Connected /\ scanned
  /\ channel' = ap_wln_channel
  /\ pc' = "ask"
  /\ UNCHANGED <<boot, artnet_enable, addr, scanned, ap_wln_channel, boxes, reads, overlap, near>>

\* A box comes, goes, or is set to another channel; only a client scans for them.
BoxesChange ==
  /\ operation_mode = "STA_WIFI"
  /\ boxes' \in SUBSET BoxChannels \ {boxes}
  /\ near' = IF Connected THEN near \cup boxes' ELSE boxes'
  /\ UNCHANGED <<pc, boot, artnet_enable, addr, radio, reads, overlap>>

-----------------------------------------------------------------------------
(* Then the address, Settings. *)

\* The address is looked for at the fifth character of the answer if that is a
\* digit, as it is after AT+LANN, else at the tenth.  That is where it begins
\* behind "DHCP,"; of "STATIC," it is the last letter, which counts as 0.
Misread == operation_mode \in {"STA_ETH", "STA_WIFI"} /\ wan = "STATIC"
Parsed(a) == IF Misread THEN <<0, a[1], a[2], a[3]>> ELSE a

\* AT+LANN or AT+WANN: an address, or none.
Ask ==
  /\ pc = "ask"
  /\ \/ \E a \in Addresses : answer' = Parsed(a)
     \/ answer' = Zero
  /\ k' = 1
  /\ pc' = "publish"
  /\ UNCHANGED <<boot, artnet_enable, ipAddress, published, radio, boxes, reads, overlap, near>>

\* The next byte.
Publish ==
  /\ pc = "publish" /\ k <= 4
  /\ ipAddress' = [ipAddress EXCEPT ![k] = answer[k]]
  /\ k' = k + 1
  /\ published' = IF k = 4 THEN answer ELSE published
  /\ overlap' = (overlap \/ (rpc = "read" /\ ipAddress' # ipAddress))
  /\ UNCHANGED <<pc, boot, artnet_enable, answer, radio, boxes, reads, near>>

\* Settings, Settings6, the battery; five seconds later it begins again.
Rest ==
  /\ pc = "publish" /\ k > 4
  /\ pc' = "top"
  /\ UNCHANGED <<boot, artnet_enable, addr, radio, boxes, reads, overlap, near>>

MainStep ==
  \/ BootFvew \/ BootWmode \/ BootUart \/ BootThreads
  \/ Top \/ ChannelHost \/ ChannelLost \/ ChannelScan \/ ChannelKnown
  \/ Ask \/ Publish \/ Rest

-----------------------------------------------------------------------------
(* The readers of ipAddress. *)

Begin ==
  /\ rpc' = "read" /\ got' = <<>>
  /\ overlap' = (ipAddress # published)
  /\ UNCHANGED <<pc, boot, artnet_enable, addr, radio, boxes, reader, near>>

\* Faulty variant: sACN_main does not wait for an address.
BeginJoin_AtOnce == reader = "join" /\ rpc = "idle" /\ Begin

\* Faulty variant: it waits until no byte is zero.
BeginJoin_AllBytes ==
  /\ reader = "join" /\ rpc = "idle"
  /\ \A j \in 1 .. 4 : ipAddress[j] # 0
  /\ Begin

\* sACN_main waits for one of the first two bytes, then joins once.
BeginJoin ==
  /\ reader = "join" /\ rpc = "idle"
  /\ ipAddress[1] # 0 \/ ipAddress[2] # 0
  /\ Begin

\* A poll comes in, whatever our address is.
BeginPoll == reader = "poll" /\ rpc = "idle" /\ Begin

\* Every two seconds the client thread looks whether there is an address.
BeginAnnounce ==
  /\ reader = "announce" /\ rpc = "idle"
  /\ threads["client"] = "running"
  /\ ipAddress[1] # 0
  /\ Begin

\* The broadcast address of an announcement ends in 255.
ReadByte ==
  /\ rpc = "read"
  /\ got' = Append(got, IF reader = "announce" /\ Len(got) = 3 THEN 255
                        ELSE ipAddress[Len(got) + 1])
  /\ rpc' = IF Len(got) = 3 THEN "told" ELSE "read"
  /\ UNCHANGED <<pc, boot, artnet_enable, addr, radio, boxes, reader, overlap, near>>

\* The join is for good; polls and announcements come again.
Again ==
  /\ rpc = "told" /\ reader # "join"
  /\ rpc' = "idle" /\ got' = <<>> /\ overlap' = FALSE
  /\ UNCHANGED <<pc, boot, artnet_enable, addr, radio, boxes, reader, near>>

ReaderStep == BeginJoin \/ BeginPoll \/ BeginAnnounce \/ ReadByte \/ Again

\* The address as the reader uses it.  e131_multicast_join combines the bytes as
\* signed numbers: a byte from 128 on sets all bits of the bytes behind it.
Used ==
  IF reader # "join" THEN got
  ELSE [j \in 1 .. 4 |-> IF \E h \in 1 .. j - 1 : got[h] >= 128 THEN 255 ELSE got[j]]

Next ==
  \/ MainStep \/ ReaderStep
  \/ \E t \in {"client", "server"} : ThreadStarts(t)
  \/ GateMoves \/ BoxesChange

Spec == Init /\ [][Next]_vars

\* The scheduler runs the main loop and the threads; a download opens the gate
\* again when it ends.
FairSpec ==
  /\ Spec
  /\ SF_vars(MainStep) /\ WF_vars(ReaderStep)
  /\ \A t \in {"client", "server"} : WF_vars(ThreadStarts(t))
  /\ WF_vars(GateMoves /\ artnet_enable' = 1)

-----------------------------------------------------------------------------
(* Properties. *)

\* Every variable holds a value its declaration in the code can hold.
TypeOK ==
  /\ pc \in {"fvew", "wmode", "uart", "threads", "hung", "top", "channel", "ask", "publish"}
  /\ operation_mode \in {"none", "STA_ETH", "STA_WIFI", "AP"} /\ wan \in WanModes
  /\ artnet_enable \in {0, 1}
  /\ threads \in [{"client", "server"} -> {"none", "created", "running"}]
  /\ ipAddress \in [1 .. 4 -> Byte] /\ answer \in [1 .. 4 -> Byte]
  /\ published \in [1 .. 4 -> Byte]
  /\ k \in 1 .. 5
  /\ scanned \in BOOLEAN /\ ap_wln_channel \in 0 .. 9
  /\ channel \in 0 .. 11 /\ boxes \subseteq near /\ near \subseteq BoxChannels
  /\ reader \in Readers /\ rpc \in {"idle", "read", "told"}
  /\ got \in Seq(Byte) /\ Len(got) <= 4
  /\ overlap \in BOOLEAN

\* Unless another address is just being written, an announcement goes to our
\* network, and unless the answer is misread (a client with a static address) the
\* DMX thread joins with an address of ours, although it waits for two bytes only
\* and never tries again (if no byte but the last is above 127), and a poll is
\* answered with our address, or none.
ToldIsOurs ==
  rpc = "told" /\ ~overlap =>
    \/ reader = "announce" /\ \E a \in Addresses : Used = [a EXCEPT ![4] = 255]
    \/ reader = "join" /\ (Used \in Addresses \/ \E j \in 1 .. 3 : got[j] >= 128)
    \/ reader = "poll" /\ Used \in Addresses \cup {Zero}
    \/ reader # "announce" /\ Misread

\* As a client, the channel that the radio is told to leave alone is that of a box
\* that was in range since we last had no address, however often the connection
\* was lost and boxes came and went before: if our access point is the only such
\* box, stays, and has a channel of one digit, it is that of our access point.
ChannelOfThisConnection ==
  pc = "ask" /\ operation_mode = "STA_WIFI" /\ channel # 0
    => \E b \in near : channel = b % 10

\* Once there is an address the sACN group is joined, unless it is lost again.
JoinsInTheEnd ==
  reader = "join" /\ published # Zero ~> rpc = "told" \/ published = Zero
=============================================================================
