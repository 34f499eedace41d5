--------------------------- MODULE ArtNetReceiver ---------------------------
(***************************************************************************)
(* The Art-Net side of the DMX thread: process_artnet_msg of               *)
(* src/user/ArtPollReply.c with check_gaffer_packet and                    *)
(* replace_channel_data of src/user/UserMain.c.                            *)
(*                                                                         *)
(* Frames of the own universe go to the SAMD.  Channels lower .. upper of  *)
(* them are overlaid with those of a second universe, the gaffer's, which  *)
(* the thread remembers in gaffer_data.  Every frame is received into one  *)
(* static buffer.  The web server saves new settings item by item while    *)
(* the thread reads them item by item.                                     *)
(*                                                                         *)
(* The content of a channel is the universe and the value of the frame it  *)
(* came with.                                                              *)
(*                                                                         *)
(* The ends of the range are texts that somebody typed.  The script of the *)
(* gaffer page takes a text for the number that JavaScript makes of it,    *)
(* the DMX thread for the one that atoi makes of it: "1e2" is 100 for the  *)
(* one and 1 for the other.                                                *)
(***************************************************************************)
EXTENDS Integers, Sequences

CONSTANTS
  Slots,      \* the number of channels, 512
  Universes,  \* universes on the network
  Values,     \* contents of a frame
  Lengths,    \* channels in a frame
  Texts,      \* what is typed for an end of the range, by its two readings
  MaxSaves    \* bound: pages saved

VARIABLES
  cfg,          \* the settings in g_web_config
  todo,         \* items of a page that the web server has still to save
  saves,
  pc, frame,    \* process_artnet_msg, and the frame it handles
  raw,          \* the receive buffer, from its first channel on
  gaffer_data,
  lower, uni,   \* local variables
  heard,        \* history: the last gaffer frame since the settings were saved
  torn,         \* history: an item was saved since the frame was received
  odd           \* history: an end of the last range saved reads differently

vars == <<cfg, todo, saves, pc, frame, raw, gaffer_data, lower, uni, heard, torn, odd>>

Ch == 1 .. Slots
Frame == [universe : Universes, value : Values, length : Lengths]
NoFrame == [universe |-> -1, value |-> 0, length |-> 0]
ContentOf(f) == <<f.universe, f.value>>
Zero == ContentOf(NoFrame)

\* (uni_num | art_sub << 4) & 0xff
Number(u, s) == u + 16 * s
Low(n)  == n % 16
High(n) == n \div 16
Own(c)    == Number(c.uni, c.sub)
Gaffer(c) == Number(c.guni, c.gsub)

\* GAFFER_ENABLE: "1" is disabled.
Enabled(c) == c.enable = 0

\* The tests of the script, and a text that it reads as the DMX thread does.
Accepted(low, high) ==
  1 <= low.number /\ low.number <= high.number /\ high.number <= Slots
Plain(text) == text.number = text.atoi

Config(own, second, enable, low, high) ==
  [uni |-> Low(own), sub |-> High(own), guni |-> Low(second), gsub |-> High(second),
   enable |-> enable, lower |-> low.atoi, upper |-> high.atoi]

Init ==
  /\ \E own, second \in Universes, enable \in {0, 1}, low, high \in Texts :
       /\ Accepted(low, high)
       /\ cfg = Config(own, second, enable, low, high)
       /\ odd = ~(Plain(low) /\ Plain(high))
  /\ todo = <<>> /\ saves = 0
  /\ pc = "recv" /\ frame = NoFrame
  /\ raw = [ch \in Ch |-> Zero] /\ gaffer_data = [ch \in Ch |-> Zero]
  /\ lower = 0 /\ uni = 0
  /\ heard = NoFrame /\ torn = FALSE

thread == <<pc, frame, raw, gaffer_data, lower, uni>>

-----------------------------------------------------------------------------
(* The web server. *)

\* Faulty variant: the script does not compare the two ends.
SaveGaffer_Unchecked ==
  /\ todo = <<>> /\ saves < MaxSaves
  /\ \E low, high \in Texts :
       /\ todo' = <<[item |-> "lower", val |-> low.atoi], [item |-> "upper", val |-> high.atoi]>>
       /\ odd' = ~(Plain(low) /\ Plain(high))
  /\ saves' = saves + 1
  /\ UNCHANGED <<cfg, thread, heard, torn>>

\* The gaffer page: its script compares the numbers it reads, its items arrive
\* in the order of the form, and nothing tests what the DMX thread will read.
SaveGaffer ==
  /\ todo = <<>> /\ saves < MaxSaves
  /\ \E second \in Universes, enable \in {0, 1}, low, high \in Texts :
       /\ Accepted(low, high)
       /\ todo' = <<[item |-> "enable", val |-> enable],
                    [item |-> "gsub", val |-> High(second)], [item |-> "guni", val |-> Low(second)],
                    [item |-> "lower", val |-> low.atoi], [item |-> "upper", val |-> high.atoi]>>
       /\ odd' = ~(Plain(low) /\ Plain(high))
  /\ saves' = saves + 1
  /\ UNCHANGED <<cfg, thread, heard, torn>>

\* The own universe, from any page.
SaveUniverse ==
  /\ todo = <<>> /\ saves < MaxSaves
  /\ \E own \in Universes :
       todo' = <<[item |-> "uni", val |-> Low(own)], [item |-> "sub", val |-> High(own)]>>
  /\ saves' = saves + 1
  /\ UNCHANGED <<cfg, thread, heard, torn, odd>>

SaveItem ==
  /\ todo # <<>>
  /\ cfg' = [cfg EXCEPT ![Head(todo).item] = Head(todo).val]
  /\ todo' = Tail(todo)
  /\ heard' = NoFrame
  /\ torn' = TRUE
  /\ UNCHANGED <<saves, thread, odd>>

-----------------------------------------------------------------------------
(* process_artnet_msg *)

\* A byte of data read through a char, which is signed here.
Char(b) == IF b < 128 THEN b ELSE b - 256

\* Frame f of the length f.length overwrites the buffer up to there; without
\* artnet_enable it goes no further.
Receive ==
  /\ pc = "recv"
  /\ \E f \in Frame, artnet_enable \in BOOLEAN :
       /\ frame' = f
       /\ raw' = [ch \in Ch |-> IF ch <= f.length THEN ContentOf(f) ELSE raw[ch]]
       /\ pc' = IF artnet_enable THEN "check" ELSE "recv"
       /\ heard' = IF artnet_enable /\ Enabled(cfg) /\ f.universe = Gaffer(cfg) /\ f.universe < 128
                   THEN f ELSE heard
  /\ torn' = FALSE
  /\ UNCHANGED <<cfg, todo, saves, gaffer_data, lower, uni, odd>>

\* The three together, if no setting is saved meanwhile.
IsGaffer == Enabled(cfg) /\ Gaffer(cfg) = Char(frame.universe)

\* check_gaffer_packet reads three settings to see whose frame it is.
CheckEnable ==
  /\ pc = "check"
  /\ pc' = IF Enabled(cfg) THEN "guni" ELSE "own"
  /\ UNCHANGED <<cfg, todo, saves, frame, raw, gaffer_data, lower, uni, heard, torn, odd>>

CheckUniverse ==
  /\ pc = "guni"
  /\ uni' = cfg.guni
  /\ pc' = "gsub"
  /\ UNCHANGED <<cfg, todo, saves, frame, raw, gaffer_data, lower, heard, torn, odd>>

CheckSubnet ==
  /\ pc = "gsub"
  /\ pc' = IF Number(uni, cfg.gsub) = Char(frame.universe) THEN "lower" ELSE "own"
  /\ UNCHANGED <<cfg, todo, saves, frame, raw, gaffer_data, lower, uni, heard, torn, odd>>

\* Both functions read the lower end, then the upper end.
ReadLower(here, next) ==
  /\ pc = here
  /\ lower' = cfg.lower
  /\ pc' = next
  /\ UNCHANGED <<cfg, todo, saves, frame, raw, gaffer_data, uni, heard, torn, odd>>

\* memmove of upper - lower + 1 channels.
Overlay(to, from, upper) ==
  [ch \in Ch |-> IF lower <= ch /\ ch <= upper THEN from[ch] ELSE to[ch]]

\* The length of the move, as an unsigned number, is not a length of anything
\* when the range is turned round: the rest of memory is overwritten.
Wild(upper) == upper - lower + 1 < 0

Remember ==
  /\ pc = "upper"
  /\ IF Wild(cfg.upper)
     THEN pc' = "wild" /\ UNCHANGED gaffer_data
     ELSE pc' = "own" /\ gaffer_data' = Overlay(gaffer_data, raw, cfg.upper)
  /\ UNCHANGED <<cfg, todo, saves, frame, raw, lower, uni, heard, torn, odd>>

ReadUniverse ==
  /\ pc = "own"
  /\ uni' = cfg.uni
  /\ pc' = "subnet"
  /\ UNCHANGED <<cfg, todo, saves, frame, raw, gaffer_data, lower, heard, torn, odd>>

\* Faulty variant: the subnet is not part of the comparison.
ReadSubnet_Ignored ==
  /\ pc = "subnet"
  /\ pc' = IF uni # Low(frame.universe) THEN "recv" ELSE "enable"
  /\ UNCHANGED <<cfg, todo, saves, frame, raw, gaffer_data, lower, uni, heard, torn, odd>>

\* A frame of another universe ends here.
ReadSubnet ==
  /\ pc = "subnet"
  /\ pc' = IF Number(uni, cfg.sub) # frame.universe THEN "recv" ELSE "enable"
  /\ UNCHANGED <<cfg, todo, saves, frame, raw, gaffer_data, lower, uni, heard, torn, odd>>

\* replace_channel_data
ReplaceEnable ==
  /\ pc = "enable"
  /\ pc' = IF Enabled(cfg) THEN "lower2" ELSE "send"
  /\ UNCHANGED <<cfg, todo, saves, frame, raw, gaffer_data, lower, uni, heard, torn, odd>>

Replace ==
  /\ pc = "upper2"
  /\ IF Wild(cfg.upper)
     THEN pc' = "wild" /\ UNCHANGED raw
     ELSE pc' = "send" /\ raw' = Overlay(raw, gaffer_data, cfg.upper)
  /\ UNCHANGED <<cfg, todo, saves, frame, gaffer_data, lower, uni, heard, torn, odd>>

\* hfuart_send: the frame leaves with the length it came with.
Send ==
  /\ pc = "send"
  /\ pc' = "recv"
  /\ UNCHANGED <<cfg, todo, saves, frame, raw, gaffer_data, lower, uni, heard, torn, odd>>

ThreadStep ==
  \/ Receive
  \/ CheckEnable \/ CheckUniverse \/ CheckSubnet \/ ReadLower("lower", "upper") \/ Remember
  \/ ReadUniverse \/ ReadSubnet
  \/ ReplaceEnable \/ ReadLower("lower2", "upper2") \/ Replace
  \/ Send

Next == ThreadStep \/ SaveGaffer \/ SaveUniverse \/ SaveItem

Spec == Init /\ [][Next]_vars

-----------------------------------------------------------------------------
(* Properties. *)

Contents == (Universes \X Values) \cup {Zero}

\* Every variable holds a value its declaration in the code can hold.
TypeOK ==
  /\ cfg \in [uni : 0 .. 15, sub : 0 .. 15, guni : 0 .. 15, gsub : 0 .. 15,
              enable : {0, 1}, lower : 0 .. Slots, upper : 0 .. Slots]
  /\ saves \in 0 .. MaxSaves
  /\ pc \in {"recv", "check", "guni", "gsub", "lower", "upper", "own", "subnet", "enable",
             "lower2", "upper2", "send", "wild"}
  /\ frame \in Frame \cup {NoFrame} /\ heard \in Frame \cup {NoFrame}
  /\ raw \in [Ch -> Contents] /\ gaffer_data \in [Ch -> Contents]
  /\ lower \in 0 .. Slots /\ uni \in 0 .. 15
  /\ torn \in BOOLEAN /\ odd \in BOOLEAN

InRange(ch) == Enabled(cfg) /\ cfg.lower <= ch /\ ch <= cfg.upper

\* What goes to the SAMD, unless settings are saved while the frame is handled:
\* a frame of the own universe, its channels outside the range as they came,
\* those inside it from the last frame of the gaffer, whatever frames of other
\* universes and of other lengths went through the buffer in between.
SignalsAreMixed ==
  pc = "send" /\ ~torn =>
    /\ frame.universe = Own(cfg)
    /\ \A ch \in 1 .. frame.length :
         /\ ~InRange(ch) => raw[ch] = ContentOf(frame)
         /\ InRange(ch) /\ ch <= heard.length => raw[ch] = ContentOf(heard)

\* A range turned round, for which memmove runs through all memory, has one of
\* two causes: its ends were read while a page was being saved, or a text was
\* saved that the DMX thread reads as another number than the page did.  No
\* order of frames, switches and earlier ranges is a third.
WildOnlyIfTornOrOdd == pc = "wild" => torn \/ todo # <<>> \/ odd
=============================================================================
