-------------------------- MODULE FirmwareDownload --------------------------
(***************************************************************************)
(* The download of firmware to the SAMD or, through it, to the TIMO radio  *)
(* (src/user/UserMain.c, SAMD_firmware_download), and the other threads    *)
(* that write to the same UART meanwhile: the main loop and the thread     *)
(* that receives DMX.                                                      *)
(*                                                                         *)
(* SamdLink models an exchange byte by byte.  Here an answer is one line   *)
(* and the interest is in the protocol above: which message follows which  *)
(* answer, what is sent again, and who may write in between.               *)
(*                                                                         *)
(* The wire delivers in order.  The SAMD may leave a message unanswered,   *)
(* find it damaged, or store a page and have its answer lost; with Late,   *)
(* its answer may also come after the time-out.  It stores only pages that *)
(* have the right checksum byte and it tells the truth about them.         *)
(***************************************************************************)
EXTENDS Integers, Sequences

CONSTANTS
  Pages,          \* pages of 512 bytes in the padded image
  Gated,          \* DMX comes as Art-Net (tests artnet_enable), not as sACN
  Late,           \* answers may come after the time-out
  Scans,          \* AT commands of the main loop may last longer than the delay
  MaxDownloads,   \* bound: downloads started
  MaxWire         \* bound: messages and answers under way when another thread writes

ASSUME PagesAssumption == Pages \in Nat
ASSUME SettingsAssumption == {Gated, Late, Scans} \subseteq BOOLEAN
ASSUME BoundsAssumption == MaxDownloads \in Nat /\ MaxWire \in Nat

VARIABLES
  pc, which, i, page, try, try_snd, cmd, rsp, rc,   \* the download (web server)
  downloads,
  artnet_enable, samd_mutex,
  listening, line,     \* uart_rvc_done = 0, and the line it waits for
  main, left, dmx,     \* where the other two threads are, and the frames left to send
  strays,              \* history: what they have sent into this download
  wire, answers,       \* messages to the SAMD, answers from it
  mode, stored         \* the SAMD, and the pages it stored in this download

web    == <<which, i, page, try, try_snd, cmd, rsp, rc, downloads>>
uart   == <<listening, line>>
others == <<main, left, dmx, strays>>
samd   == <<mode, stored>>
vars   == <<pc, which, i, page, try, try_snd, cmd, rsp, rc, downloads,
            artnet_enable, samd_mutex, listening, line, main, left, dmx, strays,
            wire, answers, mode, stored>>

NUM_TRY == 2
Lines     == {"update", "ok", "other"}
NoLine    == "none"
Running   == {"send", "wait", "reply", "pause"}   \* between lock and unlock
Commands  == {"update", "yes", "page", "done"}
Message   == [kind : {"update", "yes", "done"}, page : {0}]
             \cup [kind : {"page"}, page : 1 .. Pages]
Foreign   == {[kind |-> "battery", page |-> 0], [kind |-> "frame", page |-> 0]}

Init ==
  /\ pc = "idle" /\ which = 0 /\ i = 0 /\ page = 0 /\ try = 0 /\ try_snd = 0
  /\ cmd = "done" /\ rsp = NoLine /\ rc = 0 /\ downloads = 0
  /\ artnet_enable = 1 /\ samd_mutex = "free"
  /\ listening = FALSE /\ line = NoLine
  /\ main = "top" /\ left = 0 /\ dmx = "recv" /\ strays = 0
  /\ wire = <<>> /\ answers = <<>>
  /\ mode = "run" /\ stored = <<>>

-----------------------------------------------------------------------------
(* The download. *)

Start_Enabled(w) ==
  /\ pc = "idle"
  /\ downloads < MaxDownloads
  /\ downloads' = downloads + 1
  /\ which' = w
  /\ stored' = <<>>
  /\ pc' = "drain"
  /\ UNCHANGED <<i, page, try, try_snd, cmd, rsp, rc, artnet_enable, samd_mutex, uart,
                 others, wire, answers, mode>>

\* The image is padded, and the other threads are told to keep quiet.
Start(w) ==
  /\ pc = "idle"
  /\ downloads < MaxDownloads
  /\ downloads' = downloads + 1
  /\ which' = w
  /\ artnet_enable' = 0
  /\ stored' = <<>>
  /\ pc' = "drain"
  /\ UNCHANGED <<i, page, try, try_snd, cmd, rsp, rc, samd_mutex, uart, others, wire,
                 answers, mode>>

\* Faulty variant: no delay.
Drained_AtOnce ==
  /\ pc = "drain"
  /\ pc' = "lock"
  /\ UNCHANGED <<web, artnet_enable, samd_mutex, uart, others, wire, answers, samd>>

\* The delay of two seconds.  It is long enough for the frame that the DMX
\* thread sends after it has tested artnet_enable, and for everything under way
\* to be answered ("make sure all the command (battery) waiting for response has
\* finished"); with sACN, frames keep coming.  It is long enough for the main
\* loop only if the AT commands among its frames are short: with Scans, an
\* AT+WSCAN may end at any time later, and a frame may just have been sent.
Drained ==
  /\ pc = "drain"
  /\ ~Scans => main # "burst"
  /\ Gated => dmx # "send" /\ answers = <<>>
  /\ Gated => IF Scans THEN \A k \in DOMAIN wire : wire[k].kind = "frame" ELSE wire = <<>>
  /\ pc' = "lock"
  /\ UNCHANGED <<web, artnet_enable, samd_mutex, uart, others, wire, answers, samd>>

\* Call Send_SAMD_CMD with command c; the caller sets its own loop variables.
Command(c) == cmd' = c /\ try_snd' = 0 /\ pc' = "send"

Lock ==
  /\ pc = "lock"
  /\ samd_mutex = "free"
  /\ samd_mutex' = "web"
  /\ i' = 0
  /\ Command("update")
  /\ UNCHANGED <<which, page, try, rsp, rc, downloads, artnet_enable, uart, others, wire,
                 answers, samd>>

\* Send_SAMD_CMD: clear the receiver and send.
Send ==
  /\ pc = "send"
  /\ listening' = TRUE /\ line' = NoLine
  /\ wire' = Append(wire, [kind |-> cmd, page |-> IF cmd = "page" THEN page ELSE 0])
  /\ pc' = "wait"
  /\ UNCHANGED <<web, artnet_enable, samd_mutex, others, answers, samd>>

Answered ==
  /\ pc = "wait"
  /\ line # NoLine
  /\ rsp' = line
  /\ pc' = "reply"
  /\ UNCHANGED <<which, i, page, try, try_snd, cmd, rc, downloads, artnet_enable,
                 samd_mutex, uart, others, wire, answers, samd>>

\* No answer in time: send again, once.
Expire ==
  /\ pc = "wait"
  /\ line = NoLine
  /\ Late \/ (wire = <<>> /\ answers = <<>>)
  /\ IF try_snd = 0
     THEN try_snd' = 1 /\ pc' = "send" /\ UNCHANGED <<rsp, listening>>
     ELSE rsp' = NoLine /\ listening' = FALSE /\ pc' = "reply" /\ UNCHANGED try_snd
  /\ UNCHANGED <<which, i, page, try, cmd, rc, downloads, artnet_enable, samd_mutex,
                 line, others, wire, answers, samd>>

Reply(c) ==
  /\ pc = "reply"
  /\ cmd = c
  /\ UNCHANGED <<which, rsp, downloads, artnet_enable, uart, others, wire, answers, samd>>

\* Unlock; artnet_enable follows.
Return(code) == rc' = code /\ samd_mutex' = "free" /\ pc' = "enable"

Leave(code) == Return(code) /\ UNCHANGED <<i, page, try, try_snd, cmd>>

\* The first attempt may fail, because the SAMD restarts; for the TIMO only a
\* missing answer is forgiven.
UpdateSilent ==
  /\ Reply("update")
  /\ rsp = NoLine
  /\ IF i + 1 < NUM_TRY
     THEN i' = i + 1 /\ Command("update") /\ UNCHANGED <<page, try, rc, samd_mutex>>
     ELSE Leave(-101)

\* Faulty variant: the last attempt is not told from the first.
UpdateRefused_Always ==
  /\ Reply("update")
  /\ rsp \notin {NoLine, "update"}
  /\ IF which = 1
     THEN Leave(-102)
     ELSE pc' = "pause" /\ UNCHANGED <<i, page, try, try_snd, cmd, rc, samd_mutex>>

UpdateRefused ==
  /\ Reply("update")
  /\ rsp \notin {NoLine, "update"}
  /\ IF which = 1 \/ i = 1
     THEN Leave(-102)
     ELSE pc' = "pause" /\ UNCHANGED <<i, page, try, try_snd, cmd, rc, samd_mutex>>

Pause ==
  /\ pc = "pause"
  /\ i' = i + 1
  /\ Command("update")
  /\ UNCHANGED <<which, page, try, rsp, rc, downloads, artnet_enable, samd_mutex, uart,
                 others, wire, answers, samd>>

\* From here on i serves other loops.
UpdateAccepted ==
  /\ Reply("update")
  /\ rsp = "update"
  /\ Command("yes")
  /\ i' = 0
  /\ UNCHANGED <<page, try, rc, samd_mutex>>

\* The loop over the pages: page p, or the end of the image.
NextPage(p) ==
  /\ page' = p
  /\ try' = 0
  /\ IF p <= Pages THEN Command("page") ELSE Command("done")

YesFailed ==
  /\ Reply("yes")
  /\ rsp # "ok"
  /\ Leave(IF rsp = NoLine THEN -101 ELSE -103)

\* Faulty variant: the answer is not looked at.
YesAccepted_Any ==
  /\ Reply("yes")
  /\ rsp # NoLine
  /\ NextPage(1)
  /\ UNCHANGED <<i, rc, samd_mutex>>

YesAccepted ==
  /\ Reply("yes")
  /\ rsp = "ok"
  /\ NextPage(1)
  /\ UNCHANGED <<i, rc, samd_mutex>>

\* Faulty variant: total_len does not advance.
PageStored_Stays ==
  /\ Reply("page")
  /\ rsp = "ok"
  /\ NextPage(page)
  /\ UNCHANGED <<i, rc, samd_mutex>>

PageStored ==
  /\ Reply("page")
  /\ rsp = "ok"
  /\ NextPage(page + 1)
  /\ UNCHANGED <<i, rc, samd_mutex>>

\* Faulty variant: a page that is refused twice is passed over.
PageRefused_GoesOn ==
  /\ Reply("page")
  /\ rsp \notin {NoLine, "ok"}
  /\ IF try = 0
     THEN try' = 1 /\ Command("page") /\ UNCHANGED <<i, page, rc, samd_mutex>>
     ELSE NextPage(page + 1) /\ UNCHANGED <<i, rc, samd_mutex>>

\* Faulty variant: the retries are not counted.
PageRefused_Forever ==
  /\ Reply("page")
  /\ rsp \notin {NoLine, "ok"}
  /\ try' = 0 /\ Command("page")
  /\ UNCHANGED <<i, page, rc, samd_mutex>>

\* A page that is refused is sent once more.
PageRefused ==
  /\ Reply("page")
  /\ rsp \notin {NoLine, "ok"}
  /\ IF try = 0
     THEN try' = 1 /\ Command("page") /\ UNCHANGED <<i, page, rc, samd_mutex>>
     ELSE Leave(-104)

\* Faulty variant: this way out forgets the mutex.
PageSilent_KeepsMutex ==
  /\ Reply("page")
  /\ rsp = NoLine
  /\ rc' = -101 /\ pc' = "enable"
  /\ UNCHANGED <<i, page, try, try_snd, cmd, samd_mutex>>

PageSilent ==
  /\ Reply("page")
  /\ rsp = NoLine
  /\ Leave(-101)

\* Whatever the SAMD says of the whole image, the download has succeeded.
DoneReplied == Reply("done") /\ Leave(0)

Enable ==
  /\ pc = "enable"
  /\ artnet_enable' = 1
  /\ pc' = "idle"
  /\ strays' = 0
  /\ UNCHANGED <<web, samd_mutex, uart, main, left, dmx, wire, answers, samd>>

Download ==
  \/ Drained \/ Lock \/ Send \/ Answered \/ Expire
  \/ UpdateSilent \/ UpdateRefused \/ Pause \/ UpdateAccepted
  \/ YesFailed \/ YesAccepted
  \/ PageStored \/ PageRefused \/ PageSilent \/ DoneReplied \/ Enable

-----------------------------------------------------------------------------
(* The main loop: three frames without the mutex, with AT commands before and *)
(* among them, two seconds of rest, a battery command under the mutex, three  *)
(* seconds of rest.                                                           *)

BURST == 3

Put(kind) ==
  /\ Len(wire) + Len(answers) < MaxWire
  /\ wire' = Append(wire, [kind |-> kind, page |-> 0])
  /\ strays' = IF samd_mutex = "web" THEN strays + 1 ELSE strays

Quietly == UNCHANGED <<wire, strays>>

MainUnchanged ==
  UNCHANGED <<pc, web, artnet_enable, dmx, answers, samd>>

MainWakes ==
  /\ main = "top"
  /\ artnet_enable # 0
  /\ main' = "burst" /\ left' = BURST
  /\ MainUnchanged /\ Quietly /\ UNCHANGED <<samd_mutex, uart>>

MainFrame ==
  /\ main = "burst"
  /\ Put("frame")
  /\ left' = left - 1
  /\ main' = IF left = 1 THEN "nap" ELSE "burst"
  /\ MainUnchanged /\ UNCHANGED <<samd_mutex, uart>>

MainTests ==
  /\ main = "nap"
  /\ main' = IF artnet_enable = 1 THEN "battery" ELSE "top"
  /\ MainUnchanged /\ Quietly /\ UNCHANGED <<left, samd_mutex, uart>>

\* Send_Battery_Command, up to its wait.
MainAsks ==
  /\ main = "battery"
  /\ samd_mutex = "free"
  /\ samd_mutex' = "main"
  /\ main' = "asked"
  /\ Put("battery")
  /\ listening' = TRUE /\ line' = NoLine
  /\ MainUnchanged /\ UNCHANGED left

NoAnswer == line = NoLine /\ (Late \/ (wire = <<>> /\ answers = <<>>))

\* No answer in time: send again, once.
MainAsksAgain ==
  /\ main = "asked"
  /\ NoAnswer
  /\ main' = "again"
  /\ Put("battery")
  /\ listening' = TRUE
  /\ MainUnchanged /\ UNCHANGED <<left, samd_mutex, line>>

\* An answer, or the second time-out.
MainHears ==
  /\ main \in {"asked", "again"}
  /\ line # NoLine \/ (main = "again" /\ NoAnswer)
  /\ listening' = FALSE
  /\ samd_mutex' = "free"
  /\ main' = "top"
  /\ MainUnchanged /\ Quietly /\ UNCHANGED <<left, line>>

MainLoop ==
  MainWakes \/ MainFrame \/ MainTests \/ MainAsks \/ MainAsksAgain \/ MainHears

-----------------------------------------------------------------------------
(* The DMX thread: process_artnet_msg, or send_artnet_header for sACN. *)

DmxUnchanged ==
  UNCHANGED <<pc, web, artnet_enable, samd_mutex, uart, main, left, answers, samd>>

DmxArrives ==
  /\ dmx = "recv"
  /\ artnet_enable # 0 \/ ~Gated
  /\ dmx' = "send"
  /\ DmxUnchanged /\ Quietly

DmxForwarded ==
  /\ dmx = "send"
  /\ Put("frame")
  /\ dmx' = "recv"
  /\ DmxUnchanged

DmxThread == DmxArrives \/ DmxForwarded

-----------------------------------------------------------------------------
(* The SAMD and the UART callback. *)

SamdUnchanged ==
  UNCHANGED <<pc, web, artnet_enable, samd_mutex, uart, others>>

\* The SAMD handles the next message, goes to mode m, stores pages and answers.
Handles(kind, m, pages, answer) ==
  /\ wire # <<>>
  /\ Head(wire).kind = kind
  /\ wire' = Tail(wire)
  /\ mode' = m
  /\ stored' = pages
  /\ answers' = IF answer = NoLine THEN answers ELSE Append(answers, answer)
  /\ SamdUnchanged

\* Asked to update, it may instead restart and send garbage, or nothing.
SamdUpdate ==
  /\ mode # "data"
  /\ \E a \in {"update", "other", NoLine} :
       Handles("update", IF a = "other" THEN "run" ELSE "ask", stored, a)

SamdYes ==
  /\ mode = "ask"
  /\ \/ \E a \in {"ok", NoLine} : Handles("yes", "data", <<>>, a)
     \/ \E a \in {"other", NoLine} : Handles("yes", "ask", stored, a)

SamdPage ==
  /\ mode = "data"
  /\ wire # <<>>
  /\ \/ \E a \in {"ok", NoLine} : Handles("page", "data", Append(stored, Head(wire).page), a)
     \/ \E a \in {"other", NoLine} : Handles("page", "data", stored, a)

SamdDone ==
  /\ mode = "data"
  /\ \E a \in {"ok", "other", NoLine} : Handles("done", "run", stored, a)

SamdBattery ==
  /\ mode # "data"
  /\ \E a \in {"other", NoLine} : Handles("battery", mode, stored, a)

SamdFrame == mode # "data" /\ Handles("frame", mode, stored, NoLine)

\* Bytes of another kind among the pages, or a message out of turn.
SamdConfused ==
  \E kind \in CASE mode = "data" -> {"update", "yes", "battery", "frame"}
                [] mode = "ask"  -> {"page", "done"}
                [] OTHER         -> {"yes", "page", "done"} :
    \E a \in {"other", NoLine} : Handles(kind, mode, stored, a)

\* The SAMD gives the update up by itself.
SamdRestarts ==
  /\ mode # "run"
  /\ mode' = "run"
  /\ UNCHANGED <<wire, answers, stored>> /\ SamdUnchanged

\* uart_recv_callback: a line that nobody waits for is dropped.
Deliver ==
  /\ answers # <<>>
  /\ answers' = Tail(answers)
  /\ IF listening THEN line' = Head(answers) /\ listening' = FALSE
     ELSE UNCHANGED uart
  /\ UNCHANGED <<pc, web, artnet_enable, samd_mutex, others, wire, samd>>

Handling ==
  SamdUpdate \/ SamdYes \/ SamdPage \/ SamdDone \/ SamdBattery \/ SamdFrame \/ SamdConfused

Samd == Handling \/ SamdRestarts \/ Deliver

Next == (\E w \in {0, 1} : Start(w)) \/ Download \/ MainLoop \/ DmxThread \/ Samd

Spec == Init /\ [][Next]_vars

\* Every thread runs and the wire works.  Nothing makes a download start, the
\* SAMD answer, or a DMX frame come; a long AT command need not even end.
FairSpec ==
  /\ Spec
  /\ WF_vars(Download)
  /\ ~Scans => WF_vars(MainFrame)
  /\ WF_vars(MainTests) /\ WF_vars(MainAsksAgain \/ MainHears)
  /\ WF_vars(DmxForwarded) /\ WF_vars(Handling) /\ WF_vars(Deliver)

-----------------------------------------------------------------------------
(* Properties. *)

\* Every variable holds a value its declaration in the code can hold.
TypeOK ==
  /\ pc \in Running \cup {"idle", "drain", "lock", "enable"}
  /\ which \in {0, 1} /\ i \in 0 .. NUM_TRY - 1
  /\ page \in 0 .. Pages + 1 /\ try \in {0, 1} /\ try_snd \in {0, 1}
  /\ cmd \in Commands /\ rsp \in Lines \cup {NoLine}
  /\ rc \in {0, -101, -102, -103, -104}
  /\ downloads \in 0 .. MaxDownloads
  /\ artnet_enable \in {0, 1} /\ samd_mutex \in {"free", "web", "main"}
  /\ listening \in BOOLEAN /\ line \in Lines \cup {NoLine}
  /\ main \in {"top", "burst", "nap", "battery", "asked", "again"} /\ dmx \in {"recv", "send"}
  /\ left \in 0 .. BURST /\ strays \in Nat
  /\ wire \in Seq(Message \cup Foreign) /\ answers \in Seq(Lines)
  /\ mode \in {"run", "ask", "data"} /\ stored \in Seq(1 .. Pages)

\* From lock to unlock only the download's own messages go to the SAMD.  The
\* code does not keep this promise with sACN.
StreamExclusive ==
  [][samd_mutex = "web" /\ Len(wire') > Len(wire) =>
       wire' = Append(wire, [kind |-> cmd, page |-> IF cmd = "page" THEN page ELSE 0])]_vars

\* With Art-Net, at most what is left of one burst gets between the messages of
\* a download, however long the main loop's AT commands last: no DMX frame, no
\* battery command, no second burst, although two of the three senders take no
\* mutex and all of them tested artnet_enable some time ago.  If the AT commands
\* are short, nothing gets in.
OneBurstAtMost ==
  Gated => strays <= IF Scans THEN BURST ELSE 0

\* Whichever way the download returns, DMX is on again and the mutex is not its.
GateRestored ==
  /\ pc = "idle" => artnet_enable = 1
  /\ samd_mutex = "web" <=> pc \in Running

\* Without late answers the download is a transfer of the pages in order, and
\* it reports success only for a whole image.
Outcome ==
  CASE downloads = 0 -> "none"
    [] downloads > 0 /\ pc \notin {"idle", "enable"} -> "open"
    [] downloads > 0 /\ pc \in {"idle", "enable"} /\ rc = 0 -> "done"
    [] OTHER -> "failed"

Transfer == INSTANCE PageTransfer WITH received <- stored, outcome <- Outcome

TransferSpec == Transfer!Spec

\* Even with late answers the SAMD never stores a page behind a later one, and
\* stores no page more often than the two sends of two tries.
NeverBackwards ==
  /\ \A a, b \in DOMAIN stored : a < b => stored[a] <= stored[b]
  /\ \A a \in DOMAIN stored : a + 4 \in DOMAIN stored => stored[a + 4] > stored[a]

\* A page goes out only to a SAMD that has asked for pages, unless it gave the
\* update up in the meantime.
AskedFirst ==
  pc = "send" /\ cmd = "page" => mode \in {"data", "run"}

\* A download comes to an end and lets DMX through again.
DownloadReturns == pc # "idle" ~> pc = "idle" /\ artnet_enable = 1
=============================================================================
