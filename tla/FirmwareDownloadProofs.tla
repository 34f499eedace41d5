----------------------- MODULE FirmwareDownloadProofs -----------------------
(***************************************************************************)
(* Proofs about FirmwareDownload, for an image of any number of pages, any *)
(* number of downloads and any answers, in time or late.                   *)
(***************************************************************************)
EXTENDS FirmwareDownload, FiniteSetTheorems, TLAPS

\* While a page is under way its number is one of the image.
PageInRange ==
  pc \in {"send", "wait", "reply"} /\ cmd = "page" => page \in 1 .. Pages

\* The loop waits for garbage to pass only after its first attempt to update.
PauseOnce == pc = "pause" => i = 0 /\ cmd = "update"

\* In a burst there is a frame left to send.
LeftInBurst == main = "burst" => left \in 1 .. BURST

Typed == TypeOK /\ PageInRange /\ PauseOnce /\ LeftInBurst

Anything == Message \cup Foreign

LEMMA TypedInit == Init => Typed
<1> SUFFICES ASSUME Init PROVE Typed
  OBVIOUS
<1> USE PagesAssumption, BoundsAssumption DEF Init
<1>1. wire \in Seq(Message \cup Foreign) /\ answers \in Seq(Lines) /\ stored \in Seq(1 .. Pages)
  OBVIOUS
<1>2. page \in 0 .. Pages + 1 /\ downloads \in 0 .. MaxDownloads /\ i \in 0 .. NUM_TRY - 1
  BY DEF NUM_TRY
<1>3. cmd \in Commands /\ rsp \in Lines \cup {NoLine} /\ line \in Lines \cup {NoLine}
  BY DEF Commands, Lines, NoLine
<1>4. left \in 0 .. BURST /\ strays \in Nat
  BY DEF BURST
<1>5. QED
  BY <1>1, <1>2, <1>3, <1>4 DEF Typed, TypeOK, PageInRange, PauseOnce, LeftInBurst

\* What a thread appends to the wire, and what the SAMD leaves on it.
LEMMA WireGrows ==
  ASSUME wire \in Seq(Anything), NEW m \in Anything, wire' = Append(wire, m)
  PROVE  wire' \in Seq(Anything) /\ Len(wire') = Len(wire) + 1
OBVIOUS

LEMMA WireShrinks ==
  ASSUME wire \in Seq(Anything), wire # <<>>, wire' = Tail(wire)
  PROVE  wire' \in Seq(Anything) /\ Len(wire') < Len(wire) /\ Head(wire) \in Anything
OBVIOUS

\* The download's own steps.  Each step of the protocol either calls
\* Send_SAMD_CMD again, with the page number in range, or returns.
LEMMA TypedDownload ==
  ASSUME Typed, (\E w \in {0, 1} : Start(w)) \/ Download
  PROVE  Typed'
<1> USE PagesAssumption, BoundsAssumption
<1> USE DEF Typed, TypeOK, PageInRange, PauseOnce, LeftInBurst, Running, Commands, Lines, NoLine, NUM_TRY, web, uart,
            others, samd
<1>1. ASSUME NEW w \in {0, 1}, Start(w) PROVE Typed'
  BY <1>1 DEF Start
<1>2. CASE Drained
  BY <1>2 DEF Drained
<1>3. CASE Lock
  BY <1>3 DEF Lock, Command
<1>4. CASE Send
  <2> DEFINE m == [kind |-> cmd, page |-> IF cmd = "page" THEN page ELSE 0]
  <2>1. m \in Message
    <3>1. CASE cmd = "page"
      BY <1>4, <3>1 DEF Send, Message
    <3>2. CASE cmd # "page"
      BY <1>4, <3>2 DEF Send, Message
    <3>3. QED
      BY <3>1, <3>2
  <2>2. wire' \in Seq(Anything)
    BY <1>4, <2>1, WireGrows DEF Send, Anything
  <2>3. QED
    BY <1>4, <2>2 DEF Send, Anything
<1>5. CASE Answered
  BY <1>5 DEF Answered
<1>6. CASE Expire
  <2>1. UNCHANGED <<wire, answers, stored>>
    BY <1>6 DEF Expire
  <2>2. try_snd' \in {0, 1} /\ rsp' \in Lines \cup {NoLine} /\ listening' \in BOOLEAN
    BY <1>6 DEF Expire
  <2>3. pc' \in {"send", "reply"} /\ pc = "wait"
    BY <1>6 DEF Expire
  <2>4. UNCHANGED <<which, i, page, try, cmd, rc, downloads, artnet_enable, samd_mutex,
                    line, main, left, dmx, strays, mode>>
    BY <1>6 DEF Expire
  <2>5. QED
    BY <2>1, <2>2, <2>3, <2>4
<1>7. CASE UpdateSilent
  BY <1>7 DEF UpdateSilent, Reply, Command, Leave, Return
<1>8. CASE UpdateRefused
  BY <1>8 DEF UpdateRefused, Reply, Leave, Return
<1>9. CASE Pause
  BY <1>9 DEF Pause, Command
<1>10. CASE UpdateAccepted
  BY <1>10 DEF UpdateAccepted, Reply, Command
<1>11. CASE YesFailed
  BY <1>11 DEF YesFailed, Reply, Leave, Return
<1>12. CASE YesAccepted
  BY <1>12 DEF YesAccepted, Reply, NextPage, Command
<1>13. CASE PageStored
  BY <1>13 DEF PageStored, Reply, NextPage, Command
<1>14. CASE PageRefused
  BY <1>14 DEF PageRefused, Reply, Command, Leave, Return
<1>15. CASE PageSilent
  BY <1>15 DEF PageSilent, Reply, Leave, Return
<1>16. CASE DoneReplied
  BY <1>16 DEF DoneReplied, Reply, Leave, Return
<1>17. CASE Enable
  BY <1>17 DEF Enable
<1>18. QED
  BY <1>1, <1>2, <1>3, <1>4, <1>5, <1>6, <1>7, <1>8, <1>9, <1>10, <1>11, <1>12, <1>13,
     <1>14, <1>15, <1>16, <1>17 DEF Download

\* The steps of the other two threads.
LEMMA TypedOthers ==
  ASSUME Typed, MainLoop \/ DmxThread
  PROVE  Typed'
<1> USE DEF Typed, TypeOK, PageInRange, PauseOnce, LeftInBurst, Lines, NoLine, web, uart, samd
<1>1. ASSUME Put("frame") \/ Put("battery") PROVE wire' \in Seq(Anything) /\ strays' \in Nat
  <2>1. wire' \in Seq(Anything)
    BY <1>1, WireGrows DEF Put, Anything, Foreign
  <2>2. strays' \in Nat
    BY <1>1 DEF Put
  <2>3. QED
    BY <2>1, <2>2
<1>2. CASE MainWakes \/ MainTests \/ DmxArrives
  <2>1. CASE MainWakes
    <3>1. left' \in 1 .. BURST /\ left' \in 0 .. BURST
      BY <2>1 DEF MainWakes, BURST
    <3>2. QED
      BY <2>1, <3>1 DEF MainWakes, MainUnchanged, Quietly
  <2>2. CASE MainTests
    BY <2>2 DEF MainTests, MainUnchanged, Quietly
  <2>3. CASE DmxArrives
    BY <2>3 DEF DmxArrives, DmxUnchanged, Quietly
  <2>4. QED
    BY <1>2, <2>1, <2>2, <2>3
<1>3. CASE MainFrame
  <2>1. left' \in 0 .. BURST /\ (main' = "burst" => left' \in 1 .. BURST)
    BY <1>3 DEF MainFrame, BURST
  <2>2. QED
    BY <1>1, <1>3, <2>1 DEF MainFrame, MainUnchanged, Anything
<1>4. CASE MainAsks
  BY <1>1, <1>4 DEF MainAsks, MainUnchanged, Anything
<1>5. CASE MainHears
  <2>1. UNCHANGED <<wire, answers, stored, line, left, strays>>
    BY <1>5 DEF MainHears, MainUnchanged, Quietly
  <2>2. listening' \in BOOLEAN /\ samd_mutex' = "free" /\ main' = "top"
    BY <1>5 DEF MainHears
  <2>3. UNCHANGED <<pc, which, i, page, try, try_snd, cmd, rsp, rc, downloads,
                    artnet_enable, dmx, mode>>
    BY <1>5 DEF MainHears, MainUnchanged
  <2>4. QED
    BY <2>1, <2>2, <2>3
<1>6. CASE DmxForwarded
  BY <1>1, <1>6 DEF DmxForwarded, DmxUnchanged, Anything
<1>7. CASE MainAsksAgain
  BY <1>1, <1>7 DEF MainAsksAgain, MainUnchanged, Anything
<1>8. QED
  BY <1>2, <1>3, <1>4, <1>5, <1>6, <1>7 DEF MainLoop, DmxThread

\* The steps of the SAMD.  It stores only page numbers that came over the wire.
LEMMA TypedSamd ==
  ASSUME Typed, Samd
  PROVE  Typed'
<1> USE DEF Typed, TypeOK, PageInRange, PauseOnce, LeftInBurst, web, uart, others, samd
<1>1. ASSUME NEW k, NEW m \in {"run", "ask", "data"}, NEW pages \in Seq(1 .. Pages),
             NEW a \in Lines \cup {NoLine}, Handles(k, m, pages, a)
      PROVE  Typed'
  <2>1. wire' \in Seq(Anything)
    BY <1>1, WireShrinks DEF Handles, Anything
  <2>2. answers' \in Seq(Lines)
    BY <1>1 DEF Handles, Lines, NoLine
  <2>3. QED
    BY <1>1, <2>1, <2>2 DEF Handles, SamdUnchanged, Anything
<1> USE DEF Lines, NoLine
<1>2. CASE SamdUpdate
  BY <1>1, <1>2 DEF SamdUpdate
<1>3. CASE SamdYes
  <2>1. <<>> \in Seq(1 .. Pages)
    OBVIOUS
  <2>2. ASSUME NEW a \in {"ok", NoLine}, Handles("yes", "data", <<>>, a) PROVE Typed'
    BY <1>1, <2>1, <2>2
  <2>3. ASSUME NEW a \in {"other", NoLine}, Handles("yes", "ask", stored, a) PROVE Typed'
    BY <1>1, <2>3
  <2>4. QED
    BY <1>3, <2>2, <2>3 DEF SamdYes
<1>4. CASE SamdPage
  <2>1. ASSUME Head(wire).kind = "page" PROVE Append(stored, Head(wire).page) \in Seq(1 .. Pages)
    <3>1. Head(wire) \in Message \cup Foreign
      BY <1>4 DEF SamdPage
    <3>2. Head(wire).page \in 1 .. Pages
      BY <3>1, <2>1 DEF Message, Foreign
    <3>3. QED
      BY <3>2
  <2>2. CASE \E a \in {"ok", NoLine} : Handles("page", "data", Append(stored, Head(wire).page), a)
    BY <1>1, <2>1, <2>2 DEF Handles
  <2>3. CASE \E a \in {"other", NoLine} : Handles("page", "data", stored, a)
    BY <1>1, <2>3
  <2>4. QED
    BY <1>4, <2>2, <2>3 DEF SamdPage
<1>5. CASE SamdDone \/ SamdBattery \/ SamdFrame
  BY <1>1, <1>5 DEF SamdDone, SamdBattery, SamdFrame
<1>6. CASE SamdConfused
  BY <1>1, <1>6 DEF SamdConfused
<1>7. CASE SamdRestarts
  BY <1>7 DEF SamdRestarts, SamdUnchanged
<1>8. CASE Deliver
  <2>1. answers' \in Seq(Lines) /\ Head(answers) \in Lines
    BY <1>8 DEF Deliver
  <2>2. line' \in Lines \cup {NoLine} /\ listening' \in BOOLEAN
    BY <1>8, <2>1 DEF Deliver
  <2>3. UNCHANGED <<pc, which, i, page, try, try_snd, cmd, rsp, rc, downloads, artnet_enable,
                    samd_mutex, main, left, dmx, strays, wire, mode, stored>>
    BY <1>8 DEF Deliver
  <2>4. QED
    BY <2>1, <2>2, <2>3
<1>9. QED
  BY <1>2, <1>3, <1>4, <1>5, <1>6, <1>7, <1>8 DEF Samd, Handling

LEMMA TypedStep == Typed /\ [Next]_vars => Typed'
<1> SUFFICES ASSUME Typed, [Next]_vars PROVE Typed'
  OBVIOUS
<1>1. CASE UNCHANGED vars
  BY <1>1 DEF vars, Typed, TypeOK, PageInRange, PauseOnce, LeftInBurst
<1>2. CASE Next
  BY <1>2, TypedDownload, TypedOthers, TypedSamd DEF Next
<1>3. QED
  BY <1>1, <1>2

\* Every variable keeps its type: the page counter stays within the image, and
\* only pages of the image are stored, whatever the SAMD answers.
THEOREM TypeCorrect == Spec => []TypeOK
<1>1. Typed => TypeOK
  BY DEF Typed
<1>2. QED
  BY TypedInit, TypedStep, <1>1, PTL DEF Spec

-----------------------------------------------------------------------------
(* Who writes to the SAMD. *)

\* The main loop waits for an answer to its battery command.
Asked == main \in {"asked", "again"}

\* The mutex tells where its owner is; artnet_enable is off during the whole
\* download; and once the two seconds are over no thread is still sending what
\* it began before, except a main loop whose AT command is not over.
Quiet ==
  /\ samd_mutex = "web" <=> pc \in Running
  /\ samd_mutex = "main" <=> Asked
  /\ artnet_enable = (IF pc = "idle" THEN 1 ELSE 0)
  /\ pc \in Running \cup {"lock"} => (~Scans => main # "burst") /\ (Gated => dmx # "send")

LEMMA QuietStep ==
  ASSUME Quiet, [Next]_vars
  PROVE  Quiet'
<1> USE DEF Quiet, Asked, Running, web, uart, others, samd
<1>1. ASSUME NEW w \in {0, 1}, Start(w) PROVE Quiet'
  BY <1>1 DEF Start
<1>2. CASE Drained \/ Lock \/ Send \/ Answered \/ Pause \/ Enable
  BY <1>2 DEF Drained, Lock, Send, Answered, Pause, Enable, Command
<1>3. CASE Expire
  <2>1. pc = "wait" /\ pc' \in {"send", "reply"}
    BY <1>3 DEF Expire
  <2>2. UNCHANGED <<samd_mutex, artnet_enable, main, dmx>>
    BY <1>3 DEF Expire
  <2>3. QED
    BY <2>1, <2>2
\* After a reply the download goes on, or unlocks the mutex.
<1>4. ASSUME pc = "reply", UNCHANGED <<artnet_enable, main, dmx>>,
             \/ pc' \in Running /\ UNCHANGED samd_mutex
             \/ pc' = "enable" /\ samd_mutex' = "free"
      PROVE  Quiet'
  BY <1>4
<1>5. CASE UpdateSilent \/ UpdateRefused \/ UpdateAccepted
  BY <1>4, <1>5 DEF UpdateSilent, UpdateRefused, UpdateAccepted, Reply, Command, Leave, Return
<1>6. CASE YesFailed \/ YesAccepted \/ PageStored
  BY <1>4, <1>6 DEF YesFailed, YesAccepted, PageStored, Reply, NextPage, Command, Leave, Return
<1>7. CASE PageRefused \/ PageSilent \/ DoneReplied
  BY <1>4, <1>7 DEF PageRefused, PageSilent, DoneReplied, Reply, Command, Leave, Return
<1>8. CASE MainWakes \/ MainFrame \/ MainTests
  BY <1>8 DEF MainWakes, MainFrame, MainTests, MainUnchanged
<1>9. CASE MainAsks \/ MainAsksAgain
  BY <1>9 DEF MainAsks, MainAsksAgain, MainUnchanged
<1>10. CASE MainHears
  BY <1>10 DEF MainHears, MainUnchanged
<1>11. CASE DmxArrives \/ DmxForwarded
  BY <1>11 DEF DmxArrives, DmxForwarded, DmxUnchanged
<1>12. CASE Samd
  <2>1. UNCHANGED <<pc, samd_mutex, artnet_enable, main, dmx>>
    BY <1>12 DEF Samd, Handling, SamdUpdate, SamdYes, SamdPage, SamdDone, SamdBattery, SamdFrame,
                 SamdConfused, SamdRestarts, Deliver, Handles, SamdUnchanged
  <2>2. QED
    BY <2>1
<1>13. CASE UNCHANGED vars
  BY <1>13 DEF vars
<1>14. QED
  BY <1>1, <1>2, <1>3, <1>5, <1>6, <1>7, <1>8, <1>9, <1>10, <1>11, <1>12, <1>13
     DEF Next, Download, MainLoop, DmxThread

LEMMA QuietAlways == Spec => []Quiet
<1>1. Init => Quiet
  BY DEF Init, Quiet, Asked, Running
<1>2. Quiet /\ [Next]_vars => Quiet'
  BY QuietStep
<1>3. QED
  BY <1>1, <1>2, PTL DEF Spec

\* Every return of the download unlocks the mutex and lets DMX through again,
\* and nothing else than a download owns the mutex for the web server.
THEOREM DmxRestored == Spec => []GateRestored
<1>1. Quiet => GateRestored
  BY DEF Quiet, GateRestored
<1>2. QED
  BY <1>1, QuietAlways, PTL

\* After a reply the download sends the next message, waits for garbage to
\* pass, or returns.
GoesOn ==
  /\ pc' \in {"send", "pause"}
  /\ UNCHANGED <<rc, samd_mutex>>

LEMMA AfterReply ==
  ASSUME Typed,
         \/ UpdateSilent \/ UpdateRefused \/ UpdateAccepted \/ YesFailed \/ YesAccepted
         \/ PageStored \/ PageRefused \/ PageSilent \/ DoneReplied
  PROVE  /\ pc = "reply"
         /\ UNCHANGED <<downloads, rsp, line, main, left, dmx, strays, wire, answers, mode, stored, artnet_enable>>
         /\ \/ /\ GoesOn /\ cmd' = cmd /\ page' = page /\ cmd \in {"update", "page"}
               /\ cmd = "page" => pc' = "send" /\ try = 0 /\ try' = 1 /\ try_snd' = 0
            \/ GoesOn /\ cmd = "update" /\ cmd' = "yes" /\ rsp = "update"
            \/ /\ GoesOn /\ cmd = "yes" /\ rsp = "ok" /\ page' = 1
               /\ pc' = "send" /\ try' = 0 /\ try_snd' = 0
               /\ cmd' = IF page' <= Pages THEN "page" ELSE "done"
            \/ /\ GoesOn /\ cmd = "page" /\ rsp = "ok" /\ page' = page + 1
               /\ pc' = "send" /\ try' = 0 /\ try_snd' = 0
               /\ cmd' = IF page' <= Pages THEN "page" ELSE "done"
            \/ pc' = "enable" /\ rc' # 0
            \/ pc' = "enable" /\ rc' = 0 /\ cmd = "done"
<1> USE DEF Reply, Leave, Return, GoesOn, Command, NextPage, uart, others, samd
<1>1. CASE UpdateSilent
  BY <1>1 DEF UpdateSilent
<1>2. CASE UpdateRefused
  BY <1>2 DEF UpdateRefused
<1>3. CASE UpdateAccepted
  BY <1>3 DEF UpdateAccepted
<1>4. CASE YesFailed
  BY <1>4 DEF YesFailed
<1>5. CASE YesAccepted
  BY <1>5 DEF YesAccepted
<1>6. CASE PageStored
  BY <1>6 DEF PageStored
<1>7. CASE PageRefused
  BY <1>7 DEF PageRefused
<1>8. CASE PageSilent
  BY <1>8 DEF PageSilent
<1>9. CASE DoneReplied
  BY <1>9 DEF DoneReplied
<1>10. QED
  BY <1>1, <1>2, <1>3, <1>4, <1>5, <1>6, <1>7, <1>8, <1>9

\* The frames that the main loop may still send although DMX is off.
Room == IF main = "burst" THEN left ELSE 0

\* What got into the download and what may still get in are of one burst.
FewStrays ==
  Gated =>
    /\ strays <= BURST
    /\ ~Scans => strays = 0
    /\ pc \notin Running \cup {"enable"} => strays = 0
    /\ pc \in Running => strays + Room <= BURST

\* The steps that send nothing and begin no burst.
LEMMA StraysKept ==
  ASSUME Typed, FewStrays, UNCHANGED <<main, left, strays>>,
         pc' \in Running => pc \in Running \cup {"lock"},
         pc' \notin Running \cup {"enable"} => pc \notin Running \cup {"enable"}
  PROVE  FewStrays'
<1>1. left \in 0 .. BURST /\ BURST \in Nat
  BY DEF Typed, TypeOK, BURST
<1>2. Room' = Room /\ Room \in 0 .. BURST
  BY <1>1 DEF Room
<1>3. pc \notin Running /\ pc' \in Running => pc = "lock"
  OBVIOUS
<1>4. "lock" \notin Running \cup {"enable"}
  BY DEF Running
<1>5. QED
  BY <1>1, <1>2, <1>3, <1>4 DEF FewStrays

\* A message of another thread, which during a download is a frame of the
\* burst that the main loop had begun.
LEMMA StraysPut ==
  ASSUME Typed, Quiet, FewStrays, Put("frame") \/ Put("battery"), UNCHANGED pc,
         \/ MainFrame
         \/ samd_mutex # "web" /\ UNCHANGED left /\ main' # "burst" /\ main # "burst"
         \/ UNCHANGED <<main, left>> /\ (Gated => samd_mutex # "web")
  PROVE  FewStrays'
<1> SUFFICES ASSUME Gated PROVE FewStrays'
  BY DEF FewStrays
<1>1. strays \in Nat /\ BURST = 3 /\ left \in 0 .. BURST
  BY DEF Typed, TypeOK, BURST
<1>2. CASE samd_mutex # "web"
  <2>1. strays' = strays /\ pc \notin Running
    BY <1>2 DEF Put, Quiet
  <2>2. QED
    BY <2>1 DEF FewStrays
<1>3. CASE samd_mutex = "web"
  <2>1. pc \in Running /\ MainFrame /\ strays' = strays + 1
    BY <1>3 DEF Put, Quiet
  <2>2. main = "burst" /\ left' = left - 1 /\ main' = IF left = 1 THEN "nap" ELSE "burst"
    BY <2>1 DEF MainFrame
  <2>3. Scans
    BY <2>1, <2>2 DEF Quiet
  <2>4. left \in 1 .. BURST
    BY <2>2 DEF Typed, LeftInBurst
  <2>5. Room = left /\ Room' = left - 1
    BY <1>1, <2>2, <2>4 DEF Room
  <2>6. strays' + Room' <= BURST /\ Room' >= 0
    BY <1>1, <2>1, <2>4, <2>5 DEF FewStrays
  <2>7. strays' <= BURST
    BY <1>1, <2>1, <2>4, <2>5, <2>6
  <2>8. QED
    BY <2>1, <2>3, <2>6, <2>7 DEF FewStrays
<1>4. QED
  BY <1>2, <1>3

LEMMA StraysStep ==
  ASSUME Typed, Quiet, FewStrays, [Next]_vars
  PROVE  FewStrays'
<1> USE DEF web, uart, others, samd
<1>1. ASSUME NEW w \in {0, 1}, Start(w) PROVE FewStrays'
  <2>1. pc = "idle" /\ pc' = "drain" /\ UNCHANGED <<main, left, strays>>
    BY <1>1 DEF Start
  <2>2. QED
    BY <2>1, StraysKept DEF Running
<1>2. CASE Drained \/ Lock
  <2>1. /\ \/ pc = "drain" /\ pc' = "lock"
           \/ pc = "lock" /\ pc' = "send"
        /\ UNCHANGED <<main, left, strays>>
    BY <1>2 DEF Drained, Lock, Command
  <2>2. QED
    BY <2>1, StraysKept DEF Running
<1>3. CASE Send \/ Answered \/ Expire \/ Pause
  <2>1. pc \in Running /\ pc' \in Running /\ UNCHANGED <<main, left, strays>>
    BY <1>3 DEF Send, Answered, Expire, Pause, Command, Running
  <2>2. QED
    BY <2>1, StraysKept
<1>4. CASE \/ UpdateSilent \/ UpdateRefused \/ UpdateAccepted \/ YesFailed \/ YesAccepted
           \/ PageStored \/ PageRefused \/ PageSilent \/ DoneReplied
  <2>1. pc = "reply" /\ pc' \in Running \cup {"enable"} /\ UNCHANGED <<main, left, strays>>
    BY <1>4, AfterReply DEF GoesOn, Running
  <2>2. QED
    BY <2>1, StraysKept DEF Running
<1>5. CASE Enable
  <2>1. pc' = "idle" /\ strays' = 0
    BY <1>5 DEF Enable
  <2>2. QED
    BY <2>1 DEF FewStrays, Running, BURST
<1>6. CASE MainWakes
  <2>1. pc = "idle" /\ UNCHANGED <<pc, strays>>
    BY <1>6 DEF MainWakes, MainUnchanged, Quietly, Quiet
  <2>2. QED
    BY <2>1 DEF FewStrays, Running
<1>7. CASE MainFrame
  BY <1>7, StraysPut DEF MainFrame, MainUnchanged
<1>8. CASE MainAsks \/ MainAsksAgain
  <2>1. samd_mutex # "web" /\ main # "burst" /\ main' # "burst" /\ UNCHANGED <<pc, left>>
    BY <1>8 DEF MainAsks, MainAsksAgain, MainUnchanged, Quiet, Asked
  <2>2. QED
    BY <1>8, <2>1, StraysPut DEF MainAsks, MainAsksAgain
<1>9. CASE MainTests \/ MainHears
  <2>1. Room = 0 /\ Room' = 0 /\ UNCHANGED <<pc, strays>>
    BY <1>9 DEF MainTests, MainHears, MainUnchanged, Quietly, Room
  <2>2. QED
    BY <2>1 DEF FewStrays
<1>10. CASE DmxArrives
  <2>1. UNCHANGED <<pc, main, left, strays>>
    BY <1>10 DEF DmxArrives, DmxUnchanged, Quietly
  <2>2. QED
    BY <2>1, StraysKept
<1>11. CASE DmxForwarded
  <2>1. UNCHANGED <<pc, main, left>> /\ dmx = "send" /\ Put("frame")
    BY <1>11 DEF DmxForwarded, DmxUnchanged
  <2>2. Gated => samd_mutex # "web"
    BY <2>1 DEF Quiet
  <2>3. QED
    BY <2>1, <2>2, StraysPut
<1>12. CASE Samd
  <2>1. UNCHANGED <<pc, main, left, strays>>
    BY <1>12 DEF Samd, Handling, SamdUpdate, SamdYes, SamdPage, SamdDone, SamdBattery, SamdFrame,
                 SamdConfused, SamdRestarts, Deliver, Handles, SamdUnchanged
  <2>2. QED
    BY <2>1, StraysKept
<1>13. CASE UNCHANGED vars
  <2>1. UNCHANGED <<pc, main, left, strays>>
    BY <1>13 DEF vars
  <2>2. QED
    BY <2>1, StraysKept
<1>14. QED
  BY <1>1, <1>2, <1>3, <1>4, <1>5, <1>6, <1>7, <1>8, <1>9, <1>10, <1>11, <1>12, <1>13
     DEF Next, Download, MainLoop, DmxThread

\* With Art-Net, what other threads write to the SAMD from lock to unlock are
\* frames of one burst, at most three, however long the main loop's AT commands
\* last; and if these are shorter than the delay before the lock, nothing.
THEOREM StraysAreOneBurst == Spec => []OneBurstAtMost
<1>1. Init => FewStrays
  BY DEF Init, FewStrays, Running, BURST
<1>2. Typed /\ Quiet /\ FewStrays /\ [Next]_vars => FewStrays'
  BY StraysStep
<1>3. FewStrays => OneBurstAtMost
  BY DEF FewStrays, OneBurstAtMost
<1>4. QED
  BY <1>1, <1>2, <1>3, TypedInit, TypedStep, QuietAlways, PTL DEF Spec

-----------------------------------------------------------------------------
(* One message at a time. *)

\* What the SAMD makes of a message.  It stores only the page it handles, says
\* "ok" only to what it took, and asks for a confirmation only after "update".
Response(k, m, pages, a) ==
  /\ Handles(k, m, pages, a)
  /\ m \in {"run", "ask", "data"}
  /\ a \in Lines \cup {NoLine}
  /\ \/ pages = stored
     \/ k = "yes" /\ pages = <<>>
     \/ k = "page" /\ pages = Append(stored, Head(wire).page)
  /\ a = "ok" => \/ k = "done"
                 \/ k = "yes" /\ m = "data" /\ pages = <<>>
                 \/ k = "page" /\ pages = Append(stored, Head(wire).page)
  /\ m = "ask" => mode = "ask" \/ k = "update"

LEMMA SamdResponds ==
  ASSUME mode \in {"run", "ask", "data"}, Handling
  PROVE  \E k, m, pages, a : Response(k, m, pages, a)
<1> USE DEF Response, Lines, NoLine
<1>1. CASE SamdUpdate
  BY <1>1 DEF SamdUpdate
<1>2. CASE SamdYes
  BY <1>2 DEF SamdYes
<1>3. CASE SamdPage
  BY <1>3 DEF SamdPage
<1>4. CASE SamdDone \/ SamdBattery \/ SamdFrame
  BY <1>4 DEF SamdDone, SamdBattery, SamdFrame
<1>5. CASE SamdConfused
  BY <1>5 DEF SamdConfused
<1>6. QED
  BY <1>1, <1>2, <1>3, <1>4, <1>5 DEF Handling

\* An "ok" that the download has still to act on.
OkSeen ==
  \/ \E b \in DOMAIN answers : answers[b] = "ok"
  \/ pc = "wait" /\ line = "ok"
  \/ pc = "reply" /\ rsp = "ok"

\* The message that Send_SAMD_CMD sends, and the last page stored.
Own  == [kind |-> cmd, page |-> IF cmd = "page" THEN page ELSE 0]
Last == IF stored = <<>> THEN 0 ELSE stored[Len(stored)]

InFlight == Len(wire) + Len(answers)

\* At most one message or answer is under way while a download talks to the
\* SAMD, and at most a battery command's before it has the mutex.
OneInFlight ==
  /\ pc = "lock" => InFlight <= 1 /\ (~Asked \/ line # NoLine => InFlight = 0)
  /\ pc \in Running =>
       /\ InFlight <= 1
       /\ pc # "wait" \/ line # NoLine => InFlight = 0
       /\ wire # <<>> => Head(wire) = Own

\* The SAMD has stored what the place of the download says.
InStep ==
  /\ downloads = 0 => pc = "idle"
  /\ pc \notin Running => \A b \in DOMAIN wire : wire[b] \in Foreign
  /\ pc \in {"drain", "lock"} => stored = <<>>
  /\ pc \in Running =>
       /\ cmd \in {"update", "yes"} => stored = <<>>
       /\ cmd = "yes" /\ OkSeen => mode # "ask"
       /\ cmd = "page" => Last \in {page - 1, page} /\ (OkSeen => Last = page)
       /\ cmd = "done" => Last = Pages
       /\ cmd \in {"page", "done"} => mode # "ask"

Aligned == OneInFlight /\ InStep

LEMMA EmptyFlight ==
  ASSUME Typed
  PROVE  /\ InFlight = 0 <=> wire = <<>> /\ answers = <<>>
         /\ InFlight \in Nat
         /\ InFlight <= 1 /\ wire # <<>> => Len(wire) = 1 /\ answers = <<>>
<1>1. wire \in Seq(Anything) /\ answers \in Seq(Lines)
  BY DEF Typed, TypeOK, Anything
<1>2. Len(wire) \in Nat /\ Len(answers) \in Nat
  BY <1>1
<1>3. (Len(wire) = 0 <=> wire = <<>>) /\ (Len(answers) = 0 <=> answers = <<>>)
  BY <1>1
<1>4. InFlight = Len(wire) + Len(answers)
  BY DEF InFlight
<1>5. InFlight = 0 <=> Len(wire) = 0 /\ Len(answers) = 0
  BY <1>2, <1>4
<1>6. InFlight <= 1 /\ Len(wire) # 0 => Len(wire) = 1 /\ Len(answers) = 0
  <2>1. \A x, y \in Nat : x + y <= 1 /\ x # 0 => x = 1 /\ y = 0
    OBVIOUS
  <2>2. QED
    BY <1>2, <1>4, <2>1
<1>7. InFlight \in Nat
  BY <1>2, <1>4
<1>8. QED
  BY <1>3, <1>5, <1>6, <1>7

LEMMA LastOfAppend ==
  ASSUME NEW S, NEW s \in Seq(S), NEW x \in S
  PROVE  Append(s, x) # <<>> /\ Append(s, x)[Len(Append(s, x))] = x
OBVIOUS

\* Nobody but the download and the SAMD touches the exchange.
LEMMA AlignedOthers ==
  ASSUME Gated, ~Late, ~Scans, Typed, Quiet, Aligned, MainLoop \/ DmxThread
  PROVE  Aligned'
<1>0. UNCHANGED <<pc, cmd, page, rsp, downloads, answers, mode, stored>>
  BY DEF MainLoop, MainWakes, MainFrame, MainTests, MainAsks, MainAsksAgain, MainHears, MainUnchanged,
         DmxThread, DmxArrives, DmxForwarded, DmxUnchanged, web, samd
<1>1. CASE pc \in Running
  <2>1. samd_mutex = "web" /\ main \notin {"burst", "asked", "again"} /\ dmx # "send"
    BY <1>1 DEF Quiet, Asked, Running
  <2>2. UNCHANGED <<wire, line>>
    BY <2>1 DEF MainLoop, MainWakes, MainFrame, MainTests, MainAsks, MainAsksAgain, MainHears,
                Quietly, DmxThread, DmxArrives, DmxForwarded, DmxUnchanged, uart
  <2>3. pc \notin {"lock", "drain"} /\ pc' = pc
    BY <1>0, <1>1 DEF Running
  <2>4. OkSeen' = OkSeen /\ Own' = Own /\ Last' = Last /\ InFlight' = InFlight
    BY <1>0, <2>2 DEF OkSeen, Own, Last, InFlight
  <2>5. QED
    BY <1>0, <1>1, <2>2, <2>3, <2>4 DEF Aligned, OneInFlight, InStep
<1>2. ASSUME pc \notin Running, \A b \in DOMAIN wire' : wire'[b] \in Foreign,
             pc = "lock" => InFlight' <= 1 /\ (~Asked' \/ line' # NoLine => InFlight' = 0)
      PROVE  Aligned'
  BY <1>0, <1>2 DEF Aligned, OneInFlight, InStep
<1>3. CASE pc \notin Running /\ UNCHANGED wire
  <2>1. InFlight' = InFlight
    BY <1>0, <1>3 DEF InFlight
  <2>2. \/ Asked' = Asked /\ UNCHANGED line
        \/ MainHears
        \/ MainAsks
    BY DEF MainLoop, MainWakes, MainFrame, MainTests, MainAsksAgain, MainHears, DmxThread, DmxArrives,
           DmxForwarded, DmxUnchanged, uart, Asked
  <2>3. ~MainAsks
    BY <1>3 DEF MainAsks, Put, Typed, TypeOK
  <2>4. MainHears /\ pc = "lock" => InFlight = 0
    <3>1. MainHears => Asked /\ (line # NoLine \/ (wire = <<>> /\ answers = <<>>))
      BY DEF MainHears, NoAnswer, Asked
    <3>2. QED
      BY <3>1, EmptyFlight DEF Aligned, OneInFlight
  <2>5. \A b \in DOMAIN wire' : wire'[b] \in Foreign
    BY <1>3 DEF Aligned, InStep
  <2>6. QED
    BY <1>2, <1>3, <2>1, <2>2, <2>3, <2>4, <2>5 DEF Aligned, OneInFlight
<1>4. CASE pc \notin Running /\ ~ UNCHANGED wire
  <2>1. MainFrame \/ MainAsks \/ MainAsksAgain \/ DmxForwarded
    BY <1>4 DEF MainLoop, MainWakes, MainTests, MainHears, Quietly, DmxThread, DmxArrives
  <2>2. PICK m \in Foreign : wire' = Append(wire, m)
    BY <2>1 DEF MainFrame, MainAsks, MainAsksAgain, DmxForwarded, Put, Foreign
  <2>3. wire \in Seq(Anything) /\ m \in Anything
    BY DEF Typed, TypeOK, Anything
  <2>4. \A b \in DOMAIN wire' : wire'[b] \in Foreign
    BY <1>4, <2>2, <2>3 DEF Aligned, InStep
  <2>5. Len(wire') = Len(wire) + 1
    BY <2>2, <2>3
  <2>6. CASE pc = "lock"
    <3>1. MainAsks \/ MainAsksAgain
      BY <2>1, <2>6 DEF MainFrame, DmxForwarded, Quiet
    <3>2. Asked' /\ line' = NoLine
      BY <3>1 DEF MainAsks, MainAsksAgain, NoAnswer, Asked
    <3>3. InFlight = 0
      <4>1. CASE MainAsks
        BY <2>6, <4>1 DEF MainAsks, Aligned, OneInFlight, Asked
      <4>2. CASE MainAsksAgain
        BY <4>2, EmptyFlight DEF MainAsksAgain, NoAnswer
      <4>3. QED
        BY <3>1, <4>1, <4>2
    <3>4. InFlight' = 1
      BY <1>0, <2>5, <3>3, EmptyFlight, <2>3 DEF InFlight
    <3>5. QED
      BY <1>2, <1>4, <2>4, <3>2, <3>4
  <2>7. QED
    BY <1>2, <1>4, <2>4, <2>6
<1>5. QED
  BY <1>1, <1>3, <1>4

\* The SAMD takes the one message there is.
LEMMA AlignedHandling ==
  ASSUME Typed, Aligned, NEW k, NEW m, NEW pages, NEW a, Response(k, m, pages, a)
  PROVE  Aligned'
<1>0. /\ wire # <<>> /\ Head(wire).kind = k /\ wire' = Tail(wire)
      /\ stored' = pages /\ mode' = m
      /\ answers' = IF a = NoLine THEN answers ELSE Append(answers, a)
      /\ UNCHANGED <<pc, cmd, page, rsp, line, downloads, main>>
  BY DEF Response, Handles, SamdUnchanged, web, uart, others
<1>1. wire \in Seq(Anything) /\ answers \in Seq(Lines) /\ stored \in Seq(1 .. Pages)
  BY DEF Typed, TypeOK, Anything
<1>2. a = NoLine \/ a \in Lines
  BY DEF Response
<1>3. Len(wire') = Len(wire) - 1 /\ Len(answers') <= Len(answers) + 1 /\ Len(answers') \in Nat
  BY <1>0, <1>1, <1>2
<1>4. InFlight' <= InFlight
  BY <1>1, <1>3 DEF InFlight
<1>5. CASE pc \in Running
  <2>1. InFlight = 1 /\ pc = "wait" /\ line = NoLine /\ Head(wire) = Own
    BY <1>0, <1>5, EmptyFlight DEF Aligned, OneInFlight
  <2>2. k = cmd /\ answers = <<>> /\ wire' = <<>>
    <3>1. Len(wire) = 1 /\ answers = <<>>
      BY <1>0, <2>1, EmptyFlight
    <3>2. QED
      BY <1>0, <1>1, <2>1, <3>1 DEF Own
  <2>3. OkSeen' => a = "ok"
    BY <1>0, <1>2, <2>1, <2>2 DEF OkSeen, NoLine
  <2>4. OneInFlight'
    <3>1. InFlight' <= 1
      BY <1>3, <1>4, <2>1, EmptyFlight, <1>1 DEF InFlight
    <3>2. QED
      BY <1>0, <1>5, <2>1, <2>2, <3>1 DEF OneInFlight, Running
  <2>5. Last' = Last \/ (k = "yes" /\ Last' = 0) \/ (k = "page" /\ Last' = page)
    <3>1. CASE pages = stored
      BY <1>0, <3>1 DEF Last
    <3>2. CASE k = "yes" /\ pages = <<>>
      BY <1>0, <3>2 DEF Last
    <3>3. CASE k = "page" /\ pages = Append(stored, Head(wire).page)
      <4>1. Head(wire).page = page
        BY <2>1, <2>2, <3>3 DEF Own
      <4>2. stored' = Append(stored, page)
        BY <1>0, <3>3, <4>1
      <4>3. stored' # <<>> /\ stored'[Len(stored')] = page
        <5>1. page \in 1 .. Pages
          BY <1>5, <2>1, <2>2, <3>3 DEF Typed, PageInRange
        <5>2. QED
          BY <1>1, <4>2, <5>1, LastOfAppend
      <4>4. QED
        BY <3>3, <4>3 DEF Last
    <3>4. QED
      BY <3>1, <3>2, <3>3 DEF Response
  <2>6. cmd = "page" /\ a = "ok" => Last' = page
    <3>1. ASSUME cmd = "page", a = "ok" PROVE Last' = page
      <4>1. pages = Append(stored, page)
        BY <2>1, <2>2, <3>1 DEF Response, Own
      <4>2. page \in 1 .. Pages
        BY <1>5, <2>1, <2>2, <3>1 DEF Typed, PageInRange
      <4>3. stored' # <<>> /\ stored'[Len(stored')] = page
        BY <1>0, <1>1, <4>1, <4>2, LastOfAppend
      <4>4. QED
        BY <4>3 DEF Last
    <3>2. QED
      BY <3>1
  <2>7. cmd \in {"update", "yes"} => stored' = <<>>
    BY <1>0, <1>5, <2>2 DEF Aligned, InStep, Response
  <2>8. cmd = "yes" /\ a = "ok" => m # "ask"
    BY <2>2 DEF Response
  <2>9. cmd \in {"page", "done"} => m # "ask"
    BY <1>5, <2>2 DEF Response, Aligned, InStep
  <2>10. cmd = "done" => Last' = Pages
    BY <1>5, <2>2, <2>5 DEF Aligned, InStep
  <2>11. cmd = "page" => Last' \in {page - 1, page}
    BY <1>5, <2>2, <2>5 DEF Aligned, InStep
  <2>12. InStep'
    BY <1>0, <1>5, <2>1, <2>3, <2>6, <2>7, <2>8, <2>9, <2>10, <2>11 DEF Aligned, InStep, Running
  <2>13. QED
    BY <2>4, <2>12 DEF Aligned
<1>6. CASE pc \notin Running
  <2>1. \A b \in DOMAIN wire : wire[b] \in Foreign
    BY <1>6 DEF Aligned, InStep
  <2>2. Head(wire) \in Foreign /\ \A b \in DOMAIN wire' : wire'[b] \in Foreign
    BY <1>0, <1>1, <2>1
  <2>3. k \notin {"yes", "page"}
    BY <1>0, <2>2 DEF Foreign
  <2>4. stored' = stored
    BY <1>0, <2>3 DEF Response
  <2>5. pc = "lock" => Asked /\ line = NoLine
    BY <1>0, EmptyFlight DEF Aligned, OneInFlight
  <2>6. pc = "lock" => InFlight' <= 1
    BY <1>4, EmptyFlight, <1>1, <1>3 DEF Aligned, OneInFlight, InFlight
  <2>7. QED
    BY <1>0, <1>6, <2>2, <2>4, <2>5, <2>6 DEF Aligned, OneInFlight, InStep, Asked
<1>7. QED
  BY <1>5, <1>6

\* A line comes in, or the SAMD gives up.
LEMMA AlignedArrives ==
  ASSUME Typed, Aligned, Deliver \/ SamdRestarts
  PROVE  Aligned'
<1>1. CASE Deliver
  <2>1. /\ answers # <<>> /\ answers' = Tail(answers)
        /\ line' = Head(answers) \/ line' = line
        /\ UNCHANGED <<pc, cmd, page, rsp, downloads, main, wire, mode, stored>>
    BY <1>1 DEF Deliver, uart, web, others, samd
  <2>2. wire \in Seq(Anything) /\ answers \in Seq(Lines)
    BY DEF Typed, TypeOK, Anything
  <2>3. InFlight' = InFlight - 1 /\ InFlight >= 1
    BY <2>1, <2>2 DEF InFlight
  <2>4. pc \in Running => pc = "wait" /\ line = NoLine /\ InFlight' = 0
    BY <2>3 DEF Aligned, OneInFlight, InFlight
  <2>5. pc = "wait" /\ pc \in Running => (OkSeen' => OkSeen)
    <3>1. \A b \in DOMAIN answers' : b + 1 \in DOMAIN answers /\ answers'[b] = answers[b + 1]
      BY <2>1, <2>2
    <3>2. 1 \in DOMAIN answers /\ Head(answers) = answers[1]
      BY <2>1, <2>2
    <3>3. QED
      BY <2>1, <2>4, <3>1, <3>2 DEF OkSeen, NoLine
  <2>6. OneInFlight'
    <3>1. pc = "lock" => InFlight' = 0
      BY <2>3 DEF Aligned, OneInFlight, InFlight
    <3>2. Own' = Own
      BY <2>1 DEF Own
    <3>3. QED
      BY <2>1, <2>4, <3>1, <3>2 DEF Aligned, OneInFlight
  <2>7. InStep'
    BY <2>1, <2>4, <2>5 DEF Aligned, InStep, Last
  <2>8. QED
    BY <2>6, <2>7 DEF Aligned
<1>2. CASE SamdRestarts
  <2>1. UNCHANGED <<pc, cmd, page, rsp, line, downloads, main, wire, answers, stored>> /\ mode' = "run"
    BY <1>2 DEF SamdRestarts, SamdUnchanged, web, uart, others
  <2>2. QED
    BY <2>1 DEF Aligned, OneInFlight, InStep, Last, Own, OkSeen, InFlight, Asked
<1>3. QED
  BY <1>1, <1>2

LEMMA AlignedDownload ==
  ASSUME Gated, ~Late, ~Scans, Typed, Quiet, Aligned, (\E w \in {0, 1} : Start(w)) \/ Download
  PROVE  Aligned'
<1>0. wire \in Seq(Anything) /\ answers \in Seq(Lines)
  BY DEF Typed, TypeOK, Anything
<1>1. ASSUME NEW w \in {0, 1}, Start(w) PROVE Aligned'
  BY <1>1 DEF Start, Aligned, OneInFlight, InStep, Running, Typed, TypeOK
<1>2. CASE Drained
  <2>1. InFlight = 0 /\ pc = "drain" /\ pc' = "lock"
    BY <1>2, EmptyFlight DEF Drained
  <2>2. UNCHANGED <<wire, answers, main, line, stored, downloads>>
    BY <1>2 DEF Drained, web, uart, others, samd
  <2>3. InFlight' = 0
    BY <2>1, <2>2 DEF InFlight
  <2>4. QED
    BY <2>1, <2>2, <2>3 DEF Aligned, OneInFlight, InStep, Running
<1>3. CASE Lock
  <2>1. pc = "lock" /\ pc' = "send" /\ cmd' = "update" /\ samd_mutex = "free"
    BY <1>3 DEF Lock, Command
  <2>2. ~Asked
    BY <2>1 DEF Quiet
  <2>3. UNCHANGED <<wire, answers, line, stored, downloads, mode>>
    BY <1>3 DEF Lock, uart, samd
  <2>4. InFlight = 0 /\ wire = <<>>
    BY <2>1, <2>2, EmptyFlight DEF Aligned, OneInFlight
  <2>5. InFlight' = 0
    BY <2>3, <2>4 DEF InFlight
  <2>6. QED
    BY <2>1, <2>3, <2>4, <2>5 DEF Aligned, OneInFlight, InStep, Running
<1>4. CASE Send
  <2>1. /\ pc = "send" /\ pc' = "wait" /\ line' = NoLine /\ wire' = Append(wire, Own)
        /\ UNCHANGED <<cmd, page, rsp, downloads, answers, mode, stored>>
    BY <1>4 DEF Send, Own, web, samd
  <2>2. wire = <<>> /\ answers = <<>>
    BY <2>1, EmptyFlight DEF Aligned, OneInFlight, Running
  <2>3. wire' = <<Own>>
    BY <2>1, <2>2
  <2>4. Head(wire') = Own' /\ InFlight' = 1
    BY <2>1, <2>2, <2>3 DEF Own, InFlight
  <2>5. ~OkSeen'
    BY <2>1, <2>2 DEF OkSeen, NoLine
  <2>6. OneInFlight'
    BY <2>1, <2>4 DEF OneInFlight, Running
  <2>7. InStep'
    BY <2>1, <2>5 DEF Aligned, InStep, Running, Last
  <2>8. QED
    BY <2>6, <2>7 DEF Aligned
<1>5. CASE Answered
  <2>1. /\ pc = "wait" /\ line # NoLine /\ pc' = "reply" /\ rsp' = line
        /\ UNCHANGED <<cmd, page, downloads, answers, mode, stored, wire, line, main>>
    BY <1>5 DEF Answered, uart, others, samd
  <2>2. InFlight' = InFlight /\ Own' = Own /\ Last' = Last /\ InFlight = 0
    BY <2>1 DEF InFlight, Own, Last, Aligned, OneInFlight, Running
  <2>3. OkSeen' => OkSeen
    BY <2>1 DEF OkSeen
  <2>4. OneInFlight'
    BY <2>1, <2>2 DEF OneInFlight, Running, Aligned
  <2>5. InStep'
    BY <2>1, <2>2, <2>3 DEF InStep, Running, Aligned
  <2>6. QED
    BY <2>4, <2>5 DEF Aligned
<1>6. CASE Expire
  <2>1. /\ pc = "wait" /\ line = NoLine /\ wire = <<>> /\ answers = <<>>
        /\ UNCHANGED <<cmd, page, downloads, answers, mode, stored, wire, line, main>>
    BY <1>6 DEF Expire, others, samd
  <2>2. pc' = "send" \/ (pc' = "reply" /\ rsp' = NoLine)
    BY <1>6 DEF Expire
  <2>3. InFlight' = 0 /\ ~OkSeen' /\ Last' = Last
    BY <2>1, <2>2, EmptyFlight DEF InFlight, OkSeen, NoLine, Last
  <2>4. OneInFlight'
    BY <2>1, <2>2, <2>3 DEF OneInFlight, Running
  <2>5. InStep'
    BY <2>1, <2>2, <2>3 DEF InStep, Running, Aligned
  <2>6. QED
    BY <2>4, <2>5 DEF Aligned
<1>7. CASE Pause
  <2>1. /\ pc = "pause" /\ pc' = "send" /\ cmd' = "update"
        /\ UNCHANGED <<wire, answers, line, stored, downloads, mode>>
    BY <1>7 DEF Pause, Command, uart, samd
  <2>2. InFlight = 0
    BY <2>1 DEF Aligned, OneInFlight, Running
  <2>3. InFlight' = 0 /\ wire = <<>>
    BY <2>1, <2>2, EmptyFlight DEF InFlight
  <2>4. stored = <<>>
    BY <2>1 DEF Typed, PauseOnce, Aligned, InStep, Running
  <2>5. QED
    BY <2>1, <2>3, <2>4 DEF Aligned, OneInFlight, InStep, Running
<1>8. CASE Enable
  <2>1. /\ pc = "enable" /\ pc' = "idle" /\ UNCHANGED <<wire, downloads>>
    BY <1>8 DEF Enable, web
  <2>2. QED
    BY <2>1 DEF Aligned, OneInFlight, InStep, Running
<1>9. CASE \/ UpdateSilent \/ UpdateRefused \/ UpdateAccepted \/ YesFailed \/ YesAccepted
           \/ PageStored \/ PageRefused \/ PageSilent \/ DoneReplied
  <2>1. /\ pc = "reply"
        /\ UNCHANGED <<downloads, rsp, line, main, wire, answers, mode, stored>>
    BY <1>9, AfterReply
  <2>2. InFlight = 0 /\ wire = <<>> /\ answers = <<>> /\ InFlight' = 0 /\ Last' = Last
    BY <2>1, EmptyFlight DEF Aligned, OneInFlight, Running, InFlight, Last
  <2>3. pc' \in {"send", "pause", "enable"} /\ OneInFlight'
    BY <1>9, <2>1, <2>2, AfterReply DEF OneInFlight, GoesOn
  <2>4. ~OkSeen'
    BY <2>1, <2>2, <2>3 DEF OkSeen
  <2>5. downloads' # 0 /\ \A b \in DOMAIN wire' : FALSE
    BY <2>1, <2>2 DEF Aligned, InStep
  <2>6. CASE pc' = "enable"
    BY <2>3, <2>5, <2>6 DEF Aligned, InStep, Running
  <2>7. CASE GoesOn /\ cmd' = cmd /\ page' = page /\ cmd \in {"update", "page"}
    BY <2>1, <2>2, <2>3, <2>4, <2>5, <2>7 DEF Aligned, InStep, Running, GoesOn
  <2>8. CASE GoesOn /\ cmd = "update" /\ cmd' = "yes"
    BY <2>1, <2>2, <2>3, <2>4, <2>5, <2>8 DEF Aligned, InStep, Running, GoesOn
  <2>9. CASE GoesOn /\ cmd = "yes" /\ rsp = "ok" /\ page' = 1
             /\ cmd' = IF page' <= Pages THEN "page" ELSE "done"
    <3>1. mode # "ask" /\ Last = 0
      BY <2>1, <2>9 DEF Aligned, InStep, Running, OkSeen, Last
    <3>2. cmd' = "done" => Pages = 0
      BY <2>9, PagesAssumption
    <3>3. QED
      BY <2>1, <2>2, <2>3, <2>4, <2>5, <2>9, <3>1, <3>2 DEF Aligned, InStep, Running, GoesOn
  <2>10. CASE GoesOn /\ cmd = "page" /\ rsp = "ok" /\ page' = page + 1
              /\ cmd' = IF page' <= Pages THEN "page" ELSE "done"
    <3>1. mode # "ask" /\ Last = page
      BY <2>1, <2>10 DEF Aligned, InStep, Running, OkSeen
    <3>2. page \in 1 .. Pages
      BY <2>1, <2>10 DEF Typed, PageInRange
    <3>3. cmd' = "done" => page = Pages
      BY <2>10, <3>2, PagesAssumption
    <3>4. page' - 1 = page
      BY <2>10, <3>2
    <3>5. QED
      BY <2>1, <2>2, <2>3, <2>4, <2>5, <2>10, <3>1, <3>3, <3>4 DEF Aligned, InStep, Running, GoesOn
  <2>11. QED
    BY <1>9, <2>6, <2>7, <2>8, <2>9, <2>10, AfterReply
<1>10. QED
  BY <1>1, <1>2, <1>3, <1>4, <1>5, <1>6, <1>7, <1>8, <1>9 DEF Download

LEMMA AlignedStep ==
  ASSUME Gated, ~Late, ~Scans, Typed, Quiet, Aligned, [Next]_vars
  PROVE  Aligned'
<1>1. CASE UNCHANGED vars
  BY <1>1 DEF vars, Aligned, OneInFlight, InStep, InFlight, OkSeen, Own, Last, Asked
<1>2. CASE Handling
  <2>1. mode \in {"run", "ask", "data"}
    BY DEF Typed, TypeOK
  <2>2. PICK k, m, pages, a : Response(k, m, pages, a)
    BY <1>2, <2>1, SamdResponds
  <2>3. QED
    BY <2>2, AlignedHandling
<1>3. CASE MainLoop \/ DmxThread
  BY <1>3, AlignedOthers
<1>4. CASE Deliver \/ SamdRestarts
  BY <1>4, AlignedArrives
<1>5. CASE (\E w \in {0, 1} : Start(w)) \/ Download
  BY <1>5, AlignedDownload
<1>6. QED
  BY <1>1, <1>2, <1>3, <1>4, <1>5 DEF Next, Samd

LEMMA SpecAligned ==
  ASSUME Gated, ~Late, ~Scans
  PROVE  Spec => [](Typed /\ Quiet /\ Aligned)
<1>1. Init => Aligned
  BY DEF Init, Aligned, OneInFlight, InStep, Running
<1>2. Typed /\ Quiet /\ Aligned /\ [Next]_vars => Aligned'
  BY AlignedStep
<1>3. QED
  BY <1>1, <1>2, TypedInit, TypedStep, QuietAlways, PTL DEF Spec

-----------------------------------------------------------------------------
(* The download implements the transfer of the pages. *)

LEMMA LastIs == Transfer!LastReceived = Last
  BY DEF Transfer!LastReceived, Last

\* The outcome changes only at the start and when the download returns.
LEMMA OutcomeKept ==
  ASSUME UNCHANGED <<rc, downloads>>,
         pc \in {"idle", "enable"} <=> pc' \in {"idle", "enable"}
  PROVE  Outcome' = Outcome
BY DEF Outcome

LEMMA OutcomeOpen ==
  ASSUME Typed, InStep, pc \notin {"idle", "enable"}
  PROVE  Outcome = "open" /\ downloads > 0
<1>1. downloads > 0 /\ downloads # 0
  BY BoundsAssumption DEF Typed, TypeOK, InStep
<1>2. QED
  BY <1>1 DEF Outcome

LEMMA TransferSends ==
  ASSUME Typed, Aligned, (\E w \in {0, 1} : Start(w)) \/ Download
  PROVE  Transfer!Next \/ UNCHANGED <<stored, Outcome>>
<1>1. ASSUME NEW w \in {0, 1}, Start(w) PROVE Transfer!Begin
  <2>1. pc = "idle" /\ pc' = "drain" /\ stored' = <<>> /\ downloads' = downloads + 1
    BY <1>1 DEF Start
  <2>2. downloads' > 0 /\ downloads' # 0
    BY <2>1, BoundsAssumption DEF Typed, TypeOK
  <2>3. Outcome # "open"
    BY <2>1 DEF Outcome
  <2>4. Outcome' = "open"
    BY <2>1, <2>2 DEF Outcome
  <2>5. QED
    BY <2>1, <2>3, <2>4 DEF Transfer!Begin
<1>2. CASE Drained \/ Lock \/ Send \/ Answered \/ Expire \/ Pause \/ Enable
  <2>1. UNCHANGED <<stored, rc, downloads>> /\ (pc \in {"idle", "enable"} <=> pc' \in {"idle", "enable"})
    BY <1>2 DEF Drained, Lock, Send, Answered, Expire, Pause, Enable, Command, web, samd
  <2>2. QED
    BY <2>1, OutcomeKept
<1>3. CASE \/ UpdateSilent \/ UpdateRefused \/ UpdateAccepted \/ YesFailed \/ YesAccepted
           \/ PageStored \/ PageRefused \/ PageSilent \/ DoneReplied
  <2>1. pc = "reply" /\ UNCHANGED <<stored, downloads>>
    BY <1>3, AfterReply
  <2>2. Outcome = "open" /\ downloads > 0
    BY <2>1, OutcomeOpen DEF Aligned
  <2>3. CASE GoesOn
    BY <2>1, <2>3, OutcomeKept DEF GoesOn
  <2>4. CASE pc' = "enable" /\ rc' # 0
    <3>1. Outcome' = "failed"
      BY <2>1, <2>2, <2>4 DEF Outcome
    <3>2. QED
      BY <2>1, <2>2, <3>1 DEF Transfer!Next, Transfer!Fail
  <2>5. CASE pc' = "enable" /\ rc' = 0 /\ cmd = "done"
    <3>1. Outcome' = "done"
      BY <2>1, <2>2, <2>5 DEF Outcome
    <3>2. Transfer!LastReceived = Pages
      BY <2>1, <2>5, LastIs DEF Aligned, InStep, Running
    <3>3. QED
      BY <2>1, <2>2, <3>1, <3>2 DEF Transfer!Next, Transfer!Succeed
  <2>6. QED
    BY <1>3, <2>3, <2>4, <2>5, AfterReply
<1>4. QED
  BY <1>1, <1>2, <1>3 DEF Download, Transfer!Next

LEMMA TransferStores ==
  ASSUME Typed, Aligned, NEW k, NEW m, NEW pages, NEW a, Response(k, m, pages, a)
  PROVE  Transfer!Next \/ UNCHANGED <<stored, Outcome>>
<1>1. /\ wire # <<>> /\ Head(wire).kind = k
      /\ stored' = pages /\ UNCHANGED <<pc, rc, downloads>>
  BY DEF Response, Handles, SamdUnchanged, web
<1>2. Outcome' = Outcome
  BY <1>1, OutcomeKept
<1>3. wire \in Seq(Anything) /\ 1 \in DOMAIN wire /\ Head(wire) = wire[1]
  BY <1>1 DEF Typed, TypeOK, Anything
<1>4. CASE stored' = stored
  BY <1>2, <1>4
<1>5. CASE stored' # stored
  <2>1. k \in {"yes", "page"}
    BY <1>1, <1>5 DEF Response
  <2>2. pc \in Running
    BY <1>1, <1>3, <2>1 DEF Aligned, InStep, Foreign
  <2>3. Head(wire) = Own /\ k = cmd
    BY <1>1, <2>2 DEF Aligned, OneInFlight, Own
  <2>4. k = "page"
    <3>1. k = "yes" => stored = <<>> /\ (pages = stored \/ pages = <<>>)
      BY <2>1, <2>2, <2>3 DEF Aligned, InStep, Response
    <3>2. QED
      BY <1>1, <1>5, <2>1, <3>1
  <2>5. stored' = Append(stored, page)
    BY <1>1, <1>5, <2>3, <2>4 DEF Response, Own
  <2>6. page \in 1 .. Pages
    BY <1>1, <2>2, <2>3, <2>4, EmptyFlight DEF Typed, PageInRange, Aligned, OneInFlight
  <2>7. Last \in {page - 1, page}
    BY <2>2, <2>3, <2>4 DEF Aligned, InStep
  <2>8. page \in {Last, Last + 1}
    BY <2>6, <2>7, PagesAssumption
  <2>9. Outcome = "open"
    BY <2>2, OutcomeOpen DEF Running, Aligned
  <2>10. Transfer!Accept
    BY <1>2, <2>5, <2>6, <2>8, <2>9, LastIs DEF Transfer!Accept
  <2>11. QED
    BY <2>10 DEF Transfer!Next
<1>6. QED
  BY <1>4, <1>5

LEMMA TransferStep ==
  ASSUME Typed, Aligned, [Next]_vars
  PROVE  [Transfer!Next]_<<stored, Outcome>>
<1>1. ASSUME UNCHANGED <<stored, pc, rc, downloads>> PROVE UNCHANGED <<stored, Outcome>>
  BY <1>1, OutcomeKept
<1>2. CASE Handling
  <2>1. mode \in {"run", "ask", "data"}
    BY DEF Typed, TypeOK
  <2>2. PICK k, m, pages, a : Response(k, m, pages, a)
    BY <1>2, <2>1, SamdResponds
  <2>3. QED
    BY <2>2, TransferStores
<1>3. CASE MainLoop \/ DmxThread
  BY <1>1, <1>3 DEF MainLoop, MainWakes, MainFrame, MainTests, MainAsks, MainAsksAgain, MainHears,
                    MainUnchanged, DmxThread, DmxArrives, DmxForwarded, DmxUnchanged, web, samd
<1>4. CASE Deliver \/ SamdRestarts \/ UNCHANGED vars
  BY <1>1, <1>4 DEF Deliver, SamdRestarts, SamdUnchanged, vars, web, samd
<1>5. CASE (\E w \in {0, 1} : Start(w)) \/ Download
  BY <1>5, TransferSends
<1>6. QED
  BY <1>2, <1>3, <1>4, <1>5 DEF Next, Samd

\* With Art-Net, answers in time and AT commands of the main loop that are
\* shorter than the delay, any number of downloads of any number of pages, next
\* to the other threads, are transfers: the SAMD stores the pages in their order
\* with none left out, whatever it refuses and whichever answers are lost, and 0
\* is returned only when it has stored the last page.
THEOREM DownloadTransfers == Gated /\ ~Late /\ ~Scans => (Spec => TransferSpec)
<1> SUFFICES ASSUME Gated, ~Late, ~Scans PROVE Spec => TransferSpec
  OBVIOUS
<1>1. Init => Transfer!Init
  BY DEF Init, Transfer!Init, Outcome
<1>2. Typed /\ Aligned /\ [Next]_vars => [Transfer!Next]_<<stored, Outcome>>
  BY TransferStep
<1>3. QED
  BY <1>1, <1>2, SpecAligned, PTL DEF Spec, TransferSpec, Transfer!Spec

-----------------------------------------------------------------------------
(* Counting in sequences. *)

CountOf(s, e) == Cardinality({b \in DOMAIN s : s[b] = e})

LEMMA Elements ==
  ASSUME NEW S, NEW s \in Seq(S)
  PROVE  DOMAIN s = 1 .. Len(s) /\ Len(s) \in Nat /\ \A c \in DOMAIN s : s[c] \in S
OBVIOUS

LEMMA CountType ==
  ASSUME NEW S, NEW s \in Seq(S), NEW e
  PROVE  IsFiniteSet({b \in DOMAIN s : s[b] = e}) /\ CountOf(s, e) \in Nat
<1>1. IsFiniteSet(1 .. Len(s))
  BY FS_Interval
<1>2. {b \in DOMAIN s : s[b] = e} \in SUBSET (1 .. Len(s))
  OBVIOUS
<1>3. IsFiniteSet({b \in DOMAIN s : s[b] = e})
  BY <1>1, <1>2, FS_Subset
<1>4. QED
  BY <1>3, FS_CardinalityType DEF CountOf

LEMMA CountNone ==
  ASSUME NEW S, NEW s \in Seq(S), NEW e, \A b \in DOMAIN s : s[b] # e
  PROVE  CountOf(s, e) = 0
<1>1. {b \in DOMAIN s : s[b] = e} = {}
  OBVIOUS
<1>2. QED
  BY <1>1, FS_EmptySet DEF CountOf

LEMMA CountAppend ==
  ASSUME NEW S, NEW s \in Seq(S), NEW x \in S, NEW e
  PROVE  CountOf(Append(s, x), e) = CountOf(s, e) + (IF x = e THEN 1 ELSE 0)
<1> DEFINE A == {b \in DOMAIN s : s[b] = e}
           t == Append(s, x)
<1>1. /\ Len(t) = Len(s) + 1 /\ DOMAIN t = 1 .. Len(s) + 1 /\ DOMAIN s = 1 .. Len(s)
      /\ t[Len(s) + 1] = x /\ \A b \in DOMAIN s : t[b] = s[b]
      /\ Len(s) \in Nat
  OBVIOUS
<1>2. IsFiniteSet(A) /\ CountOf(s, e) \in Nat
  BY CountType
<1>3. CASE x = e
  <2>1. {b \in DOMAIN t : t[b] = e} = A \cup {Len(s) + 1}
    BY <1>1, <1>3
  <2>2. Len(s) + 1 \notin A
    BY <1>1
  <2>3. Cardinality(A \cup {Len(s) + 1}) = Cardinality(A) + 1
    BY <1>2, <2>2, FS_AddElement
  <2>4. CountOf(t, e) = Cardinality(A \cup {Len(s) + 1}) /\ CountOf(s, e) = Cardinality(A)
    BY <2>1, Zenon DEF CountOf
  <2>5. CountOf(t, e) = CountOf(s, e) + 1
    BY <2>3, <2>4, Zenon
  <2>6. QED
    BY <1>3, <2>5
<1>4. CASE x # e
  <2>1. {b \in DOMAIN t : t[b] = e} = A
    BY <1>1, <1>4
  <2>2. CountOf(t, e) = CountOf(s, e)
    BY <2>1, Zenon DEF CountOf
  <2>3. QED
    BY <1>2, <1>4, <2>2
<1>5. QED
  BY <1>3, <1>4

LEMMA CountTail ==
  ASSUME NEW S, NEW s \in Seq(S), s # <<>>, NEW e
  PROVE  CountOf(s, e) = CountOf(Tail(s), e) + (IF Head(s) = e THEN 1 ELSE 0)
<1> DEFINE A == {b \in DOMAIN s : s[b] = e}
           t == Tail(s)
           B == {b \in DOMAIN t : t[b] = e}
           f == [b \in B |-> b + 1]
<1>1. /\ Len(s) \in Nat \ {0} /\ DOMAIN s = 1 .. Len(s) /\ DOMAIN t = 1 .. Len(s) - 1
      /\ Head(s) = s[1] /\ t \in Seq(S)
      /\ \A b \in DOMAIN t : t[b] = s[b + 1]
  OBVIOUS
<1>2. IsFiniteSet(A) /\ CountOf(s, e) \in Nat /\ IsFiniteSet(B) /\ CountOf(t, e) \in Nat
  BY <1>1, CountType
<1>3. \A b \in B : b \in Nat /\ b + 1 \in A \ {1}
  BY <1>1
<1>4. f \in [B -> A \ {1}]
  BY <1>3
<1>5. \A a \in A \ {1} : a - 1 \in B /\ f[a - 1] = a
  <2> SUFFICES ASSUME NEW a \in A \ {1} PROVE a - 1 \in B /\ f[a - 1] = a
    OBVIOUS
  <2>1. a \in 2 .. Len(s) /\ s[a] = e
    BY <1>1
  <2>2. a - 1 \in DOMAIN t /\ (a - 1) + 1 = a
    BY <1>1, <2>1
  <2>3. t[a - 1] = s[a]
    BY <1>1, <2>2
  <2>4. a - 1 \in B
    BY <2>1, <2>2, <2>3
  <2>5. QED
    BY <2>2, <2>4
<1>6. \A b, c \in B : f[b] = f[c] => b = c
  BY <1>3
<1>7. f \in Injection(B, A \ {1})
  BY <1>4, <1>6 DEF Injection, IsInjective
<1>8. f \in Surjection(B, A \ {1})
  BY <1>4, <1>5 DEF Surjection
<1>9. ExistsBijection(B, A \ {1})
  BY <1>7, <1>8 DEF ExistsBijection, Bijection
<1>10. Cardinality(A \ {1}) = Cardinality(B)
  BY <1>2, <1>9, FS_Bijection
<1>11. Cardinality(A \ {1}) = IF 1 \in A THEN Cardinality(A) - 1 ELSE Cardinality(A)
  BY <1>2, FS_RemoveElement
<1>12. 1 \in A <=> Head(s) = e
  BY <1>1
<1>13. CountOf(s, e) = Cardinality(A) /\ CountOf(t, e) = Cardinality(B)
  BY DEF CountOf
<1>14. CountOf(t, e) = IF Head(s) = e THEN CountOf(s, e) - 1 ELSE CountOf(s, e)
  BY <1>10, <1>11, <1>12, <1>13, Zenon
<1>15. QED
  <2> HIDE DEF t, A, B
  <2>1. CountOf(s, e) \in Nat
    BY <1>2
  <2>2. CASE Head(s) = e
    BY <1>14, <2>1, <2>2 DEF t
  <2>3. CASE Head(s) # e
    BY <1>14, <2>1, <2>3 DEF t
  <2>4. QED
    BY <2>2, <2>3

-----------------------------------------------------------------------------
(* The order of the pages, with late answers too. *)

IsPage(b)  == wire[b].kind = "page"
PageMsg(p) == [kind |-> "page", page |-> p]

\* The copies of page p that the SAMD has stored or has still to handle, and
\* how often the download has sent the page it is at.
Copies(p) == CountOf(stored, p) + CountOf(wire, PageMsg(p))
Sent      == 2 * try + try_snd + (IF pc = "send" THEN 0 ELSE 1)

\* The pages stored and the pages on the wire behind them are in order.
Sorted ==
  /\ \A a, b \in DOMAIN stored : a < b => stored[a] <= stored[b]
  /\ \A a \in DOMAIN stored, b \in DOMAIN wire : IsPage(b) => stored[a] <= wire[b].page
  /\ \A a, b \in DOMAIN wire : a < b /\ IsPage(a) /\ IsPage(b) => wire[a].page <= wire[b].page

\* No page of an earlier download is under way when this one begins, and an
\* "ok" can then only be the answer to "yes", which empties the SAMD's memory.
CleanStart ==
  pc = "lock" \/ (pc \in Running /\ cmd \in {"update", "yes"}) =>
    /\ \A b \in DOMAIN wire : wire[b].kind \notin {"page", "done"}
    /\ OkSeen => stored = <<>>

\* No later page than the download's own exists.
UpToPage ==
  pc \in Running /\ cmd = "page" =>
    /\ \A a \in DOMAIN stored : stored[a] <= page
    /\ \A b \in DOMAIN wire : IsPage(b) => wire[b].page <= page
    /\ Copies(page) <= Sent

FewCopies == \A p \in 1 .. Pages : Copies(p) <= 4

InOrder == Sorted /\ CleanStart /\ UpToPage /\ FewCopies

LEMMA CopiesType ==
  ASSUME Typed, NEW p
  PROVE  CountOf(stored, p) \in Nat /\ CountOf(wire, PageMsg(p)) \in Nat /\ Copies(p) \in Nat
<1>1. wire \in Seq(Anything) /\ stored \in Seq(1 .. Pages)
  BY DEF Typed, TypeOK, Anything
<1>2. CountOf(stored, p) \in Nat
  BY <1>1, CountType
<1>3. CountOf(wire, PageMsg(p)) \in Nat
  BY <1>1, CountType
<1>4. QED
  BY <1>2, <1>3 DEF Copies

\* Steps that leave the pages stored and the pages on the wire alone.
LEMMA QueueKept ==
  ASSUME Typed, Sorted, FewCopies, UNCHANGED stored,
         wire' = wire \/ \E m \in Anything : m.kind # "page" /\ wire' = Append(wire, m)
  PROVE  /\ Sorted' /\ FewCopies'
         /\ \A p : CountOf(wire', PageMsg(p)) = CountOf(wire, PageMsg(p))
<1>1. wire \in Seq(Anything)
  BY DEF Typed, TypeOK, Anything
<1>2. \A b \in DOMAIN wire' : \/ b \in DOMAIN wire /\ wire'[b] = wire[b]
                              \/ wire'[b].kind # "page"
  BY <1>1
<1>3. \A p : CountOf(wire', PageMsg(p)) = CountOf(wire, PageMsg(p))
  <2> SUFFICES ASSUME NEW p PROVE CountOf(wire', PageMsg(p)) = CountOf(wire, PageMsg(p))
    OBVIOUS
  <2>1. CASE wire' = wire
    BY <2>1
  <2>2. CASE \E m \in Anything : m.kind # "page" /\ wire' = Append(wire, m)
    <3>1. PICK m \in Anything : m.kind # "page" /\ wire' = Append(wire, m)
      BY <2>2
    <3>2. m # PageMsg(p)
      BY <3>1 DEF PageMsg
    <3>3. CountOf(wire', PageMsg(p)) = CountOf(wire, PageMsg(p)) + 0
      BY <1>1, <3>1, <3>2, CountAppend
    <3>4. QED
      BY <3>3, CopiesType
  <2>3. QED
    BY <2>1, <2>2
<1>4. \A p : Copies(p)' = Copies(p)
  BY <1>3 DEF Copies, PageMsg
<1>5. Sorted'
  BY <1>1, <1>2 DEF Sorted, IsPage
<1>6. FewCopies'
  BY <1>4 DEF FewCopies
<1>7. QED
  BY <1>3, <1>5, <1>6

LEMMA OrderKept ==
  ASSUME Typed, InOrder,
         UNCHANGED stored,
         wire' = wire \/ \E m \in Anything : m.kind \notin {"page", "done"} /\ wire' = Append(wire, m),
         pc' = "lock" \/ (pc' \in Running /\ cmd' \in {"update", "yes"}) =>
           /\ pc = "lock" \/ (pc \in Running /\ cmd \in {"update", "yes"})
           /\ OkSeen' => OkSeen,
         pc' \in Running /\ cmd' = "page" =>
           pc \in Running /\ cmd = "page" /\ page' = page /\ Sent' \in Int /\ Sent <= Sent'
  PROVE  InOrder'
<1>1. wire \in Seq(Anything)
  BY DEF Typed, TypeOK, Anything
<1>2. \A b \in DOMAIN wire' : \/ b \in DOMAIN wire /\ wire'[b] = wire[b]
                              \/ wire'[b].kind \notin {"page", "done"}
  BY <1>1
<1>3. /\ Sorted' /\ FewCopies'
      /\ \A p : CountOf(wire', PageMsg(p)) = CountOf(wire, PageMsg(p))
  BY QueueKept DEF InOrder
<1>4. CleanStart'
  BY <1>2 DEF InOrder, CleanStart
<1>5. UpToPage'
  <2> SUFFICES ASSUME pc' \in Running, cmd' = "page"
               PROVE  /\ \A a \in DOMAIN stored' : stored'[a] <= page'
                      /\ \A b \in DOMAIN wire' : IsPage(b)' => wire'[b].page <= page'
                      /\ Copies(page)' <= Sent'
    BY DEF UpToPage
  <2>1. pc \in Running /\ cmd = "page" /\ page' = page /\ Sent' \in Int /\ Sent <= Sent'
    OBVIOUS
  <2>2. Copies(page)' = Copies(page) /\ Copies(page) <= Sent
    BY <1>3, <2>1 DEF InOrder, UpToPage, Copies, PageMsg
  <2>3. Sent \in Int
    BY DEF Sent, Typed, TypeOK
  <2>4. QED
    BY <1>2, <2>1, <2>2, <2>3, CopiesType DEF InOrder, UpToPage, IsPage
<1>6. QED
  BY <1>3, <1>4, <1>5 DEF InOrder

\* One more page stored is one more copy of it.
LEMMA CountStored ==
  ASSUME Typed, NEW x \in 1 .. Pages, NEW p
  PROVE  CountOf(Append(stored, x), p) = CountOf(stored, p) + (IF x = p THEN 1 ELSE 0)
<1>1. stored \in Seq(1 .. Pages)
  BY DEF Typed, TypeOK
<1> DEFINE S == 1 .. Pages
<1> HIDE DEF S
<1>2. \A s \in Seq(S) : \A y \in S :
        CountOf(Append(s, y), p) = CountOf(s, p) + (IF y = p THEN 1 ELSE 0)
  BY CountAppend
<1>3. QED
  BY <1>1, <1>2 DEF S

LEMMA OrderHandling ==
  ASSUME Typed, InOrder, NEW k, NEW m, NEW pages, NEW a, Response(k, m, pages, a)
  PROVE  InOrder'
<1>0. /\ wire # <<>> /\ Head(wire).kind = k /\ wire' = Tail(wire)
      /\ stored' = pages
      /\ answers' = IF a = NoLine THEN answers ELSE Append(answers, a)
      /\ UNCHANGED <<pc, cmd, page, rsp, line, try, try_snd>>
  BY DEF Response, Handles, SamdUnchanged, web, uart
<1>1. wire \in Seq(Anything) /\ stored \in Seq(1 .. Pages) /\ answers \in Seq(Lines)
  BY DEF Typed, TypeOK, Anything
<1>2. /\ 1 \in DOMAIN wire /\ Head(wire) = wire[1]
      /\ \A b \in DOMAIN wire' : b + 1 \in DOMAIN wire /\ wire'[b] = wire[b + 1] /\ b \in Nat \ {0}
  BY <1>0, <1>1
<1>3. \A p : CountOf(wire, PageMsg(p)) = CountOf(wire', PageMsg(p)) + (IF Head(wire) = PageMsg(p) THEN 1 ELSE 0)
  BY <1>0, <1>1, CountTail
<1>4. /\ wire' \in Seq(Anything) /\ stored' \in Seq(1 .. Pages)
      /\ k = "page" => Head(wire).page \in 1 .. Pages /\ Head(wire) = PageMsg(Head(wire).page)
  <2>1. wire' \in Seq(Anything) /\ Head(wire) \in Anything
    BY <1>0, <1>1, WireShrinks
  <2>2. k = "page" => Head(wire).page \in 1 .. Pages /\ Head(wire) = PageMsg(Head(wire).page)
    BY <1>0, <2>1 DEF Anything, Message, Foreign, PageMsg
  <2>3. stored' \in Seq(1 .. Pages)
    <3>1. <<>> \in Seq(1 .. Pages)
      OBVIOUS
    <3>2. k = "page" => Append(stored, Head(wire).page) \in Seq(1 .. Pages)
      BY <1>1, <2>2
    <3>3. QED
      BY <1>0, <1>1, <3>1, <3>2 DEF Response
  <2>4. QED
    BY <2>1, <2>2, <2>3
<1>5. \A p : /\ CountOf(wire', PageMsg(p)) \in Nat /\ CountOf(stored', p) \in Nat
             /\ CountOf(wire, PageMsg(p)) \in Nat /\ CountOf(stored, p) \in Nat
  BY <1>1, <1>4, CountType
<1> DEFINE x == Head(wire).page
<1>6. k = "page" /\ pages = Append(stored, x) =>
        \A p : CountOf(stored', p) = CountOf(stored, p) + (IF x = p THEN 1 ELSE 0)
  <2> SUFFICES ASSUME k = "page", stored' = Append(stored, x), NEW p
               PROVE  CountOf(stored', p) = CountOf(stored, p) + (IF x = p THEN 1 ELSE 0)
    BY <1>0
  <2>1. x \in 1 .. Pages
    BY <1>4
  <2>2. QED
    BY <2>1, CountStored
<1>7. \A p : Copies(p)' <= Copies(p)
  <2> SUFFICES ASSUME NEW p PROVE Copies(p)' <= Copies(p)
    OBVIOUS
  <2>1. Copies(p)' = CountOf(stored', p) + CountOf(wire', PageMsg(p))
    BY DEF Copies, PageMsg
  <2>2. CASE pages = stored
    BY <1>0, <1>3, <1>5, <2>1, <2>2 DEF Copies
  <2>3. CASE pages = <<>>
    <3>1. CountOf(stored', p) = 0
      <4>1. stored' = <<>>
        BY <1>0, <2>3
      <4>2. \A b \in DOMAIN stored' : stored'[b] # p
        BY <4>1
      <4>3. QED
        BY <1>4, <4>2, CountNone
    <3>2. QED
      BY <1>3, <1>5, <2>1, <3>1 DEF Copies
  <2>4. CASE k = "page" /\ pages = Append(stored, x)
    <3>1. x = p => Head(wire) = PageMsg(p)
      BY <1>4, <2>4
    <3>2. QED
      BY <1>3, <1>5, <1>6, <2>1, <2>4, <3>1 DEF Copies
  <2>5. QED
    BY <2>2, <2>3, <2>4 DEF Response
<1>8. \A c \in DOMAIN stored' :
        \/ c \in DOMAIN stored /\ stored'[c] = stored[c]
        \/ c = Len(stored) + 1 /\ stored'[c] = x /\ k = "page" /\ x \in 1 .. Pages
  <2>1. CASE pages = stored
    BY <1>0, <2>1
  <2>2. CASE pages = <<>>
    BY <1>0, <2>2
  <2>3. CASE k = "page" /\ pages = Append(stored, x)
    BY <1>0, <1>1, <1>4, <2>3
  <2>4. QED
    BY <2>1, <2>2, <2>3 DEF Response
<1>9. /\ \A c \in DOMAIN stored : c \in Nat /\ c <= Len(stored) /\ stored[c] \in 1 .. Pages
      /\ Len(stored) \in Nat
      /\ \A b \in DOMAIN wire : IsPage(b) => wire[b].page \in 1 .. Pages
  <2>1. \A n \in Anything : n.kind = "page" => n.page \in 1 .. Pages
    BY DEF Anything, Message, Foreign
  <2>2. \A b \in DOMAIN wire : wire[b] \in Anything
    BY <1>1
  <2>3. DOMAIN stored = 1 .. Len(stored) /\ Len(stored) \in Nat
    BY <1>1, Elements
  <2>4. \A c \in DOMAIN stored : stored[c] \in 1 .. Pages
    BY <1>1, Elements
  <2>5. QED
    BY <2>1, <2>2, <2>3, <2>4 DEF IsPage
<1>10. Sorted'
  <2>1. \A c, d \in DOMAIN stored' : c < d => stored'[c] <= stored'[d]
    BY <1>0, <1>2, <1>8, <1>9, PagesAssumption DEF InOrder, Sorted, IsPage
  <2>2. ASSUME NEW c \in DOMAIN stored', NEW b \in DOMAIN wire', IsPage(b)'
        PROVE  stored'[c] <= wire'[b].page
    <3>1. b + 1 \in DOMAIN wire /\ wire'[b] = wire[b + 1] /\ IsPage(b + 1) /\ 1 < b + 1
      BY <1>2, <2>2 DEF IsPage
    <3>2. CASE c \in DOMAIN stored /\ stored'[c] = stored[c]
      BY <3>1, <3>2 DEF InOrder, Sorted
    <3>3. CASE stored'[c] = x /\ k = "page"
      <4>1. IsPage(1)
        BY <1>0, <1>2, <3>3 DEF IsPage
      <4>2. wire[1].page <= wire[b + 1].page
        BY <1>2, <3>1, <4>1 DEF InOrder, Sorted
      <4>3. QED
        BY <1>2, <3>1, <3>3, <4>2
    <3>4. QED
      BY <1>8, <3>2, <3>3
  <2>3. \A c, b \in DOMAIN wire' : c < b /\ IsPage(c)' /\ IsPage(b)' => wire'[c].page <= wire'[b].page
    <3>1. \A c, b \in Nat : c < b => c + 1 < b + 1
      OBVIOUS
    <3>2. QED
      BY <1>2, <3>1 DEF InOrder, Sorted, IsPage
  <2>4. QED
    BY <2>1, <2>2, <2>3 DEF Sorted
<1>11. CleanStart'
  <2> SUFFICES ASSUME pc = "lock" \/ (pc \in Running /\ cmd \in {"update", "yes"})
               PROVE  /\ \A b \in DOMAIN wire' : wire'[b].kind \notin {"page", "done"}
                      /\ OkSeen' => stored' = <<>>
    BY <1>0 DEF CleanStart
  <2>1. /\ \A b \in DOMAIN wire : wire[b].kind \notin {"page", "done"}
        /\ OkSeen => stored = <<>>
    BY DEF InOrder, CleanStart
  <2>2. k \notin {"page", "done"} /\ \A b \in DOMAIN wire' : wire'[b].kind \notin {"page", "done"}
    BY <1>0, <1>2, <2>1
  <2>3. stored' = stored \/ stored' = <<>>
    BY <1>0, <2>2 DEF Response
  <2>4. OkSeen' => OkSeen \/ a = "ok"
    BY <1>0, <1>1 DEF OkSeen, Response
  <2>5. a = "ok" => stored' = <<>>
    BY <1>0, <2>2 DEF Response
  <2>6. QED
    BY <2>1, <2>2, <2>3, <2>4, <2>5
<1>12. UpToPage'
  <2> SUFFICES ASSUME pc \in Running, cmd = "page"
               PROVE  /\ \A c \in DOMAIN stored' : stored'[c] <= page
                      /\ \A b \in DOMAIN wire' : IsPage(b)' => wire'[b].page <= page
                      /\ Copies(page)' <= Sent
    BY <1>0 DEF UpToPage, Sent
  <2>1. /\ \A c \in DOMAIN stored : stored[c] <= page
        /\ \A b \in DOMAIN wire : IsPage(b) => wire[b].page <= page
        /\ Copies(page) <= Sent
    BY DEF InOrder, UpToPage
  <2>2. \A c \in DOMAIN stored' : stored'[c] <= page
    BY <1>0, <1>2, <1>8, <2>1 DEF IsPage
  <2>3. \A b \in DOMAIN wire' : IsPage(b)' => wire'[b].page <= page
    BY <1>2, <2>1 DEF IsPage
  <2>4. Copies(page)' <= Copies(page)
    <3>1. Copies(page)' = CountOf(stored', page) + CountOf(wire', PageMsg(page))
      BY <1>0 DEF Copies, PageMsg
    <3>2. PICK p : p = page
      OBVIOUS
    <3>3. Copies(p)' <= Copies(p) /\ Copies(p)' = CountOf(stored', p) + CountOf(wire', PageMsg(p))
      BY <1>7 DEF Copies, PageMsg
    <3>4. QED
      BY <3>1, <3>2, <3>3
  <2>5. Copies(page)' \in Int /\ Copies(page) \in Int /\ Sent \in Int
    <3>1. Copies(page)' = CountOf(stored', page) + CountOf(wire', PageMsg(page))
      BY <1>0 DEF Copies, PageMsg
    <3>2. QED
      BY <1>5, <3>1, CopiesType DEF Sent, Typed, TypeOK
  <2>6. QED
    BY <2>1, <2>2, <2>3, <2>4, <2>5
<1>13. FewCopies'
  <2> SUFFICES ASSUME NEW p \in 1 .. Pages PROVE Copies(p)' <= 4
    BY DEF FewCopies
  <2>1. Copies(p)' \in Int /\ Copies(p) \in Int
    BY <1>5, CopiesType DEF Copies, PageMsg
  <2>2. QED
    BY <1>7, <2>1 DEF InOrder, FewCopies
<1>14. QED
  BY <1>10, <1>11, <1>12, <1>13 DEF InOrder

\* A line that is delivered was an answer under way before.
LEMMA OkDelivered ==
  ASSUME Typed, Deliver
  PROVE  OkSeen' => OkSeen
<1>1. answers \in Seq(Lines) /\ answers # <<>> /\ answers' = Tail(answers)
      /\ (line' = Head(answers) \/ line' = line)
  BY DEF Deliver, Typed, TypeOK, uart
<1>2. /\ \A b \in DOMAIN answers' : b + 1 \in DOMAIN answers /\ answers'[b] = answers[b + 1]
      /\ 1 \in DOMAIN answers /\ Head(answers) = answers[1]
  BY <1>1
<1>3. UNCHANGED <<pc, rsp>>
  BY DEF Deliver, web
<1>4. QED
  BY <1>1, <1>2, <1>3 DEF OkSeen

LEMMA OrderOthers ==
  ASSUME Typed, InOrder, MainLoop \/ DmxThread \/ Deliver \/ SamdRestarts \/ UNCHANGED vars
  PROVE  InOrder'
<1> USE DEF web, uart, others, samd
<1>1. UNCHANGED <<pc, cmd, page, rsp, try, try_snd, stored>>
  BY DEF MainLoop, MainWakes, MainFrame, MainTests, MainAsks, MainAsksAgain, MainHears, MainUnchanged,
         DmxThread, DmxArrives, DmxForwarded, DmxUnchanged, Deliver, SamdRestarts, SamdUnchanged, vars
<1>2. wire' = wire \/ \E m \in Foreign : wire' = Append(wire, m)
  BY DEF MainLoop, MainWakes, MainFrame, MainTests, MainAsks, MainAsksAgain, MainHears, MainUnchanged,
         DmxThread, DmxArrives, DmxForwarded, DmxUnchanged, Deliver, SamdRestarts, SamdUnchanged, vars,
         Quietly, Put, Foreign
<1>3. \A m \in Foreign : m \in Anything /\ m.kind \notin {"page", "done"}
  BY DEF Foreign, Anything
<1>4. OkSeen' => OkSeen
  <2>1. CASE UNCHANGED answers /\ (line' = line \/ line' = NoLine)
    BY <1>1, <2>1 DEF OkSeen, NoLine
  <2>2. CASE Deliver
    BY <2>2, OkDelivered
  <2>3. QED
    BY <2>1, <2>2 DEF MainLoop, MainWakes, MainFrame, MainTests, MainAsks, MainAsksAgain, MainHears,
         MainUnchanged, DmxThread, DmxArrives, DmxForwarded, DmxUnchanged, SamdRestarts,
         SamdUnchanged, vars
<1>5. Sent' = Sent /\ Sent \in Int
  BY <1>1 DEF Sent, Typed, TypeOK
<1>6. QED
  BY <1>1, <1>2, <1>3, <1>4, <1>5, OrderKept

\* The download sends its message once more, or for the first time.
LEMMA OrderSend ==
  ASSUME Typed, InOrder, Send
  PROVE  InOrder'
<1>1. /\ pc = "send" /\ pc' = "wait" /\ line' = NoLine /\ wire' = Append(wire, Own)
      /\ UNCHANGED <<cmd, page, rsp, try, try_snd, answers, stored>>
  BY DEF Send, Own, web, samd
<1>2. OkSeen' => OkSeen
  BY <1>1 DEF OkSeen, NoLine
<1>3. Sent \in Nat /\ Sent <= 3 /\ Sent' = Sent + 1
  BY <1>1 DEF Sent, Typed, TypeOK
<1>4. CASE cmd # "page" /\ cmd # "done"
  <2>1. Own \in Anything /\ Own.kind \notin {"page", "done"}
    BY <1>4 DEF Own, Anything, Message, Typed, TypeOK, Commands
  <2>2. QED
    BY <1>1, <1>2, <1>4, <2>1, OrderKept DEF Running
<1>5. CASE cmd = "done"
  <2>1. Own = [kind |-> "done", page |-> 0] /\ Own \in Anything
    BY <1>5 DEF Own, Anything, Message
  <2>2. Own.kind # "page" /\ \A p : Own # PageMsg(p)
    BY <2>1 DEF PageMsg
  <2>3. CleanStart' /\ UpToPage'
    BY <1>1, <1>5 DEF CleanStart, UpToPage
  <2>4. QED
    BY <1>1, <2>1, <2>2, <2>3, QueueKept DEF InOrder
<1>6. CASE cmd = "page"
  <2>1. page \in 1 .. Pages /\ Own = PageMsg(page) /\ Own \in Anything
    BY <1>1, <1>6 DEF Own, PageMsg, Anything, Message, Typed, PageInRange
  <2>2. wire \in Seq(Anything) /\ pc \in Running /\ pc' \in Running
    BY <1>1 DEF Typed, TypeOK, Anything, Running
  <2>3. \A b \in DOMAIN wire' : \/ b \in DOMAIN wire /\ wire'[b] = wire[b]
                                \/ b = Len(wire) + 1 /\ wire'[b] = Own
    BY <1>1, <2>1, <2>2
  <2>4. DOMAIN wire = 1 .. Len(wire) /\ Len(wire) \in Nat
    BY <2>2, Elements
  <2>5. /\ \A a \in DOMAIN stored : stored[a] <= page
        /\ \A b \in DOMAIN wire : IsPage(b) => wire[b].page <= page
        /\ Copies(page) <= Sent
    BY <1>6, <2>2 DEF InOrder, UpToPage
  <2>6. Own.page = page
    BY <2>1 DEF PageMsg
  <2>7. Sorted'
    <3>1. \A a, b \in DOMAIN stored' : a < b => stored'[a] <= stored'[b]
      BY <1>1 DEF InOrder, Sorted
    <3>2. \A a \in DOMAIN stored', b \in DOMAIN wire' : IsPage(b)' => stored'[a] <= wire'[b].page
      BY <1>1, <2>3, <2>5, <2>6 DEF InOrder, Sorted, IsPage
    <3>3. ASSUME NEW a \in DOMAIN wire', NEW b \in DOMAIN wire', a < b, IsPage(a)', IsPage(b)'
          PROVE  wire'[a].page <= wire'[b].page
      <4>1. a \in DOMAIN wire /\ wire'[a] = wire[a]
        <5>1. DOMAIN wire' = 1 .. Len(wire) + 1
          BY <1>1, <2>1, <2>2
        <5>2. a # Len(wire) + 1
          BY <2>4, <3>3, <5>1
        <5>3. QED
          BY <2>3, <5>2
      <4>2. CASE b \in DOMAIN wire /\ wire'[b] = wire[b]
        BY <3>3, <4>1, <4>2 DEF InOrder, Sorted, IsPage
      <4>3. CASE wire'[b] = Own
        BY <2>5, <2>6, <3>3, <4>1, <4>3 DEF IsPage
      <4>4. QED
        BY <2>3, <4>2, <4>3
    <3>4. QED
      BY <3>1, <3>2, <3>3 DEF Sorted
  <2>8. \A p : CountOf(wire', PageMsg(p)) = CountOf(wire, PageMsg(p)) + (IF Own = PageMsg(p) THEN 1 ELSE 0)
    BY <1>1, <2>1, <2>2, CountAppend
  <2>9. \A p : Copies(p)' = CountOf(stored, p) + CountOf(wire', PageMsg(p))
    BY <1>1 DEF Copies, PageMsg
  <2>10. \A p : PageMsg(p) = PageMsg(page) <=> p = page
    <3>1. \A p : PageMsg(p).page = p
      BY DEF PageMsg
    <3>2. QED
      BY <3>1
  <2>11. \A p : p # page => Copies(p)' = Copies(p)
    <3> SUFFICES ASSUME NEW p, p # page PROVE Copies(p)' = Copies(p)
      OBVIOUS
    <3>1. Own # PageMsg(p)
      BY <2>1, <2>10
    <3>2. CountOf(wire', PageMsg(p)) = CountOf(wire, PageMsg(p))
      BY <2>8, <3>1, CopiesType
    <3>3. QED
      BY <2>9, <3>2 DEF Copies
  <2>12. \A p : p = page => Copies(p)' = Copies(p) + 1
    <3> SUFFICES ASSUME NEW p, p = page PROVE Copies(p)' = Copies(p) + 1
      OBVIOUS
    <3>1. CountOf(wire', PageMsg(p)) = CountOf(wire, PageMsg(p)) + 1
      BY <2>1, <2>8
    <3>2. QED
      BY <2>9, <3>1, CopiesType DEF Copies
  <2>13. Copies(page)' <= Sent' /\ Copies(page) <= 3 /\ Copies(page) \in Nat
    <3>1. PICK p : p = page
      OBVIOUS
    <3>2. Copies(page)' = Copies(p)'
      BY <1>1, <3>1 DEF Copies, PageMsg
    <3>3. Copies(p)' = Copies(page) + 1 /\ Copies(page) \in Nat
      BY <2>12, <3>1, CopiesType
    <3>4. QED
      BY <1>3, <2>5, <3>2, <3>3
  <2>14. UpToPage'
    <3>1. \A a \in DOMAIN stored' : stored'[a] <= page'
      BY <1>1, <2>5
    <3>2. ASSUME NEW b \in DOMAIN wire', IsPage(b)' PROVE wire'[b].page <= page'
      <4>1. CASE b \in DOMAIN wire /\ wire'[b] = wire[b]
        BY <1>1, <2>5, <3>2, <4>1 DEF IsPage
      <4>2. CASE wire'[b] = Own
        BY <1>1, <2>1, <2>6, <4>2
      <4>3. QED
        BY <2>3, <4>1, <4>2
    <3>3. QED
      BY <2>13, <3>1, <3>2 DEF UpToPage
  <2>15. FewCopies'
    <3> SUFFICES ASSUME NEW p \in 1 .. Pages PROVE Copies(p)' <= 4
      BY DEF FewCopies
    <3>1. CASE p = page
      BY <2>12, <2>13, <3>1
    <3>2. CASE p # page
      BY <2>11, <3>2 DEF InOrder, FewCopies
    <3>3. QED
      BY <3>1, <3>2
  <2>16. CleanStart'
    BY <1>1, <1>6 DEF CleanStart
  <2>17. QED
    BY <2>7, <2>14, <2>15, <2>16 DEF InOrder
<1>7. QED
  BY <1>4, <1>5, <1>6

\* The image begins, goes on with its next page, or is over.
LEMMA OrderNextPage ==
  ASSUME Typed, InOrder, UNCHANGED <<stored, wire, answers>>, pc = "reply", pc' = "send",
         try' = 0, try_snd' = 0, page' \in Nat,
         cmd' \in {"page", "done"},
         \A a \in DOMAIN stored : stored[a] < page',
         \A b \in DOMAIN wire : IsPage(b) => wire[b].page < page'
  PROVE  InOrder'
<1>1. wire \in Seq(Anything) /\ stored \in Seq(1 .. Pages)
  BY DEF Typed, TypeOK, Anything
<1>2. Sorted' /\ CleanStart'
  BY DEF InOrder, Sorted, CleanStart, IsPage
<1>3. FewCopies'
  <2>1. \A p : Copies(p)' = Copies(p)
    BY DEF Copies, PageMsg
  <2>2. QED
    BY <2>1 DEF InOrder, FewCopies
<1>4. \A a \in DOMAIN stored : stored[a] \in 1 .. Pages
  BY <1>1, Elements
<1>5. \A b \in DOMAIN wire : IsPage(b) => wire[b].page \in 1 .. Pages
  <2>1. \A n \in Anything : n.kind = "page" => n.page \in 1 .. Pages
    BY DEF Anything, Message, Foreign
  <2>2. \A b \in DOMAIN wire : wire[b] \in Anything
    BY <1>1, Elements
  <2>3. QED
    BY <2>1, <2>2 DEF IsPage
<1>6. CountOf(stored, page') = 0
  <2>1. \A a \in DOMAIN stored : stored[a] # page'
    BY <1>4
  <2>2. QED
    BY <1>1, <2>1, CountNone
<1>7. CountOf(wire, PageMsg(page')) = 0
  <2>1. PageMsg(page').kind = "page" /\ PageMsg(page').page = page'
    BY DEF PageMsg
  <2>2. \A b \in DOMAIN wire : wire[b] # PageMsg(page')
    BY <1>5, <2>1 DEF IsPage
  <2>3. QED
    BY <1>1, <2>2, CountNone
<1>8. Copies(page)' = 0 /\ Sent' = 0
  <2>1. Copies(page)' = CountOf(stored, page') + CountOf(wire, PageMsg(page'))
    BY DEF Copies, PageMsg
  <2>2. QED
    BY <1>6, <1>7, <2>1 DEF Sent
<1>9. UpToPage'
  <2>1. \A a \in DOMAIN stored : stored[a] <= page'
    BY <1>4
  <2>2. \A b \in DOMAIN wire : IsPage(b) => wire[b].page <= page'
    BY <1>5
  <2>3. QED
    BY <1>8, <2>1, <2>2 DEF UpToPage, IsPage
<1>10. QED
  BY <1>2, <1>3, <1>9 DEF InOrder

LEMMA OrderDownload ==
  ASSUME Gated, Typed, InOrder, (\E w \in {0, 1} : Start(w)) \/ Download
  PROVE  InOrder'
<1> USE DEF web, uart, others, samd
<1>0. wire \in Seq(Anything) /\ stored \in Seq(1 .. Pages)
  BY DEF Typed, TypeOK, Anything
<1>1. ASSUME NEW w \in {0, 1}, Start(w) PROVE InOrder'
  <2>1. pc' = "drain" /\ wire' = wire /\ stored' = <<>>
    BY <1>1 DEF Start
  <2>2. Sorted'
    BY <2>1 DEF InOrder, Sorted, IsPage
  <2>3. CleanStart' /\ UpToPage'
    BY <2>1 DEF CleanStart, UpToPage, Running
  <2>4. FewCopies'
    <3> SUFFICES ASSUME NEW p \in 1 .. Pages PROVE Copies(p)' <= 4
      BY DEF FewCopies
    <3>1. stored' \in Seq(1 .. Pages) /\ \A b \in DOMAIN stored' : stored'[b] # p
      BY <2>1
    <3>2. CountOf(stored', p) = 0
      BY <3>1, CountNone
    <3>3. Copies(p)' = CountOf(wire, PageMsg(p))
      BY <2>1, <3>2, CopiesType DEF Copies, PageMsg
    <3>4. Copies(p) = CountOf(stored, p) + CountOf(wire, PageMsg(p)) /\ Copies(p) <= 4
      BY DEF Copies, InOrder, FewCopies
    <3>5. QED
      BY <3>3, <3>4, CopiesType
  <2>5. QED
    BY <2>2, <2>3, <2>4 DEF InOrder
\* Most steps send nothing.
<1>2. ASSUME UNCHANGED <<stored, wire>>,
             pc' = "lock" \/ (pc' \in Running /\ cmd' \in {"update", "yes"}) =>
               /\ pc = "lock" \/ (pc \in Running /\ cmd \in {"update", "yes"})
               /\ OkSeen' => OkSeen,
             pc' \in Running /\ cmd' = "page" =>
               pc \in Running /\ cmd = "page" /\ page' = page /\ Sent' \in Int /\ Sent <= Sent'
      PROVE  InOrder'
  BY <1>2, OrderKept
<1>3. CASE Drained
  <2>1. /\ pc' = "lock" /\ UNCHANGED <<wire, stored, answers>> /\ answers = <<>>
        /\ \A b \in DOMAIN wire : wire[b].kind = "frame"
    BY <1>3 DEF Drained
  <2>2. CleanStart' /\ UpToPage'
    BY <2>1 DEF CleanStart, UpToPage, OkSeen, Running
  <2>3. Sorted' /\ FewCopies'
    BY <2>1, QueueKept DEF InOrder
  <2>4. QED
    BY <2>2, <2>3 DEF InOrder
<1>4. CASE Lock
  <2>1. /\ pc = "lock" /\ pc' = "send" /\ cmd' = "update"
        /\ UNCHANGED <<wire, stored, answers, line, rsp>>
    BY <1>4 DEF Lock, Command
  <2>2. OkSeen' => OkSeen
    BY <2>1 DEF OkSeen
  <2>3. QED
    BY <1>2, <2>1, <2>2
<1>5. CASE Send
  BY <1>5, OrderSend
<1>6. CASE Answered
  <2>1. /\ pc = "wait" /\ pc' = "reply" /\ rsp' = line
        /\ UNCHANGED <<wire, stored, answers, line, cmd, page, try, try_snd>>
    BY <1>6 DEF Answered
  <2>2. OkSeen' => OkSeen
    BY <2>1 DEF OkSeen
  <2>3. Sent' = Sent /\ Sent \in Int
    BY <2>1 DEF Sent, Typed, TypeOK
  <2>4. QED
    BY <1>2, <2>1, <2>2, <2>3 DEF Running
<1>7. CASE Expire
  <2>1. /\ pc = "wait" /\ line = NoLine
        /\ UNCHANGED <<wire, stored, answers, line, cmd, page, try>>
    BY <1>7 DEF Expire
  <2>2. \/ pc' = "send" /\ try_snd = 0 /\ try_snd' = 1
        \/ pc' = "reply" /\ rsp' = NoLine /\ try_snd' = try_snd
    BY <1>7 DEF Expire
  <2>3. OkSeen' => OkSeen
    BY <2>1, <2>2 DEF OkSeen, NoLine
  <2>4. Sent' = Sent /\ Sent \in Int
    BY <2>1, <2>2 DEF Sent, Typed, TypeOK
  <2>5. QED
    BY <1>2, <2>1, <2>2, <2>3, <2>4 DEF Running
<1>8. CASE Pause
  <2>1. /\ pc = "pause" /\ pc' = "send" /\ cmd' = "update"
        /\ UNCHANGED <<wire, answers, line, stored, rsp>>
    BY <1>8 DEF Pause, Command
  <2>2. (OkSeen' => OkSeen) /\ cmd = "update"
    BY <2>1 DEF OkSeen, Typed, PauseOnce
  <2>3. QED
    BY <1>2, <2>1, <2>2 DEF Running
<1>9. CASE Enable
  BY <1>2, <1>9 DEF Enable, Running
<1>10. CASE \/ UpdateSilent \/ UpdateRefused \/ UpdateAccepted \/ YesFailed \/ YesAccepted
            \/ PageStored \/ PageRefused \/ PageSilent \/ DoneReplied
  <2>1. pc = "reply" /\ pc \in Running /\ UNCHANGED <<rsp, line, wire, answers, stored>>
    BY <1>10, AfterReply DEF Running
  <2>2. pc' # "wait" /\ pc' # "reply" /\ pc' # "lock"
    BY <1>10, AfterReply DEF GoesOn
  <2>3. OkSeen' => OkSeen
    BY <2>1, <2>2 DEF OkSeen
  <2>4. CASE pc' = "enable"
    BY <1>2, <2>1, <2>4 DEF Running
  <2>5. CASE /\ GoesOn /\ cmd' = cmd /\ page' = page /\ cmd \in {"update", "page"}
             /\ cmd = "page" => pc' = "send" /\ try = 0 /\ try' = 1 /\ try_snd' = 0
    <3>1. cmd = "page" => Sent' = 2 /\ Sent <= 2 /\ Sent \in Int
      BY <2>1, <2>5 DEF Sent, Typed, TypeOK
    <3>2. cmd = "page" => Sent' \in Int /\ Sent <= Sent'
      BY <3>1
    <3>3. QED
      BY <1>2, <2>1, <2>2, <2>3, <2>5, <3>2
  <2>6. CASE GoesOn /\ cmd = "update" /\ cmd' = "yes" /\ rsp = "update"
    BY <1>2, <2>1, <2>2, <2>3, <2>6
  <2>7. CASE /\ GoesOn /\ cmd = "yes" /\ rsp = "ok" /\ page' = 1
             /\ pc' = "send" /\ try' = 0 /\ try_snd' = 0
             /\ cmd' = IF page' <= Pages THEN "page" ELSE "done"
    <3>1. stored = <<>> /\ \A b \in DOMAIN wire : ~IsPage(b)
      BY <2>1, <2>7 DEF InOrder, CleanStart, OkSeen, IsPage
    <3>2. \A a \in DOMAIN stored : stored[a] < page'
      BY <3>1
    <3>3. \A b \in DOMAIN wire : IsPage(b) => wire[b].page < page'
      BY <3>1
    <3>4. page' \in Nat /\ cmd' \in {"page", "done"}
      BY <2>7
    <3>5. QED
      BY <2>1, <2>7, <3>2, <3>3, <3>4, OrderNextPage
  <2>8. CASE /\ GoesOn /\ cmd = "page" /\ rsp = "ok" /\ page' = page + 1
             /\ pc' = "send" /\ try' = 0 /\ try_snd' = 0
             /\ cmd' = IF page' <= Pages THEN "page" ELSE "done"
    <3>1. page \in 1 .. Pages /\ page' \in Nat /\ cmd' \in {"page", "done"}
      BY <2>1, <2>8, PagesAssumption DEF Typed, PageInRange
    <3>2. /\ \A a \in DOMAIN stored : stored[a] <= page
          /\ \A b \in DOMAIN wire : IsPage(b) => wire[b].page <= page
      BY <2>1, <2>8 DEF InOrder, UpToPage
    <3>3. /\ \A a \in DOMAIN stored : stored[a] \in 1 .. Pages
          /\ \A b \in DOMAIN wire : IsPage(b) => wire[b].page \in 1 .. Pages
      <4>1. \A n \in Anything : n.kind = "page" => n.page \in 1 .. Pages
        BY DEF Anything, Message, Foreign
      <4>2. \A b \in DOMAIN wire : wire[b] \in Anything
        BY <1>0, Elements
      <4>3. \A a \in DOMAIN stored : stored[a] \in 1 .. Pages
        BY <1>0, Elements
      <4>4. QED
        BY <4>1, <4>2, <4>3 DEF IsPage
    <3>4. \A a \in DOMAIN stored : stored[a] < page'
      BY <2>8, <3>1, <3>2, <3>3
    <3>5. \A b \in DOMAIN wire : IsPage(b) => wire[b].page < page'
      BY <2>8, <3>1, <3>2, <3>3
    <3>6. QED
      BY <2>1, <2>8, <3>1, <3>4, <3>5, OrderNextPage
  <2>9. QED
    BY <1>10, <2>4, <2>5, <2>6, <2>7, <2>8, AfterReply
<1>11. QED
  BY <1>1, <1>3, <1>4, <1>5, <1>6, <1>7, <1>8, <1>9, <1>10 DEF Download

LEMMA OrderStep ==
  ASSUME Gated, Typed, InOrder, [Next]_vars
  PROVE  InOrder'
<1>1. CASE Handling
  <2>1. mode \in {"run", "ask", "data"}
    BY DEF Typed, TypeOK
  <2>2. PICK k, m, pages, a : Response(k, m, pages, a)
    BY <1>1, <2>1, SamdResponds
  <2>3. QED
    BY <2>2, OrderHandling
<1>2. CASE MainLoop \/ DmxThread \/ Deliver \/ SamdRestarts \/ UNCHANGED vars
  BY <1>2, OrderOthers
<1>3. CASE (\E w \in {0, 1} : Start(w)) \/ Download
  BY <1>3, OrderDownload
<1>4. QED
  BY <1>1, <1>2, <1>3 DEF Next, Samd

\* Pages that are in order and occur at most four times come back at most
\* three places later.
LEMMA OrderGives == Typed /\ InOrder => NeverBackwards
<1> SUFFICES ASSUME Typed, InOrder, NEW a \in DOMAIN stored, a + 4 \in DOMAIN stored,
                    ~(stored[a + 4] > stored[a])
             PROVE  FALSE
  BY DEF NeverBackwards, InOrder, Sorted
<1> DEFINE p == stored[a]
<1>1. /\ DOMAIN stored = 1 .. Len(stored) /\ Len(stored) \in Nat
      /\ \A c \in DOMAIN stored : stored[c] \in 1 .. Pages
      /\ stored \in Seq(1 .. Pages)
  <2>1. stored \in Seq(1 .. Pages)
    BY DEF Typed, TypeOK
  <2>2. QED
    BY <2>1, Elements
<1>2. a \in Int /\ a + 4 \in Int
  BY <1>1
<1>3. \A c \in a .. a + 4 : c \in DOMAIN stored
  BY <1>1, <1>2
<1>4. \A c \in a .. a + 4 : stored[c] = p
  <2> SUFFICES ASSUME NEW c \in a .. a + 4 PROVE stored[c] = p
    OBVIOUS
  <2>1. c \in DOMAIN stored /\ c \in Int
    BY <1>2, <1>3
  <2>2. stored[a] <= stored[c]
    BY <1>1, <1>2, <2>1 DEF InOrder, Sorted
  <2>3. stored[c] <= stored[a + 4]
    BY <1>1, <1>2, <2>1 DEF InOrder, Sorted
  <2>4. QED
    BY <1>1, <2>1, <2>2, <2>3
<1>5. a .. a + 4 \in SUBSET {b \in DOMAIN stored : stored[b] = p}
  BY <1>3, <1>4
<1>6. Cardinality(a .. a + 4) = 5
  BY <1>2, FS_Interval
<1>7. Cardinality(a .. a + 4) <= CountOf(stored, p)
  <2>1. IsFiniteSet({b \in DOMAIN stored : stored[b] = p})
    BY <1>1, CountType
  <2>2. QED
    BY <1>5, <2>1, FS_Subset DEF CountOf
<1>8. p \in 1 .. Pages
  BY <1>1
<1>9. Copies(p) <= 4 /\ Copies(p) = CountOf(stored, p) + CountOf(wire, PageMsg(p))
  BY <1>8 DEF InOrder, FewCopies, Copies
<1>10. QED
  BY <1>6, <1>7, <1>9, CopiesType

\* Even when answers come after the time-out and are taken for answers to the
\* next message, the SAMD never stores a page behind a later one, and none more
\* often than the two sends of the two tries: every page sent is behind all that
\* is stored and under way, and the delay of two seconds lets no page of an
\* earlier download get into this one.
THEOREM PagesInOrder == Gated => (Spec => []NeverBackwards)
<1> SUFFICES ASSUME Gated PROVE Spec => []NeverBackwards
  OBVIOUS
<1>1. Init => InOrder
  <2> SUFFICES ASSUME Init PROVE InOrder
    OBVIOUS
  <2>1. Typed /\ stored = <<>> /\ wire = <<>> /\ pc = "idle"
    BY TypedInit DEF Init
  <2>2. Sorted /\ CleanStart /\ UpToPage
    BY <2>1 DEF Sorted, CleanStart, UpToPage, Running
  <2>3. \A p : CountOf(stored, p) = 0 /\ CountOf(wire, PageMsg(p)) = 0
    <3>1. \A p : \A b \in DOMAIN stored : stored[b] # p
      BY <2>1
    <3>2. \A p : \A b \in DOMAIN wire : wire[b] # PageMsg(p)
      BY <2>1
    <3>3. stored \in Seq(1 .. Pages) /\ wire \in Seq(Anything)
      BY <2>1 DEF Typed, TypeOK, Anything
    <3>4. \A p : CountOf(stored, p) = 0
      BY <3>1, <3>3, CountNone
    <3>5. \A p : CountOf(wire, PageMsg(p)) = 0
      BY <3>2, <3>3, CountNone
    <3>6. QED
      BY <3>4, <3>5
  <2>4. FewCopies
    BY <2>3 DEF FewCopies, Copies
  <2>5. QED
    BY <2>2, <2>4 DEF InOrder
<1>2. Typed /\ InOrder /\ [Next]_vars => InOrder'
  BY OrderStep
<1>3. QED
  BY <1>1, <1>2, TypedInit, TypedStep, OrderGives, PTL DEF Spec

-----------------------------------------------------------------------------
(* What the SAMD has been asked, with answers late or not. *)

NoneOf(kinds) == \A b \in DOMAIN wire : wire[b].kind \notin kinds

YesLast ==
  \A a, b \in DOMAIN wire : wire[a].kind = "yes" /\ wire[b].kind = "update" => b < a

\* The delay leaves nothing of an earlier download under way; the confirmation
\* is sent behind every request to update; and an "ok" that the download takes
\* for the answer to it comes from a SAMD that has nothing more to confirm.
Asking ==
  /\ pc = "lock" => ~OkSeen /\ NoneOf(Commands)
  /\ pc \in Running /\ cmd = "update" => ~OkSeen /\ NoneOf({"yes", "page", "done"})
  /\ pc \in Running /\ cmd = "yes" => NoneOf({"page", "done"}) /\ YesLast
  /\ pc \in Running /\ (cmd \in {"page", "done"} \/ OkSeen) =>
       mode # "ask" /\ NoneOf({"update"})

\* A step that sends none of the download's messages and lets the SAMD ask for
\* no confirmation.
LEMMA AskingKept ==
  ASSUME Typed, Asking,
         mode' = "ask" => mode = "ask",
         wire' = wire \/ \E m \in Anything : m.kind \notin Commands /\ wire' = Append(wire, m),
         pc' \in Running \cup {"lock"} => (OkSeen' => OkSeen),
         pc' = "lock" => pc = "lock",
         pc' \in Running =>
           \/ pc \in Running /\ cmd' = cmd
           \/ pc = "lock" /\ cmd' = "update"
           \/ pc \in Running /\ cmd = "update" /\ cmd' = "yes"
           \/ pc \in Running /\ OkSeen /\ cmd' \in {"page", "done"}
  PROVE  Asking'
<1>1. wire \in Seq(Anything)
  BY DEF Typed, TypeOK, Anything
<1>2. \A b \in DOMAIN wire' : \/ b \in DOMAIN wire /\ wire'[b] = wire[b]
                              \/ wire'[b].kind \notin Commands
  BY <1>1
<1>3. ASSUME NEW kinds \in SUBSET Commands, NoneOf(kinds) PROVE NoneOf(kinds)'
  BY <1>2, <1>3 DEF NoneOf
<1>4. /\ NoneOf(Commands) => NoneOf(Commands)'
      /\ NoneOf({"yes", "page", "done"}) => NoneOf({"yes", "page", "done"})'
      /\ NoneOf({"page", "done"}) => NoneOf({"page", "done"})'
      /\ NoneOf({"update"}) => NoneOf({"update"})'
  BY <1>3 DEF Commands
<1>5. YesLast => YesLast'
  <2> SUFFICES ASSUME YesLast, NEW a \in DOMAIN wire', NEW b \in DOMAIN wire',
                      wire'[a].kind = "yes", wire'[b].kind = "update"
               PROVE  b < a
    BY DEF YesLast
  <2>1. wire'[a].kind \in Commands /\ wire'[b].kind \in Commands
    BY DEF Commands
  <2>2. /\ a \in DOMAIN wire /\ wire'[a] = wire[a]
        /\ b \in DOMAIN wire /\ wire'[b] = wire[b]
    BY <1>2, <2>1
  <2>3. QED
    BY <2>2 DEF YesLast
<1>6. /\ NoneOf(Commands) => NoneOf({"yes", "page", "done"})
      /\ NoneOf({"yes", "page", "done"}) => NoneOf({"page", "done"}) /\ YesLast
  BY DEF NoneOf, Commands, YesLast
<1>7. pc' = "lock" => ~OkSeen' /\ NoneOf(Commands)'
  BY <1>4 DEF Asking
<1>8. pc' \in Running /\ cmd' = "update" => ~OkSeen' /\ NoneOf({"yes", "page", "done"})'
  BY <1>4, <1>6 DEF Asking
<1>9. pc' \in Running /\ cmd' = "yes" => NoneOf({"page", "done"})' /\ YesLast'
  BY <1>4, <1>5, <1>6 DEF Asking
<1>10. pc' \in Running /\ (cmd' \in {"page", "done"} \/ OkSeen') => mode' # "ask" /\ NoneOf({"update"})'
  BY <1>4 DEF Asking
<1>11. QED
  BY <1>7, <1>8, <1>9, <1>10 DEF Asking

\* The download sends its message behind all others.
LEMMA AskingSend ==
  ASSUME Typed, Asking, Send
  PROVE  Asking'
<1>1. /\ pc = "send" /\ pc' = "wait" /\ line' = NoLine /\ wire' = Append(wire, Own)
      /\ UNCHANGED <<cmd, rsp, answers, mode>>
  BY DEF Send, Own, web, samd
<1>2. wire \in Seq(Anything) /\ cmd \in Commands /\ Own.kind = cmd
  BY DEF Typed, TypeOK, Anything, Own
<1>3. (OkSeen' => OkSeen) /\ pc \in Running
  BY <1>1 DEF OkSeen, NoLine, Running
<1>4. \A b \in DOMAIN wire' : \/ b \in DOMAIN wire /\ wire'[b] = wire[b] /\ b < Len(wire) + 1
                              \/ b = Len(wire) + 1 /\ wire'[b].kind = cmd
  BY <1>1, <1>2
<1>5. \A kinds : NoneOf(kinds) /\ cmd \notin kinds => NoneOf(kinds)'
  BY <1>4 DEF NoneOf
<1>6. CASE cmd = "update"
  <2>1. ~OkSeen' /\ NoneOf({"yes", "page", "done"})'
    BY <1>3, <1>5, <1>6 DEF Asking
  <2>2. QED
    BY <1>1, <1>6, <2>1 DEF Asking
<1>7. CASE cmd = "yes"
  <2>1. NoneOf({"page", "done"})' /\ YesLast
    BY <1>3, <1>5, <1>7 DEF Asking
  <2>2. YesLast'
    <3> SUFFICES ASSUME NEW a \in DOMAIN wire', NEW b \in DOMAIN wire',
                        wire'[a].kind = "yes", wire'[b].kind = "update"
                 PROVE  b < a
      BY DEF YesLast
    <3>1. b \in DOMAIN wire /\ wire'[b] = wire[b] /\ b < Len(wire) + 1
      BY <1>4, <1>7
    <3>2. CASE a = Len(wire) + 1
      BY <3>1, <3>2
    <3>3. CASE a \in DOMAIN wire /\ wire'[a] = wire[a]
      BY <2>1, <3>1, <3>3 DEF YesLast
    <3>4. QED
      BY <1>4, <3>2, <3>3
  <2>3. OkSeen' => mode' # "ask" /\ NoneOf({"update"})'
    BY <1>1, <1>3, <1>5, <1>7 DEF Asking
  <2>4. QED
    BY <1>1, <1>7, <2>1, <2>2, <2>3 DEF Asking
<1>8. CASE cmd \in {"page", "done"}
  <2>1. mode' # "ask" /\ NoneOf({"update"})'
    BY <1>1, <1>3, <1>5, <1>8 DEF Asking
  <2>2. QED
    BY <1>1, <1>8, <2>1 DEF Asking
<1>9. QED
  BY <1>2, <1>6, <1>7, <1>8 DEF Commands

\* The SAMD takes the first message.
LEMMA AskingHandling ==
  ASSUME Typed, Asking, NEW k, NEW m, NEW pages, NEW a, Response(k, m, pages, a)
  PROVE  Asking'
<1>0. /\ wire # <<>> /\ Head(wire).kind = k /\ wire' = Tail(wire) /\ mode' = m
      /\ answers' = IF a = NoLine THEN answers ELSE Append(answers, a)
      /\ UNCHANGED <<pc, cmd, rsp, line>>
  BY DEF Response, Handles, SamdUnchanged, web, uart
<1>1. wire \in Seq(Anything) /\ answers \in Seq(Lines)
  BY DEF Typed, TypeOK, Anything
<1>2. /\ 1 \in DOMAIN wire /\ wire[1].kind = k
      /\ \A b \in DOMAIN wire' : b + 1 \in DOMAIN wire /\ wire'[b] = wire[b + 1] /\ b \in Nat \ {0}
  BY <1>0, <1>1
<1>3. \A kinds : NoneOf(kinds) => k \notin kinds /\ NoneOf(kinds)'
  BY <1>2 DEF NoneOf
<1>4. OkSeen' => OkSeen \/ a = "ok"
  BY <1>0, <1>1 DEF OkSeen
<1>5. /\ a = "ok" => k = "done" \/ (k = "yes" /\ m = "data") \/ k = "page"
      /\ m = "ask" => mode = "ask" \/ k = "update"
  BY DEF Response
<1>6. YesLast => YesLast' /\ (k = "yes" => NoneOf({"update"})')
  <2>1. ASSUME YesLast, NEW c \in DOMAIN wire', NEW b \in DOMAIN wire',
               wire'[c].kind = "yes", wire'[b].kind = "update"
        PROVE  b < c
    BY <1>2, <2>1 DEF YesLast
  <2>2. ASSUME YesLast, k = "yes", NEW b \in DOMAIN wire', wire'[b].kind = "update" PROVE FALSE
    <3>1. b + 1 < 1
      BY <1>2, <2>2 DEF YesLast
    <3>2. QED
      BY <1>2, <3>1
  <2>3. QED
    BY <2>1, <2>2 DEF YesLast, NoneOf
<1>7. pc' = "lock" => ~OkSeen' /\ NoneOf(Commands)'
  BY <1>0, <1>3, <1>4, <1>5 DEF Asking, Commands
<1>8. pc' \in Running /\ cmd' = "update" => ~OkSeen' /\ NoneOf({"yes", "page", "done"})'
  BY <1>0, <1>3, <1>4, <1>5 DEF Asking
<1>9. pc' \in Running /\ cmd' = "yes" => NoneOf({"page", "done"})' /\ YesLast'
  BY <1>0, <1>3, <1>6 DEF Asking
<1>10. ASSUME pc' \in Running, cmd' \in {"page", "done"} \/ OkSeen'
       PROVE  mode' # "ask" /\ NoneOf({"update"})'
  <2>1. CASE cmd \in {"page", "done"} \/ OkSeen
    BY <1>0, <1>3, <1>5, <1>10, <2>1 DEF Asking
  <2>2. CASE a = "ok" /\ cmd \notin {"page", "done"} /\ ~OkSeen
    <3>1. cmd = "yes"
      BY <1>0, <1>8, <1>10, <2>2 DEF Typed, TypeOK, Commands
    <3>2. k = "yes" /\ m = "data"
      BY <1>0, <1>3, <1>5, <1>10, <2>2, <3>1 DEF Asking
    <3>3. QED
      BY <1>0, <1>6, <1>10, <3>1, <3>2 DEF Asking
  <2>3. QED
    BY <1>0, <1>4, <1>10, <2>1, <2>2
<1>11. QED
  BY <1>7, <1>8, <1>9, <1>10 DEF Asking

LEMMA AskingOthers ==
  ASSUME Typed, Asking, MainLoop \/ DmxThread \/ Deliver \/ SamdRestarts \/ UNCHANGED vars
  PROVE  Asking'
<1> USE DEF web, uart, others, samd
<1>1. UNCHANGED <<pc, cmd, rsp>> /\ (mode' = mode \/ mode' = "run")
  BY DEF MainLoop, MainWakes, MainFrame, MainTests, MainAsks, MainAsksAgain, MainHears, MainUnchanged,
         DmxThread, DmxArrives, DmxForwarded, DmxUnchanged, Deliver, SamdRestarts, SamdUnchanged, vars
<1>2. wire' = wire \/ \E m \in Foreign : wire' = Append(wire, m)
  BY DEF MainLoop, MainWakes, MainFrame, MainTests, MainAsks, MainAsksAgain, MainHears, MainUnchanged,
         DmxThread, DmxArrives, DmxForwarded, DmxUnchanged, Deliver, SamdRestarts, SamdUnchanged, vars,
         Quietly, Put, Foreign
<1>3. \A m \in Foreign : m \in Anything /\ m.kind \notin Commands
  BY DEF Foreign, Anything, Commands
<1>4. OkSeen' => OkSeen
  <2>1. CASE UNCHANGED answers /\ (line' = line \/ line' = NoLine)
    BY <1>1, <2>1 DEF OkSeen, NoLine
  <2>2. CASE Deliver
    BY <2>2, OkDelivered
  <2>3. QED
    BY <2>1, <2>2 DEF MainLoop, MainWakes, MainFrame, MainTests, MainAsks, MainAsksAgain, MainHears,
         MainUnchanged, DmxThread, DmxArrives, DmxForwarded, DmxUnchanged, SamdRestarts,
         SamdUnchanged, vars
<1>5. QED
  BY <1>1, <1>2, <1>3, <1>4, AskingKept

\* The download's own steps, from the request to update to the pages.
LEMMA AskingDownload ==
  ASSUME Gated, Typed, Asking, (\E w \in {0, 1} : Start(w)) \/ Download
  PROVE  Asking'
<1> USE DEF web, uart, others, samd
<1>1. ASSUME NEW w \in {0, 1}, Start(w) PROVE Asking'
  BY <1>1 DEF Start, Asking, Running
<1>2. CASE Drained
  <2>1. /\ pc' = "lock" /\ UNCHANGED <<wire, answers>> /\ answers = <<>>
        /\ \A b \in DOMAIN wire : wire[b].kind = "frame"
    BY <1>2 DEF Drained
  <2>2. QED
    BY <2>1 DEF Asking, OkSeen, NoneOf, Running, Commands
<1>4. CASE Lock
  <2>1. /\ pc = "lock" /\ pc' = "send" /\ cmd' = "update"
        /\ UNCHANGED <<wire, answers, line, rsp, mode>>
    BY <1>4 DEF Lock, Command
  <2>2. OkSeen' => OkSeen
    BY <2>1 DEF OkSeen
  <2>3. QED
    BY <2>1, <2>2, AskingKept
<1>5. CASE Send
  BY <1>5, AskingSend
<1>6. CASE Answered
  <2>1. /\ pc = "wait" /\ pc' = "reply" /\ rsp' = line
        /\ UNCHANGED <<wire, answers, line, cmd, mode>>
    BY <1>6 DEF Answered
  <2>2. OkSeen' => OkSeen
    BY <2>1 DEF OkSeen
  <2>3. QED
    BY <2>1, <2>2, AskingKept DEF Running
<1>7. CASE Expire
  <2>1. /\ pc = "wait" /\ line = NoLine /\ UNCHANGED <<wire, answers, line, cmd, mode>>
    BY <1>7 DEF Expire
  <2>2. pc' = "send" \/ (pc' = "reply" /\ rsp' = NoLine)
    BY <1>7 DEF Expire
  <2>3. OkSeen' => OkSeen
    BY <2>1, <2>2 DEF OkSeen, NoLine
  <2>4. QED
    BY <2>1, <2>2, <2>3, AskingKept DEF Running
<1>8. CASE Pause
  <2>1. /\ pc = "pause" /\ pc' = "send" /\ cmd' = "update"
        /\ UNCHANGED <<wire, answers, line, rsp, mode>>
    BY <1>8 DEF Pause, Command
  <2>2. (OkSeen' => OkSeen) /\ cmd' = cmd
    BY <2>1 DEF OkSeen, Typed, PauseOnce
  <2>3. QED
    BY <2>1, <2>2, AskingKept DEF Running
<1>9. CASE Enable
  BY <1>9 DEF Enable, Asking, Running
<1>10. CASE \/ UpdateSilent \/ UpdateRefused \/ UpdateAccepted \/ YesFailed \/ YesAccepted
            \/ PageStored \/ PageRefused \/ PageSilent \/ DoneReplied
  <2>1. pc = "reply" /\ UNCHANGED <<rsp, line, wire, answers, mode>> /\ (rsp = "ok" => OkSeen)
    BY <1>10, AfterReply DEF OkSeen
  <2>2. pc' \in {"send", "pause", "enable"}
    BY <1>10, AfterReply DEF GoesOn
  <2>3. OkSeen' => OkSeen
    BY <2>1, <2>2 DEF OkSeen
  <2>4. pc' # "enable" =>
          \/ cmd' = cmd
          \/ cmd = "update" /\ cmd' = "yes"
          \/ rsp = "ok" /\ cmd' \in {"page", "done"}
    BY <1>10, AfterReply
  <2>5. QED
    BY <2>1, <2>2, <2>3, <2>4, AskingKept DEF Running
<1>11. QED
  BY <1>1, <1>2, <1>4, <1>5, <1>6, <1>7, <1>8, <1>9, <1>10 DEF Download

\* A page is only sent to a SAMD that was asked to update and took the
\* confirmation, or that gave the update up: never to one that still waits for
\* the confirmation, whose answer would be taken for a refused page.  Answers
\* that come after the time-out, and are taken for answers to the next message,
\* do not change this.
THEOREM PagesAfterYes == Gated => (Spec => []AskedFirst)
<1> SUFFICES ASSUME Gated PROVE Spec => []AskedFirst
  OBVIOUS
<1>1. Init => Asking
  BY DEF Init, Asking, Running
<1>2. Typed /\ Asking /\ [Next]_vars => Asking'
  <2> SUFFICES ASSUME Typed, Asking, [Next]_vars PROVE Asking'
    OBVIOUS
  <2>1. CASE Handling
    <3>1. mode \in {"run", "ask", "data"}
      BY DEF Typed, TypeOK
    <3>2. PICK k, m, pages, a : Response(k, m, pages, a)
      BY <2>1, <3>1, SamdResponds
    <3>3. QED
      BY <3>2, AskingHandling
  <2>2. CASE MainLoop \/ DmxThread \/ Deliver \/ SamdRestarts \/ UNCHANGED vars
    BY <2>2, AskingOthers
  <2>3. CASE (\E w \in {0, 1} : Start(w)) \/ Download
    BY <2>3, AskingDownload
  <2>4. QED
    BY <2>1, <2>2, <2>3 DEF Next, Samd
<1>3. Typed /\ Asking => AskedFirst
  BY DEF Typed, TypeOK, Asking, AskedFirst, Running
<1>4. QED
  BY <1>1, <1>2, <1>3, TypedInit, TypedStep, PTL DEF Spec
=============================================================================
