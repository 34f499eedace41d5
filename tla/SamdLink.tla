------------------------------ MODULE SamdLink ------------------------------
(***************************************************************************)
(* The command link between the WiFi module and the SAMD processor that    *)
(* drives the radio (src/user/UserMain.c).                                 *)
(*                                                                         *)
(* Threads that need the SAMD lock samd_mutex, write a frame on UART 0     *)
(* (Send_SAMD_CMD) and spin until the UART callback thread has assembled   *)
(* a line in the global buffer uart_rcv_data, for at most two tries.  The  *)
(* waiter and the callback share uart_rvc_done, uart_rvc_len and           *)
(* uart_rcv_data without a lock, and eCos slices time between threads of   *)
(* one priority: the two are interleaved statement by statement.           *)
(*                                                                         *)
(* Bytes are abstracted to units [req, part]: req is the request number    *)
(* the SAMD is answering (0 for noise), part is the body of the answer or  *)
(* one of the two line ends.  The UART driver hands over any number of     *)
(* units as one chunk.                                                     *)
(***************************************************************************)
EXTENDS Integers, Sequences

CONSTANTS
  Threads,   \* threads that send commands to the SAMD
  Main,      \* the UserMain thread, the one that asks for the battery
  NoThread,  \* samd_mutex is free
  BufLen,    \* size of uart_rcv_data, in units
  Chunks,    \* numbers of units the UART driver may hand over at once
  MaxCalls,  \* bound: commands issued
  MaxNoise   \* bound: units of noise the SAMD emits

ASSUME ThreadsAssumption == Main \in Threads /\ NoThread \notin Threads
ASSUME BoundsAssumption ==
  Chunks \subseteq Nat \ {0} /\ BufLen \in Nat \ {0} /\ MaxCalls \in Nat /\ MaxNoise \in Nat

VARIABLES
  pc, try, cur, rc,                         \* per thread
  mutex,                                    \* samd_mutex
  uart_rvc_done, uart_rvc_len, uart_rcv_data,
  ret_buff,                                 \* the answer as its reader sees it
  battery_info,                             \* request whose answer it shows
  cb,                                       \* the callback thread
  toSamd, fromSamd,                         \* the two directions of the wire
  calls, noise,                             \* counters for the bounds
  accepted,                                 \* history: requests the SAMD obeyed
  disturbed                                 \* history: see Disturbs

thread_but_pc == <<try, cur, rc>>
thread   == <<pc, try, cur, rc>>
receiver == <<uart_rvc_done, uart_rvc_len, uart_rcv_data>>
wire     == <<toSamd, fromSamd, calls, noise, accepted>>
vars == <<pc, try, cur, rc, mutex, uart_rvc_done, uart_rvc_len, uart_rcv_data,
          ret_buff, battery_info, cb, toSamd, fromSamd, calls, noise,
          accepted, disturbed>>

Reqs  == 1 .. 2 * MaxCalls
Parts == {"ok", "no", "bat", "nl", "cr"}
Units == [req : 0 .. 2 * MaxCalls, part : Parts]
Blank == [req |-> 0, part |-> "no"]
Cells == 0 .. BufLen - 1

Unit(r, p) == [req |-> r, part |-> p]
EndsLine(u) == u.part \in {"nl", "cr"}

\* The line the SAMD sends for request r: a body and both line ends, which
\* Send_Battery_Command strips again.
Line(r, body) == <<Unit(r, body), Unit(r, "nl"), Unit(r, "cr")>>

\* uart_rcv_data has 64 bytes, far more than the longest answer.
ASSUME LineAssumption == Len(Line(0, "ok")) <= BufLen

\* Where a thread is in Send_*_Command and, inside it, in Send_SAMD_CMD.
InSend   == {"enter", "done0", "len0", "send", "wait"}
Holding  == InSend \cup {"parse", "unlock"}
Labels   == {"idle", "lock"} \cup Holding
CbLabels == {"idle", "copy", "advance", "test", "signal"}

Init ==
  /\ pc = [t \in Threads |-> "idle"]
  /\ try = [t \in Threads |-> 0]
  /\ cur = [t \in Threads |-> 0]
  /\ rc = [t \in Threads |-> 0]
  /\ mutex = NoThread
  /\ uart_rvc_done = 1
  /\ uart_rvc_len = 0
  /\ uart_rcv_data = [i \in Cells |-> Blank]
  /\ ret_buff = <<>>
  /\ battery_info = 0
  /\ cb = [pc |-> "idle", chunk |-> <<>>, at |-> 0]
  /\ toSamd = <<>> /\ fromSamd = <<>>
  /\ calls = 0 /\ noise = 0
  /\ accepted = {}
  /\ disturbed = FALSE

-----------------------------------------------------------------------------
(* The threads that send commands. *)

Goto(t, l) == pc' = [pc EXCEPT ![t] = l]

\* Each try of a call is a request of its own.
Request(t) == 2 * cur[t] - 1 + try[t]

\* Send_Link_Command, Send_UnLink_Command, Send_ID_Command and
\* Send_Battery_Command begin alike.
Call(t) ==
  /\ pc[t] = "idle"
  /\ calls < MaxCalls
  /\ calls' = calls + 1
  /\ cur' = [cur EXCEPT ![t] = calls + 1]
  /\ Goto(t, "lock")
  /\ UNCHANGED <<try, rc, mutex, receiver, ret_buff, battery_info, cb, toSamd, fromSamd,
                 noise, accepted, disturbed>>

\* The thread does something that does not concern the link.
OtherWork(t) == pc[t] = "idle" /\ UNCHANGED vars

\* Faulty variant: the mutex is not taken by anybody.
Lock_NoWait(t) ==
  /\ pc[t] = "lock"
  /\ mutex' = t
  /\ Goto(t, "enter")
  /\ UNCHANGED <<thread_but_pc, receiver, ret_buff, battery_info, cb, wire, disturbed>>

Lock(t) ==
  /\ pc[t] = "lock"
  /\ mutex = NoThread
  /\ mutex' = t
  /\ Goto(t, "enter")
  /\ UNCHANGED <<thread_but_pc, receiver, ret_buff, battery_info, cb, wire, disturbed>>

\* Something the SAMD said, or may still say, has not reached its reader.
Outstanding == toSamd # <<>> \/ fromSamd # <<>> \/ cb.pc # "idle"

\* expect_resp[0] = 0.  Bytes of an earlier exchange still under way may
\* disturb this one.
Enter(t) ==
  /\ pc[t] = "enter"
  /\ ret_buff' = <<>>
  /\ disturbed' = Outstanding
  /\ Goto(t, "done0")
  /\ UNCHANGED <<thread_but_pc, mutex, receiver, battery_info, cb, wire>>

\* clear_uart_recv: two stores, the callback may run between them.
ClearDone(t) ==
  /\ pc[t] = "done0"
  /\ uart_rvc_done' = 0
  /\ Goto(t, "len0")
  /\ UNCHANGED <<thread_but_pc, mutex, uart_rvc_len, uart_rcv_data, ret_buff,
                 battery_info, cb, wire, disturbed>>

\* Faulty variant: the length is not reset.
ClearLen_Keeps(t) ==
  /\ pc[t] = "len0"
  /\ Goto(t, "send")
  /\ UNCHANGED <<thread_but_pc, mutex, receiver, ret_buff, battery_info, cb, wire, disturbed>>

ClearLen(t) ==
  /\ pc[t] = "len0"
  /\ uart_rvc_len' = 0
  /\ Goto(t, "send")
  /\ UNCHANGED <<thread_but_pc, mutex, uart_rvc_done, uart_rcv_data, ret_buff,
                 battery_info, cb, wire, disturbed>>

\* hfuart_send of the whole frame.
Send(t) ==
  /\ pc[t] = "send"
  /\ toSamd' = Append(toSamd, [req |-> Request(t), battery |-> t = Main])
  /\ Goto(t, "wait")
  /\ UNCHANGED <<thread_but_pc, mutex, receiver, ret_buff, battery_info, cb, fromSamd,
                 calls, noise, accepted, disturbed>>

\* timeout_tick has passed and no line is complete.
Expires(t) ==
  /\ pc[t] = "wait"
  /\ uart_rvc_done = 0
  /\ disturbed' = (disturbed \/ Outstanding)

\* Faulty variant: one try too many.
Retry_OneMore(t) ==
  /\ Expires(t)
  /\ try' = [try EXCEPT ![t] = @ + 1]
  /\ Goto(t, "done0")
  /\ UNCHANGED <<cur, rc, mutex, receiver, ret_buff, battery_info, cb, wire>>

\* The first try failed: clear and send again.
Retry(t) ==
  /\ Expires(t)
  /\ try[t] = 0
  /\ try' = [try EXCEPT ![t] = 1]
  /\ Goto(t, "done0")
  /\ UNCHANGED <<cur, rc, mutex, receiver, ret_buff, battery_info, cb, wire>>

\* Faulty variant: the callback keeps listening.
GiveUp_StillListens(t) ==
  /\ Expires(t)
  /\ try[t] = 1
  /\ rc' = [rc EXCEPT ![t] = -101]
  /\ Goto(t, "unlock")
  /\ UNCHANGED <<try, cur, mutex, receiver, ret_buff, battery_info, cb, wire>>

\* Faulty variant: the error path returns with the mutex held.
GiveUp_KeepsMutex(t) ==
  /\ Expires(t)
  /\ try[t] = 1
  /\ uart_rvc_done' = 1
  /\ Goto(t, "idle")
  /\ UNCHANGED <<thread_but_pc, mutex, uart_rvc_len, uart_rcv_data, ret_buff,
                 battery_info, cb, wire>>

\* The second try failed: refuse further bytes and return -101.
GiveUp(t) ==
  /\ Expires(t)
  /\ try[t] = 1
  /\ uart_rvc_done' = 1
  /\ rc' = [rc EXCEPT ![t] = -101]
  /\ Goto(t, "unlock")
  /\ UNCHANGED <<try, cur, mutex, uart_rvc_len, uart_rcv_data, ret_buff,
                 battery_info, cb, wire>>

\* The bytes memmove takes from the receive buffer.
Received == [i \in 1 .. uart_rvc_len |->
               IF i - 1 \in Cells THEN uart_rcv_data[i - 1] ELSE Blank]

\* A line is complete: copy it into ret_buff.
Take(t) ==
  /\ pc[t] = "wait"
  /\ uart_rvc_done = 1
  /\ ret_buff' = Received
  /\ Goto(t, "parse")
  /\ UNCHANGED <<thread_but_pc, mutex, receiver, battery_info, cb, wire, disturbed>>

Contains(s, part) == \E i \in DOMAIN s : s[i].part = part

\* Link, UnLink and ID look for "ok"; the battery answer is copied unread.
Parse(t) ==
  /\ pc[t] = "parse"
  /\ IF t = Main
     THEN /\ battery_info' = IF ret_buff = <<>> THEN 0 ELSE ret_buff[1].req
          /\ rc' = [rc EXCEPT ![t] = 0]
     ELSE /\ rc' = [rc EXCEPT ![t] = IF Contains(ret_buff, "ok") THEN 0 ELSE -106]
          /\ UNCHANGED battery_info
  /\ Goto(t, "unlock")
  /\ UNCHANGED <<try, cur, mutex, receiver, ret_buff, cb, wire, disturbed>>

\* The call returns and its locals are gone.
Unlock(t) ==
  /\ pc[t] = "unlock"
  /\ mutex' = NoThread
  /\ try' = [try EXCEPT ![t] = 0]
  /\ cur' = [cur EXCEPT ![t] = 0]
  /\ rc' = [rc EXCEPT ![t] = 0]
  /\ Goto(t, "idle")
  /\ UNCHANGED <<receiver, ret_buff, battery_info, cb, wire, disturbed>>

-----------------------------------------------------------------------------
(* uart_recv_callback, run by the UART thread for each chunk. *)

\* The next chunk spoils the exchange under way: it holds noise, or it ends
\* between the two line ends of an answer, the second of which comes late.
Disturbs(k) ==
  /\ \E t \in Threads : pc[t] \in InSend
  /\ fromSamd[k].part = "nl" \/ \E i \in 1 .. k : fromSamd[i].req = 0

\* The driver hands over the next k units.  With no reader waiting they are
\* dropped, and the length is reset.
CbCheck(k) ==
  /\ cb.pc = "idle"
  /\ k <= Len(fromSamd)
  /\ fromSamd' = SubSeq(fromSamd, k + 1, Len(fromSamd))
  /\ IF uart_rvc_done = 1
     THEN uart_rvc_len' = 0 /\ UNCHANGED cb
     ELSE /\ cb' = [cb EXCEPT !.pc = "copy", !.chunk = SubSeq(fromSamd, 1, k)]
          /\ UNCHANGED uart_rvc_len
  /\ disturbed' = (disturbed \/ Disturbs(k))
  /\ UNCHANGED <<thread, mutex, uart_rvc_done, uart_rcv_data, ret_buff,
                 battery_info, toSamd, calls, noise, accepted>>

\* strncpy to the current end of the buffer.
CbCopy ==
  /\ cb.pc = "copy"
  /\ uart_rcv_data' = [i \in Cells |->
       IF i - uart_rvc_len + 1 \in DOMAIN cb.chunk
       THEN cb.chunk[i - uart_rvc_len + 1] ELSE uart_rcv_data[i]]
  /\ cb' = [cb EXCEPT !.pc = "advance", !.at = uart_rvc_len]
  /\ UNCHANGED <<thread, mutex, uart_rvc_done, uart_rvc_len, ret_buff,
                 battery_info, wire, disturbed>>

\* uart_rvc_len += copy_len, a load and a store: the load may have happened
\* before a concurrent clear.
CbAdvance ==
  /\ cb.pc = "advance"
  /\ \E loaded \in {cb.at, uart_rvc_len} :
       uart_rvc_len' = loaded + Len(cb.chunk)
  /\ cb' = [pc |-> "test", chunk |-> <<>>, at |-> 0]
  /\ UNCHANGED <<thread, mutex, uart_rvc_done, uart_rcv_data, ret_buff,
                 battery_info, wire, disturbed>>

\* Does the buffer end in '\n' or '\r'?  A clear since the previous step
\* makes the code look one byte before the buffer: either answer is possible.
CbTest ==
  /\ cb.pc = "test"
  /\ \E ends \in IF uart_rvc_len - 1 \in Cells
                 THEN {EndsLine(uart_rcv_data[uart_rvc_len - 1])} ELSE BOOLEAN :
       cb' = [cb EXCEPT !.pc = IF ends THEN "signal" ELSE "idle"]
  /\ UNCHANGED <<thread, mutex, receiver, ret_buff, battery_info, wire, disturbed>>

CbSignal ==
  /\ cb.pc = "signal"
  /\ uart_rvc_done' = 1
  /\ cb' = [cb EXCEPT !.pc = "idle"]
  /\ UNCHANGED <<thread, mutex, uart_rvc_len, uart_rcv_data, ret_buff,
                 battery_info, wire, disturbed>>

Callback == (\E k \in Chunks : CbCheck(k)) \/ CbCopy \/ CbAdvance \/ CbTest \/ CbSignal

-----------------------------------------------------------------------------
(* The SAMD, known only through what the code sends and expects. *)

\* It answers a request, as late as it likes.
SamdAnswer ==
  /\ toSamd # <<>>
  /\ \E ok \in BOOLEAN :
       LET r == Head(toSamd).req
           body == IF Head(toSamd).battery THEN "bat" ELSE IF ok THEN "ok" ELSE "no"
       IN /\ fromSamd' = fromSamd \o Line(r, body)
          /\ accepted' = IF body = "ok" THEN accepted \cup {r} ELSE accepted
  /\ toSamd' = Tail(toSamd)
  /\ UNCHANGED <<thread, mutex, receiver, ret_buff, battery_info, cb, calls, noise, disturbed>>

\* It misses a request.
SamdSilent ==
  /\ toSamd # <<>>
  /\ toSamd' = Tail(toSamd)
  /\ UNCHANGED <<thread, mutex, receiver, ret_buff, battery_info, cb, fromSamd,
                 calls, noise, accepted, disturbed>>

\* "the SAMD jumps 0 and re-init uart always send some garbage": noise.
SamdNoise ==
  /\ noise < MaxNoise
  /\ noise' = noise + 1
  /\ \E part \in {"no", "nl"} : fromSamd' = Append(fromSamd, Unit(0, part))
  /\ UNCHANGED <<thread, mutex, receiver, ret_buff, battery_info, cb, toSamd, calls,
                 accepted, disturbed>>

Samd == SamdAnswer \/ SamdSilent \/ SamdNoise

-----------------------------------------------------------------------------
\* A thread inside a call takes its next step.
CallStep(t) ==
  \/ Lock(t) \/ Enter(t) \/ ClearDone(t) \/ ClearLen(t) \/ Send(t)
  \/ Retry(t) \/ GiveUp(t) \/ Take(t) \/ Parse(t) \/ Unlock(t)

Next ==
  \/ \E t \in Threads : Call(t) \/ OtherWork(t) \/ CallStep(t)
  \/ Callback
  \/ Samd

Spec == Init /\ [][Next]_vars

\* The scheduler runs every ready thread; a waiter for the mutex gets it in
\* the end because the threads sleep for seconds between two commands.
Fairness ==
  \A t \in Threads : WF_vars(CallStep(t)) /\ SF_vars(Lock(t))

FairSpec == Spec /\ Fairness

-----------------------------------------------------------------------------
(* Properties. *)

ThreadTypes ==
  /\ pc \in [Threads -> Labels]
  /\ try \in [Threads -> {0, 1}]
  /\ cur \in [Threads -> 0 .. MaxCalls]
  /\ rc \in [Threads -> {0, -101, -106}]
  /\ mutex \in Threads \cup {NoThread}

ReceiverTypes ==
  /\ uart_rvc_done \in {0, 1}
  /\ uart_rvc_len \in Nat
  /\ uart_rcv_data \in [Cells -> Units]
  /\ ret_buff \in Seq(Units)
  /\ battery_info \in 0 .. 2 * MaxCalls
  /\ cb \in [pc : CbLabels, chunk : Seq(Units), at : Nat]

WireTypes ==
  /\ toSamd \in Seq([req : Reqs, battery : BOOLEAN])
  /\ fromSamd \in Seq(Units)
  /\ calls \in 0 .. MaxCalls
  /\ noise \in 0 .. MaxNoise
  /\ accepted \subseteq Reqs
  /\ disturbed \in BOOLEAN

\* Every variable holds a value its declaration in the code can hold.
TypeOK == ThreadTypes /\ ReceiverTypes /\ WireTypes

\* samd_mutex brackets a whole exchange: who sends, waits, or reads the shared
\* answer buffer is its owner, so there is one such thread.
OneConversation == \A t \in Threads : pc[t] \in Holding <=> mutex = t

\* Between the clear of its first try and the end of its last one a caller
\* listens.
Listening(t) == pc[t] \in {"len0", "send", "wait"} \/ (pc[t] = "done0" /\ try[t] = 1)

\* While nobody listens the callback is switched off (uart_rvc_done = 1), on
\* every way out of Send_SAMD_CMD: what the SAMD says then never enters the
\* receive buffer.
DeafWhenIdle == (\A t \in Threads : ~Listening(t)) => uart_rvc_done = 1

\* The answer a caller reads in ret_buff is not replaced while it reads it.
AnswerStable ==
  [][\A t \in Threads : pc[t] = "parse" => ret_buff' = ret_buff]_vars

\* What the caller reports is what happened at the SAMD.  On an exchange that
\* starts on a quiet wire and is not disturbed, Link, UnLink and ID report
\* success exactly when the SAMD obeyed one of the tries, and the battery text
\* is the answer to this very request, even if the first try was lost.
StatusIsTrue ==
  \A t \in Threads : pc[t] = "unlock" /\ ~disturbed =>
    IF t = Main THEN rc[t] = 0 => battery_info = Request(t)
    ELSE rc[t] = 0 <=> {2 * cur[t] - 1, 2 * cur[t]} \cap accepted # {}

\* The callback bounds a chunk, not the sum of the chunks since the clear: on an
\* undisturbed exchange the buffer never holds more than one line.
OneLineBuffered ==
  (\E t \in Threads : pc[t] \in {"send", "wait", "parse"}) /\ ~disturbed
    => uart_rvc_len <= Len(Line(0, "ok"))

\* Whatever the SAMD does, a call gives the mutex back and returns.
CallReturns == \A t \in Threads : pc[t] # "idle" ~> pc[t] = "idle"
=============================================================================
