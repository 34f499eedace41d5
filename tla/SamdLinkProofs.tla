-------------------------- MODULE SamdLinkProofs --------------------------
(***************************************************************************)
(* Proofs about SamdLink for any set of threads, any chunking of the UART  *)
(* driver, and any number of commands: types, the mutex, the switch of the *)
(* callback, and, from an invariant that says where every unit of an       *)
(* undisturbed exchange is, that what a caller reports is true.            *)
(***************************************************************************)
EXTENDS SamdLink, SequenceTheorems, TLAPS

\* A thread has a call number from Call to Unlock, so the request it sends is
\* one of Reqs.
CallNumbered == \A t \in Threads : pc[t] # "idle" => cur[t] \in 1 .. MaxCalls

Typed == TypeOK /\ CallNumbered

LEMMA SubSeqOfSeq ==
  ASSUME NEW S, NEW s \in Seq(S), NEW m \in Nat \ {0}, NEW n \in 0 .. Len(s)
  PROVE  SubSeq(s, m, n) \in Seq(S)
  OBVIOUS

LEMMA TypedInit == Init => Typed
<1> SUFFICES ASSUME Init PROVE Typed
  OBVIOUS
<1> USE ThreadsAssumption, BoundsAssumption DEF Init
<1>1. ThreadTypes
  BY DEF ThreadTypes, Labels, Holding, InSend
<1>2. Blank \in Units
  BY DEF Units, Parts, Blank
<1>3. ReceiverTypes
  <2>1. ret_buff \in Seq(Units)
    OBVIOUS
  <2>2. uart_rcv_data \in [Cells -> Units]
    BY <1>2
  <2>3. cb \in [pc : CbLabels, chunk : Seq(Units), at : Nat]
    BY DEF CbLabels
  <2>4. QED
    BY <2>1, <2>2, <2>3 DEF ReceiverTypes
<1>4. WireTypes
  <2>1. toSamd \in Seq([req : Reqs, battery : BOOLEAN]) /\ fromSamd \in Seq(Units)
    OBVIOUS
  <2>2. accepted \subseteq Reqs
    OBVIOUS
  <2>3. calls \in 0 .. MaxCalls /\ noise \in 0 .. MaxNoise
    OBVIOUS
  <2>4. disturbed \in BOOLEAN
    OBVIOUS
  <2>5. QED
    BY <2>1, <2>2, <2>3, <2>4 DEF WireTypes
<1>5. CallNumbered
  BY DEF CallNumbered
<1>6. QED
  BY <1>1, <1>3, <1>4, <1>5 DEF Typed, TypeOK

\* The thread steps: program counter and locals of one thread.
LEMMA TypedThread ==
  ASSUME Typed, NEW t \in Threads, Call(t) \/ CallStep(t)
  PROVE  ThreadTypes' /\ CallNumbered'
<1> USE BoundsAssumption DEF Typed, TypeOK, ThreadTypes, CallNumbered, Goto,
    thread_but_pc, Labels, Holding, InSend
<1>1. CASE Call(t)
  BY <1>1 DEF Call, WireTypes
<1>2. CASE Lock(t)
  BY <1>2 DEF Lock
<1>3. CASE Enter(t)
  BY <1>3 DEF Enter
<1>4. CASE ClearDone(t)
  BY <1>4 DEF ClearDone
<1>5. CASE ClearLen(t)
  BY <1>5 DEF ClearLen
<1>6. CASE Send(t)
  BY <1>6 DEF Send
<1>7. CASE Retry(t)
  BY <1>7 DEF Retry, Expires
<1>8. CASE GiveUp(t)
  BY <1>8 DEF GiveUp, Expires
<1>9. CASE Take(t)
  BY <1>9 DEF Take
<1>10. CASE Parse(t)
  <2>1. rc' \in [Threads -> {0, -101, -106}]
    <3>1. PICK r \in {0, -106} : rc' = [rc EXCEPT ![t] = r]
      BY <1>10 DEF Parse
    <3>2. QED
      BY <3>1
  <2>2. pc' \in [Threads -> Labels] /\ UNCHANGED <<try, cur, mutex, calls>>
    BY <1>10 DEF Parse, wire
  <2>3. ThreadTypes'
    BY <2>1, <2>2
  <2>4. CallNumbered'
    BY <1>10, <2>2 DEF Parse
  <2>5. QED
    BY <2>3, <2>4
<1>11. CASE Unlock(t)
  BY <1>11 DEF Unlock
<1>12. QED
  BY <1>1, <1>2, <1>3, <1>4, <1>5, <1>6, <1>7, <1>8, <1>9, <1>10, <1>11 DEF CallStep

\* The receive side is changed by the callback and by the steps of the waiter.
LEMMA ReceivedTyped == TypeOK => Received \in Seq(Units)
<1> SUFFICES ASSUME TypeOK PROVE Received \in Seq(Units)
  OBVIOUS
<1>1. Blank \in Units
  BY BoundsAssumption DEF Units, Parts, Blank
<1>2. uart_rvc_len \in Nat
  BY DEF TypeOK, ReceiverTypes
<1>3. \A i \in 1 .. uart_rvc_len :
        (IF i - 1 \in Cells THEN uart_rcv_data[i - 1] ELSE Blank) \in Units
  BY <1>1 DEF TypeOK, ReceiverTypes
<1>4. QED
  BY <1>2, <1>3 DEF Received

LEMMA TypedReceiverOfThread ==
  ASSUME Typed, NEW t \in Threads, Call(t) \/ CallStep(t)
  PROVE  ReceiverTypes'
<1> USE DEF Typed, TypeOK, ReceiverTypes, receiver
<1>1. CASE Call(t)
  BY <1>1 DEF Call
<1>2. CASE Lock(t)
  BY <1>2 DEF Lock
<1>3. CASE Enter(t)
  BY <1>3 DEF Enter
<1>4. CASE ClearDone(t)
  BY <1>4 DEF ClearDone
<1>5. CASE ClearLen(t)
  BY <1>5 DEF ClearLen
<1>6. CASE Send(t)
  BY <1>6 DEF Send
<1>7. CASE Retry(t)
  BY <1>7 DEF Retry
<1>8. CASE GiveUp(t)
  BY <1>8 DEF GiveUp
<1>9. CASE Take(t)
  BY <1>9, ReceivedTyped DEF Take
<1>10. CASE Parse(t)
  <2>1. ret_buff # <<>> => ret_buff[1] \in Units
    OBVIOUS
  <2>2. battery_info' \in 0 .. 2 * MaxCalls
    BY <1>10, <2>1, BoundsAssumption DEF Parse, Units
  <2>3. QED
    BY <1>10, <2>2 DEF Parse
<1>11. CASE Unlock(t)
  BY <1>11 DEF Unlock
<1>12. QED
  BY <1>1, <1>2, <1>3, <1>4, <1>5, <1>6, <1>7, <1>8, <1>9, <1>10, <1>11 DEF CallStep

LEMMA TypedWireOfThread ==
  ASSUME Typed, NEW t \in Threads, Call(t) \/ CallStep(t)
  PROVE  WireTypes'
<1> USE DEF Typed, TypeOK, WireTypes, wire
<1>1. CASE Call(t)
  BY <1>1, BoundsAssumption DEF Call
<1>2. CASE Lock(t)
  BY <1>2 DEF Lock
<1>3. CASE Enter(t)
  BY <1>3 DEF Enter, Outstanding
<1>4. CASE ClearDone(t)
  BY <1>4 DEF ClearDone
<1>5. CASE ClearLen(t)
  BY <1>5 DEF ClearLen
<1>6. CASE Send(t)
  <2>1. try[t] \in {0, 1} /\ cur[t] \in 1 .. MaxCalls
    BY <1>6 DEF Send, ThreadTypes, CallNumbered
  <2>2. Request(t) \in Reqs
    BY <2>1, BoundsAssumption DEF Request, Reqs
  <2>3. toSamd' \in Seq([req : Reqs, battery : BOOLEAN])
    BY <1>6, <2>2 DEF Send
  <2>4. QED
    BY <1>6, <2>3 DEF Send
<1>7. CASE Retry(t)
  BY <1>7 DEF Retry, Expires, Outstanding
<1>8. CASE GiveUp(t)
  BY <1>8 DEF GiveUp, Expires, Outstanding
<1>9. CASE Take(t)
  BY <1>9 DEF Take
<1>10. CASE Parse(t)
  BY <1>10 DEF Parse
<1>11. CASE Unlock(t)
  BY <1>11 DEF Unlock
<1>12. QED
  BY <1>1, <1>2, <1>3, <1>4, <1>5, <1>6, <1>7, <1>8, <1>9, <1>10, <1>11 DEF CallStep

LEMMA TypedCallback ==
  ASSUME Typed, Callback
  PROVE  Typed'
<1> USE DEF Typed, TypeOK
<1>1. ThreadTypes' /\ CallNumbered'
  BY DEF Callback, CbCheck, CbCopy, CbAdvance, CbTest, CbSignal, thread,
     ThreadTypes, CallNumbered
<1>2. ReceiverTypes' /\ WireTypes'
  <2> USE DEF ReceiverTypes, WireTypes, CbLabels, wire
  <2>1. ASSUME NEW k \in Chunks, CbCheck(k) PROVE ReceiverTypes' /\ WireTypes'
    <3>1. k \in Nat \ {0} /\ k <= Len(fromSamd)
      BY <2>1, BoundsAssumption DEF CbCheck
    <3>2. SubSeq(fromSamd, 1, k) \in Seq(Units)
      BY <3>1, SubSeqOfSeq
    <3>3. SubSeq(fromSamd, k + 1, Len(fromSamd)) \in Seq(Units)
      BY <3>1, SubSeqOfSeq
    <3>4. ReceiverTypes'
      <4>1. cb' \in [pc : CbLabels, chunk : Seq(Units), at : Nat]
        BY <2>1, <3>2 DEF CbCheck
      <4>2. uart_rvc_len' \in Nat
        BY <2>1 DEF CbCheck
      <4>3. QED
        BY <2>1, <4>1, <4>2 DEF CbCheck
    <3>5. (disturbed \/ Disturbs(k)) \in BOOLEAN
      BY DEF Disturbs
    <3>6. WireTypes'
      BY <2>1, <3>3, <3>5 DEF CbCheck
    <3>7. QED
      BY <3>4, <3>6
  <2>2. CASE CbCopy
    <3>1. \A i \in Cells :
            (IF i - uart_rvc_len + 1 \in DOMAIN cb.chunk
             THEN cb.chunk[i - uart_rvc_len + 1] ELSE uart_rcv_data[i]) \in Units
      OBVIOUS
    <3>2. uart_rcv_data' \in [Cells -> Units]
      BY <2>2, <3>1 DEF CbCopy
    <3>3. cb' \in [pc : CbLabels, chunk : Seq(Units), at : Nat]
      BY <2>2 DEF CbCopy
    <3>4. QED
      BY <2>2, <3>2, <3>3 DEF CbCopy
  <2>3. CASE CbAdvance
    <3>1. uart_rvc_len' \in Nat
      BY <2>3 DEF CbAdvance
    <3>2. cb' \in [pc : CbLabels, chunk : Seq(Units), at : Nat]
      BY <2>3 DEF CbAdvance
    <3>3. QED
      BY <2>3, <3>1, <3>2 DEF CbAdvance
  <2>4. CASE CbTest
    BY <2>4 DEF CbTest, receiver
  <2>5. CASE CbSignal
    BY <2>5 DEF CbSignal
  <2>6. QED
    BY <2>1, <2>2, <2>3, <2>4, <2>5 DEF Callback
<1>3. QED
  BY <1>1, <1>2

LEMMA TypedSamd ==
  ASSUME Typed, Samd
  PROVE  Typed'
<1> USE DEF Typed, TypeOK
<1>1. ThreadTypes' /\ CallNumbered' /\ ReceiverTypes'
  BY DEF Samd, SamdAnswer, SamdSilent, SamdNoise, thread, receiver,
     ThreadTypes, CallNumbered, ReceiverTypes
<1>2. WireTypes'
  <2> USE DEF WireTypes
  <2>1. ASSUME toSamd # <<>>
        PROVE  Head(toSamd).req \in Reqs /\ Tail(toSamd) \in Seq([req : Reqs, battery : BOOLEAN])
    <3>1. /\ Head(toSamd) \in [req : Reqs, battery : BOOLEAN]
          /\ Tail(toSamd) \in Seq([req : Reqs, battery : BOOLEAN])
      BY <2>1, HeadTailProperties
    <3>2. QED
      BY <2>1, <3>1
  <2>2. ASSUME NEW r \in Reqs, NEW body \in Parts
        PROVE  Line(r, body) \in Seq(Units)
    <3>1. \A p \in Parts : Unit(r, p) \in Units
      BY <2>2, BoundsAssumption DEF Unit, Units, Reqs
    <3>2. QED
      BY <3>1, <2>2 DEF Line, Parts
  <2>3. CASE SamdAnswer
    <3>1. PICK ok \in BOOLEAN :
            LET r == Head(toSamd).req
                body == IF Head(toSamd).battery THEN "bat" ELSE IF ok THEN "ok" ELSE "no"
            IN /\ fromSamd' = fromSamd \o Line(r, body)
               /\ accepted' = IF body = "ok" THEN accepted \cup {r} ELSE accepted
      BY <2>3 DEF SamdAnswer
    <3> DEFINE r == Head(toSamd).req
               body == IF Head(toSamd).battery THEN "bat" ELSE IF ok THEN "ok" ELSE "no"
    <3>2. r \in Reqs /\ toSamd' \in Seq([req : Reqs, battery : BOOLEAN])
      BY <2>1, <2>3 DEF SamdAnswer
    <3>3. body \in Parts
      BY DEF Parts
    <3>4. Line(r, body) \in Seq(Units)
      BY <2>2, <3>2, <3>3
    <3> HIDE DEF r, body
    <3>5. fromSamd' \in Seq(Units)
      BY <3>1, <3>4 DEF r, body
    <3>6. accepted' \subseteq Reqs
      BY <3>1, <3>2 DEF r, body
    <3>7. QED
      BY <2>3, <3>2, <3>5, <3>6 DEF SamdAnswer
  <2>4. CASE SamdSilent
    BY <2>1, <2>4 DEF SamdSilent
  <2>5. CASE SamdNoise
    <3>1. \A part \in {"no", "nl"} : Unit(0, part) \in Units
      BY BoundsAssumption DEF Unit, Units, Parts
    <3>2. fromSamd' \in Seq(Units)
      BY <2>5, <3>1 DEF SamdNoise
    <3>3. noise' \in 0 .. MaxNoise
      BY <2>5, BoundsAssumption DEF SamdNoise
    <3>4. QED
      BY <2>5, <3>2, <3>3 DEF SamdNoise
  <2>6. QED
    BY <2>3, <2>4, <2>5 DEF Samd
<1>3. QED
  BY <1>1, <1>2

LEMMA TypedNext == Typed /\ [Next]_vars => Typed'
<1> SUFFICES ASSUME Typed, [Next]_vars PROVE Typed'
  OBVIOUS
<1>1. ASSUME NEW t \in Threads, Call(t) \/ CallStep(t) PROVE Typed'
  BY <1>1, TypedThread, TypedReceiverOfThread, TypedWireOfThread DEF Typed, TypeOK
<1>2. CASE UNCHANGED vars
  BY <1>2 DEF vars, Typed, TypeOK, ThreadTypes, ReceiverTypes, WireTypes, CallNumbered
<1>3. ASSUME NEW t \in Threads, OtherWork(t) PROVE Typed'
  BY <1>2, <1>3 DEF OtherWork
<1>4. QED
  BY <1>1, <1>2, <1>3, TypedCallback, TypedSamd DEF Next

LEMMA SpecTyped == Spec => []Typed
  BY TypedInit, TypedNext, PTL DEF Spec

\* Every variable keeps to its declared values, whatever the chunks, the noise
\* and the late answers.
THEOREM TypeCorrect == Spec => []TypeOK
<1>1. Typed => TypeOK
  BY DEF Typed
<1>2. QED
  BY <1>1, SpecTyped, PTL

-----------------------------------------------------------------------------
(* The mutex. *)

\* Only these steps move a thread into or out of Holding.
LEMMA OneConversationNext == Typed /\ OneConversation /\ [Next]_vars => OneConversation'
<1> SUFFICES ASSUME Typed, OneConversation, [Next]_vars
             PROVE  OneConversation'
  OBVIOUS
<1> USE ThreadsAssumption
    DEF Typed, TypeOK, ThreadTypes, OneConversation, Goto, Holding, InSend
<1>1. ASSUME NEW t \in Threads, Call(t) PROVE OneConversation'
  BY <1>1 DEF Call
<1>2. ASSUME NEW t \in Threads, Lock(t) PROVE OneConversation'
  BY <1>2 DEF Lock
<1>3. ASSUME NEW t \in Threads, Enter(t) PROVE OneConversation'
  BY <1>3 DEF Enter
<1>4. ASSUME NEW t \in Threads, ClearDone(t) PROVE OneConversation'
  BY <1>4 DEF ClearDone
<1>5. ASSUME NEW t \in Threads, ClearLen(t) PROVE OneConversation'
  BY <1>5 DEF ClearLen
<1>6. ASSUME NEW t \in Threads, Send(t) PROVE OneConversation'
  BY <1>6 DEF Send
<1>7. ASSUME NEW t \in Threads, Retry(t) PROVE OneConversation'
  BY <1>7 DEF Retry, Expires
<1>8. ASSUME NEW t \in Threads, GiveUp(t) PROVE OneConversation'
  BY <1>8 DEF GiveUp, Expires
<1>9. ASSUME NEW t \in Threads, Take(t) PROVE OneConversation'
  BY <1>9 DEF Take
<1>10. ASSUME NEW t \in Threads, Parse(t) PROVE OneConversation'
  BY <1>10 DEF Parse
<1>11. ASSUME NEW t \in Threads, Unlock(t) PROVE OneConversation'
  BY <1>11 DEF Unlock
<1>12. CASE UNCHANGED vars
  BY <1>12 DEF vars
<1>13. ASSUME NEW t \in Threads, OtherWork(t) PROVE OneConversation'
  BY <1>12, <1>13 DEF OtherWork
<1>14. CASE Callback
  BY <1>14 DEF Callback, CbCheck, CbCopy, CbAdvance, CbTest, CbSignal, thread
<1>15. CASE Samd
  BY <1>15 DEF Samd, SamdAnswer, SamdSilent, SamdNoise, thread
<1>16. QED
  BY <1>1, <1>2, <1>3, <1>4, <1>5, <1>6, <1>7, <1>8, <1>9, <1>10, <1>11, <1>12,
     <1>13, <1>14, <1>15 DEF Next, CallStep

LEMMA OneConversationInit == Init => OneConversation
  BY ThreadsAssumption DEF Init, OneConversation, Holding, InSend

\* The mutex brackets every exchange: its owner is the only thread between
\* Lock and Unlock.
THEOREM MutexBracketsExchange == Spec => []OneConversation
  BY OneConversationInit, OneConversationNext, SpecTyped, PTL DEF Spec

\* Two threads past Lock are the same thread, so nobody else writes ret_buff
\* while its owner parses it.
LEMMA AnswerStableStep ==
  Typed /\ OneConversation /\ [Next]_vars
    => [\A t \in Threads : pc[t] = "parse" => ret_buff' = ret_buff]_vars
<1> SUFFICES ASSUME Typed, OneConversation, Next, NEW t \in Threads, pc[t] = "parse"
             PROVE  ret_buff' = ret_buff
  BY DEF vars
<1>1. mutex = t
  BY DEF OneConversation, Holding
<1>2. ASSUME NEW u \in Threads, Enter(u) \/ Take(u) PROVE FALSE
  <2>1. pc[u] \in {"enter", "wait"}
    BY <1>2 DEF Enter, Take
  <2>2. mutex = u
    BY <2>1 DEF OneConversation, Holding, InSend
  <2>3. QED
    BY <1>1, <2>1, <2>2
<1>3. ASSUME NEW u \in Threads, Call(u) \/ OtherWork(u) \/ CallStep(u)
      PROVE  ret_buff' = ret_buff
  BY <1>2, <1>3 DEF Call, OtherWork, CallStep, Lock, ClearDone, ClearLen, Send,
     Retry, GiveUp, Parse, Unlock, vars
<1>4. CASE Callback
  BY <1>4 DEF Callback, CbCheck, CbCopy, CbAdvance, CbTest, CbSignal
<1>5. CASE Samd
  BY <1>5 DEF Samd, SamdAnswer, SamdSilent, SamdNoise
<1>6. QED
  BY <1>3, <1>4, <1>5 DEF Next

\* The answer a caller reads is never replaced under its eyes.
THEOREM AnswerNotReplaced == Spec => AnswerStable
  BY OneConversationInit, OneConversationNext, SpecTyped, AnswerStableStep, PTL
  DEF Spec, AnswerStable

-----------------------------------------------------------------------------
(* The switch of the callback. *)

LEMMA DeafNext == Typed /\ DeafWhenIdle /\ [Next]_vars => DeafWhenIdle'
<1> SUFFICES ASSUME Typed, DeafWhenIdle, [Next]_vars
             PROVE  DeafWhenIdle'
  OBVIOUS
<1> USE DEF Typed, TypeOK, ThreadTypes, DeafWhenIdle, Listening, Goto,
    thread_but_pc, receiver
<1>1. ASSUME NEW t \in Threads, Call(t) PROVE DeafWhenIdle'
  BY <1>1 DEF Call
<1>2. ASSUME NEW t \in Threads, Lock(t) PROVE DeafWhenIdle'
  BY <1>2 DEF Lock
<1>3. ASSUME NEW t \in Threads, Enter(t) PROVE DeafWhenIdle'
  BY <1>3 DEF Enter
<1>4. ASSUME NEW t \in Threads, ClearDone(t) PROVE DeafWhenIdle'
  BY <1>4 DEF ClearDone
<1>5. ASSUME NEW t \in Threads, ClearLen(t) PROVE DeafWhenIdle'
  BY <1>5 DEF ClearLen
<1>6. ASSUME NEW t \in Threads, Send(t) PROVE DeafWhenIdle'
  BY <1>6 DEF Send
<1>7. ASSUME NEW t \in Threads, Retry(t) PROVE DeafWhenIdle'
  BY <1>7 DEF Retry, Expires
<1>8. ASSUME NEW t \in Threads, GiveUp(t) PROVE DeafWhenIdle'
  BY <1>8 DEF GiveUp
<1>9. ASSUME NEW t \in Threads, Take(t) PROVE DeafWhenIdle'
  BY <1>9 DEF Take
<1>10. ASSUME NEW t \in Threads, Parse(t) PROVE DeafWhenIdle'
  BY <1>10 DEF Parse
<1>11. ASSUME NEW t \in Threads, Unlock(t) PROVE DeafWhenIdle'
  BY <1>11 DEF Unlock
<1>12. CASE UNCHANGED vars
  BY <1>12 DEF vars
<1>13. ASSUME NEW t \in Threads, OtherWork(t) PROVE DeafWhenIdle'
  BY <1>12, <1>13 DEF OtherWork
<1>14. CASE Callback
  BY <1>14 DEF Callback, CbCheck, CbCopy, CbAdvance, CbTest, CbSignal, thread
<1>15. CASE Samd
  BY <1>15 DEF Samd, SamdAnswer, SamdSilent, SamdNoise, thread
<1>16. QED
  BY <1>1, <1>2, <1>3, <1>4, <1>5, <1>6, <1>7, <1>8, <1>9, <1>10, <1>11, <1>12,
     <1>13, <1>14, <1>15 DEF Next, CallStep

\* When nobody listens, the callback drops what it is given.
THEOREM CallbackOffWhenIdle == Spec => []DeafWhenIdle
<1>1. Init => DeafWhenIdle
  BY DEF Init, DeafWhenIdle
<1>2. QED
  BY <1>1, DeafNext, SpecTyped, PTL DEF Spec

-----------------------------------------------------------------------------
(* StatusIsTrue: where every unit of an exchange is.                         *)

\* The call numbers of two threads differ, and the tries of a call that were
\* not sent yet are unknown to the SAMD.
BeforeSend == {"lock", "enter", "done0", "len0", "send"}
NextReq(t) == Request(t) + (IF pc[t] \in BeforeSend THEN 0 ELSE 1)
Asked      == {toSamd[i].req : i \in DOMAIN toSamd}

Numbered ==
  /\ \A t \in Threads :
       /\ pc[t] = "idle" => cur[t] = 0
       /\ pc[t] \in {"idle", "lock", "enter"} => try[t] = 0
       /\ cur[t] <= calls
  /\ \A t, u \in Threads : t # u /\ cur[t] = cur[u] => cur[t] = 0
  /\ \A r \in Asked \cup accepted : r <= 2 * calls

Unsent ==
  \A t \in Threads : pc[t] # "idle" =>
    \A r \in Asked \cup accepted : ~(NextReq(t) <= r /\ r <= 2 * cur[t])

\* The first try of a call that is in its second was not obeyed.
FirstLost(t) == try[t] = 1 => 2 * cur[t] - 1 \notin accepted

\* What is first in fromSamd, if anything is, will disturb who hears it.
NoiseFirst == fromSamd # <<>> /\ fromSamd[1].req = 0

\* Before the request is sent, nothing else is under way.
Clearing(t) ==
  pc[t] \in {"done0", "len0", "send"} =>
    /\ toSamd = <<>> /\ cb.pc = "idle" /\ (fromSamd = <<>> \/ NoiseFirst)
    /\ pc[t] # "done0" => uart_rvc_done = 0
    /\ pc[t] = "send" => uart_rvc_len = 0
    /\ FirstLost(t)

Query(t) == [req |-> Request(t), battery |-> t = Main]

\* The request was not answered, or the answer is behind noise.
Unheard(t) ==
  /\ toSamd \in {<<>>, <<Query(t)>>} /\ cb.pc = "idle"
  /\ uart_rvc_done = 0 /\ uart_rvc_len = 0
  /\ (fromSamd = <<>> /\ Request(t) \notin accepted) \/ NoiseFirst

\* b is what the SAMD answers to the request of t, having obeyed it or not.
Answers(t, b) ==
  IF t = Main THEN b = "bat"
  ELSE b \in {"ok", "no"} /\ (b = "ok" <=> Request(t) \in accepted)

\* Of line L the first d units were handed over; behind the rest only noise.
Coming(L, d) ==
  /\ Len(fromSamd) + d >= 3
  /\ \A i \in 1 .. Len(fromSamd) :
       IF i + d <= 3 THEN fromSamd[i] = L[i + d] ELSE fromSamd[i].req = 0

Stored(L, n) == \A i \in 1 .. n : uart_rcv_data[i - 1] = L[i]

\* What the callback has done with the d units that were handed over.
Heard(L, d) ==
  \/ /\ cb.pc = "idle" /\ uart_rvc_len = d /\ Stored(L, d)
     /\ uart_rvc_done = IF d = 3 THEN 1 ELSE 0
  \/ /\ cb.pc = "copy" /\ uart_rvc_done = 0 /\ uart_rvc_len < d
     /\ Len(cb.chunk) = d - uart_rvc_len
     /\ \A i \in 1 .. d - uart_rvc_len : cb.chunk[i] = L[uart_rvc_len + i]
     /\ Stored(L, uart_rvc_len)
  \/ /\ cb.pc = "advance" /\ uart_rvc_done = 0 /\ uart_rvc_len < d
     /\ cb.at = uart_rvc_len /\ Len(cb.chunk) = d - uart_rvc_len
     /\ Stored(L, d)
  \/ /\ cb.pc \in {"test", "signal"} /\ uart_rvc_done = 0 /\ uart_rvc_len = d /\ d > 0
     /\ cb.pc = "signal" => d = 3
     /\ Stored(L, d)

Answered(t) ==
  /\ toSamd = <<>>
  /\ \E b \in Parts, d \in {0, 1, 3} :
       /\ Answers(t, b)
       /\ Coming(Line(Request(t), b), d)
       /\ Heard(Line(Request(t), b), d)

Waiting(t) == pc[t] = "wait" => FirstLost(t) /\ (Unheard(t) \/ Answered(t))

\* The answer was taken: nothing is under way that could change it.
Reading(t) ==
  pc[t] = "parse" =>
    /\ toSamd = <<>> /\ cb.pc = "idle" /\ uart_rvc_done = 1 /\ uart_rvc_len <= 3
    /\ FirstLost(t)
    /\ \E b \in Parts : Answers(t, b) /\ ret_buff = Line(Request(t), b)

Status(t) ==
  IF t = Main THEN rc[t] = 0 => battery_info = Request(t)
  ELSE rc[t] = 0 <=> {2 * cur[t] - 1, 2 * cur[t]} \cap accepted # {}

Reporting(t) == pc[t] = "unlock" => toSamd = <<>> /\ Status(t)

Located(t) == Clearing(t) /\ Waiting(t) /\ Reading(t) /\ Reporting(t)

\* An exchange that is not disturbed has its units where they belong.
Exchange == ~disturbed => \A t \in Threads : Located(t)

Booked == Numbered /\ Unsent

LEMMA BookedInit == Init => Booked
<1> SUFFICES ASSUME Init PROVE Booked
  OBVIOUS
<1>1. Asked = {} /\ accepted = {}
  BY DEF Init, Asked
<1>2. QED
  BY <1>1 DEF Init, Booked, Numbered, Unsent

LEMMA KnownReqs == Typed => Asked \cup accepted \subseteq Int
<1> SUFFICES ASSUME Typed PROVE Asked \cup accepted \subseteq Int
  OBVIOUS
<1>1. toSamd \in Seq([req : Reqs, battery : BOOLEAN]) /\ accepted \subseteq Reqs
  BY DEF Typed, TypeOK, WireTypes
<1>2. Reqs \subseteq Int
  BY BoundsAssumption DEF Reqs
<1>3. ASSUME NEW i \in DOMAIN toSamd PROVE toSamd[i].req \in Reqs
  <2>1. i \in 1 .. Len(toSamd)
    BY <1>1, LenProperties
  <2>2. toSamd[i] \in [req : Reqs, battery : BOOLEAN]
    BY <1>1, <2>1, ElementOfSeq
  <2>3. QED
    BY <2>2
<1>4. Asked \subseteq Reqs
  BY <1>3 DEF Asked
<1>5. QED
  BY <1>1, <1>2, <1>4

\* A step that sends nothing and begins or ends no call.
LEMMA BookedKept ==
  ASSUME Typed, Booked,
         UNCHANGED <<try, cur, calls>>,
         Asked' \cup accepted' \subseteq Asked \cup accepted,
         \A u \in Threads : /\ pc'[u] = "idle" <=> pc[u] = "idle"
                            /\ pc'[u] \in {"lock", "enter"} => pc[u] \in {"lock", "enter"}
                            /\ pc'[u] \in BeforeSend => pc[u] \in BeforeSend
  PROVE  Booked'
<1>1. Numbered'
  BY DEF Booked, Numbered
<1>2. ASSUME NEW u \in Threads PROVE NextReq(u) \in Int /\ NextReq(u)' \in Int /\ NextReq(u) <= NextReq(u)'
  BY <1>2 DEF NextReq, Request, Typed, TypeOK, ThreadTypes
<1>3. Asked \cup accepted \subseteq Int
  BY KnownReqs
<1>4. Unsent'
  <2> SUFFICES ASSUME NEW u \in Threads, pc'[u] # "idle", NEW r \in Asked' \cup accepted',
                      NextReq(u)' <= r, r <= 2 * cur'[u]
               PROVE  FALSE
    BY DEF Unsent
  <2>1. r \in Asked \cup accepted /\ r \in Int
    BY <1>3
  <2>2. NextReq(u) <= r
    BY <1>2, <2>1
  <2>3. pc[u] # "idle" /\ r <= 2 * cur[u]
    OBVIOUS
  <2>4. QED
    BY <2>1, <2>2, <2>3 DEF Booked, Unsent
<1>5. QED
  BY <1>1, <1>4 DEF Booked

LEMMA BookedThread ==
  ASSUME Typed, Booked, NEW t \in Threads, Call(t) \/ CallStep(t)
  PROVE  Booked'
<1>1. Asked \cup accepted \subseteq Int
  BY KnownReqs
<1> USE DEF Typed, TypeOK, ThreadTypes, Goto, thread_but_pc
<1>2. CASE Call(t)
  <2>1. /\ calls \in Nat /\ calls' = calls + 1 /\ cur' = [cur EXCEPT ![t] = calls + 1]
        /\ pc[t] = "idle" /\ pc' = [pc EXCEPT ![t] = "lock"]
        /\ UNCHANGED <<try, toSamd, accepted>>
    BY <1>2 DEF Call, WireTypes, wire
  <2>2. Asked' = Asked /\ accepted' = accepted
    BY <2>1 DEF Asked
  <2>3. Numbered'
    <3>1. \A r \in Asked \cup accepted : r <= 2 * calls /\ r \in Int
      BY <1>1 DEF Booked, Numbered
    <3>2. \A r \in Asked' \cup accepted' : r <= 2 * calls'
      BY <2>1, <2>2, <3>1
    <3>3. \A u \in Threads : cur[u] <= calls /\ cur[u] \in Nat
      BY BoundsAssumption DEF Booked, Numbered
    <3>4. QED
      BY <2>1, <3>2, <3>3 DEF Booked, Numbered
  <2>4. Unsent'
    <3> SUFFICES ASSUME NEW u \in Threads, pc'[u] # "idle", NEW r \in Asked' \cup accepted',
                        NextReq(u)' <= r, r <= 2 * cur'[u]
                 PROVE  FALSE
      BY DEF Unsent
    <3>1. r \in Int /\ r <= 2 * calls
      BY <1>1, <2>2 DEF Booked, Numbered
    <3>2. CASE u = t
      BY <2>1, <3>1, <3>2 DEF NextReq, Request, BeforeSend, Booked, Numbered
    <3>3. CASE u # t
      BY <2>1, <2>2, <3>3 DEF NextReq, Request, Booked, Unsent
    <3>4. QED
      BY <3>2, <3>3
  <2>5. QED
    BY <2>3, <2>4 DEF Booked
<1>3. CASE Send(t)
  <2>1. /\ pc[t] = "send" /\ pc' = [pc EXCEPT ![t] = "wait"]
        /\ toSamd' = Append(toSamd, [req |-> Request(t), battery |-> t = Main])
        /\ UNCHANGED <<try, cur, calls, accepted>>
    BY <1>3 DEF Send
  <2>2. Asked' \subseteq Asked \cup {Request(t)}
    <3>1. toSamd \in Seq([req : Reqs, battery : BOOLEAN])
      BY DEF WireTypes
    <3>2. \A i \in DOMAIN toSamd' :
            toSamd'[i].req \in Asked \cup {Request(t)}
      BY <2>1, <3>1 DEF Asked
    <3>3. QED
      BY <3>2 DEF Asked
  <2>3. cur[t] \in 1 .. MaxCalls /\ try[t] \in {0, 1} /\ cur[t] <= calls /\ calls \in Nat
    BY <2>1, BoundsAssumption DEF CallNumbered, Booked, Numbered, WireTypes
  <2>4. Request(t) \in {2 * cur[t] - 1, 2 * cur[t]}
    BY <2>3 DEF Request
  <2>5. Numbered'
    <3>1. \A r \in Asked' \cup accepted' : r <= 2 * calls'
      BY <2>1, <2>2, <2>3, <2>4 DEF Booked, Numbered
    <3>2. QED
      BY <2>1, <3>1 DEF Booked, Numbered
  <2>6. Unsent'
    <3> SUFFICES ASSUME NEW u \in Threads, pc'[u] # "idle", NEW r \in Asked' \cup accepted',
                        NextReq(u)' <= r, r <= 2 * cur'[u]
                 PROVE  FALSE
      BY DEF Unsent
    <3>1. r \in Int
      BY <1>1, <2>1, <2>2, <2>3, <2>4
    <3>2. CASE u = t
      <4>1. NextReq(u)' = Request(t) + 1 /\ NextReq(u) = Request(t)
        BY <2>1, <3>2 DEF NextReq, Request, BeforeSend
      <4>2. r # Request(t) /\ NextReq(u) <= r
        BY <2>3, <2>4, <3>1, <4>1
      <4>3. QED
        BY <2>1, <2>2, <3>2, <4>2 DEF Booked, Unsent
    <3>3. CASE u # t
      <4>1. cur[u] \in 1 .. MaxCalls /\ cur[u] # cur[t]
        BY <2>1, <2>3, <3>3 DEF CallNumbered, Booked, Numbered
      <4> DEFINE q == Request(t)
      <4>2. NextReq(u)' = NextReq(u) /\ cur'[u] = cur[u]
        BY <2>1, <3>3 DEF NextReq, Request
      <4>a. try[u] \in {0, 1} /\ cur[u] \in Nat /\ cur[t] \in Nat
        BY <2>3, <4>1, BoundsAssumption
      <4>b. NextReq(u) >= 2 * cur[u] - 1 /\ NextReq(u) \in Int
        BY <4>a DEF NextReq, Request
      <4>c. 2 * cur[u] - 1 <= r /\ r <= 2 * cur[u]
        BY <3>1, <4>2, <4>a, <4>b
      <4>d. \A a, b, x, y \in Int :
              a # b /\ y \in {2 * b - 1, 2 * b} /\ 2 * a - 1 <= x /\ x <= 2 * a => x # y
        OBVIOUS
      <4>e. q \in {2 * cur[t] - 1, 2 * cur[t]} /\ q \in Int
        BY <2>4, <4>a
      <4> HIDE DEF q
      <4>f. r # q
        BY <3>1, <4>1, <4>a, <4>c, <4>d, <4>e
      <4>3. r # Request(t)
        BY <4>f DEF q
      <4>4. r \in Asked \cup accepted /\ pc[u] # "idle" /\ NextReq(u) <= r /\ r <= 2 * cur[u]
        BY <2>1, <2>2, <3>3, <4>2, <4>3
      <4>5. QED
        BY <4>4 DEF Booked, Unsent
    <3>4. QED
      BY <3>2, <3>3
  <2>7. QED
    BY <2>5, <2>6 DEF Booked
<1>4. CASE Retry(t)
  <2>1. /\ pc[t] = "wait" /\ try[t] = 0
        /\ try' = [try EXCEPT ![t] = 1] /\ pc' = [pc EXCEPT ![t] = "done0"]
        /\ UNCHANGED <<cur, calls, accepted, toSamd>>
    BY <1>4 DEF Retry, Expires, wire
  <2>2. Asked' = Asked
    BY <2>1 DEF Asked
  <2>3. Numbered'
    BY <2>1, <2>2 DEF Booked, Numbered
  <2>4. \A u \in Threads : NextReq(u)' = NextReq(u)
    BY <2>1 DEF NextReq, Request, BeforeSend
  <2>5. \A u \in Threads : pc'[u] # "idle" => pc[u] # "idle"
    BY <2>1
  <2>6. Unsent'
    BY <2>1, <2>2, <2>4, <2>5 DEF Booked, Unsent
  <2>7. QED
    BY <2>3, <2>6 DEF Booked
<1>5. CASE Unlock(t)
  <2>1. /\ try' = [try EXCEPT ![t] = 0] /\ cur' = [cur EXCEPT ![t] = 0]
        /\ pc' = [pc EXCEPT ![t] = "idle"] /\ UNCHANGED <<calls, accepted, toSamd>>
    BY <1>5 DEF Unlock, wire
  <2>2. Asked' = Asked /\ calls \in Nat
    BY <2>1 DEF Asked, WireTypes
  <2>3. Numbered'
    BY <2>1, <2>2 DEF Booked, Numbered
  <2>4. \A u \in Threads : pc'[u] # "idle" => pc[u] # "idle" /\ NextReq(u)' = NextReq(u) /\ cur'[u] = cur[u]
    BY <2>1 DEF NextReq, Request
  <2>5. Unsent'
    BY <2>1, <2>2, <2>4 DEF Booked, Unsent
  <2>6. QED
    BY <2>3, <2>5 DEF Booked
<1>6. ASSUME UNCHANGED <<try, cur, calls, toSamd, accepted>>,
             NEW l \in Labels \ {"idle"}, pc[t] # "idle", pc' = [pc EXCEPT ![t] = l],
             l \in {"lock", "enter"} => pc[t] \in {"lock", "enter"},
             l \in BeforeSend => pc[t] \in BeforeSend
      PROVE  Booked'
  <2>1. Asked' \cup accepted' \subseteq Asked \cup accepted
    BY <1>6 DEF Asked
  <2>2. \A u \in Threads : /\ pc'[u] = "idle" <=> pc[u] = "idle"
                           /\ pc'[u] \in {"lock", "enter"} => pc[u] \in {"lock", "enter"}
                           /\ pc'[u] \in BeforeSend => pc[u] \in BeforeSend
    BY <1>6
  <2>3. QED
    BY <1>6, <2>1, <2>2, BookedKept
<1> USE DEF wire, Labels, Holding, InSend, BeforeSend
<1>7. CASE Lock(t)
  BY <1>6, <1>7 DEF Lock
<1>8. CASE Enter(t)
  BY <1>6, <1>8 DEF Enter
<1>9. CASE ClearDone(t)
  BY <1>6, <1>9 DEF ClearDone
<1>10. CASE ClearLen(t)
  BY <1>6, <1>10 DEF ClearLen
<1>11. CASE GiveUp(t)
  BY <1>6, <1>11 DEF GiveUp, Expires
<1>12. CASE Take(t)
  BY <1>6, <1>12 DEF Take
<1>13. CASE Parse(t)
  BY <1>6, <1>13 DEF Parse
<1>14. QED
  BY <1>2, <1>3, <1>4, <1>5, <1>7, <1>8, <1>9, <1>10, <1>11, <1>12, <1>13 DEF CallStep

LEMMA BookedNext == Typed /\ Booked /\ [Next]_vars => Booked'
<1> SUFFICES ASSUME Typed, Booked, [Next]_vars PROVE Booked'
  OBVIOUS
<1>1. CASE UNCHANGED vars
  BY <1>1, BookedKept DEF vars, Asked
<1>2. ASSUME NEW t \in Threads, OtherWork(t) PROVE Booked'
  BY <1>1, <1>2 DEF OtherWork
<1>3. CASE Callback
  <2>1. UNCHANGED <<pc, try, cur, calls, toSamd, accepted>>
    BY <1>3 DEF Callback, CbCheck, CbCopy, CbAdvance, CbTest, CbSignal, thread, wire
  <2>2. QED
    BY <2>1, BookedKept DEF Asked
<1>4. CASE Samd
  <2>1. UNCHANGED <<pc, try, cur, calls>>
    BY <1>4 DEF Samd, SamdAnswer, SamdSilent, SamdNoise, thread
  <2>2. ASSUME toSamd # <<>>, toSamd' = Tail(toSamd)
        PROVE  Asked' \subseteq Asked /\ Head(toSamd).req \in Asked
    <3>1. toSamd \in Seq([req : Reqs, battery : BOOLEAN])
      BY DEF Typed, TypeOK, WireTypes
    <3>2. \A i \in DOMAIN toSamd' : i + 1 \in DOMAIN toSamd /\ toSamd'[i] = toSamd[i + 1]
      BY <2>2, <3>1
    <3>3. Head(toSamd) = toSamd[1] /\ 1 \in DOMAIN toSamd
      BY <2>2, <3>1
    <3>4. QED
      BY <3>2, <3>3 DEF Asked
  <2>3. Asked' \cup accepted' \subseteq Asked \cup accepted
    <3>1. CASE SamdAnswer
      BY <2>2, <3>1 DEF SamdAnswer
    <3>2. CASE SamdSilent
      BY <2>2, <3>2 DEF SamdSilent
    <3>3. CASE SamdNoise
      BY <3>3 DEF SamdNoise, Asked
    <3>4. QED
      BY <1>4, <3>1, <3>2, <3>3 DEF Samd
  <2>4. QED
    BY <2>1, <2>3, BookedKept
<1>5. QED
  BY <1>1, <1>2, <1>3, <1>4, BookedThread DEF Next

LEMMA LineShape ==
  ASSUME NEW r \in Reqs, NEW b \in Parts
  PROVE  /\ Line(r, b) \in Seq(Units) /\ Len(Line(r, b)) = 3
         /\ Line(r, b)[1] = Unit(r, b) /\ Line(r, b)[2] = Unit(r, "nl")
         /\ Line(r, b)[3] = Unit(r, "cr")
         /\ \A i \in 1 .. 3 : Line(r, b)[i].req = r /\ Line(r, b)[i].req # 0
<1>1. \A p \in Parts : Unit(r, p) \in Units
  BY BoundsAssumption DEF Unit, Units, Reqs
<1>2. Line(r, b) \in Seq(Units)
  BY <1>1 DEF Line, Parts
<1>3. r # 0
  BY BoundsAssumption DEF Reqs
<1>4. QED
  BY <1>2, <1>3 DEF Line, Unit

LEMMA OwnRequest ==
  ASSUME Typed, NEW t \in Threads, pc[t] # "idle"
  PROVE  /\ Request(t) \in Reqs /\ cur[t] \in 1 .. MaxCalls /\ try[t] \in {0, 1}
         /\ Request(t) = IF try[t] = 0 THEN 2 * cur[t] - 1 ELSE 2 * cur[t]
BY BoundsAssumption DEF Typed, TypeOK, ThreadTypes, CallNumbered, Request, Reqs

\* The places outside an exchange.
LEMMA Outside ==
  ASSUME NEW t \in Threads, pc[t] \in {"idle", "lock", "enter"}
  PROVE  Located(t)
BY DEF Located, Clearing, Waiting, Reading, Reporting

LEMMA LocatedKept ==
  ASSUME NEW t \in Threads, Located(t),
         pc'[t] = pc[t], try'[t] = try[t], cur'[t] = cur[t], rc'[t] = rc[t],
         UNCHANGED <<receiver, ret_buff, battery_info, cb, toSamd, fromSamd, accepted>>
  PROVE  Located(t)'
<1> USE DEF receiver
<1>1. Request(t)' = Request(t)
  BY DEF Request
<1>2. Clearing(t)' /\ Reporting(t)'
  BY <1>1 DEF Located, Clearing, Reporting, FirstLost, NoiseFirst, Status
<1>3. \A b : Answers(t, b)' <=> Answers(t, b)
  BY <1>1 DEF Answers
<1>4. Reading(t)'
  BY <1>1, <1>3 DEF Located, Reading, FirstLost
<1>5. Unheard(t) => Unheard(t)'
  BY <1>1 DEF Unheard, Query, NoiseFirst
<1>6. \A L, d : (Coming(L, d)' <=> Coming(L, d)) /\ (Heard(L, d)' <=> Heard(L, d))
  BY DEF Coming, Heard, Stored
<1>7. Answered(t) => Answered(t)'
  BY <1>1, <1>3, <1>6 DEF Answered
<1>8. Waiting(t)'
  BY <1>5, <1>7 DEF Located, Waiting, FirstLost
<1>9. QED
  BY <1>2, <1>4, <1>8 DEF Located

\* While a thread is in its exchange the others can only begin to wait for the
\* mutex.
LEMMA LocatedOthers ==
  ASSUME Typed, OneConversation, Exchange, ~disturbed',
         NEW t \in Threads, NEW u \in Threads, t # u, Call(u) \/ CallStep(u)
  PROVE  Located(t)'
<1>1. pc'[t] = pc[t]
  BY DEF Typed, TypeOK, ThreadTypes, Call, CallStep, Lock, Enter, ClearDone, ClearLen, Send,
         Retry, Expires, GiveUp, Take, Parse, Unlock, Goto
<1>2. CASE pc[t] \in {"idle", "lock", "enter"}
  <2>1. (pc[t] \in {"idle", "lock", "enter"})'
    BY <1>1, <1>2
  <2>2. QED
    BY <2>1 DEF Located, Clearing, Waiting, Reading, Reporting
<1>3. CASE pc[t] \notin {"idle", "lock", "enter"}
  <2>1. mutex = t
    BY <1>3 DEF Typed, TypeOK, ThreadTypes, Labels, OneConversation
  <2>2. pc[u] \notin Holding /\ mutex # NoThread
    BY <2>1, ThreadsAssumption DEF OneConversation
  <2>3. ~CallStep(u)
    BY <2>2 DEF CallStep, Lock, Enter, ClearDone, ClearLen, Send, Retry, Expires, GiveUp,
                Take, Parse, Unlock, Holding, InSend
  <2>4. Call(u)
    BY <2>3
  <2>5. /\ UNCHANGED <<receiver, ret_buff, battery_info, cb, toSamd, fromSamd, accepted>>
        /\ UNCHANGED <<try, rc, disturbed>> /\ cur'[t] = cur[t]
    BY <2>4 DEF Call, Typed, TypeOK, ThreadTypes
  <2>6. Located(t)
    BY <2>5 DEF Exchange
  <2>7. QED
    BY <1>1, <2>5, <2>6, LocatedKept
<1>4. QED
  BY <1>2, <1>3

-----------------------------------------------------------------------------
\* The steps of the exchange itself.
LEMMA LocatedOwn ==
  ASSUME Typed, Booked, Exchange, ~disturbed', NEW t \in Threads, CallStep(t)
  PROVE  Located(t)'
<1> USE DEF Goto, thread_but_pc, receiver, wire
<1>0. pc \in [Threads -> Labels] /\ try \in [Threads -> {0, 1}] /\ rc \in [Threads -> {0, -101, -106}]
  BY DEF Typed, TypeOK, ThreadTypes
<1>1. CASE Lock(t) \/ Unlock(t)
  <2>1. (pc[t] \in {"idle", "lock", "enter"})'
    BY <1>0, <1>1 DEF Lock, Unlock
  <2>2. QED
    BY <2>1 DEF Located, Clearing, Waiting, Reading, Reporting
<1>2. CASE Enter(t)
  <2>1. pc'[t] = "done0" /\ toSamd' = <<>> /\ fromSamd' = <<>> /\ cb'.pc = "idle"
    BY <1>0, <1>2 DEF Enter, Outstanding
  <2>2. FirstLost(t)'
    BY <1>2 DEF Enter, FirstLost, Booked, Numbered
  <2>3. QED
    BY <2>1, <2>2 DEF Located, Clearing, Waiting, Reading, Reporting
<1>3. CASE ClearDone(t)
  <2>1. Clearing(t)
    BY <1>3 DEF ClearDone, Exchange, Located
  <2>2. /\ pc[t] = "done0" /\ pc'[t] = "len0" /\ uart_rvc_done' = 0
        /\ UNCHANGED <<try, cur, cb, toSamd, fromSamd, accepted>>
    BY <1>0, <1>3 DEF ClearDone
  <2>3. Clearing(t)'
    BY <2>1, <2>2 DEF Clearing, FirstLost, NoiseFirst
  <2>4. QED
    BY <2>2, <2>3 DEF Located, Waiting, Reading, Reporting
<1>4. CASE ClearLen(t)
  <2>1. Clearing(t)
    BY <1>4 DEF ClearLen, Exchange, Located
  <2>2. /\ pc[t] = "len0" /\ pc'[t] = "send" /\ uart_rvc_len' = 0
        /\ UNCHANGED <<try, cur, cb, toSamd, fromSamd, accepted, uart_rvc_done>>
    BY <1>0, <1>4 DEF ClearLen
  <2>3. Clearing(t)'
    BY <2>1, <2>2 DEF Clearing, FirstLost, NoiseFirst
  <2>4. QED
    BY <2>2, <2>3 DEF Located, Waiting, Reading, Reporting
<1>5. CASE Send(t)
  <2>1. Clearing(t)
    BY <1>5 DEF Send, Exchange, Located
  <2>2. /\ pc[t] = "send" /\ pc'[t] = "wait" /\ toSamd' = Append(toSamd, Query(t))
        /\ UNCHANGED <<try, cur, cb, fromSamd, accepted, uart_rvc_done, uart_rvc_len>>
    BY <1>0, <1>5 DEF Send, Query
  <2>3. Request(t)' = Request(t) /\ Query(t)' = Query(t)
    BY <2>2 DEF Request, Query
  <2>4. Request(t) \notin accepted
    <3>1. NextReq(t) = Request(t) /\ Request(t) <= 2 * cur[t] /\ pc[t] # "idle"
      BY <2>2, OwnRequest DEF NextReq, BeforeSend, Reqs
    <3>2. Request(t) <= Request(t)
      BY <2>2, OwnRequest DEF Reqs
    <3>3. QED
      BY <3>1, <3>2 DEF Booked, Unsent
  <2>5. toSamd' = <<Query(t)>>
    BY <2>1, <2>2 DEF Clearing
  <2>6. Unheard(t)'
    BY <2>1, <2>2, <2>3, <2>4, <2>5 DEF Clearing, Unheard, NoiseFirst
  <2>7. FirstLost(t)'
    BY <2>1, <2>2 DEF Clearing, FirstLost
  <2>8. QED
    BY <2>2, <2>6, <2>7 DEF Located, Clearing, Waiting, Reading, Reporting
<1>6. ASSUME Expires(t)
      PROVE  /\ FirstLost(t) /\ pc[t] = "wait" /\ Request(t) \notin accepted
             /\ toSamd = <<>> /\ fromSamd = <<>> /\ cb.pc = "idle"
  <2>1. /\ pc[t] = "wait" /\ uart_rvc_done = 0 /\ ~disturbed
        /\ toSamd = <<>> /\ fromSamd = <<>> /\ cb.pc = "idle"
    BY <1>6 DEF Expires, Outstanding
  <2>2. Waiting(t)
    BY <2>1 DEF Exchange, Located
  <2>3. ~Answered(t)
    <3> SUFFICES ASSUME NEW L, NEW d \in {0, 1, 3}, Coming(L, d), Heard(L, d)
                 PROVE  FALSE
      BY DEF Answered
    <3>1. d = 3
      BY <2>1 DEF Coming
    <3>2. QED
      BY <2>1, <3>1 DEF Heard
  <2>4. Request(t) \notin accepted
    BY <2>1, <2>2, <2>3 DEF Waiting, Unheard, NoiseFirst
  <2>5. QED
    BY <2>1, <2>2, <2>4 DEF Waiting
<1>7. CASE Retry(t)
  <2>1. /\ pc'[t] = "done0" /\ try[t] = 0 /\ try'[t] = 1
        /\ UNCHANGED <<cur, cb, toSamd, fromSamd, accepted>>
    BY <1>0, <1>7 DEF Retry
  <2>2. /\ pc[t] = "wait" /\ Request(t) \notin accepted
        /\ toSamd = <<>> /\ fromSamd = <<>> /\ cb.pc = "idle"
    BY <1>6, <1>7 DEF Retry
  <2>3. Request(t) = 2 * cur[t] - 1
    BY <2>1, <2>2, OwnRequest
  <2>4. QED
    BY <2>1, <2>2, <2>3 DEF Located, Clearing, FirstLost, Waiting, Reading, Reporting
<1>8. CASE GiveUp(t)
  <2>1. /\ pc'[t] = "unlock" /\ try[t] = 1 /\ rc'[t] = -101
        /\ UNCHANGED <<cur, toSamd, accepted>>
    BY <1>0, <1>8 DEF GiveUp
  <2>2. pc[t] = "wait" /\ FirstLost(t) /\ Request(t) \notin accepted /\ toSamd = <<>>
    BY <1>6, <1>8 DEF GiveUp
  <2>3. Request(t) = 2 * cur[t]
    BY <2>1, <2>2, OwnRequest
  <2>4. Status(t)'
    BY <2>1, <2>2, <2>3 DEF Status, FirstLost
  <2>5. QED
    BY <2>1, <2>2, <2>4 DEF Located, Clearing, Waiting, Reading, Reporting
<1>9. CASE Take(t)
  <2>1. /\ pc[t] = "wait" /\ pc'[t] = "parse" /\ uart_rvc_done = 1 /\ ret_buff' = Received
        /\ ~disturbed /\ UNCHANGED <<try, cur, cb, toSamd, accepted, uart_rvc_done, uart_rvc_len>>
    BY <1>0, <1>9 DEF Take
  <2>2. Waiting(t)
    BY <2>1 DEF Exchange, Located
  <2>3. FirstLost(t) /\ Answered(t)
    BY <2>1, <2>2 DEF Waiting, Unheard
  <2>4. PICK b \in Parts, d \in {0, 1, 3} :
          Answers(t, b) /\ Coming(Line(Request(t), b), d) /\ Heard(Line(Request(t), b), d)
    BY <2>3 DEF Answered
  <2> DEFINE L == Line(Request(t), b)
  <2>5. Heard(L, d)
    BY <2>4
  <2>6. L \in Seq(Units) /\ Len(L) = 3
    BY <2>1, OwnRequest, LineShape
  <2> HIDE DEF L
  <2>7. cb.pc = "idle" /\ uart_rvc_len = 3 /\ Stored(L, 3)
    BY <2>1, <2>5 DEF Heard
  <2>8. \A i \in 1 .. 3 : i - 1 \in Cells
    BY LineAssumption, BoundsAssumption DEF Cells, Line
  <2>9. Received = [i \in 1 .. 3 |-> L[i]]
    BY <2>7, <2>8 DEF Received, Stored
  <2>10. L = [i \in 1 .. 3 |-> L[i]]
    BY <2>6
  <2>11. ret_buff' = L
    BY <2>1, <2>9, <2>10
  <2>12. Request(t)' = Request(t) /\ Answers(t, b)'
    BY <2>1, <2>4 DEF Request, Answers
  <2>13. ret_buff' = Line(Request(t), b)'
    BY <2>11, <2>12 DEF L, Line
  <2>14. FirstLost(t)' /\ toSamd' = <<>>
    BY <2>1, <2>3 DEF FirstLost, Answered
  <2>15. Reading(t)'
    BY <2>1, <2>7, <2>12, <2>13, <2>14 DEF Reading
  <2>16. QED
    BY <2>1, <2>15 DEF Located, Clearing, Waiting, Reporting
<1>10. CASE Parse(t)
  <2>1. /\ pc[t] = "parse" /\ pc'[t] = "unlock" /\ ~disturbed
        /\ UNCHANGED <<try, cur, toSamd, accepted>>
    BY <1>0, <1>10 DEF Parse
  <2>2. Reading(t)
    BY <2>1 DEF Exchange, Located
  <2>3. PICK b \in Parts : Answers(t, b) /\ ret_buff = Line(Request(t), b)
    BY <2>1, <2>2 DEF Reading
  <2>4. Request(t)' = Request(t)
    BY <2>1 DEF Request
  <2>5. CASE t = Main
    <3>1. ret_buff # <<>> /\ ret_buff[1].req = Request(t)
      BY <2>1, <2>3, OwnRequest, LineShape
    <3>2. battery_info' = Request(t)
      BY <1>10, <2>5, <3>1 DEF Parse
    <3>3. Status(t)'
      BY <2>4, <2>5, <3>2 DEF Status
    <3>4. QED
      BY <2>1, <2>2, <3>3 DEF Located, Clearing, Waiting, Reading, Reporting
  <2>6. CASE t # Main
    <3>1. b \in {"ok", "no"} /\ (b = "ok" <=> Request(t) \in accepted)
      BY <2>3, <2>6 DEF Answers
    <3>2. Contains(ret_buff, "ok") <=> b = "ok"
      <4>1. DOMAIN ret_buff = 1 .. 3
        BY <2>1, <2>3, OwnRequest, LineShape
      <4>2. /\ ret_buff[1] = Unit(Request(t), b) /\ ret_buff[2] = Unit(Request(t), "nl")
            /\ ret_buff[3] = Unit(Request(t), "cr")
        BY <2>1, <2>3, OwnRequest, LineShape
      <4>3. ret_buff[1].part = b /\ ret_buff[2].part = "nl" /\ ret_buff[3].part = "cr"
        BY <4>2 DEF Unit
      <4>4. QED
        BY <4>1, <4>3 DEF Contains
    <3>3. rc'[t] = 0 <=> Request(t) \in accepted
      BY <1>0, <1>10, <2>6, <3>1, <3>2 DEF Parse
    <3>4. CASE try[t] = 0
      <4>1. Request(t) = 2 * cur[t] - 1 /\ cur[t] \in Int
        BY <2>1, <3>4, OwnRequest
      <4>2. NextReq(t) = 2 * cur[t]
        BY <2>1, <4>1 DEF NextReq, BeforeSend
      <4>3. 2 * cur[t] \notin accepted
        BY <2>1, <4>1, <4>2 DEF Booked, Unsent
      <4>4. Status(t)'
        BY <2>1, <2>6, <3>3, <4>1, <4>3 DEF Status
      <4>5. QED
        BY <2>1, <2>2, <4>4 DEF Located, Clearing, Waiting, Reading, Reporting
    <3>5. CASE try[t] = 1
      <4>1. Request(t) = 2 * cur[t]
        BY <2>1, <3>5, OwnRequest
      <4>2. 2 * cur[t] - 1 \notin accepted
        BY <2>1, <2>2, <3>5 DEF Reading, FirstLost
      <4>3. Status(t)'
        BY <2>1, <2>6, <3>3, <4>1, <4>2 DEF Status
      <4>4. QED
        BY <2>1, <2>2, <4>3 DEF Located, Clearing, Waiting, Reading, Reporting
    <3>6. QED
      BY <1>0, <3>4, <3>5
  <2>7. QED
    BY <2>5, <2>6
<1>11. QED
  BY <1>1, <1>2, <1>3, <1>4, <1>5, <1>7, <1>8, <1>9, <1>10 DEF CallStep

-----------------------------------------------------------------------------
\* What the callback is given is the next part of the answer, or it disturbs.
LEMMA ChunkOfLine ==
  ASSUME Typed, NEW t \in Threads, pc[t] = "wait", NEW k \in Chunks, CbCheck(k), ~disturbed',
         NEW r \in Reqs, NEW b \in Parts, NEW d \in {0, 1, 3}, Coming(Line(r, b), d)
  PROVE  /\ d + k \in {1, 3} /\ d < 3
         /\ Coming(Line(r, b), d + k)'
         /\ Len(SubSeq(fromSamd, 1, k)) = k
         /\ \A i \in 1 .. k : SubSeq(fromSamd, 1, k)[i] = Line(r, b)[d + i]
<1> DEFINE L == Line(r, b)
<1>1. /\ L \in Seq(Units) /\ Len(L) = 3 /\ L[2] = Unit(r, "nl")
      /\ Coming(L, d)
  BY LineShape
<1> HIDE DEF L
<1>2. k \in Nat /\ k >= 1 /\ k <= Len(fromSamd) /\ fromSamd \in Seq(Units)
  BY BoundsAssumption DEF CbCheck, Typed, TypeOK, WireTypes
<1>3. ~Disturbs(k)
  BY DEF CbCheck
<1>4. fromSamd[k].part # "nl" /\ \A i \in 1 .. k : fromSamd[i].req # 0
  BY <1>3 DEF Disturbs, InSend
<1>5. k + d <= 3
  BY <1>1, <1>2, <1>4 DEF Coming
<1>6. k + d # 2
  <2> SUFFICES ASSUME k + d = 2 PROVE FALSE
    OBVIOUS
  <2>1. fromSamd[k] = L[2]
    BY <1>1, <1>2, <1>5 DEF Coming
  <2>2. QED
    BY <1>1, <1>4, <2>1 DEF Unit
<1>7. d + k \in {1, 3} /\ d < 3
  BY <1>2, <1>5, <1>6
<1>8. /\ Len(SubSeq(fromSamd, 1, k)) = k
      /\ \A i \in 1 .. k : SubSeq(fromSamd, 1, k)[i] = fromSamd[i]
  BY <1>2
<1>9. \A i \in 1 .. k : fromSamd[i] = L[d + i]
  BY <1>1, <1>2, <1>5 DEF Coming
<1>10. Coming(L, d + k)'
  <2>1. fromSamd' = SubSeq(fromSamd, k + 1, Len(fromSamd))
    BY DEF CbCheck
  <2>2. /\ Len(fromSamd') = Len(fromSamd) - k
        /\ \A i \in 1 .. Len(fromSamd) - k : fromSamd'[i] = fromSamd[i + k]
    BY <1>2, <2>1
  <2>3. L' = L
    BY DEF L, Line
  <2>4. Len(fromSamd') + (d + k) >= 3
    BY <1>1, <1>2, <2>2 DEF Coming
  <2>5. ASSUME NEW i \in 1 .. Len(fromSamd')
        PROVE  IF i + (d + k) <= 3 THEN fromSamd'[i] = L[i + (d + k)] ELSE fromSamd'[i].req = 0
    <3>1. i + k \in 1 .. Len(fromSamd) /\ fromSamd'[i] = fromSamd[i + k] /\ i \in Nat
      BY <1>2, <2>2
    <3>2. IF (i + k) + d <= 3 THEN fromSamd[i + k] = L[(i + k) + d] ELSE fromSamd[i + k].req = 0
      BY <1>1, <3>1 DEF Coming
    <3>3. (i + k) + d = i + (d + k)
      BY <1>2, <3>1
    <3>4. QED
      BY <3>1, <3>2, <3>3
  <2>6. QED
    BY <2>3, <2>4, <2>5 DEF Coming
<1>11. QED
  BY <1>7, <1>8, <1>9, <1>10 DEF L

\* The callback brings the units of the answer into the buffer, in order.
LEMMA HeardCallback ==
  ASSUME Typed, NEW t \in Threads, pc[t] = "wait", Callback, ~disturbed',
         NEW r \in Reqs, NEW b \in Parts, b \notin {"nl", "cr"},
         NEW d \in {0, 1, 3}, Coming(Line(r, b), d), Heard(Line(r, b), d)
  PROVE  \E e \in {0, 1, 3} : Coming(Line(r, b), e)' /\ Heard(Line(r, b), e)'
<1> DEFINE L == Line(r, b)
<1>1. /\ L \in Seq(Units) /\ Len(L) = 3 /\ L[1] = Unit(r, b) /\ L[3] = Unit(r, "cr")
      /\ Coming(L, d) /\ Heard(L, d) /\ L' = L
  BY LineShape DEF Line
<1>2. /\ uart_rvc_len \in Nat /\ uart_rcv_data \in [Cells -> Units] /\ fromSamd \in Seq(Units)
      /\ cb \in [pc : CbLabels, chunk : Seq(Units), at : Nat]
  BY DEF Typed, TypeOK, ReceiverTypes, WireTypes
<1>3. \A i \in 1 .. 3 : i - 1 \in Cells
  BY LineAssumption, BoundsAssumption DEF Cells, Line
<1>4. ASSUME NEW k \in Chunks, CbCheck(k)
      PROVE  \E e \in {0, 1, 3} : Coming(L, e)' /\ Heard(L, e)'
  <2>1. /\ d + k \in {1, 3} /\ d < 3
        /\ Coming(L, d + k)'
        /\ Len(SubSeq(fromSamd, 1, k)) = k
        /\ \A i \in 1 .. k : SubSeq(fromSamd, 1, k)[i] = L[d + i]
    BY <1>4, ChunkOfLine
  <2> HIDE DEF L
  <2>2. cb.pc = "idle" /\ uart_rvc_len = d /\ Stored(L, d) /\ uart_rvc_done = 0
    BY <1>1, <1>4, <2>1 DEF Heard, CbCheck
  <2>3. /\ cb'.pc = "copy" /\ cb'.chunk = SubSeq(fromSamd, 1, k)
        /\ UNCHANGED <<uart_rvc_len, uart_rvc_done, uart_rcv_data>>
    <3>1. /\ UNCHANGED <<uart_rvc_done, uart_rcv_data>>
          /\ cb' = [cb EXCEPT !.pc = "copy", !.chunk = SubSeq(fromSamd, 1, k)]
          /\ UNCHANGED uart_rvc_len
      BY <1>4, <2>2 DEF CbCheck
    <3>2. QED
      BY <1>2, <3>1
  <2>4. k \in Nat /\ k >= 1 /\ d \in Nat
    BY BoundsAssumption
  <2>5. Stored(L, d)'
    BY <1>1, <2>2, <2>3 DEF Stored
  <2>6. Stored(L, uart_rvc_len)'
    BY <1>1, <2>2, <2>3 DEF Stored
  <2>7. /\ cb'.pc = "copy" /\ uart_rvc_done' = 0 /\ uart_rvc_len' < d + k
        /\ Len(cb'.chunk) = (d + k) - uart_rvc_len'
    BY <2>1, <2>2, <2>3, <2>4
  <2>8. ASSUME NEW i \in 1 .. (d + k) - uart_rvc_len'
        PROVE  cb'.chunk[i] = L[uart_rvc_len' + i]
    <3>1. uart_rvc_len' = d /\ i \in 1 .. k
      BY <2>2, <2>3, <2>4
    <3>2. QED
      BY <2>1, <2>3, <3>1
  <2>9. L' = L
    BY <1>1
  <2>10. Heard(L, d + k)'
    BY <2>6, <2>7, <2>8, <2>9 DEF Heard
  <2>11. QED
    BY <2>1, <2>10
<1>5. ASSUME CbCopy \/ CbAdvance \/ CbTest \/ CbSignal
      PROVE  Coming(L, d)'
  BY <1>1, <1>5 DEF Coming, CbCopy, CbAdvance, CbTest, CbSignal, wire
<1>6. CASE CbCopy
  <2> HIDE DEF L
  <2>1. /\ cb.pc = "copy" /\ uart_rvc_done = 0 /\ uart_rvc_len < d
        /\ Len(cb.chunk) = d - uart_rvc_len
        /\ \A i \in 1 .. d - uart_rvc_len : cb.chunk[i] = L[uart_rvc_len + i]
        /\ Stored(L, uart_rvc_len)
    BY <1>1, <1>6 DEF Heard, CbCopy
  <2>2. /\ cb'.pc = "advance" /\ cb'.at = uart_rvc_len /\ cb'.chunk = cb.chunk
        /\ UNCHANGED <<uart_rvc_len, uart_rvc_done>>
    BY <1>2, <1>6 DEF CbCopy
  <2>3. DOMAIN cb.chunk = 1 .. d - uart_rvc_len
    <3>1. cb.chunk \in Seq(Units)
      BY <1>2
    <3>2. QED
      BY <2>1, <3>1, LenProperties
  <2>4. ASSUME NEW i \in 1 .. d PROVE uart_rcv_data'[i - 1] = L[i]
    <3>1. i - 1 \in Cells /\ i \in Nat
      BY <1>3
    <3>2. uart_rcv_data'[i - 1] = IF (i - 1) - uart_rvc_len + 1 \in DOMAIN cb.chunk
                                  THEN cb.chunk[(i - 1) - uart_rvc_len + 1]
                                  ELSE uart_rcv_data[i - 1]
      BY <1>6, <3>1 DEF CbCopy
    <3>3. (i - 1) - uart_rvc_len + 1 = i - uart_rvc_len
      BY <1>2, <3>1
    <3>4. CASE i > uart_rvc_len
      <4>1. i - uart_rvc_len \in 1 .. d - uart_rvc_len /\ uart_rvc_len + (i - uart_rvc_len) = i
        BY <1>2, <3>1, <3>4
      <4>2. QED
        BY <2>1, <2>3, <3>2, <3>3, <4>1
    <3>5. CASE i <= uart_rvc_len
      <4>1. i - uart_rvc_len \notin 1 .. d - uart_rvc_len /\ i \in 1 .. uart_rvc_len
        BY <1>2, <3>1, <3>5
      <4>2. QED
        BY <2>1, <2>3, <3>2, <3>3, <4>1 DEF Stored
    <3>6. QED
      BY <1>2, <3>1, <3>4, <3>5
  <2>5. Stored(L, d)'
    BY <1>1, <2>4 DEF Stored
  <2>6. Heard(L, d)'
    BY <1>1, <2>1, <2>2, <2>5 DEF Heard
  <2>7. QED
    BY <1>5, <1>6, <2>6 DEF L
<1>7. CASE CbAdvance
  <2> HIDE DEF L
  <2>1. /\ cb.pc = "advance" /\ uart_rvc_done = 0 /\ uart_rvc_len < d
        /\ cb.at = uart_rvc_len /\ Len(cb.chunk) = d - uart_rvc_len /\ Stored(L, d)
    BY <1>1, <1>7 DEF Heard, CbAdvance
  <2>2. /\ uart_rvc_len' = d /\ cb'.pc = "test" /\ UNCHANGED <<uart_rvc_done, uart_rcv_data>>
    BY <1>2, <1>7, <2>1 DEF CbAdvance
  <2>3. Stored(L, d)' /\ d > 0
    BY <1>1, <1>2, <2>1, <2>2 DEF Stored
  <2>4. Heard(L, d)'
    BY <1>1, <2>1, <2>2, <2>3 DEF Heard
  <2>5. QED
    BY <1>5, <1>7, <2>4 DEF L
<1>8. CASE CbTest
  <2> HIDE DEF L
  <2>1. /\ cb.pc = "test" /\ uart_rvc_done = 0 /\ uart_rvc_len = d /\ d > 0 /\ Stored(L, d)
        /\ UNCHANGED <<uart_rvc_done, uart_rvc_len, uart_rcv_data>>
    BY <1>1, <1>8 DEF Heard, CbTest, receiver
  <2>2. d - 1 \in Cells /\ uart_rcv_data[d - 1] = L[d]
    BY <1>3, <2>1 DEF Stored
  <2>3. cb'.pc = IF EndsLine(L[d]) THEN "signal" ELSE "idle"
    BY <1>2, <1>8, <2>1, <2>2 DEF CbTest
  <2>4. EndsLine(L[1]) <=> FALSE
    BY <1>1 DEF EndsLine, Unit
  <2>5. EndsLine(L[3]) <=> TRUE
    BY <1>1 DEF EndsLine, Unit
  <2>6. (d = 1 /\ cb'.pc = "idle") \/ (d = 3 /\ cb'.pc = "signal")
    BY <2>1, <2>3, <2>4, <2>5
  <2>7. Stored(L, d)'
    BY <1>1, <2>1 DEF Stored
  <2>8. Heard(L, d)'
    BY <1>1, <2>1, <2>6, <2>7 DEF Heard
  <2>9. QED
    BY <1>5, <1>8, <2>8 DEF L
<1>9. CASE CbSignal
  <2> HIDE DEF L
  <2>1. /\ d = 3 /\ uart_rvc_len = 3 /\ Stored(L, 3)
        /\ uart_rvc_done' = 1 /\ cb'.pc = "idle" /\ UNCHANGED <<uart_rvc_len, uart_rcv_data>>
    BY <1>1, <1>2, <1>9 DEF Heard, CbSignal
  <2>2. Stored(L, 3)'
    BY <1>1, <2>1 DEF Stored
  <2>3. Heard(L, d)'
    BY <1>1, <2>1, <2>2 DEF Heard
  <2>4. QED
    BY <1>5, <1>9, <2>3 DEF L
<1>10. QED
  BY <1>4, <1>6, <1>7, <1>8, <1>9 DEF Callback

LEMMA LocatedCallback ==
  ASSUME Typed, Exchange, ~disturbed', NEW t \in Threads, Callback
  PROVE  Located(t)'
<1>1. UNCHANGED <<pc, try, cur, rc, ret_buff, battery_info, toSamd, accepted>> /\ ~disturbed
  BY DEF Callback, CbCheck, CbCopy, CbAdvance, CbTest, CbSignal, thread, wire, Typed, TypeOK, WireTypes
<1>2. Located(t)
  BY <1>1 DEF Exchange
<1>3. ASSUME cb.pc = "idle" PROVE \E k \in Chunks : CbCheck(k)
  BY <1>3 DEF Callback, CbCopy, CbAdvance, CbTest, CbSignal
<1>4. ASSUME pc[t] \in InSend, cb.pc = "idle", fromSamd = <<>> \/ NoiseFirst PROVE FALSE
  <2>1. PICK k \in Chunks : CbCheck(k)
    BY <1>3, <1>4
  <2>0. ~Disturbs(k)
    BY <2>1 DEF CbCheck
  <2>2. k \in Nat /\ k >= 1 /\ k <= Len(fromSamd)
    BY <2>1, BoundsAssumption DEF CbCheck
  <2>3. NoiseFirst
    BY <1>4, <2>2
  <2>4. Disturbs(k)
    BY <1>4, <2>2, <2>3 DEF Disturbs, NoiseFirst
  <2>5. QED
    BY <2>0, <2>4
<1>5. CASE pc[t] \in {"idle", "lock", "enter"}
  <2>1. (pc[t] \in {"idle", "lock", "enter"})'
    BY <1>1, <1>5
  <2>2. QED
    BY <2>1 DEF Located, Clearing, Waiting, Reading, Reporting
<1>6. CASE pc[t] \in {"done0", "len0", "send"}
  BY <1>2, <1>4, <1>6 DEF Located, Clearing, InSend
<1>7. CASE pc[t] = "wait"
  <2>1. FirstLost(t) /\ Answered(t)
    BY <1>2, <1>4, <1>7 DEF Located, Waiting, Unheard, InSend
  <2>2. PICK b \in Parts, d \in {0, 1, 3} :
          Answers(t, b) /\ Coming(Line(Request(t), b), d) /\ Heard(Line(Request(t), b), d)
    BY <2>1 DEF Answered
  <2>3. Request(t) \in Reqs /\ b \notin {"nl", "cr"}
    BY <1>7, <2>2, OwnRequest DEF Answers
  <2>4. PICK e \in {0, 1, 3} : Coming(Line(Request(t), b), e)' /\ Heard(Line(Request(t), b), e)'
    <3>1. PICK r \in Reqs : r = Request(t)
      BY <2>3
    <3>2. \E e \in {0, 1, 3} : Coming(Line(r, b), e)' /\ Heard(Line(r, b), e)'
      BY <1>7, <2>2, <2>3, <3>1, HeardCallback
    <3>3. r = Request(t)'
      BY <1>1, <3>1 DEF Request
    <3>4. Line(r, b) = Line(Request(t), b)'
      BY <3>3 DEF Line
    <3>5. QED
      BY <3>2, <3>3
  <2>5. Answers(t, b)' /\ toSamd' = <<>> /\ FirstLost(t)'
    BY <1>1, <2>1, <2>2 DEF Answers, Answered, FirstLost, Request
  <2>6. Answered(t)'
    BY <2>4, <2>5 DEF Answered
  <2>7. pc'[t] = "wait"
    BY <1>1, <1>7
  <2>8. QED
    BY <2>5, <2>6, <2>7 DEF Located, Clearing, Waiting, Reading, Reporting
<1>8. CASE pc[t] = "parse"
  <2>1. Reading(t)
    BY <1>2 DEF Located
  <2>2. PICK k \in Chunks : CbCheck(k)
    BY <1>3, <1>8, <2>1 DEF Reading
  <2>3. cb'.pc = "idle" /\ uart_rvc_done' = 1 /\ uart_rvc_len' = 0
    BY <1>8, <2>1, <2>2 DEF CbCheck, Reading
  <2>4. \A b : Answers(t, b)' <=> Answers(t, b)
    BY <1>1 DEF Answers, Request
  <2>5. Reading(t)'
    BY <1>1, <1>8, <2>1, <2>3, <2>4 DEF Reading, FirstLost, Request
  <2>6. pc'[t] = "parse"
    BY <1>1, <1>8
  <2>7. QED
    BY <2>5, <2>6 DEF Located, Clearing, Waiting, Reporting
<1>9. CASE pc[t] = "unlock"
  <2>1. Reporting(t)'
    BY <1>1, <1>2 DEF Located, Reporting, Status, Request
  <2>2. pc'[t] = "unlock"
    BY <1>1, <1>9
  <2>3. QED
    BY <2>1, <2>2 DEF Located, Clearing, Waiting, Reading
<1>10. QED
  BY <1>5, <1>6, <1>7, <1>8, <1>9
  DEF Typed, TypeOK, ThreadTypes, Labels, Holding, InSend

-----------------------------------------------------------------------------
\* What the SAMD appends does not come before what is there.
LEMMA NoiseStays ==
  ASSUME NEW s \in Seq(Units), NEW e \in Seq(Units), s # <<>>
  PROVE  s \o e # <<>> /\ (s \o e)[1] = s[1]
<1>1. Len(s) \in Nat /\ Len(e) \in Nat /\ Len(s) >= 1
  BY EmptySeq, LenProperties
<1>2. Len(s \o e) = Len(s) + Len(e) /\ (s \o e)[1] = s[1]
  BY <1>1, ConcatProperties
<1>3. QED
  BY <1>1, <1>2

LEMMA NoiseAppended ==
  ASSUME Typed, SamdNoise
  PROVE  /\ fromSamd = <<>> => NoiseFirst'
         /\ NoiseFirst => NoiseFirst'
         /\ Len(fromSamd') = Len(fromSamd) + 1
         /\ \A i \in 1 .. Len(fromSamd) : fromSamd'[i] = fromSamd[i]
         /\ fromSamd'[Len(fromSamd) + 1].req = 0
<1>1. PICK part \in {"no", "nl"} : fromSamd' = Append(fromSamd, Unit(0, part))
  BY DEF SamdNoise
<1>2. fromSamd \in Seq(Units) /\ Unit(0, part).req = 0
  BY DEF Typed, TypeOK, WireTypes, Unit
<1>3. /\ Len(fromSamd') = Len(fromSamd) + 1
      /\ \A i \in 1 .. Len(fromSamd) : fromSamd'[i] = fromSamd[i]
      /\ fromSamd'[Len(fromSamd) + 1] = Unit(0, part)
  BY <1>1, <1>2
<1>4. fromSamd' # <<>>
  BY <1>1, <1>2
<1>5. fromSamd = <<>> => NoiseFirst'
  BY <1>2, <1>3, <1>4 DEF NoiseFirst
<1>6. NoiseFirst => NoiseFirst'
  BY <1>2, <1>3, <1>4 DEF NoiseFirst
<1>7. QED
  BY <1>2, <1>3, <1>5, <1>6

LEMMA OneQuery ==
  ASSUME NEW q, toSamd = <<q>>
  PROVE  Head(toSamd) = q /\ Tail(toSamd) = <<>>
OBVIOUS

\* The SAMD answers the request of a waiting thread.
LEMMA WaitingAnswer ==
  ASSUME Typed, NEW t \in Threads, pc[t] = "wait", FirstLost(t), Unheard(t), SamdAnswer
  PROVE  FirstLost(t)' /\ (Unheard(t)' \/ Answered(t)')
<1>1. /\ toSamd = <<Query(t)>> /\ Head(toSamd) = Query(t) /\ toSamd' = <<>>
      /\ UNCHANGED <<pc, try, cur, cb, uart_rvc_done, uart_rvc_len, uart_rcv_data>>
  <2>1. toSamd = <<Query(t)>>
    BY DEF SamdAnswer, Unheard
  <2>2. Head(toSamd) = Query(t) /\ Tail(toSamd) = <<>>
    BY <2>1, OneQuery
  <2>3. QED
    BY <2>1, <2>2 DEF SamdAnswer, thread, receiver
<1>2. PICK ok \in BOOLEAN :
        LET r == Head(toSamd).req
            body == IF Head(toSamd).battery THEN "bat" ELSE IF ok THEN "ok" ELSE "no"
        IN /\ fromSamd' = fromSamd \o Line(r, body)
           /\ accepted' = IF body = "ok" THEN accepted \cup {r} ELSE accepted
  BY DEF SamdAnswer
<1>3. PICK b \in {"bat", "ok", "no"} :
        /\ IF t = Main THEN b = "bat" ELSE b \in {"ok", "no"}
        /\ fromSamd' = fromSamd \o Line(Request(t), b)
        /\ accepted' = IF b = "ok" THEN accepted \cup {Request(t)} ELSE accepted
  <2>1. Head(toSamd) = [req |-> Request(t), battery |-> t = Main]
    BY <1>1 DEF Query
  <2>2. CASE t = Main
    <3>1. (t = Main) = TRUE
      BY <2>2
    <3>2. Head(toSamd) = [req |-> Request(t), battery |-> TRUE]
      BY <2>1, <3>1
    <3>3. QED
      BY <1>2, <2>2, <3>2
  <2>3. CASE t # Main
    <3>1. (t = Main) = FALSE
      BY <2>3
    <3>2. Head(toSamd) = [req |-> Request(t), battery |-> FALSE]
      BY <2>1, <3>1
    <3>3. Head(toSamd).req = Request(t) /\ ~Head(toSamd).battery
      BY <3>2
    <3>4. CASE ok
      BY <1>2, <2>3, <3>3, <3>4
    <3>5. CASE ~ok
      BY <1>2, <2>3, <3>3, <3>5
    <3>6. QED
      BY <3>4, <3>5
  <2>4. QED
    BY <2>2, <2>3
<1>4. b \in Parts /\ Request(t)' = Request(t)
  BY <1>1 DEF Parts, Request
<1>5. fromSamd \in Seq(Units)
  BY DEF Typed, TypeOK, WireTypes
<1>6. /\ Request(t) \in Reqs /\ Line(Request(t), b) \in Seq(Units)
      /\ Len(Line(Request(t), b)) = 3
  BY <1>4, OwnRequest, LineShape
<1>7. FirstLost(t)'
  <2>1. try[t] = 1 => 2 * cur[t] - 1 # Request(t)
    BY OwnRequest
  <2>2. QED
    BY <1>1, <1>3, <2>1 DEF FirstLost
<1>8. CASE NoiseFirst
  <2>1. NoiseFirst'
    BY <1>3, <1>5, <1>6, <1>8, NoiseStays DEF NoiseFirst
  <2>2. Unheard(t)'
    BY <1>1, <2>1 DEF Unheard
  <2>3. QED
    BY <1>7, <2>2
<1>9. CASE fromSamd = <<>> /\ Request(t) \notin accepted
  <2> DEFINE L == Line(Request(t), b)
  <2>1. fromSamd' = L
    BY <1>3, <1>6, <1>9, ConcatEmptySeq
  <2>2. Answers(t, b)'
    BY <1>3, <1>4, <1>9 DEF Answers
  <2>3. L' = L
    BY <1>4 DEF Line
  <2>4. Len(L) = 3
    BY <1>6
  <2> HIDE DEF L
  <2>5. Coming(L, 0)'
    BY <2>1, <2>3, <2>4 DEF Coming
  <2>6. Heard(L, 0)'
    BY <1>1, <2>3 DEF Unheard, Heard, Stored
  <2>7. Answered(t)'
    BY <1>1, <1>4, <2>2, <2>5, <2>6 DEF Answered, L
  <2>8. QED
    BY <1>7, <2>7
<1>10. QED
  BY <1>8, <1>9 DEF Unheard

LEMMA WaitingSamd ==
  ASSUME Typed, NEW t \in Threads, pc[t] = "wait", FirstLost(t), Unheard(t) \/ Answered(t), Samd
  PROVE  FirstLost(t)' /\ (Unheard(t)' \/ Answered(t)')
<1>1. /\ UNCHANGED <<pc, try, cur, cb, uart_rvc_done, uart_rvc_len, uart_rcv_data>>
      /\ Request(t)' = Request(t) /\ Query(t)' = Query(t)
  BY DEF Samd, SamdAnswer, SamdSilent, SamdNoise, thread, receiver, Request, Query
<1>2. CASE Answered(t)
  <2>1. SamdNoise /\ toSamd' = <<>> /\ accepted' = accepted
    BY <1>2 DEF Answered, Samd, SamdAnswer, SamdSilent, SamdNoise
  <2>2. PICK b \in Parts, d \in {0, 1, 3} :
          Answers(t, b) /\ Coming(Line(Request(t), b), d) /\ Heard(Line(Request(t), b), d)
    BY <1>2 DEF Answered
  <2> DEFINE L == Line(Request(t), b)
  <2>3. Coming(L, d) /\ Heard(L, d) /\ Answers(t, b)' /\ L' = L
    BY <1>1, <2>1, <2>2 DEF Answers, Line
  <2> HIDE DEF L
  <2>4. Heard(L, d)'
    BY <1>1, <2>3 DEF Heard, Stored
  <2>5. Coming(L, d)'
    <3>1. fromSamd \in Seq(Units)
      BY DEF Typed, TypeOK, WireTypes
    <3>2. /\ Len(fromSamd) \in Nat /\ Len(fromSamd') = Len(fromSamd) + 1
          /\ \A i \in 1 .. Len(fromSamd) : fromSamd'[i] = fromSamd[i]
          /\ fromSamd'[Len(fromSamd) + 1].req = 0
      BY <2>1, <3>1, NoiseAppended
    <3>3. Len(fromSamd) + d >= 3 /\ Len(fromSamd') + d >= 3
      BY <2>3, <3>2 DEF Coming
    <3>4. ASSUME NEW i \in 1 .. Len(fromSamd')
          PROVE  IF i + d <= 3 THEN fromSamd'[i] = L[i + d] ELSE fromSamd'[i].req = 0
      <4>1. CASE i \in 1 .. Len(fromSamd)
        BY <2>3, <3>2, <4>1 DEF Coming
      <4>2. CASE i = Len(fromSamd) + 1
        BY <3>2, <3>3, <4>2
      <4>3. QED
        BY <3>2, <4>1, <4>2
    <3>5. QED
      BY <2>3, <3>3, <3>4 DEF Coming
  <2>6. Answered(t)'
    BY <1>1, <2>1, <2>3, <2>4, <2>5 DEF Answered, L
  <2>7. QED
    BY <1>1, <2>1, <2>6 DEF FirstLost
<1>3. CASE Unheard(t) /\ SamdNoise
  <2>1. NoiseFirst' /\ UNCHANGED <<toSamd, accepted>>
    BY <1>3, NoiseAppended DEF Unheard, SamdNoise
  <2>2. QED
    BY <1>1, <1>3, <2>1 DEF Unheard, FirstLost
<1>4. CASE Unheard(t) /\ SamdSilent
  <2>1. toSamd' = <<>> /\ UNCHANGED <<fromSamd, accepted>>
    <3>1. toSamd = <<Query(t)>>
      BY <1>4 DEF Unheard, SamdSilent
    <3>2. QED
      BY <1>4, <3>1, OneQuery DEF SamdSilent
  <2>2. QED
    BY <1>1, <1>4, <2>1 DEF Unheard, FirstLost, NoiseFirst
<1>5. CASE Unheard(t) /\ SamdAnswer
  BY <1>5, WaitingAnswer
<1>6. QED
  BY <1>2, <1>3, <1>4, <1>5 DEF Samd

LEMMA LocatedSamd ==
  ASSUME Typed, Exchange, ~disturbed', NEW t \in Threads, Samd
  PROVE  Located(t)'
<1>1. UNCHANGED <<pc, try, cur, rc, ret_buff, battery_info, cb, uart_rvc_done, uart_rvc_len>>
  BY DEF Samd, SamdAnswer, SamdSilent, SamdNoise, thread, receiver
<1>2. Located(t)
  BY DEF Samd, SamdAnswer, SamdSilent, SamdNoise, Exchange
<1>3. ASSUME toSamd = <<>> PROVE SamdNoise /\ UNCHANGED <<toSamd, accepted>>
  BY <1>3 DEF Samd, SamdAnswer, SamdSilent, SamdNoise
<1>4. CASE pc[t] \in {"idle", "lock", "enter"}
  <2>1. (pc[t] \in {"idle", "lock", "enter"})'
    BY <1>1, <1>4
  <2>2. QED
    BY <2>1 DEF Located, Clearing, Waiting, Reading, Reporting
<1>5. CASE pc[t] \in {"done0", "len0", "send"}
  <2>1. Clearing(t)
    BY <1>2 DEF Located
  <2>2. SamdNoise /\ UNCHANGED <<toSamd, accepted>>
    BY <1>3, <1>5, <2>1 DEF Clearing
  <2>3. NoiseFirst'
    BY <1>5, <2>1, <2>2, NoiseAppended DEF Clearing
  <2>4. Clearing(t)'
    BY <1>1, <1>5, <2>1, <2>2, <2>3 DEF Clearing, FirstLost
  <2>5. pc'[t] \in {"done0", "len0", "send"}
    BY <1>1, <1>5
  <2>6. QED
    BY <2>4, <2>5 DEF Located, Waiting, Reading, Reporting
<1>6. CASE pc[t] = "wait"
  <2>1. FirstLost(t)' /\ (Unheard(t)' \/ Answered(t)')
    BY <1>2, <1>6, WaitingSamd DEF Located, Waiting
  <2>2. pc'[t] = "wait"
    BY <1>1, <1>6
  <2>3. QED
    BY <2>1, <2>2 DEF Located, Clearing, Waiting, Reading, Reporting
<1>7. CASE pc[t] = "parse"
  <2>1. Reading(t) /\ UNCHANGED <<toSamd, accepted>>
    BY <1>2, <1>3, <1>7 DEF Located, Reading
  <2>2. \A b : Answers(t, b)' <=> Answers(t, b)
    BY <1>1, <2>1 DEF Answers, Request
  <2>3. Reading(t)'
    BY <1>1, <2>1, <2>2 DEF Reading, FirstLost, Request
  <2>4. pc'[t] = "parse"
    BY <1>1, <1>7
  <2>5. QED
    BY <2>3, <2>4 DEF Located, Clearing, Waiting, Reporting
<1>8. CASE pc[t] = "unlock"
  <2>1. Reporting(t) /\ UNCHANGED <<toSamd, accepted>>
    BY <1>2, <1>3, <1>8 DEF Located, Reporting
  <2>2. Reporting(t)' /\ pc'[t] = "unlock"
    BY <1>1, <1>8, <2>1 DEF Reporting, Status, Request
  <2>3. QED
    BY <2>2 DEF Located, Clearing, Waiting, Reading
<1>9. QED
  BY <1>4, <1>5, <1>6, <1>7, <1>8
  DEF Typed, TypeOK, ThreadTypes, Labels, Holding, InSend

LEMMA ExchangeNext ==
  Typed /\ OneConversation /\ Booked /\ Exchange /\ [Next]_vars => Exchange'
<1> SUFFICES ASSUME Typed, OneConversation, Booked, Exchange, [Next]_vars,
                    ~disturbed', NEW t \in Threads
             PROVE  Located(t)'
  BY DEF Exchange
<1>1. CASE UNCHANGED vars
  <2>1. UNCHANGED <<pc, try, cur, rc, receiver, ret_buff, battery_info, cb, toSamd, fromSamd,
                    accepted, disturbed>>
    BY <1>1 DEF vars, receiver
  <2>2. Located(t)
    BY <2>1 DEF Exchange
  <2>3. QED
    BY <2>1, <2>2, LocatedKept
<1>2. ASSUME NEW u \in Threads, OtherWork(u) PROVE Located(t)'
  BY <1>1, <1>2 DEF OtherWork
<1>3. ASSUME NEW u \in Threads, Call(u) PROVE Located(t)'
  <2>1. CASE u = t
    <3>1. pc'[t] = "lock"
      BY <1>3, <2>1 DEF Call, Goto, Typed, TypeOK, ThreadTypes
    <3>2. QED
      BY <3>1 DEF Located, Clearing, Waiting, Reading, Reporting
  <2>2. QED
    BY <1>3, <2>1, LocatedOthers
<1>4. ASSUME NEW u \in Threads, CallStep(u) PROVE Located(t)'
  BY <1>4, LocatedOwn, LocatedOthers
<1>5. QED
  BY <1>1, <1>2, <1>3, <1>4, LocatedCallback, LocatedSamd DEF Next

LEMMA SpecExchange == Spec => []Exchange
<1>1. Init => Exchange
  BY Outside DEF Init, Exchange
<1>2. QED
  BY <1>1, ExchangeNext, BookedInit, BookedNext, OneConversationInit, OneConversationNext,
     SpecTyped, PTL DEF Spec

\* What Send_Link_Command, Send_UnLink_Command and Send_ID_Command report of an
\* undisturbed exchange is what the SAMD did, and the battery text answers the
\* request it was asked for: for any chunks, threads and answers, also when the
\* first try was lost and the answer came to the second.
THEOREM ReportIsTrue == Spec => []StatusIsTrue
<1>1. Exchange => StatusIsTrue
  BY DEF Exchange, Located, Reporting, Status, StatusIsTrue
<1>2. QED
  BY <1>1, SpecExchange, PTL

\* Chunk by chunk, uart_recv_callback never puts more than one line into
\* uart_rcv_data on an undisturbed exchange, although it does not compare the
\* sum of the chunks with the size of the buffer.
THEOREM BufferHoldsOneLine == Spec => []OneLineBuffered
<1>1. Typed /\ Exchange => OneLineBuffered
  <2> SUFFICES ASSUME Typed, Exchange, ~disturbed,
                      NEW t \in Threads, pc[t] \in {"send", "wait", "parse"}
               PROVE  uart_rvc_len <= 3
    BY DEF OneLineBuffered, Line
  <2>1. uart_rvc_len \in Nat
    BY DEF Typed, TypeOK, ReceiverTypes
  <2>2. Located(t)
    BY DEF Exchange
  <2>3. ASSUME Unheard(t) PROVE uart_rvc_len = 0
    BY <2>3 DEF Unheard
  <2>4. ASSUME Answered(t) PROVE uart_rvc_len <= 3
    BY <2>1, <2>4 DEF Answered, Heard
  <2>5. QED
    BY <2>1, <2>2, <2>3, <2>4 DEF Located, Clearing, Waiting, Reading
<1>2. QED
  BY <1>1, SpecTyped, SpecExchange, PTL
=============================================================================
