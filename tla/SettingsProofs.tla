--------------------------- MODULE SettingsProofs ---------------------------
(***************************************************************************)
(* For any bytes, any number of commands and losses of power: the types of *)
(* Settings, StartsWhole, RestartFindsSettings and ReceiverFollows.        *)
(*                                                                         *)
(* A page that only writers alone with it wrote is a beginning of what the *)
(* last of them had, erased after that; the magic bytes come last, so a    *)
(* start accepts it only if it is whole.  The sum of one that is alone is  *)
(* that of the ram it copies, so what its save wrote is accepted.  And a   *)
(* receiver that does not follow the settings is one whose reboot is still *)
(* to come.                                                                *)
(***************************************************************************)
EXTENDS Settings, TLAPS

\* What the thread that starts up writes is the defaults.
Booting == ~up /\ pc[AtThread] # "idle" => ram = Default

\* Loops begin at their first byte, with an empty sum.
Loops ==
  \A t \in Threads :
    /\ pc[t] \in {"sum", "fill"} => next[t] <= 5
    /\ pc[t] \notin {"sum", "fill", "copy"} => next[t] = 1
    /\ pc[t] # "sum" => acc[t] = {}

\* AT+DEFAULT is a command of one thread, a list of settings one of the other.
Defaulting == {"read", "mark", "test", "fill"}

Roles ==
  /\ pc[AtThread] \notin {"list", "listed"} /\ pc[Web] \notin Defaulting
  /\ pc[AtThread] \in Defaulting => defaulted

Typed == TypeOK /\ Booting /\ Loops /\ Roles

LEMMA LayoutOrder ==
  /\ Len(Layout) = 5 /\ Len(Order) = 4
  /\ Layout[1] = "flag" /\ \A k \in 1 .. 4 : Layout[k + 1] = Order[k]
  /\ Order[1] = "name" /\ Order[2] = "suni" /\ Order[3] = "prot" /\ Order[4] = "magic"
BY DEF Layout, Order

LEMMA LayoutFields ==
  /\ \A k \in 1 .. 4 : Order[k] \in Fields
  /\ \A k \in 1 .. 5 : Layout[k] \in Fields \cup {"flag"}
  /\ \A f \in Fields : \E k \in 2 .. 5 : f = Layout[k]
BY DEF Layout, Order, Fields

LEMMA BytesTyped ==
  /\ {} \in Byte /\ FF \in Byte /\ One \in Byte
  /\ Zeroed \in [Fields -> Byte] /\ Default \in [Fields -> Byte]
  /\ Blank \in [Fields \cup {"flag"} -> Byte]
<1>1. (CHOOSE x \in Names : TRUE) \in Byte /\ (CHOOSE x \in Unis : TRUE) \in Byte
  BY BytesAssumption
<1>2. {} \in Byte /\ FF \in Byte /\ One \in Byte
  BY BytesAssumption DEF Byte, FF, One
<1>3. QED
  BY <1>1, <1>2, BytesAssumption DEF Zeroed, Default, Blank, Fields

LEMMA SettingTyped ==
  ASSUME NEW f \in DOMAIN Setting, NEW v \in Setting[f]
  PROVE  f \in Fields \ {"magic"} /\ v \in Byte
BY BytesAssumption, BytesTyped DEF Setting, Prots, Fields

LEMMA XorTyped ==
  ASSUME NEW a \in Byte, NEW b \in Byte
  PROVE  Xor(a, b) \in Byte /\ Summand(b) \in Byte /\ a \cap b \in Byte
BY DEF Byte, Xor, Summand

LEMMA TypedInit == Init => Typed
<1> SUFFICES ASSUME Init PROVE Typed
  OBVIOUS
<1>1. next \in [Threads -> 1 .. Len(Layout) + 1]
  BY LayoutOrder DEF Init
<1>2. ops \in 0 .. MaxOps /\ boots \in 0 .. MaxBoots
  BY BoundsAssumption DEF Init
<1>3. TypeOK
  BY <1>1, <1>2, BytesTyped DEF Init, TypeOK, Threads, Steps
<1>4. QED
  BY <1>3 DEF Init, Typed, Booting, Loops, Roles, Threads, Defaulting

-----------------------------------------------------------------------------
\* The steps of write_data_to_flash.
LEMMA TypedWrite ==
  ASSUME Typed, NEW t \in Threads, Write(t)
  PROVE  Typed'
<1> USE LayoutOrder DEF Typed, TypeOK, Booting, Loops, Roles, Threads, Defaulting, hist, Steps
<1>1. CASE SumByte(t)
  <2>1. next[t] \in 1 .. 4
    BY <1>1 DEF SumByte
  <2>2. ram[Order[next[t]]] \in Byte
    BY <2>1, LayoutFields
  <2>3. Xor(acc[t], Summand(ram[Order[next[t]]])) \in Byte
    <3>1. Summand(ram[Order[next[t]]]) \in Byte
      BY <2>2, BytesTyped, XorTyped
    <3>2. acc[t] \in Byte
      OBVIOUS
    <3>3. QED
      BY <3>1, <3>2, XorTyped
  <2>4. acc' \in [Threads -> Byte]
    BY <1>1, <2>3 DEF SumByte
  <2>5. next' \in [Threads -> 1 .. Len(Layout) + 1] /\ next'[t] <= 5
    BY <1>1, <2>1 DEF SumByte
  <2>6. \A u \in Threads : u # t => next'[u] = next[u] /\ acc'[u] = acc[u]
    BY <1>1 DEF SumByte
  <2>7. UNCHANGED <<ram, initFlag, flash, pc, after, up, rebooting, dmx, ops, boots, hist>>
        /\ pc[t] = "sum"
    BY <1>1 DEF SumByte
  <2>8. TypeOK'
    BY <2>4, <2>5, <2>7
  <2>9. Loops'
    BY <2>5, <2>6, <2>7
  <2>10. QED
    BY <2>7, <2>8, <2>9
<1>2. CASE SumDone(t)
  <2>1. acc' \in [Threads -> Byte] /\ initFlag' \in Byte
    BY <1>2, BytesTyped DEF SumDone
  <2>2. next' \in [Threads -> 1 .. Len(Layout) + 1]
    BY <1>2 DEF SumDone
  <2>3. QED
    BY <1>2, <2>1, <2>2 DEF SumDone
<1>3. CASE Erase(t)
  BY <1>3, BytesTyped DEF Erase
<1>4. CASE Copy(t)
  <2>1. next[t] \in 1 .. 5 /\ Layout[next[t]] \in Fields \cup {"flag"}
    BY <1>4, LayoutFields DEF Copy
  <2>2. PICK v \in Burnt(flash[Layout[next[t]]], InRam(Layout[next[t]])) :
             flash' = [flash EXCEPT ![Layout[next[t]]] = v]
    BY <1>4 DEF Copy
  <2>3. InRam(Layout[next[t]]) \in Byte /\ flash[Layout[next[t]]] \in Byte
    BY <2>1 DEF InRam, Fields
  <2>4. v \in Byte
    <3>1. flash[Layout[next[t]]] \cap InRam(Layout[next[t]]) \in Byte
      BY <2>3, XorTyped
    <3>2. QED
      BY <2>2, <2>3, <3>1 DEF Burnt
  <2>5. flash' \in [Fields \cup {"flag"} -> Byte]
    BY <2>2, <2>4
  <2>6. next' \in [Threads -> 1 .. Len(Layout) + 1]
    BY <1>4, <2>1 DEF Copy
  <2>7. QED
    BY <1>4, <2>5, <2>6 DEF Copy
<1>5. CASE Written(t)
  <2>1. dmx' \in [prot : Byte, suni : Byte]
    BY <1>5 DEF Written, Fields
  <2>2. rebooting' \in BOOLEAN
    BY <1>5 DEF Written, Reboots
  <2>3. next' \in [Threads -> 1 .. Len(Layout) + 1]
    BY <1>5 DEF Written
  <2>4. QED
    BY <1>5, <2>1, <2>2, <2>3 DEF Written
<1>6. QED
  BY <1>1, <1>2, <1>3, <1>4, <1>5 DEF Write

\* A command begins, and changes one or two settings.
LEMMA TypedBegin ==
  ASSUME Typed, NEW t \in Threads, Begin(t), NEW x \in {"read", "list", "sum"},
         pc' = [pc EXCEPT ![t] = x], ram' \in [Fields -> Byte], initFlag' \in Byte,
         after' \in [Threads -> {"stay", "reboot", "ifSacn"}],
         x = "read" => t = AtThread /\ defaulted', x = "list" => t = Web, defaulted => defaulted'
  PROVE  Typed'
<1> USE DEF Typed, Threads, Begin
<1>1. ops' \in 0 .. MaxOps
  BY BoundsAssumption DEF TypeOK
<1>2. pc' \in [Threads -> Steps] /\ pc'[t] = x /\ \A u \in Threads : u # t => pc'[u] = pc[u]
  BY DEF TypeOK, Steps
<1>3. next[t] = 1 /\ acc[t] = {}
  BY DEF Loops
<1>4. TypeOK'
  BY <1>1, <1>2 DEF TypeOK
<1>5. Loops'
  BY <1>2, <1>3 DEF Loops
<1>6. Roles'
  BY <1>2, ThreadsAssumption DEF Roles, Defaulting
<1>7. QED
  BY <1>4, <1>5, <1>6 DEF Booting

\* A command goes on from one step to the next.
LEMMA TypedGoesOn ==
  ASSUME Typed, NEW t \in Threads, NEW x \in Steps, pc' = [pc EXCEPT ![t] = x],
         pc[t] \in {"read", "mark", "test", "list", "listed"},
         x \notin {"erase", "copy"},
         x \in Defaulting => t = AtThread /\ pc[t] \in Defaulting,
         x \in {"list", "listed"} => t = Web,
         ram' \in [Fields -> Byte], initFlag' \in Byte, rebooting' \in BOOLEAN,
         after' \in [Threads -> {"stay", "reboot", "ifSacn"}],
         UNCHANGED <<flash, next, acc, up, dmx, ops, boots, defaulted, saved>>
  PROVE  Typed'
<1> USE DEF Typed, Threads
<1>1. pc' \in [Threads -> Steps] /\ pc'[t] = x /\ \A u \in Threads : u # t => pc'[u] = pc[u]
  BY DEF TypeOK
<1>2. up
  BY DEF TypeOK
<1>3. next[t] = 1 /\ acc[t] = {}
  BY DEF Loops
<1>4. TypeOK'
  BY <1>1, <1>2 DEF TypeOK
<1>5. Loops'
  BY <1>1, <1>3 DEF Loops
<1>6. Roles'
  BY <1>1, ThreadsAssumption DEF Roles, Defaulting
<1>7. QED
  BY <1>2, <1>4, <1>5, <1>6 DEF Booting

LEMMA TypedDefaults ==
  ASSUME Typed, SetDefaults
  PROVE  Typed'
<1> USE BytesTyped
<1>1. AtThread \in Threads /\ AtThread # Web
  BY ThreadsAssumption DEF Threads
<1>2. initFlag \in Byte /\ InFlash \in [Fields -> Byte] /\ flash.flag \in Byte
      /\ ram \in [Fields -> Byte] /\ rebooting \in BOOLEAN
      /\ after \in [Threads -> {"stay", "reboot", "ifSacn"}]
  BY DEF Typed, TypeOK, InFlash, Fields
<1>3. CASE DefaultBegin
  <2>1. after' \in [Threads -> {"stay", "reboot", "ifSacn"}]
    BY <1>2, <1>3 DEF DefaultBegin
  <2>2. QED
    BY <1>1, <1>3, <2>1, TypedBegin DEF DefaultBegin
<1>4. CASE DefaultRead
  BY <1>1, <1>2, <1>4, TypedGoesOn DEF DefaultRead, hist, Steps, Defaulting
<1>5. CASE DefaultMark
  BY <1>1, <1>2, <1>5, TypedGoesOn DEF DefaultMark, hist, Steps, Defaulting
<1>6. CASE DefaultClear
  BY <1>1, <1>2, <1>6, TypedGoesOn DEF DefaultClear, hist, Steps, Defaulting
<1>7. CASE DefaultSkip
  BY <1>1, <1>2, <1>7, TypedGoesOn DEF DefaultSkip, Steps, Defaulting
<1>8. CASE DefaultFill
  <2>1. next[AtThread] \in 1 .. 4
    BY <1>1, <1>8, LayoutOrder DEF DefaultFill, Typed, TypeOK
  <2>2. ram' \in [Fields -> Byte]
    BY <1>2, <1>8 DEF DefaultFill, Fields
  <2>3. next' \in [Threads -> 1 .. Len(Layout) + 1] /\ next'[AtThread] <= 5
    BY <1>1, <1>8, <2>1, LayoutOrder DEF DefaultFill, Typed, TypeOK
  <2>4. \A u \in Threads : u # AtThread => next'[u] = next[u]
    BY <1>8 DEF DefaultFill, Typed, TypeOK
  <2>5. up
    BY <1>8 DEF DefaultFill, Typed, TypeOK
  <2>6. UNCHANGED <<initFlag, flash, pc, after, acc, up, rebooting, dmx, ops, boots, hist>>
        /\ pc[AtThread] = "fill"
    BY <1>8 DEF DefaultFill
  <2>7. TypeOK'
    BY <2>2, <2>3, <2>6 DEF Typed, TypeOK, hist
  <2>8. Loops'
    BY <2>3, <2>4, <2>6 DEF Typed, Loops
  <2>9. QED
    BY <2>5, <2>6, <2>7, <2>8 DEF Typed, Booting, Roles, hist
<1>9. CASE DefaultFilled
  <2>1. next' \in [Threads -> 1 .. Len(Layout) + 1] /\ next'[AtThread] = 1
    BY <1>1, <1>9, LayoutOrder DEF DefaultFilled, Typed, TypeOK
  <2>2. /\ pc' \in [Threads -> Steps] /\ pc'[AtThread] = "sum"
        /\ \A u \in Threads : u # AtThread => next'[u] = next[u] /\ pc'[u] = pc[u]
    BY <1>1, <1>9 DEF DefaultFilled, Typed, TypeOK, Steps
  <2>3. up
    BY <1>9 DEF DefaultFilled, Typed, TypeOK
  <2>4. UNCHANGED <<ram, initFlag, flash, after, acc, up, rebooting, dmx, ops, boots, hist>>
        /\ pc[AtThread] = "fill"
    BY <1>9 DEF DefaultFilled
  <2>5. TypeOK'
    BY <2>1, <2>2, <2>3, <2>4 DEF Typed, TypeOK, hist
  <2>6. Loops'
    BY <2>1, <2>2, <2>4 DEF Typed, Loops
  <2>7. Roles'
    BY <1>1, <2>2, <2>4 DEF Typed, Roles, hist, Threads, Defaulting
  <2>8. QED
    BY <2>3, <2>4, <2>5, <2>6, <2>7 DEF Typed, Booting
<1>10. QED
  BY <1>3, <1>4, <1>5, <1>6, <1>7, <1>8, <1>9 DEF SetDefaults

LEMMA TypedCommand ==
  ASSUME Typed, Command
  PROVE  Typed'
<1> USE DEF Threads
<1>1. /\ initFlag \in Byte /\ ram \in [Fields -> Byte]
      /\ after \in [Threads -> {"stay", "reboot", "ifSacn"}] /\ rebooting \in BOOLEAN
  BY DEF Typed, TypeOK
<1>2. ASSUME NEW t \in Threads, NEW v \in Setting.name, SetName(t, v) PROVE Typed'
  <2>1. v \in Byte
    BY SettingTyped DEF Setting
  <2>2. ram' \in [Fields -> Byte] /\ after' \in [Threads -> {"stay", "reboot", "ifSacn"}]
    BY <1>1, <1>2, <2>1 DEF SetName
  <2>3. QED
    BY <1>1, <1>2, <2>2, TypedBegin DEF SetName
<1>3. CASE SetDefaults
  BY <1>3, TypedDefaults
<1>4. ASSUME NEW p \in Prots, NEW u \in Unis, SetProto(p, u) PROVE Typed'
  <2>1. p \in Byte /\ u \in Byte
    BY BytesAssumption DEF Prots
  <2>2. ram' \in [Fields -> Byte] /\ after' \in [Threads -> {"stay", "reboot", "ifSacn"}]
    BY <1>1, <1>4, <2>1 DEF SetProto
  <2>3. QED
    BY <1>1, <1>4, <2>2, TypedBegin DEF SetProto
<1>5. ASSUME NEW u \in Unis, AutoUniverse(u) PROVE Typed'
  <2>1. ram' \in [Fields -> Byte] /\ after' \in [Threads -> {"stay", "reboot", "ifSacn"}]
    BY <1>1, <1>5, BytesAssumption DEF AutoUniverse
  <2>2. QED
    BY <1>1, <1>5, <2>1, TypedBegin DEF AutoUniverse
<1>6. CASE ListBegin
  <2>1. after' \in [Threads -> {"stay", "reboot", "ifSacn"}]
    BY <1>1, <1>6 DEF ListBegin
  <2>2. QED
    BY <1>1, <1>6, <2>1, TypedBegin DEF ListBegin
<1>7. ASSUME NEW f \in DOMAIN Setting, ListSet(f) PROVE Typed'
  <2>1. PICK v \in Setting[f] : ram' = [ram EXCEPT ![f] = v]
    BY <1>7 DEF ListSet
  <2>2. ram' \in [Fields -> Byte]
    BY <1>1, <2>1, SettingTyped
  <2>3. after' \in [Threads -> {"stay", "reboot", "ifSacn"}]
    BY <1>1, <1>7 DEF ListSet
  <2>4. QED
    BY <1>1, <1>7, <2>2, <2>3, TypedGoesOn DEF ListSet, hist, Steps, Defaulting
<1>8. CASE ListSaved
  BY <1>1, <1>8, TypedGoesOn DEF ListSaved, hist, Steps, Defaulting
<1>9. CASE ListFailed
  <2>1. rebooting' \in BOOLEAN
    BY <1>9 DEF ListFailed, Reboots
  <2>2. QED
    BY <1>1, <1>9, <2>1, TypedGoesOn DEF ListFailed, Steps, Defaulting
<1>10. QED
  BY <1>2, <1>3, <1>4, <1>5, <1>6, <1>7, <1>8, <1>9 DEF Command

\* Power and start-up.
LEMMA TypedStart ==
  ASSUME Typed, Down \/ StartValid \/ StartDefault
  PROVE  Typed'
<1> USE BoundsAssumption, ThreadsAssumption, BytesTyped
    DEF Typed, TypeOK, Booting, Loops, Roles, Defaulting, Threads, Steps, hist
<1>1. CASE Down
  <2>1. next' \in [Threads -> 1 .. Len(Layout) + 1]
    BY <1>1, LayoutOrder DEF Down
  <2>2. ops' \in 0 .. MaxOps /\ boots' \in 0 .. MaxBoots
    BY <1>1 DEF Down
  <2>3. /\ pc' = [t \in Threads |-> "idle"] /\ acc' = [t \in Threads |-> {}]
        /\ after' \in [Threads -> {"stay", "reboot", "ifSacn"}]
        /\ \A t \in Threads : next'[t] = 1
    BY <1>1 DEF Down
  <2>4. Booting' /\ Loops' /\ Roles'
    BY <2>3
  <2>5. /\ UNCHANGED <<flash, saved>> /\ up' = FALSE /\ rebooting' = FALSE
        /\ ram' = Zeroed /\ initFlag' = {} /\ dmx' = [prot |-> {}, suni |-> {}]
    BY <1>1 DEF Down
  <2>6. TypeOK'
    BY <2>1, <2>2, <2>3, <2>5
  <2>7. QED
    BY <2>4, <2>6
<1>2. CASE StartValid
  <2>1. ram' \in [Fields -> Byte] /\ dmx' \in [prot : Byte, suni : Byte]
    BY <1>2 DEF StartValid, InFlash, Fields
  <2>2. QED
    BY <1>2, <2>1 DEF StartValid
<1>3. CASE StartDefault
  <2>1. pc'[AtThread] = "sum" /\ pc'[Web] = "idle" /\ pc' \in [Threads -> Steps]
    BY <1>3 DEF StartDefault, Starting
  <2>2. next[AtThread] = 1
    BY <1>3 DEF StartDefault, Starting
  <2>3. QED
    BY <1>3, <2>1, <2>2 DEF StartDefault
<1>4. QED
  BY <1>1, <1>2, <1>3

LEMMA TypedNext == Typed /\ [Next]_vars => Typed'
<1>1. Typed /\ UNCHANGED vars => Typed'
  BY DEF vars, Typed, TypeOK, Booting, Loops, Roles
<1>2. QED
  BY <1>1, TypedWrite, TypedCommand, TypedStart DEF Next

LEMMA SpecTyped == Spec => []Typed
  BY TypedInit, TypedNext, PTL DEF Spec

\* The settings, the page and its sum keep to their values, and no command runs
\* before a start has taken or written its settings, however often the power fails.
THEOREM TypeCorrect == Spec => []TypeOK
<1>1. Typed => TypeOK
  BY DEF Typed
<1>2. QED
  BY <1>1, SpecTyped, PTL

-----------------------------------------------------------------------------
(* ReceiverFollows: while the settings differ from those of the DMX thread,  *)
(* a web command is on its way to order the reboot.                          *)

\* What the DMX thread does is what protocol and universe in ram ask for.
AsSet == dmx.prot = ram.prot /\ (dmx.prot = SACN => dmx.suni = ram.suni)

\* A web command that is going to order a reboot if it has to.
WillReboot ==
  /\ pc[Web] # "idle"
  /\ after[Web] = "reboot" \/ (after[Web] = "ifSacn" /\ dmx.prot = ram.prot)

Following == up /\ ~rebooting /\ ~defaulted => AsSet \/ WillReboot

LEMMA FollowingInit == Init => Following
BY DEF Init, Following

\* A thread that sums, erases and copies leaves protocol and universe alone; at
\* the end of a web command the reboot is ordered if it has to be.
LEMMA FollowingWrite ==
  ASSUME Typed, Following, NEW t \in Threads, Write(t)
  PROVE  Following'
<1> USE DEF Typed, TypeOK, Threads, Following
<1>1. CASE SumByte(t) \/ SumDone(t) \/ Erase(t) \/ Copy(t)
  <2>1. UNCHANGED <<ram, after, up, rebooting, dmx, defaulted>>
    BY <1>1 DEF SumByte, SumDone, Erase, Copy, hist
  <2>2. \A u \in Threads : pc[u] # "idle" => pc'[u] # "idle"
    BY <1>1 DEF SumByte, SumDone, Erase, Copy
  <2>3. WillReboot => WillReboot'
    BY <2>1, <2>2 DEF WillReboot
  <2>4. AsSet => AsSet'
    BY <2>1 DEF AsSet
  <2>5. QED
    BY <2>1, <2>3, <2>4
<1>2. CASE Written(t)
  <2>1. ~up => AsSet'
    BY <1>2 DEF Written, AsSet
  <2>2. AsSet /\ up => AsSet'
    BY <1>2 DEF Written, AsSet
  <2>3. CASE up /\ t = Web /\ WillReboot
    <3>1. ram.prot # SACN /\ after[Web] # "reboot" => AsSet'
      BY <1>2, <2>3 DEF Written, AsSet, WillReboot
    <3>2. ram.prot = SACN \/ after[Web] = "reboot" => rebooting'
      BY <1>2, <2>3 DEF Written, Reboots, WillReboot
    <3>3. QED
      BY <3>1, <3>2
  <2>4. CASE up /\ t = AtThread /\ WillReboot
    <3>1. WillReboot'
      BY <1>2, <2>4, ThreadsAssumption DEF Written, WillReboot
    <3>2. QED
      BY <3>1
  <2>5. (rebooting => rebooting') /\ UNCHANGED defaulted
    BY <1>2 DEF Written
  <2>6. CASE ~up \/ AsSet \/ rebooting \/ defaulted
    BY <2>1, <2>2, <2>5, <2>6
  <2>7. QED
    BY <2>3, <2>4, <2>6
<1>3. QED
  BY <1>1, <1>2 DEF Write

LEMMA FollowingCommand ==
  ASSUME Typed, Following, Command
  PROVE  Following'
<1> USE ThreadsAssumption DEF Typed, TypeOK, Threads, Following
<1>1. ASSUME NEW t \in Threads, NEW v \in Setting.name, SetName(t, v) PROVE Following'
  <2>1. AsSet => AsSet'
    BY <1>1 DEF SetName, Begin, AsSet, Fields
  <2>2. WillReboot => WillReboot'
    BY <1>1 DEF SetName, Begin, WillReboot, Fields
  <2>3. UNCHANGED <<up, rebooting, defaulted>>
    BY <1>1 DEF SetName, Begin
  <2>4. QED
    BY <2>1, <2>2, <2>3
<1>2. CASE SetDefaults
  <2>1. defaulted'
    BY <1>2 DEF SetDefaults, DefaultBegin, DefaultRead, DefaultMark, DefaultClear, DefaultSkip,
                DefaultFill, DefaultFilled, hist, Roles, Defaulting
  <2>2. QED
    BY <2>1
<1>3. ASSUME NEW p \in Prots, NEW u \in Unis, SetProto(p, u) PROVE Following'
  <2>1. ~WillReboot
    BY <1>3 DEF SetProto, Begin, WillReboot
  <2>2. AsSet => AsSet' \/ WillReboot'
    BY <1>3 DEF SetProto, Begin, AsSet, WillReboot, Fields
  <2>3. UNCHANGED <<up, rebooting, defaulted>>
    BY <1>3 DEF SetProto, Begin
  <2>4. QED
    BY <2>1, <2>2, <2>3
<1>4. ASSUME NEW u \in Unis, AutoUniverse(u) PROVE Following'
  <2>1. ~WillReboot
    BY <1>4 DEF AutoUniverse, Begin, WillReboot
  <2>2. AsSet => WillReboot'
    BY <1>4 DEF AutoUniverse, Begin, AsSet, WillReboot, Fields
  <2>3. UNCHANGED <<up, rebooting, defaulted>>
    BY <1>4 DEF AutoUniverse, Begin
  <2>4. QED
    BY <2>1, <2>2, <2>3
<1>5. CASE ListBegin
  <2>1. ~WillReboot
    BY <1>5 DEF ListBegin, Begin, WillReboot
  <2>2. AsSet => AsSet'
    BY <1>5 DEF ListBegin, Begin, AsSet
  <2>3. UNCHANGED <<up, rebooting, defaulted>>
    BY <1>5 DEF ListBegin, Begin
  <2>4. QED
    BY <2>1, <2>2, <2>3
<1>6. ASSUME NEW f \in DOMAIN Setting, ListSet(f) PROVE Following'
  <2>1. pc'[Web] = "listed" /\ UNCHANGED <<up, rebooting, defaulted, dmx>>
    BY <1>6 DEF ListSet, hist
  <2>2. PICK v \in Setting[f] : ram' = [ram EXCEPT ![f] = v]
    BY <1>6 DEF ListSet
  <2>3. CASE f = "name"
    <3>1. ram'.prot = ram.prot /\ ram'.suni = ram.suni /\ UNCHANGED after
      BY <1>6, <2>2, <2>3 DEF ListSet, Fields
    <3>2. (AsSet => AsSet') /\ (WillReboot => WillReboot')
      BY <2>1, <3>1 DEF AsSet, WillReboot
    <3>3. QED
      BY <2>1, <3>2
  <2>4. CASE f \in {"prot", "suni"}
    <3>1. WillReboot'
      BY <1>6, <2>1, <2>4 DEF ListSet, WillReboot
    <3>2. QED
      BY <2>1, <3>1
  <2>5. QED
    BY <2>3, <2>4 DEF Setting
<1>7. CASE ListSaved
  <2>1. (AsSet => AsSet') /\ (WillReboot => WillReboot')
    BY <1>7 DEF ListSaved, AsSet, WillReboot
  <2>2. UNCHANGED <<up, rebooting, defaulted>>
    BY <1>7 DEF ListSaved, hist
  <2>3. QED
    BY <2>1, <2>2
<1>8. CASE ListFailed
  <2>1. AsSet => AsSet'
    BY <1>8 DEF ListFailed, AsSet
  <2>2. WillReboot => AsSet' \/ rebooting'
    BY <1>8 DEF ListFailed, Reboots, AsSet, WillReboot
  <2>3. (rebooting => rebooting') /\ UNCHANGED <<up, defaulted>>
    BY <1>8 DEF ListFailed
  <2>4. QED
    BY <2>1, <2>2, <2>3
<1>9. QED
  BY <1>1, <1>2, <1>3, <1>4, <1>5, <1>6, <1>7, <1>8 DEF Command

LEMMA FollowingNext == Typed /\ Following /\ [Next]_vars => Following'
<1> SUFFICES ASSUME Typed, Following, [Next]_vars PROVE Following'
  OBVIOUS
<1>1. CASE UNCHANGED vars
  BY <1>1 DEF vars, Following, AsSet, WillReboot
<1>2. CASE Down
  BY <1>2 DEF Down, Following
<1>3. CASE StartValid
  <2>1. AsSet'
    BY <1>3 DEF StartValid, AsSet, InFlash, Fields
  <2>2. QED
    BY <2>1 DEF Following
<1>4. CASE StartDefault
  BY <1>4 DEF StartDefault, Starting, Following
<1>5. QED
  BY <1>1, <1>2, <1>3, <1>4, FollowingWrite, FollowingCommand DEF Next

\* Whenever no command is under way the DMX thread works with the protocol and
\* the universe that are set, or a reboot was ordered: whichever thread changed
\* them, also when the web server decided on the reboot before it wrote them,
\* and also when a list of settings failed half-way.
THEOREM ReceiverIsRebooted == Spec => []ReceiverFollows
<1>1. Following => ReceiverFollows
  BY DEF Following, AsSet, WillReboot, ReceiverFollows, AllIdle, Threads
<1>2. QED
  BY <1>1, FollowingInit, FollowingNext, SpecTyped, PTL DEF Spec

-----------------------------------------------------------------------------
(* One that is alone with the settings copies the ram it summed, to a page   *)
(* that is erased where it has not written yet.                              *)

Other(t) == IF t = Web THEN AtThread ELSE Web

\* Nobody runs a command beside one that is alone.
Solo == \A t \in Threads : alone[t] /\ pc[t] # "idle" => pc[Other(t)] = "idle"

\* The sum of the first n - 1 bytes, and of all.
Upto(c, n) ==
  IF n = 1 THEN {}
  ELSE IF n = 2 THEN Xor({}, Summand(c.name))
  ELSE IF n = 3 THEN Xor(Xor({}, Summand(c.name)), Summand(c.suni))
  ELSE IF n = 4 THEN Xor(Xor(Xor({}, Summand(c.name)), Summand(c.suni)), Summand(c.prot))
  ELSE Xor(Xor(Xor(Xor({}, Summand(c.name)), Summand(c.suni)), Summand(c.prot)), Summand(c.magic))

Total(c) == Upto(c, 5)

\* Of the page, the bytes before the n-th are those of c, the others erased.
Begun(c, n) ==
  \A k \in 2 .. 5 : flash[Layout[k]] = IF k < n THEN c[Layout[k]] ELSE FF

\* What one that is alone has done so far.
Progress(t) ==
  /\ pc[t] = "sum" => acc[t] = Upto(ram, next[t])
  /\ pc[t] \in {"erase", "copy"} => initFlag = Total(ram)
  /\ pc[t] = "copy" => /\ saved = ram
                       /\ Begun(ram, next[t])
                       /\ flash.flag = IF 1 < next[t] THEN initFlag ELSE FF
  /\ pc[t] = "test" => initFlag = One

Writing == \A t \in Threads : alone[t] => Progress(t)

\* A page no two threads wrote to is a beginning of what was saved.
Whole == ~mixed => \E n \in 1 .. 6 : Begun(saved, n)

\* The page holds what is in ram, unless a command changed ram.
Kept ==
  up /\ (\A t \in Threads : pc[t] \in {"idle", "list"}) /\ ~overlap /\ ~dirty
    => InFlash = ram /\ ((\A f \in Fields : ram[f] # FF) => flash.flag = Checked(ram))

\* The magic bytes are in ram, but while AT+DEFAULT sets them anew.
Marked ==
  up => /\ pc[AtThread] \notin Defaulting => ram.magic = Magic
        /\ pc[AtThread] = "fill" /\ next[AtThread] = 5 => ram.magic = Magic

Alone == Solo /\ Writing /\ Whole /\ Kept /\ Marked

LEMMA TwoThreads ==
  ASSUME NEW t \in Threads
  PROVE  /\ Other(t) \in Threads /\ Other(t) # t /\ Other(Other(t)) = t
         /\ \A u \in Threads : u = t \/ u = Other(t)
BY ThreadsAssumption DEF Threads, Other

LEMMA InFlashIs ==
  ASSUME NEW c \in [Fields -> Byte], \A f \in Fields : flash[f] = c[f]
  PROVE  InFlash = c
BY DEF InFlash

LEMMA CopiedWhole ==
  ASSUME Typed, Begun(ram, 6)
  PROVE  InFlash = ram
<1>1. \A f \in Fields : flash[f] = ram[f]
  BY LayoutFields DEF Begun
<1>2. ram \in [Fields -> Byte]
  BY DEF Typed, TypeOK
<1>3. QED
  BY <1>1, <1>2, InFlashIs

\* One byte more.
LEMMA UptoNext ==
  ASSUME NEW c, NEW n \in 1 .. 4
  PROVE  Upto(c, n + 1) = Xor(Upto(c, n), Summand(c[Order[n]]))
<1>1. n = 1 \/ n = 2 \/ n = 3 \/ n = 4
  OBVIOUS
<1>2. QED
  BY <1>1, LayoutOrder DEF Upto

\* Where no byte is 0xff the sum that is written and the one that is read agree.
LEMMA TotalChecked ==
  ASSUME NEW c \in [Fields -> Byte], \A f \in Fields : c[f] # FF
  PROVE  Total(c) = Checked(c)
<1>1. /\ Summand(c.name) = c.name /\ Summand(c.suni) = c.suni
      /\ Summand(c.prot) = c.prot /\ Summand(c.magic) = c.magic
  BY DEF Summand, Fields
<1>2. Xor({}, c.name) = c.name
  BY DEF Xor
<1>3. QED
  BY <1>1, <1>2 DEF Total, Upto, Checked

LEMMA AloneInit == Init => Alone
<1> SUFFICES ASSUME Init PROVE Alone
  OBVIOUS
<1>1. Begun(saved, 1)
  BY LayoutFields DEF Init, Begun, Blank
<1>2. QED
  BY <1>1 DEF Init, Alone, Solo, Writing, Progress, Whole, Kept, Marked, Threads

-----------------------------------------------------------------------------
LEMMA AloneWrite ==
  ASSUME Typed, Alone, NEW t \in Threads, Write(t)
  PROVE  Alone'
<1> DEFINE o == Other(t)
<1> USE LayoutOrder DEF Typed, TypeOK
<1>1. /\ o \in Threads /\ o # t /\ Other(o) = t
      /\ \A u \in Threads : u = t \/ u = o
  BY TwoThreads
<1>2. alone[o] => pc[o] = "idle"
  <2>1. pc[t] # "idle"
    BY DEF Write, SumByte, SumDone, Erase, Copy, Written
  <2>2. QED
    BY <1>1, <2>1 DEF Alone, Solo
<1>3. pc'[o] = pc[o] /\ UNCHANGED alone
  BY <1>1 DEF Write, SumByte, SumDone, Erase, Copy, Written, hist
<1>4. Solo'
  <2>1. alone[t] => pc[o] = "idle"
    BY DEF Alone, Solo, Write, SumByte, SumDone, Erase, Copy, Written
  <2>2. QED
    BY <1>1, <1>2, <1>3, <2>1 DEF Solo
<1>5. ASSUME alone[t] => Progress(t)'
      PROVE  Writing'
  <2>1. alone'[o] => Progress(o)'
    BY <1>2, <1>3 DEF Progress
  <2>2. QED
    BY <1>1, <1>3, <1>5, <2>1 DEF Writing
<1>6. pc[t] \in {"sum", "erase", "copy"} /\ pc'[t] \in {"sum", "erase", "copy", "idle"}
  BY DEF Write, SumByte, SumDone, Erase, Copy, Written
<1>7. Marked'
  <2>1. UNCHANGED ram /\ (up' = up \/ pc[t] = "copy")
    BY DEF Write, SumByte, SumDone, Erase, Copy, Written
  <2>2. ~up => ram.magic = Magic
    BY <1>6, ThreadsAssumption DEF Booting, Default, Threads
  <2>3. CASE t = AtThread
    BY <1>6, <2>1, <2>2, <2>3 DEF Alone, Marked, Defaulting
  <2>4. CASE t = Web
    <3>1. AtThread = o
      BY <2>4 DEF Other
    <3>2. next'[AtThread] = next[AtThread]
      BY <1>1, <2>4, <3>1 DEF Write, SumByte, SumDone, Erase, Copy, Written
    <3>3. up
      BY <1>6, <2>4
    <3>4. QED
      BY <1>3, <2>1, <3>1, <3>2, <3>3 DEF Alone, Marked
  <2>5. QED
    BY <2>3, <2>4 DEF Threads
<1>8. CASE SumByte(t)
  <2>1. next[t] \in 1 .. 4 /\ pc[t] = "sum" /\ pc'[t] = "sum" /\ next'[t] = next[t] + 1
        /\ acc'[t] = Xor(acc[t], Summand(ram[Order[next[t]]]))
        /\ UNCHANGED <<ram, initFlag, flash, saved, mixed>>
    BY <1>8 DEF SumByte, hist
  <2>2. ASSUME alone[t] PROVE acc'[t] = Upto(ram, next[t] + 1)
    BY <2>1, <2>2, UptoNext DEF Alone, Writing, Progress
  <2>3. alone[t] => Progress(t)'
    BY <2>1, <2>2 DEF Progress, Upto
  <2>4. Whole'
    BY <2>1 DEF Alone, Whole, Begun
  <2>5. QED
    BY <1>4, <1>5, <1>7, <2>1, <2>3, <2>4 DEF Alone, Kept
<1>9. CASE SumDone(t)
  <2>1. next[t] = 5 /\ pc[t] = "sum" /\ pc'[t] = "erase" /\ initFlag' = acc[t]
        /\ UNCHANGED <<ram, flash, saved, mixed>>
    BY <1>9 DEF SumDone, hist
  <2>2. alone[t] => initFlag' = Total(ram)
    BY <2>1 DEF Alone, Writing, Progress, Total
  <2>3. alone[t] => Progress(t)'
    BY <2>1, <2>2 DEF Progress, Total, Upto
  <2>4. Whole'
    BY <2>1 DEF Alone, Whole, Begun
  <2>5. QED
    BY <1>4, <1>5, <1>7, <2>1, <2>3, <2>4 DEF Alone, Kept
<1>10. CASE Erase(t)
  <2>1. /\ pc[t] = "erase" /\ pc'[t] = "copy" /\ next'[t] = 1 /\ UNCHANGED <<ram, initFlag>>
        /\ flash' = Blank /\ mixed' = ~alone[t] /\ (alone[t] => saved' = ram)
    BY <1>10 DEF Erase, Loops
  <2>2. /\ \A k \in 2 .. 5 : flash'[Layout[k]] = FF
        /\ flash'["flag"] = FF
    BY <2>1, LayoutFields DEF Blank
  <2>3. Begun(ram, 1)' /\ Begun(saved, 1)'
    BY <2>2 DEF Begun
  <2>4. alone[t] => initFlag = Total(ram)
    BY <2>1 DEF Alone, Writing, Progress
  <2>5. alone[t] => Progress(t)'
    BY <2>1, <2>2, <2>3, <2>4 DEF Progress, Total, Upto
  <2>6. Whole'
    BY <2>3 DEF Whole
  <2>7. QED
    BY <1>4, <1>5, <1>7, <2>1, <2>5, <2>6 DEF Alone, Kept
<1>11. CASE Copy(t)
  <2>1. /\ pc[t] = "copy" /\ pc'[t] = "copy" /\ UNCHANGED <<ram, initFlag, saved>>
        /\ next[t] \in 1 .. 5 /\ next'[t] = next[t] + 1 /\ mixed' = (mixed \/ ~alone[t])
    BY <1>11 DEF Copy
  <2>2. PICK n \in 1 .. 5 : n = next[t]
    BY <2>1
  <2>3. PICK v \in Burnt(flash[Layout[n]], InRam(Layout[n])) :
             flash' = [flash EXCEPT ![Layout[n]] = v]
    BY <1>11, <2>2 DEF Copy
  <2>4. ASSUME alone[t]
        PROVE  /\ Begun(ram, n + 1)' /\ flash'["flag"] = initFlag
               /\ saved = ram /\ initFlag = Total(ram)
    <3>1. Begun(ram, n) /\ flash.flag = (IF 1 < n THEN initFlag ELSE FF) /\ saved = ram
          /\ initFlag = Total(ram)
      BY <2>1, <2>2, <2>4 DEF Alone, Writing, Progress
    <3>2. flash[Layout[n]] = FF
      BY <3>1 DEF Begun
    <3>3. InRam(Layout[n]) \in Byte
      BY LayoutFields DEF InRam, Fields
    <3>4. FF \cap InRam(Layout[n]) = InRam(Layout[n])
      BY <3>3 DEF Byte, FF
    <3>5. v = InRam(Layout[n])
      BY <2>3, <3>2, <3>4 DEF Burnt
    <3>6. \A k \in 1 .. 5 : flash'[Layout[k]] = IF k = n THEN v ELSE flash[Layout[k]]
      <4>1. \A k \in 1 .. 5 : Layout[k] \in DOMAIN flash
        BY LayoutFields
      <4>2. \A k \in 1 .. 5 : Layout[k] = Layout[n] => k = n
        BY DEF Layout
      <4>3. QED
        BY <2>3, <4>1, <4>2
    <3>7. ASSUME NEW k \in 2 .. 5
          PROVE  flash'[Layout[k]] = IF k < n + 1 THEN ram[Layout[k]] ELSE FF
      <4>1. Layout[k] # "flag"
        BY DEF Layout
      <4>2. QED
        BY <3>1, <3>5, <3>6, <4>1 DEF Begun, InRam
    <3>8. flash'["flag"] = initFlag
      BY <3>1, <3>5, <3>6 DEF InRam
    <3>9. Begun(ram, n + 1)'
      BY <2>1, <3>7 DEF Begun
    <3>10. QED
      BY <3>1, <3>8, <3>9
  <2>5. alone[t] => Progress(t)'
    BY <2>1, <2>2, <2>4 DEF Progress, Total, Upto, Begun
  <2>6. Whole'
    <3>1. CASE mixed \/ ~alone[t]
      BY <2>1, <3>1 DEF Whole
    <3>2. CASE alone[t]
      <4>1. Begun(saved, n + 1)'
        BY <2>1, <2>4, <3>2 DEF Begun
      <4>2. QED
        BY <4>1 DEF Whole
    <3>3. QED
      BY <3>1, <3>2
  <2>7. QED
    BY <1>4, <1>5, <1>7, <2>1, <2>5, <2>6 DEF Alone, Kept
<1>12. CASE Written(t)
  <2>1. /\ pc[t] = "copy" /\ pc'[t] = "idle" /\ next[t] = 6
        /\ UNCHANGED <<ram, initFlag, flash, saved, mixed>> /\ overlap' = ~alone[t]
    BY <1>12 DEF Written
  <2>2. alone[t] => Progress(t)'
    BY <2>1 DEF Progress
  <2>3. ASSUME alone[t], \A f \in Fields : ram[f] # FF
        PROVE  flash.flag = Checked(ram)
    <3>1. flash.flag = Total(ram)
      BY <2>1, <2>3 DEF Alone, Writing, Progress
    <3>2. QED
      BY <2>3, <3>1, TotalChecked
  <2>4. ASSUME alone[t] PROVE InFlash = ram
    <3>1. Begun(ram, 6)
      BY <2>1, <2>4 DEF Alone, Writing, Progress
    <3>2. QED
      BY <3>1, CopiedWhole
  <2>5. Kept'
    <3>1. InFlash' = InFlash /\ Checked(ram)' = Checked(ram) /\ flash'.flag = flash.flag
      BY <2>1 DEF InFlash
    <3>2. SUFFICES ASSUME ~overlap'
                   PROVE  InFlash' = ram' /\ ((\A f \in Fields : ram'[f] # FF)
                                               => flash'.flag = Checked(ram)')
      BY DEF Kept
    <3>3. alone[t]
      BY <2>1, <3>2
    <3>4. QED
      BY <2>1, <2>3, <2>4, <3>1, <3>3
  <2>6. Whole'
    BY <2>1 DEF Alone, Whole, Begun
  <2>7. QED
    BY <1>4, <1>5, <1>7, <2>2, <2>5, <2>6 DEF Alone
<1>13. QED
  BY <1>8, <1>9, <1>10, <1>11, <1>12 DEF Write

\* A command that begins is alone, or nobody is.
LEMMA AloneBegin ==
  ASSUME Typed, Alone, NEW t \in Threads, Begin(t),
         NEW x \in {"read", "list", "sum"}, pc' = [pc EXCEPT ![t] = x],
         x = "list" => UNCHANGED ram,
         x = "read" => t = AtThread,
         x # "read" => ram'.magic = ram.magic
  PROVE  Alone'
<1> DEFINE o == Other(t)
<1> USE DEF Typed, TypeOK, Begin
<1>1. /\ o \in Threads /\ o # t
      /\ \A u \in Threads : u = t \/ u = o
  BY TwoThreads
<1>2. \A u \in Threads : alone'[u] => u = t /\ pc[o] = "idle"
  BY <1>1
<1>3. Solo'
  BY <1>1, <1>2 DEF Solo
<1>4. Progress(t)'
  <2>1. next[t] = 1 /\ acc[t] = {}
    BY DEF Loops
  <2>2. QED
    BY <2>1 DEF Progress, Upto
<1>5. Writing'
  BY <1>2, <1>4 DEF Writing
<1>6. Kept'
  <2>1. CASE x # "list"
    BY <2>1 DEF Kept
  <2>2. CASE x = "list"
    BY <2>2 DEF Alone, Kept, InFlash
  <2>3. QED
    BY <2>1, <2>2
<1>7. Whole'
  BY DEF Alone, Whole, Begun
<1>8. Marked'
  BY ThreadsAssumption DEF Alone, Marked, Defaulting, Threads
<1>9. QED
  BY <1>3, <1>5, <1>6, <1>7, <1>8 DEF Alone

\* A command goes on to a step before its sum, or to the sum.
LEMMA AloneGoesOn ==
  ASSUME Typed, Alone, NEW t \in Threads, NEW x \in {"mark", "test", "fill", "sum", "listed"},
         pc[t] \in Defaulting \cup {"list", "listed"}, pc' = [pc EXCEPT ![t] = x],
         x = "sum" => next'[t] = 1 /\ acc'[t] = {},
         x = "test" => initFlag' = One,
         UNCHANGED <<flash, up, alone, saved, mixed>>,
         Marked'
  PROVE  Alone'
<1>1. /\ Other(t) \in Threads /\ Other(t) # t /\ Other(Other(t)) = t
      /\ \A u \in Threads : u = t \/ u = Other(t)
  BY TwoThreads
<1>2. alone[Other(t)] => pc[Other(t)] = "idle"
  BY <1>1 DEF Alone, Solo, Defaulting
<1>3. pc'[t] = x /\ pc'[Other(t)] = pc[Other(t)]
  BY <1>1 DEF Typed, TypeOK
<1>4. Solo'
  BY <1>1, <1>2, <1>3 DEF Alone, Solo, Defaulting
<1>5. Progress(t)'
  BY <1>3 DEF Progress, Upto
<1>6. Writing'
  <2>1. alone'[Other(t)] => Progress(Other(t))'
    BY <1>2, <1>3 DEF Progress
  <2>2. QED
    BY <1>1, <1>5, <2>1 DEF Writing
<1>7. Whole'
  BY DEF Alone, Whole, Begun
<1>8. Kept'
  BY <1>3 DEF Kept
<1>9. QED
  BY <1>4, <1>6, <1>7, <1>8 DEF Alone

\* A command ends without having written.
LEMMA AloneEnds ==
  ASSUME Typed, Alone, NEW t \in Threads,
         pc' = [pc EXCEPT ![t] = "idle"], pc[t] # "idle",
         UNCHANGED <<ram, initFlag, flash, next, acc, up, alone, saved, mixed>>,
         pc[t] = "list" \/ overlap' \/ dirty', overlap => overlap' \/ pc[t] # "list",
         dirty => dirty' \/ pc[t] # "list",
         Marked'
  PROVE  Alone'
<1>1. /\ Other(t) \in Threads /\ Other(t) # t /\ Other(Other(t)) = t
      /\ \A u \in Threads : u = t \/ u = Other(t)
  BY TwoThreads
<1>2. alone[Other(t)] => pc[Other(t)] = "idle"
  BY <1>1 DEF Alone, Solo
<1>3. pc'[t] = "idle" /\ pc'[Other(t)] = pc[Other(t)]
  BY <1>1 DEF Typed, TypeOK
<1>4. Solo'
  BY <1>1, <1>2, <1>3 DEF Solo
<1>5. Writing'
  <2>1. alone'[Other(t)] => Progress(Other(t))'
    BY <1>2, <1>3 DEF Progress
  <2>2. Progress(t)'
    BY <1>3 DEF Progress
  <2>3. QED
    BY <1>1, <2>1, <2>2 DEF Writing
<1>6. Whole'
  BY DEF Alone, Whole, Begun
<1>7. Kept'
  <2>1. CASE pc[t] = "list"
    BY <1>1, <1>3, <2>1 DEF Alone, Kept, InFlash
  <2>2. CASE overlap' \/ dirty'
    BY <2>2 DEF Kept
  <2>3. QED
    BY <2>1, <2>2
<1>8. QED
  BY <1>4, <1>5, <1>6, <1>7 DEF Alone

LEMMA AloneDefaults ==
  ASSUME Typed, Alone, SetDefaults
  PROVE  Alone'
<1>1. AtThread \in Threads /\ AtThread # Web
  BY ThreadsAssumption DEF Threads
<1>2. pc[AtThread] \notin {"sum", "fill", "copy"} => next[AtThread] = 1 /\ acc[AtThread] = {}
  BY <1>1 DEF Typed, Loops
<1>3. pc \in [Threads -> Steps] /\ next \in [Threads -> 1 .. 6]
  BY LayoutOrder DEF Typed, TypeOK
<1>4. CASE DefaultBegin
  BY <1>1, <1>4, AloneBegin DEF DefaultBegin
<1>5. CASE DefaultRead
  <2>1. Marked'
    BY <1>1, <1>3, <1>5 DEF DefaultRead, Marked, Defaulting
  <2>2. QED
    BY <1>1, <1>5, <2>1, AloneGoesOn DEF DefaultRead, hist, Defaulting
<1>6. CASE DefaultMark
  <2>1. Marked'
    BY <1>1, <1>3, <1>6 DEF DefaultMark, Marked, Defaulting
  <2>2. QED
    BY <1>1, <1>6, <2>1, AloneGoesOn DEF DefaultMark, hist, Defaulting
<1>7. CASE DefaultClear
  <2>1. Marked'
    BY <1>1, <1>2, <1>3, <1>7 DEF DefaultClear, Marked, Defaulting
  <2>2. QED
    BY <1>1, <1>7, <2>1, AloneGoesOn DEF DefaultClear, hist, Defaulting
<1>8. CASE DefaultSkip
  <2>1. ram.magic = Magic /\ initFlag = Forced
    BY <1>8 DEF DefaultSkip, Refused
  <2>2. ~alone[AtThread]
    BY <1>1, <1>8, <2>1, ValuesAssumption DEF DefaultSkip, Alone, Writing, Progress
  <2>3. Marked'
    BY <1>1, <1>3, <1>8, <2>1 DEF DefaultSkip, Marked
  <2>4. QED
    BY <1>1, <1>8, <2>2, <2>3, AloneEnds DEF DefaultSkip
<1>9. CASE DefaultFill
  <2>1. next[AtThread] \in 1 .. 4 /\ pc[AtThread] = "fill"
    BY <1>1, <1>3, <1>9, LayoutOrder DEF DefaultFill
  <2>2. ram' = [ram EXCEPT ![Order[next[AtThread]]] = Default[Order[next[AtThread]]]]
        /\ next'[AtThread] = next[AtThread] + 1
        /\ \A u \in Threads : u # AtThread => next'[u] = next[u]
    BY <1>1, <1>3, <1>9 DEF DefaultFill
  <2>3. next[AtThread] = 4 => ram'["magic"] = Magic
    <3>1. "magic" \in DOMAIN ram /\ Default["magic"] = Magic
      BY DEF Typed, TypeOK, Fields, Default
    <3>2. QED
      BY <2>2, <3>1, LayoutOrder
  <2>4. UNCHANGED <<initFlag, flash, pc, acc, up, alone, saved, mixed>>
    BY <1>9 DEF DefaultFill, hist
  <2>5. Marked'
    BY <2>1, <2>2, <2>3, <2>4 DEF Marked, Defaulting
  <2>6. Solo' /\ Whole'
    BY <2>4 DEF Alone, Solo, Whole, Begun
  <2>7. Kept'
    BY <1>1, <2>1, <2>4 DEF Kept
  <2>8. Writing'
    <3>1. alone[Web] => pc[Web] = "idle"
      BY <1>1, <2>1 DEF Alone, Solo, Other, Threads
    <3>2. (alone[Web] => Progress(Web)') /\ Progress(AtThread)'
      BY <2>1, <2>4, <3>1 DEF Progress
    <3>3. QED
      BY <2>4, <3>2 DEF Writing, Threads
  <2>9. QED
    BY <2>5, <2>6, <2>7, <2>8 DEF Alone
<1>10. CASE DefaultFilled
  <2>1. pc[AtThread] = "fill" /\ next[AtThread] = 5 /\ next'[AtThread] = 1 /\ acc'[AtThread] = {}
    BY <1>1, <1>3, <1>10, LayoutOrder DEF DefaultFilled, Typed, Loops
  <2>2. Marked'
    BY <1>1, <1>10, <2>1 DEF DefaultFilled, Alone, Marked
  <2>3. QED
    BY <1>1, <1>10, <2>1, <2>2, AloneGoesOn DEF DefaultFilled, hist, Defaulting
<1>11. QED
  BY <1>4, <1>5, <1>6, <1>7, <1>8, <1>9, <1>10 DEF SetDefaults

LEMMA AloneCommand ==
  ASSUME Typed, Alone, Command
  PROVE  Alone'
<1>1. AtThread \in Threads /\ Web \in Threads /\ AtThread # Web
  BY ThreadsAssumption DEF Threads
<1>2. ram \in [Fields -> Byte] /\ pc \in [Threads -> Steps]
  BY DEF Typed, TypeOK
<1>3. ASSUME NEW t \in Threads, NEW v \in Setting.name, SetName(t, v) PROVE Alone'
  <2>1. ram'.magic = ram.magic
    BY <1>2, <1>3 DEF SetName, Fields
  <2>2. QED
    BY <1>3, <2>1, AloneBegin DEF SetName
<1>4. CASE SetDefaults
  BY <1>4, AloneDefaults
<1>5. ASSUME NEW p \in Prots, NEW u \in Unis, SetProto(p, u) PROVE Alone'
  <2>1. ram'.magic = ram.magic
    BY <1>2, <1>5 DEF SetProto, Fields
  <2>2. QED
    BY <1>1, <1>5, <2>1, AloneBegin DEF SetProto
<1>6. ASSUME NEW u \in Unis, AutoUniverse(u) PROVE Alone'
  <2>1. ram'.magic = ram.magic
    BY <1>2, <1>6 DEF AutoUniverse, Fields
  <2>2. QED
    BY <1>1, <1>6, <2>1, AloneBegin DEF AutoUniverse
<1>7. CASE ListBegin
  BY <1>1, <1>7, AloneBegin DEF ListBegin
<1>8. ASSUME NEW x \in {"sum", "listed"}, pc[Web] \in {"list", "listed"},
             pc' = [pc EXCEPT ![Web] = x], ram'.magic = ram.magic,
             UNCHANGED <<initFlag, flash, next, acc, up, alone, saved, mixed>>
      PROVE  Alone'
  <2>1. next'[Web] = 1 /\ acc'[Web] = {}
    BY <1>1, <1>8 DEF Typed, Loops
  <2>2. Marked'
    BY <1>1, <1>2, <1>8 DEF Alone, Marked
  <2>3. QED
    BY <1>1, <1>8, <2>1, <2>2, AloneGoesOn
<1>9. ASSUME NEW f \in DOMAIN Setting, ListSet(f) PROVE Alone'
  <2>1. PICK v \in Setting[f] : ram' = [ram EXCEPT ![f] = v]
    BY <1>9 DEF ListSet
  <2>2. ram'.magic = ram.magic
    BY <1>2, <2>1, SettingTyped DEF Fields
  <2>3. QED
    BY <1>8, <1>9, <2>2 DEF ListSet, hist
<1>10. CASE ListSaved
  BY <1>8, <1>10 DEF ListSaved, hist
<1>11. CASE ListFailed
  <2>1. Marked'
    BY <1>1, <1>2, <1>11 DEF ListFailed, Alone, Marked
  <2>2. QED
    BY <1>1, <1>11, <2>1, AloneEnds DEF ListFailed
<1>12. QED
  BY <1>3, <1>4, <1>5, <1>6, <1>7, <1>9, <1>10, <1>11 DEF Command

\* What a start finds valid, where nobody mixed, is what was saved.
LEMMA ValidWasSaved ==
  ASSUME Typed, Whole, Valid, ~mixed
  PROVE  InFlash = saved
<1>1. PICK n \in 1 .. 6 : Begun(saved, n)
  BY DEF Whole
<1>2. flash[Layout[5]] # FF
  BY LayoutOrder, ValuesAssumption DEF Valid, Layout
<1>3. n = 6
  BY <1>1, <1>2 DEF Begun
<1>4. \A f \in Fields : flash[f] = saved[f]
  BY <1>1, <1>3, LayoutFields DEF Begun
<1>5. saved \in [Fields -> Byte]
  BY DEF Typed, TypeOK
<1>6. QED
  BY <1>4, <1>5, InFlashIs

LEMMA AloneNext == Typed /\ Alone /\ [Next]_vars => Alone'
<1> SUFFICES ASSUME Typed, Alone, [Next]_vars PROVE Alone'
  OBVIOUS
<1>1. CASE UNCHANGED vars
  <2>1. Solo' /\ Kept' /\ Marked' /\ Whole'
    BY <1>1 DEF vars, Alone, Solo, Kept, Marked, Whole, Begun, InFlash
  <2>2. Writing'
    BY <1>1 DEF vars, Alone, Writing, Progress, Begun
  <2>3. QED
    BY <2>1, <2>2 DEF Alone
<1>2. CASE Down
  <2>1. up' = FALSE /\ (\A t \in Threads : pc'[t] = "idle") /\ UNCHANGED <<flash, saved, mixed>>
    BY <1>2 DEF Down
  <2>2. Whole'
    BY <2>1 DEF Alone, Whole, Begun
  <2>3. QED
    BY <2>1, <2>2, TwoThreads DEF Alone, Solo, Writing, Progress, Kept, Marked
<1>3. CASE StartValid
  <2>1. /\ \A t \in Threads : pc'[t] = "idle"
        /\ flash' = flash /\ ram' = InFlash /\ flash.flag = Checked(InFlash)
        /\ flash.magic = Magic /\ UNCHANGED <<saved, mixed>>
    BY <1>3 DEF StartValid, Starting, Valid, hist
  <2>2. Kept'
    BY <2>1 DEF Kept, InFlash
  <2>3. Whole'
    BY <2>1 DEF Alone, Whole, Begun
  <2>4. Marked'
    <3>1. ram'.magic = Magic
      BY <2>1 DEF InFlash, Fields
    <3>2. QED
      BY <2>1, <3>1, ThreadsAssumption DEF Marked, Threads
  <2>5. QED
    BY <2>1, <2>2, <2>3, <2>4, TwoThreads DEF Alone, Solo, Writing, Progress
<1>4. CASE StartDefault
  <2>1. /\ pc' = [pc EXCEPT ![AtThread] = "sum"] /\ ~up' /\ \A t \in Threads : pc[t] = "idle"
        /\ UNCHANGED <<flash, saved, mixed, next, acc>>
    BY <1>4 DEF StartDefault, Starting, hist
  <2>2. \A t \in Threads : pc'[t] = IF t = AtThread THEN "sum" ELSE "idle"
    BY <2>1 DEF Typed, TypeOK
  <2>3. Solo'
    BY <2>2, ThreadsAssumption DEF Solo, Other, Threads
  <2>4. \A t \in Threads : next'[t] = 1 /\ acc'[t] = {}
    BY <2>1 DEF Typed, Loops
  <2>5. Writing'
    BY <2>2, <2>4 DEF Writing, Progress, Upto
  <2>6. Whole'
    BY <2>1 DEF Alone, Whole, Begun
  <2>7. QED
    BY <2>1, <2>3, <2>5, <2>6 DEF Alone, Kept, Marked
<1>5. QED
  BY <1>1, <1>2, <1>3, <1>4, AloneWrite, AloneCommand DEF Next

LEMMA SpecAlone == Spec => []Alone
  BY AloneInit, AloneNext, SpecTyped, PTL DEF Spec

-----------------------------------------------------------------------------
LEMMA StartStep ==
  Typed /\ Alone /\ [Next]_vars => (~up /\ up' /\ ~mixed => ram' \in {Default, saved})
<1> SUFFICES ASSUME Typed, Alone, [Next]_vars, ~up, up', ~mixed
             PROVE  ram' \in {Default, saved}
  OBVIOUS
<1> USE DEF Typed, TypeOK, Threads
<1>1. CASE UNCHANGED vars
  BY <1>1 DEF vars
<1>2. ASSUME NEW t \in Threads, Write(t) PROVE ram' \in {Default, saved}
  BY <1>2 DEF Write, SumByte, SumDone, Erase, Copy, Written, Booting
<1>3. CASE Command
  BY <1>3 DEF Command, SetName, SetDefaults, DefaultBegin, DefaultRead, DefaultMark, DefaultClear,
              DefaultSkip, DefaultFill, DefaultFilled, SetProto, AutoUniverse, ListBegin,
              ListSet, ListSaved, ListFailed, Begin
<1>4. CASE Down
  BY <1>4 DEF Down
<1>5. CASE StartValid
  BY <1>5, ValidWasSaved DEF StartValid, Alone
<1>6. CASE StartDefault
  BY <1>6 DEF StartDefault
<1>7. QED
  BY <1>1, <1>2, <1>3, <1>4, <1>5, <1>6 DEF Next

\* Wherever a loss of power cuts off a write, at any byte, web_flash_data_init
\* takes the defaults or all of the settings of the last writer, unless two
\* threads wrote to the page at one time.  The sum does not give this, it is one
\* byte and 0 for a page that is not whole; that magic is written last does.
THEOREM NeverAMixture == Spec => StartsWhole
  BY SpecTyped, SpecAlone, StartStep, PTL DEF Spec, StartsWhole

\* Once no command is under way, no command overlapped with another, no list of
\* settings failed half-way and no setting holds a byte 0xff, the page is right
\* and holds what is in ram, however often the power failed before and whatever
\* it cut off: a loss of power loses no setting that a command saved.
THEOREM RestartKeepsSettings == Spec => []RestartFindsSettings
<1>1. Typed /\ Alone => RestartFindsSettings
  <2> SUFFICES ASSUME Typed, Alone, AllIdle, ~overlap, ~dirty, \A f \in Fields : ram[f] # FF
               PROVE  Valid /\ InFlash = ram
    BY DEF RestartFindsSettings
  <2>1. InFlash = ram /\ flash.flag = Checked(ram)
    BY DEF AllIdle, Alone, Kept
  <2>2. ram.magic = Magic
    BY DEF AllIdle, Alone, Marked, Threads, Defaulting
  <2>3. flash.magic = Magic
    BY <2>1, <2>2 DEF InFlash, Fields
  <2>4. QED
    BY <2>1, <2>3 DEF Valid
<1>2. QED
  BY <1>1, SpecTyped, SpecAlone, PTL
=============================================================================
