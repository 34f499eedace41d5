------------------------------ MODULE Settings ------------------------------
(***************************************************************************)
(* The settings g_web_config and their page of flash                       *)
(* (src/user/UserMain.c, write_data_to_flash, web_flash_data_init, the     *)
(* AT commands; src/websrc/cgi/cgi_v2/cgi_api.c, CGI_do_cmd).              *)
(*                                                                         *)
(* AT commands and the web server change the settings in RAM and write     *)
(* the whole structure; power may fail at any step.  The DMX thread reads  *)
(* protocol and sACN universe once, when the system starts, so a command   *)
(* that changes them has to reboot.                                        *)
(*                                                                         *)
(* The structure is one byte of the checksum and four bytes that stand for *)
(* all others: prot, suni, name for what takes effect at once, and magic,  *)
(* the last.  A byte is the set of its bits that are 1, so that an erased  *)
(* byte, 0xff, has all of them and exclusive-or is symmetric difference.   *)
(***************************************************************************)
EXTENDS Integers, Sequences

CONSTANTS
  AtThread, Web,       \* the threads that run AT commands and web commands
  Bits,                \* the bits of a byte
  ArtNet, SACN,        \* the bytes of the protocols
  Unis, Names,         \* bytes of sACN universes, of the other settings
  Magic, Forced,       \* the bytes of MAGIC0, MAGIC1; the sum that AT+DEFAULT sets, 0x55
  MaxOps, MaxBoots     \* bounds: commands per boot, boots

Byte == SUBSET Bits
FF   == Bits
One  == {0}

ASSUME ThreadsAssumption == AtThread # Web
ASSUME BoundsAssumption == MaxOps \in Nat /\ MaxBoots \in Nat
ASSUME BytesAssumption ==
  /\ 0 \in Bits
  /\ {ArtNet, SACN, Magic, Forced} \subseteq Byte
  /\ Unis \subseteq Byte /\ Names \subseteq Byte /\ Unis # {} /\ Names # {}
ASSUME ValuesAssumption == ArtNet # SACN /\ Magic # FF /\ Forced # One

VARIABLES
  ram, initFlag,       \* g_web_config, its checksum apart
  flash,               \* the page
  pc, after,           \* per thread: where it is, whether it reboots,
  next, acc,           \* the next byte of its loop, ck_sum
  up, rebooting,       \* the threads have been started; a reboot was ordered
  dmx,                 \* protocol and universe of the DMX thread
  ops, boots,
  alone,               \* history: per thread, nobody else ran a command since its own began
  overlap,             \* history: the last command to end had not been alone
  dirty,               \* history: a request failed after it had changed ram
  defaulted,           \* history: AT+DEFAULT since the start
  saved,               \* history: ram, when the page was last erased by one that was alone
  mixed                \* history: the page was since changed by one that was not

Threads == {AtThread, Web}
Prots   == {ArtNet, SACN}
Fields  == {"prot", "suni", "name", "magic"}

\* What the commands may set, and what they set it to.
Setting == [prot |-> Prots, suni |-> Unis, name |-> Names \cup {FF}]

\* The order in which the structure lies in ram and in flash.
Order   == <<"name", "suni", "prot", "magic">>
Layout  == <<"flag", "name", "suni", "prot", "magic">>
Zeroed  == [f \in Fields |-> {}]
Default == [prot |-> ArtNet, suni |-> CHOOSE x \in Unis : TRUE, name |-> CHOOSE x \in Names : TRUE,
            magic |-> Magic]
Blank   == [f \in Fields \cup {"flag"} |-> FF]

hist == <<alone, overlap, dirty, defaulted, saved, mixed>>
vars == <<ram, initFlag, flash, pc, after, next, acc, up, rebooting, dmx, ops, boots,
          alone, overlap, dirty, defaulted, saved, mixed>>

Init ==
  /\ ram = Zeroed /\ initFlag = {}
  /\ flash = Blank
  /\ pc = [t \in Threads |-> "idle"]
  /\ after = [t \in Threads |-> "stay"]
  /\ next = [t \in Threads |-> 1]
  /\ acc = [t \in Threads |-> {}]
  /\ up = FALSE /\ rebooting = FALSE
  /\ dmx = [prot |-> {}, suni |-> {}]
  /\ ops = 0 /\ boots = 0
  /\ alone = [t \in Threads |-> TRUE]
  /\ overlap = FALSE /\ dirty = FALSE /\ defaulted = FALSE
  /\ saved = Default /\ mixed = FALSE

-----------------------------------------------------------------------------
(* write_data_to_flash *)

Xor(a, b) == (a \ b) \cup (b \ a)

\* The sum skips a byte 0xff.
Summand(b) == IF b = FF THEN {} ELSE b

\* One byte more is added to the sum; the other thread may change ram meanwhile.
SumByte(t) ==
  /\ pc[t] = "sum"
  /\ next[t] <= Len(Order)
  /\ acc' = [acc EXCEPT ![t] = Xor(@, Summand(ram[Order[next[t]]]))]
  /\ next' = [next EXCEPT ![t] = @ + 1]
  /\ UNCHANGED <<ram, initFlag, flash, pc, after, up, rebooting, dmx, ops, boots, hist>>

SumDone(t) ==
  /\ pc[t] = "sum"
  /\ next[t] = Len(Order) + 1
  /\ initFlag' = acc[t]
  /\ acc' = [acc EXCEPT ![t] = {}]
  /\ next' = [next EXCEPT ![t] = 1]
  /\ pc' = [pc EXCEPT ![t] = "erase"]
  /\ UNCHANGED <<ram, flash, after, up, rebooting, dmx, ops, boots, hist>>

Erase(t) ==
  /\ pc[t] = "erase"
  /\ flash' = Blank
  /\ pc' = [pc EXCEPT ![t] = "copy"]
  /\ saved' = IF alone[t] THEN ram ELSE saved
  /\ mixed' = ~alone[t]
  /\ UNCHANGED <<ram, initFlag, after, next, acc, up, rebooting, dmx, ops, boots, alone, overlap,
                 dirty, defaulted>>

\* The settings as they are in flash.
InFlash == [f \in Fields |-> flash[f]]

InRam(f) == IF f = "flag" THEN initFlag ELSE ram[f]

\* What the page may hold after v was written to a byte that holds w: without
\* an erasure a bit only goes from 1 to 0.
Burnt(w, v) == {v, w \cap v}

Copy(t) ==
  /\ pc[t] = "copy"
  /\ next[t] <= Len(Layout)
  /\ LET f == Layout[next[t]] IN
       \E v \in Burnt(flash[f], InRam(f)) : flash' = [flash EXCEPT ![f] = v]
  /\ next' = [next EXCEPT ![t] = @ + 1]
  /\ mixed' = (mixed \/ ~alone[t])
  /\ UNCHANGED <<ram, initFlag, pc, after, acc, up, rebooting, dmx, ops, boots, alone, overlap,
                 dirty, defaulted, saved>>

Reboots(t) ==
  after[t] = "reboot" \/ (after[t] = "ifSacn" /\ ram.prot = SACN)

\* The structure is written.  The command reboots if it has to; at start-up,
\* where the defaults are written, the threads are started.
Written(t) ==
  /\ pc[t] = "copy"
  /\ next[t] = Len(Layout) + 1
  /\ pc' = [pc EXCEPT ![t] = "idle"]
  /\ next' = [next EXCEPT ![t] = 1]
  /\ rebooting' = (rebooting \/ Reboots(t))
  /\ up' = TRUE
  /\ dmx' = IF up THEN dmx ELSE [prot |-> ram.prot, suni |-> ram.suni]
  /\ overlap' = ~alone[t]
  /\ dirty' = FALSE
  /\ UNCHANGED <<ram, initFlag, flash, after, acc, ops, boots, alone, defaulted, saved, mixed>>

Write(t) == SumByte(t) \/ SumDone(t) \/ Erase(t) \/ Copy(t) \/ Written(t)

-----------------------------------------------------------------------------
(* Commands.  Each changes ram and goes on to write it. *)

\* Faulty variant: a command is taken before the settings are there.
Begin_Early(t) ==
  /\ pc[t] = "idle"
  /\ ops < MaxOps
  /\ ops' = ops + 1
  /\ alone' = [u \in Threads |-> u = t /\ \A v \in Threads : pc[v] = "idle"]
  /\ UNCHANGED <<flash, next, acc, up, rebooting, dmx, boots, overlap, dirty, saved, mixed>>

Begin(t) ==
  /\ up
  /\ pc[t] = "idle"
  /\ ops < MaxOps
  /\ ops' = ops + 1
  /\ alone' = [u \in Threads |-> u = t /\ \A v \in Threads : pc[v] = "idle"]
  /\ UNCHANGED <<flash, next, acc, up, rebooting, dmx, boots, overlap, dirty, saved, mixed>>

\* Faulty variant: the AT command does not save.
SetName_NotSaved(t, v) ==
  /\ Begin(t)
  /\ ram' = [ram EXCEPT !.name = v]
  /\ UNCHANGED <<initFlag, pc, after, defaulted>>

\* AT+NODENAME, AT+UNIVERSE, ...; SET_UNIVERSE, RENAME_AKS, SET_SORT, ...
SetName(t, v) ==
  /\ Begin(t)
  /\ ram' = [ram EXCEPT !.name = v]
  /\ pc' = [pc EXCEPT ![t] = "sum"]
  /\ after' = [after EXCEPT ![t] = "stay"]
  /\ UNCHANGED <<initFlag, defaulted>>

\* AT+DEFAULT, web_flash_data_init(1), statement by statement.
DefaultBegin ==
  /\ Begin(AtThread)
  /\ ram' = Zeroed /\ initFlag' = {}
  /\ pc' = [pc EXCEPT ![AtThread] = "read"]
  /\ after' = [after EXCEPT ![AtThread] = "stay"]
  /\ defaulted' = TRUE

DefaultRead ==
  /\ pc[AtThread] = "read"
  /\ ram' = InFlash /\ initFlag' = flash.flag
  /\ pc' = [pc EXCEPT ![AtThread] = "mark"]
  /\ UNCHANGED <<flash, after, next, acc, up, rebooting, dmx, ops, boots, hist>>

DefaultMark ==
  /\ pc[AtThread] = "mark"
  /\ initFlag' = One
  /\ pc' = [pc EXCEPT ![AtThread] = "test"]
  /\ UNCHANGED <<ram, flash, after, next, acc, up, rebooting, dmx, ops, boots, hist>>

Refused == initFlag # Forced \/ ram.magic # Magic

DefaultClear ==
  /\ pc[AtThread] = "test" /\ Refused
  /\ ram' = Zeroed /\ initFlag' = {}
  /\ pc' = [pc EXCEPT ![AtThread] = "fill"]
  /\ UNCHANGED <<flash, after, next, acc, up, rebooting, dmx, ops, boots, hist>>

\* The web server has put a sum of its own into initFlag, and it is 0x55: the
\* command ends here and sets nothing.
DefaultSkip ==
  /\ pc[AtThread] = "test" /\ ~Refused
  /\ pc' = [pc EXCEPT ![AtThread] = "idle"]
  /\ overlap' = ~alone[AtThread]
  /\ UNCHANGED <<ram, initFlag, flash, after, next, acc, up, rebooting, dmx, ops, boots, alone,
                 dirty, defaulted, saved, mixed>>

DefaultFill ==
  /\ pc[AtThread] = "fill"
  /\ next[AtThread] <= Len(Order)
  /\ LET f == Order[next[AtThread]] IN ram' = [ram EXCEPT ![f] = Default[f]]
  /\ next' = [next EXCEPT ![AtThread] = @ + 1]
  /\ UNCHANGED <<initFlag, flash, pc, after, acc, up, rebooting, dmx, ops, boots, hist>>

DefaultFilled ==
  /\ pc[AtThread] = "fill"
  /\ next[AtThread] = Len(Order) + 1
  /\ next' = [next EXCEPT ![AtThread] = 1]
  /\ pc' = [pc EXCEPT ![AtThread] = "sum"]
  /\ UNCHANGED <<ram, initFlag, flash, after, acc, up, rebooting, dmx, ops, boots, hist>>

SetDefaults ==
  \/ DefaultBegin \/ DefaultRead \/ DefaultMark
  \/ DefaultClear \/ DefaultSkip \/ DefaultFill \/ DefaultFilled

\* Faulty variant: only a new protocol reboots.
SetProto_ProtOnly(p, u) ==
  /\ Begin(Web)
  /\ ram' = [ram EXCEPT !.prot = p, !.suni = u]
  /\ after' = [after EXCEPT ![Web] = IF ram.prot # p THEN "reboot" ELSE "stay"]
  /\ pc' = [pc EXCEPT ![Web] = "sum"]
  /\ UNCHANGED <<initFlag, defaulted>>

\* SET_PROTO_UNIVERSE: reboot if the DMX thread would do otherwise.
SetProto(p, u) ==
  /\ Begin(Web)
  /\ ram' = [ram EXCEPT !.prot = p, !.suni = u]
  /\ after' = [after EXCEPT ![Web] =
       IF ram.prot # p \/ (ram.prot = SACN /\ ram.suni # u) THEN "reboot" ELSE "stay"]
  /\ pc' = [pc EXCEPT ![Web] = "sum"]
  /\ UNCHANGED <<initFlag, defaulted>>

\* AUTO_SACN_UNIV: whether it reboots is decided when the settings are written.
AutoUniverse(u) ==
  /\ Begin(Web)
  /\ ram' = [ram EXCEPT !.suni = u]
  /\ after' = [after EXCEPT ![Web] = "ifSacn"]
  /\ pc' = [pc EXCEPT ![Web] = "sum"]
  /\ UNCHANGED <<initFlag, defaulted>>

\* A page of SETn parameters: each is put into ram at once.
ListBegin ==
  /\ Begin(Web)
  /\ after' = [after EXCEPT ![Web] = "stay"]
  /\ pc' = [pc EXCEPT ![Web] = "list"]
  /\ UNCHANGED <<ram, initFlag, defaulted>>

ListSet(f) ==
  /\ pc[Web] \in {"list", "listed"}
  /\ \E v \in Setting[f] : ram' = [ram EXCEPT ![f] = v]
  /\ after' = [after EXCEPT ![Web] = IF f \in {"prot", "suni"} THEN "reboot" ELSE @]
  /\ pc' = [pc EXCEPT ![Web] = "listed"]
  /\ UNCHANGED <<initFlag, flash, next, acc, up, rebooting, dmx, ops, boots, hist>>

ListSaved ==
  /\ pc[Web] = "listed"
  /\ pc' = [pc EXCEPT ![Web] = "sum"]
  /\ UNCHANGED <<ram, initFlag, flash, after, next, acc, up, rebooting, dmx, ops, boots, hist>>

\* The last parameter is in error: nothing is saved, but the reboot is ordered.
ListFailed ==
  /\ pc[Web] \in {"list", "listed"}
  /\ pc' = [pc EXCEPT ![Web] = "idle"]
  /\ rebooting' = (rebooting \/ Reboots(Web))
  /\ dirty' = (dirty \/ pc[Web] = "listed")
  /\ UNCHANGED <<ram, initFlag, flash, after, next, acc, up, dmx, ops, boots, alone, overlap,
                 defaulted, saved, mixed>>

Command ==
  \/ \E t \in Threads, v \in Setting.name : SetName(t, v)
  \/ SetDefaults
  \/ \E p \in Prots, u \in Unis : SetProto(p, u)
  \/ \E u \in Unis : AutoUniverse(u)
  \/ ListBegin \/ (\E f \in DOMAIN Setting : ListSet(f)) \/ ListSaved \/ ListFailed

-----------------------------------------------------------------------------
(* Power, reboot and start-up. *)

\* The power fails, or the monitor carries out the reboot.
Down ==
  /\ boots < MaxBoots
  /\ boots' = boots + 1
  /\ up' = FALSE /\ rebooting' = FALSE
  /\ ram' = Zeroed /\ initFlag' = {}
  /\ dmx' = [prot |-> {}, suni |-> {}]
  /\ pc' = [t \in Threads |-> "idle"]
  /\ after' = [t \in Threads |-> "stay"]
  /\ next' = [t \in Threads |-> 1]
  /\ acc' = [t \in Threads |-> {}]
  /\ ops' = 0
  /\ alone' = [t \in Threads |-> TRUE]
  /\ overlap' = FALSE /\ dirty' = FALSE /\ defaulted' = FALSE
  /\ UNCHANGED <<flash, saved, mixed>>

\* The sum of what was read: a byte 0xff makes it 0.
Checked(c) ==
  IF \E f \in Fields : c[f] = FF THEN {}
  ELSE Xor(Xor(Xor(c.name, c.suni), c.prot), c.magic)

\* Faulty variant: the magic bytes are not looked at.
Valid_NoMagic == flash.flag = Checked(InFlash)

\* web_flash_data_init(0) accepts the page.
Valid == flash.flag = Checked(InFlash) /\ flash.magic = Magic

Starting == ~up /\ \A t \in Threads : pc[t] = "idle"

StartValid ==
  /\ Starting
  /\ Valid
  /\ ram' = InFlash /\ initFlag' = flash.flag
  /\ up' = TRUE
  /\ dmx' = [prot |-> InFlash.prot, suni |-> InFlash.suni]
  /\ UNCHANGED <<flash, pc, after, next, acc, rebooting, ops, boots, hist>>

\* Otherwise the defaults are taken, and written by the thread that starts up.
StartDefault ==
  /\ Starting
  /\ ~Valid
  /\ ram' = Default /\ initFlag' = {}
  /\ pc' = [pc EXCEPT ![AtThread] = "sum"]
  /\ UNCHANGED <<flash, after, next, acc, up, rebooting, dmx, ops, boots, hist>>

Next ==
  \/ \E t \in Threads : Write(t)
  \/ Command \/ Down \/ StartValid \/ StartDefault

Spec == Init /\ [][Next]_vars

-----------------------------------------------------------------------------
(* Properties. *)

Steps == {"idle", "read", "mark", "test", "fill", "list", "listed", "sum", "erase", "copy"}

\* Every variable holds a value its declaration in the code can hold, and until
\* the settings are there only the thread that starts up runs, to write them.
TypeOK ==
  /\ ram \in [Fields -> Byte] /\ saved \in [Fields -> Byte]
  /\ flash \in [Fields \cup {"flag"} -> Byte]
  /\ initFlag \in Byte
  /\ pc \in [Threads -> Steps]
  /\ ~up => pc[Web] = "idle" /\ pc[AtThread] \in {"idle", "sum", "erase", "copy"}
  /\ after \in [Threads -> {"stay", "reboot", "ifSacn"}]
  /\ next \in [Threads -> 1 .. Len(Layout) + 1]
  /\ acc \in [Threads -> Byte]
  /\ up \in BOOLEAN /\ rebooting \in BOOLEAN
  /\ dmx \in [prot : Byte, suni : Byte]
  /\ ops \in 0 .. MaxOps /\ boots \in 0 .. MaxBoots

AllIdle == up /\ \A t \in Threads : pc[t] = "idle"

\* Once the commands are done a restart would find the settings as they are,
\* whenever the power failed before.  Three cases are excepted: commands that
\* overlapped, a request that failed half-way, and a setting with a byte 0xff.
RestartFindsSettings ==
  AllIdle /\ ~overlap /\ ~dirty /\ (\A f \in Fields : ram[f] # FF) => Valid /\ InFlash = ram

\* The DMX thread works with the protocol and the universe that are set, or a
\* reboot is under way that will make it so; AT+DEFAULT is the exception.
ReceiverFollows ==
  AllIdle /\ ~rebooting /\ ~defaulted =>
    /\ dmx.prot = ram.prot
    /\ dmx.prot = SACN => dmx.suni = ram.suni

\* At whatever byte a write was cut off, a start takes the defaults or the
\* settings that the last writer had, never a mixture or a part: the sum, one
\* byte and 0 for a page with 0xff, would not tell; the magic bytes, which are
\* written last, do.  Excepted are pages that two threads wrote to at one time.
StartsWhole ==
  [][~up /\ up' /\ ~mixed => ram' \in {Default, saved}]_vars
=============================================================================
