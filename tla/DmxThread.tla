------------------------------ MODULE DmxThread ------------------------------
(***************************************************************************)
(* The DMX thread (src/user/e131.c, sACN_main): it reads the protocol once *)
(* when it starts, binds the port of that protocol, and from then on every *)
(* packet goes either to process_artnet_msg (ArtNetReceiver) or through    *)
(* the checks of sACN (SacnReceiver).                                      *)
(*                                                                         *)
(* The settings of Art-Net are of no consequence under sACN, nor is a      *)
(* lighting desk for sACN under Art-Net, whose port is another: the side   *)
(* that the protocol leaves out stays as it begins.                        *)
(***************************************************************************)
EXTENDS SacnReceiver, Sequences

CONSTANTS Slots, Universes, Values, Lengths, Texts, MaxSaves

ASSUME ArtNetAssumption ==
  /\ Slots \in Nat \ {0} /\ MaxSaves \in Nat
  /\ Universes \subseteq 0 .. 255 /\ Lengths \subseteq 1 .. Slots
  /\ Texts \subseteq [number : Int, atoi : 0 .. Slots]

VARIABLES
  protocol,     \* temp_buf[0] of sACN_main: "0" is Art-Net, "1" is sACN
  cfg, todo, saves, pc, frame, raw, gaffer_data, lower, uni, heard, torn, odd

ArtNet == INSTANCE ArtNetReceiver

artVars == <<cfg, todo, saves, pc, frame, raw, gaffer_data, lower, uni, heard, torn, odd>>
allVars == <<protocol, last_seq, shown, prev, newest, net, epoch, start, n, sent, others,
             cfg, todo, saves, pc, frame, raw, gaffer_data, lower, uni, heard, torn, odd>>

\* One of the settings, for the side that is left out.
SomeConfig ==
  LET u == CHOOSE x \in Universes : TRUE
      t == CHOOSE x \in Texts : ArtNet!Accepted(x, x) /\ ArtNet!Plain(x)
  IN  ArtNet!Config(u, u, 1, t, t)

DmxInit ==
  /\ Init /\ ArtNet!Init
  /\ protocol \in {"0", "1"}
  /\ protocol = "0" => start = CHOOSE s \in Starts : TRUE
  /\ protocol = "1" => cfg = SomeConfig /\ ~odd

\* e131_recv, and the test of temp_buf[0] == '0'.
SacnStep == protocol = "1" /\ Next /\ UNCHANGED <<protocol, artVars>>
ArtNetStep == protocol = "0" /\ ArtNet!Next /\ UNCHANGED <<protocol, vars>>

DmxNext == SacnStep \/ ArtNetStep

DmxSpec == DmxInit /\ [][DmxNext]_allVars

-----------------------------------------------------------------------------
(* Properties: those of the two sides. *)

\* Every variable holds a value its declaration in the code can hold.
DmxTypeOK == protocol \in {"0", "1"} /\ TypeOK /\ ArtNet!TypeOK

\* What goes to the SAMD under Art-Net: our universe, with the second
\* universe's channels inside the range and only there.
SignalsAreMixed == ArtNet!SignalsAreMixed

\* A range turned round is read only while settings are being saved, or of a
\* text that page and program read differently.
WildOnlyIfTornOrOdd == ArtNet!WildOnlyIfTornOrOdd
=============================================================================
