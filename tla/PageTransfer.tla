---------------------------- MODULE PageTransfer ----------------------------
(***************************************************************************)
(* What a firmware download promises (SAMD_firmware_download in            *)
(* src/user/UserMain.c): the SAMD receives the pages of the image in their *)
(* order, none left out; a page may come again before the next one; and    *)
(* success is reported for a whole image only.                             *)
(***************************************************************************)
EXTENDS Integers, Sequences

CONSTANT Pages      \* number of pages of the image

VARIABLES received, outcome

Init == received = <<>> /\ outcome = "none"

Begin ==
  /\ outcome # "open"
  /\ received' = <<>>
  /\ outcome' = "open"

LastReceived == IF received = <<>> THEN 0 ELSE received[Len(received)]

Accept ==
  /\ outcome = "open"
  /\ \E p \in 1 .. Pages :
       /\ p \in {LastReceived, LastReceived + 1}
       /\ received' = Append(received, p)
  /\ UNCHANGED outcome

Succeed ==
  /\ outcome = "open"
  /\ LastReceived = Pages
  /\ outcome' = "done"
  /\ UNCHANGED received

Fail ==
  /\ outcome = "open"
  /\ outcome' = "failed"
  /\ UNCHANGED received

Next == Begin \/ Accept \/ Succeed \/ Fail

Spec == Init /\ [][Next]_<<received, outcome>>
=============================================================================
