----------------------------- MODULE Membership -----------------------------
(***************************************************************************)
(* What the client table of src/user/UserMain.c promises: a bounded set of *)
(* leases.  A node that announces itself holds a lease of three aging      *)
(* rounds, renewed by every announcement; it is refused only when the      *)
(* table is full of other nodes.                                           *)
(***************************************************************************)
EXTENDS Integers, FiniteSets

CONSTANTS
  IPs,       \* addresses of the other nodes
  Capacity,  \* entries beside our own
  Rounds     \* AGE_COUNT

VARIABLE lease

Members == {ip \in IPs : lease[ip] > 0}

Init == lease = [ip \in IPs |-> 0]

Hear(ip) ==
  /\ ip \in Members \/ Cardinality(Members) < Capacity
  /\ lease' = [lease EXCEPT ![ip] = Rounds]

Age ==
  lease' = [ip \in IPs |-> IF lease[ip] > 0 THEN lease[ip] - 1 ELSE 0]

Next == Age \/ \E ip \in IPs : Hear(ip)

Spec == Init /\ [][Next]_lease
=============================================================================
