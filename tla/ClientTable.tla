---------------------------- MODULE ClientTable ----------------------------
(***************************************************************************)
(* The table of the nodes in the constellation (src/user/UserMain.c,       *)
(* server_thread_main, populate_new_client, age_client_list).              *)
(*                                                                         *)
(* The server thread waits in select for announcements on UDP port 10000.  *)
(* client_list has a slot per node, with an age; client_valid_list is the  *)
(* dense list that the web page shows, rebuilt from the slots whenever the *)
(* table changes.  The rebuilding is modelled slot by slot, because the    *)
(* web server reads the list and its length meanwhile.                     *)
(*                                                                         *)
(* Time runs in units of which Period make up the 200 ticks of the aging   *)
(* test and the two seconds of the select; it passes while the thread      *)
(* waits.                                                                  *)
(***************************************************************************)
EXTENDS Integers, FiniteSets

CONSTANTS
  IPs,        \* addresses from which announcements come
  NoIP,       \* 0.0.0.0, our address before the main loop knows it
  BootIP,     \* 10.10.100.254, the address that the code writes into slot 0
  Infos,      \* contents of an announcement
  NoInfo,     \* contents of a slot that was never filled
  MaxEntry,   \* MAX_NUM_ENTRY
  Period,     \* 200 ticks, in units of time
  MaxQuiet    \* bound: the history variable quiet stops counting here

AGE_COUNT == 3

ASSUME NamesAssumption == NoIP \notin IPs /\ NoInfo \notin Infos
ASSUME SizesAssumption ==
  MaxEntry \in Nat \ {0} /\ Period \in Nat \ {0} /\ MaxQuiet \in Nat

VARIABLES
  client_list, client_valid_list, client_valid_num,
  ipAddress,            \* our own address, published by the main loop
  pc, i, new,           \* the server thread; new is the argument of age_client_list
  msg,                  \* what select returned: a datagram or None
  since,                \* time since cur_tick
  waited,               \* time since select was called
  quiet                 \* history: time since a node was last heard

table  == <<client_list, client_valid_list, client_valid_num>>
clock  == <<since, waited, quiet>>
vars   == <<client_list, client_valid_list, client_valid_num, ipAddress, pc, i,
            new, msg, since, waited, quiet>>

Index  == 0 .. MaxEntry - 1
Peers  == 1 .. MaxEntry - 1
None   == [ip |-> NoIP, info |-> NoInfo]
Datagrams == [ip : IPs, info : Infos]
Empty  == [ip |-> NoIP, info |-> NoInfo, age |-> 0]
Labels == {"select", "self", "start", "slot", "handle"}

\* server_thread_main before its loop; it goes on with age_client_list(1).
\* Slot 0 gets an address that is ours only if we are an access point, and keeps
\* it.
Init ==
  /\ client_list = [k \in Index |-> IF k = 0 THEN [Empty EXCEPT !.ip = BootIP] ELSE Empty]
  /\ client_valid_list = [k \in Index |-> None]
  /\ client_valid_num = 0
  /\ ipAddress \in IPs \cup {NoIP}
  /\ pc = "self" /\ i = 1 /\ new = 1
  /\ msg = None
  /\ since = 0 /\ waited = 0
  /\ quiet = [ip \in IPs |-> MaxQuiet]

-----------------------------------------------------------------------------
(* select and the aging timer *)

CountTo(x, bound) == IF x < bound THEN x + 1 ELSE bound

\* Time passes while the thread waits, at most two seconds per select.
Tick ==
  /\ pc = "select"
  /\ waited < Period
  /\ waited' = waited + 1
  /\ since' = CountTo(since, 2 * Period)
  /\ quiet' = [ip \in IPs |-> CountTo(quiet[ip], MaxQuiet)]
  /\ UNCHANGED <<table, ipAddress, pc, i, new, msg>>

\* Faulty variant: the test of the timer is strict.
Wake_Strict(m) ==
  /\ pc = "select"
  /\ msg' = m
  /\ IF since > Period
     THEN pc' = "self" /\ new' = 0
     ELSE pc' = "handle" /\ UNCHANGED new
  /\ UNCHANGED <<table, ipAddress, i, clock>>

\* select returns; if 200 ticks have passed since cur_tick, age the table.
Wake(m) ==
  /\ pc = "select"
  /\ msg' = m
  /\ IF since >= Period
     THEN pc' = "self" /\ new' = 0
     ELSE pc' = "handle" /\ UNCHANGED new
  /\ UNCHANGED <<table, ipAddress, i, clock>>

Timeout == waited = Period /\ Wake(None)
Receive == \E d \in Datagrams : Wake(d)

-----------------------------------------------------------------------------
(* age_client_list(new) *)

\* Our own entry comes first, with the address of slot 0: until the next step a
\* node other than 10.10.100.254 is shown with that address.
AgeSelf ==
  /\ pc = "self"
  /\ client_list' = [client_list EXCEPT ![0].age = AGE_COUNT]
  /\ client_valid_list' = [client_valid_list EXCEPT
       ![0] = [ip |-> client_list[0].ip, info |-> client_list[0].info]]
  /\ pc' = "start"
  /\ UNCHANGED <<client_valid_num, ipAddress, i, new, msg, clock>>

\* Faulty variant: the list is not emptied first.
AgeStart_Appends ==
  /\ pc = "start"
  /\ client_valid_list' = [client_valid_list EXCEPT ![0].ip = ipAddress]
  /\ i' = 1
  /\ pc' = "slot"
  /\ UNCHANGED <<client_list, client_valid_num, ipAddress, new, msg, clock>>

\* The right address; the list shrinks to our own entry.
AgeStart ==
  /\ pc = "start"
  /\ client_valid_list' = [client_valid_list EXCEPT ![0].ip = ipAddress]
  /\ client_valid_num' = 1
  /\ i' = 1
  /\ pc' = "slot"
  /\ UNCHANGED <<client_list, ipAddress, new, msg, clock>>

\* Faulty variants: an empty slot is aged; every call ages.
AgeOf_Empty(k) == IF new = 0 THEN client_list[k].age - 1 ELSE client_list[k].age

AgeOf_Always(k) ==
  IF client_list[k].age > 0 THEN client_list[k].age - 1 ELSE client_list[k].age

\* The age of slot k after its turn.
AgeOf(k) ==
  IF new = 0 /\ client_list[k].age > 0 THEN client_list[k].age - 1
  ELSE client_list[k].age

\* Faulty variant: an aged slot is listed once more.
AgeSlot_Keeps ==
  /\ pc = "slot"
  /\ i < MaxEntry
  /\ client_list' = [client_list EXCEPT ![i].age = AgeOf(i)]
  /\ IF client_list[i].age > 0
     THEN /\ client_valid_list' = [client_valid_list EXCEPT ![client_valid_num] =
               [ip |-> client_list[i].ip, info |-> client_list[i].info]]
          /\ client_valid_num' = client_valid_num + 1
     ELSE UNCHANGED <<client_valid_list, client_valid_num>>
  /\ i' = i + 1
  /\ UNCHANGED <<ipAddress, pc, new, msg, clock>>

\* One slot: age it unless the call only adds a node, and list it if it lives
\* (save_valid_client_entry).
AgeSlot ==
  /\ pc = "slot"
  /\ i < MaxEntry
  /\ client_list' = [client_list EXCEPT ![i].age = AgeOf(i)]
  /\ IF AgeOf(i) > 0
     THEN /\ client_valid_list' = [client_valid_list EXCEPT ![client_valid_num] =
               [ip |-> client_list[i].ip, info |-> client_list[i].info]]
          /\ client_valid_num' = client_valid_num + 1
     ELSE UNCHANGED <<client_valid_list, client_valid_num>>
  /\ i' = i + 1
  /\ UNCHANGED <<ipAddress, pc, new, msg, clock>>

\* Faulty variant: the timer is not restarted.
AgeEnd_KeepsTimer ==
  /\ pc = "slot"
  /\ i = MaxEntry
  /\ IF new = 0
     THEN pc' = "handle" /\ UNCHANGED waited
     ELSE pc' = "select" /\ waited' = 0
  /\ UNCHANGED <<table, ipAddress, i, new, msg, since, quiet>>

\* Back to the caller: the aging test restarts the timer and goes on with what
\* select returned, populate_new_client goes back to select.
AgeEnd ==
  /\ pc = "slot"
  /\ i = MaxEntry
  /\ IF new = 0
     THEN pc' = "handle" /\ since' = 0 /\ UNCHANGED waited
     ELSE pc' = "select" /\ waited' = 0 /\ UNCHANGED since
  /\ UNCHANGED <<table, ipAddress, i, new, msg, quiet>>

-----------------------------------------------------------------------------
(* What select returned: nothing, or an announcement. *)

NoData ==
  /\ pc = "handle"
  /\ msg = None
  /\ since' = 0 /\ waited' = 0
  /\ pc' = "select"
  /\ UNCHANGED <<table, ipAddress, i, new, msg, quiet>>

Live(k) == client_list[k].age > 0
Holds(k, ip) == Live(k) /\ client_list[k].ip = ip

\* populate_new_client up to the loops: my_ip_address() refreshes entry 0.
Populate ==
  /\ pc = "handle"
  /\ msg # None
  /\ client_valid_list' = [client_valid_list EXCEPT ![0].ip = ipAddress]
  /\ UNCHANGED <<client_valid_num, ipAddress, i, msg, since>>

BackToSelect ==
  pc' = "select" /\ waited' = 0 /\ UNCHANGED <<client_list, new, quiet>>

\* Our own announcement is ignored.
OwnEcho == Populate /\ msg.ip = ipAddress /\ BackToSelect

\* Slot k now describes the sender, for three rounds; rebuild the list.
Fill(k) ==
  /\ client_list' = [client_list EXCEPT
       ![k] = [ip |-> msg.ip, info |-> msg.info, age |-> AGE_COUNT]]
  /\ quiet' = [quiet EXCEPT ![msg.ip] = 0]
  /\ pc' = "self" /\ new' = 1
  /\ UNCHANGED waited

\* The loops stop at the first slot that fits.
FirstHolding(k, ip) == Holds(k, ip) /\ \A j \in Peers : j < k => ~Holds(j, ip)
FirstFree(k) == ~Live(k) /\ \A j \in Peers : j < k => Live(j)

\* A known node: its slot is refreshed.
Refresh ==
  /\ Populate
  /\ msg.ip # ipAddress
  /\ \E k \in Peers : FirstHolding(k, msg.ip) /\ Fill(k)

\* Faulty variant: the first loop is left out.
AddNode_Unsearched ==
  /\ Populate
  /\ msg.ip # ipAddress
  /\ \E k \in Peers : FirstFree(k) /\ Fill(k)

\* A new node takes the first free slot.
AddNode ==
  /\ Populate
  /\ msg.ip # ipAddress
  /\ ~ \E k \in Peers : Holds(k, msg.ip)
  /\ \E k \in Peers : FirstFree(k) /\ Fill(k)

\* No slot is free: the announcement is dropped.
TableFull ==
  /\ Populate
  /\ msg.ip # ipAddress
  /\ \A k \in Peers : Live(k) /\ client_list[k].ip # msg.ip
  /\ BackToSelect

-----------------------------------------------------------------------------
\* The main loop learns another address.  It writes it byte by byte, so any
\* address may be seen in between, also that of another node.
NewAddress ==
  /\ ipAddress' \in IPs \cup {NoIP}
  /\ UNCHANGED <<table, pc, i, new, msg, clock>>

ServerStep ==
  \/ Timeout \/ AgeSelf \/ AgeStart \/ AgeSlot \/ AgeEnd
  \/ NoData \/ OwnEcho \/ Refresh \/ AddNode \/ TableFull

Next == Tick \/ Receive \/ ServerStep \/ NewAddress

Spec == Init /\ [][Next]_vars

\* Time passes, however many announcements come in, and the thread runs.
FairSpec == Spec /\ SF_vars(Tick) /\ WF_vars(ServerStep)

-----------------------------------------------------------------------------
(* Properties. *)

\* Every variable holds a value its declaration in the code can hold.
TypeOK ==
  /\ client_list \in
       [Index -> [ip : IPs \cup {NoIP, BootIP}, info : Infos \cup {NoInfo}, age : 0 .. AGE_COUNT]]
  /\ client_valid_list \in [Index -> [ip : IPs \cup {NoIP, BootIP}, info : Infos \cup {NoInfo}]]
  /\ client_valid_num \in 0 .. MaxEntry
  /\ ipAddress \in IPs \cup {NoIP}
  /\ pc \in Labels
  /\ i \in 1 .. MaxEntry
  /\ new \in {0, 1}
  /\ msg \in Datagrams \cup {None}
  /\ since \in 0 .. 2 * Period
  /\ waited \in 0 .. Period
  /\ quiet \in [IPs -> 0 .. MaxQuiet]

\* populate_new_client never gives one node two slots.
OneSlotPerNode ==
  \A j, k \in Peers : Live(j) /\ Live(k) /\ client_list[j].ip = client_list[k].ip => j = k

\* The rebuilt list never runs ahead of the slots it is built from: it stays
\* within client_valid_list although save_valid_client_entry tests no bound.
ListBehindSlots ==
  /\ pc = "slot" => client_valid_num <= i
  /\ client_valid_num <= MaxEntry

\* Whenever the thread waits, the page shows exactly the live slots, in their
\* order and with their latest contents, after our own entry.
ListShowsTable ==
  pc = "select" =>
    /\ client_valid_num = 1 + Cardinality({k \in Peers : Live(k)})
    /\ \A k \in Peers : Live(k) =>
         LET n == 1 + Cardinality({j \in Peers : j < k /\ Live(j)})
         IN client_valid_list[n] = [ip |-> client_list[k].ip, info |-> client_list[k].info]

Listed(ip) == \E k \in Peers : Holds(k, ip)

\* A node heard in the last two aging periods (four seconds) is listed: a node
\* that announces itself every two seconds may lose one announcement.
HeardIsListed ==
  pc = "select" => \A ip \in IPs : quiet[ip] <= 2 * Period /\ quiet[ip] < MaxQuiet => Listed(ip)

\* A node not heard for three of the longest aging periods (just under twelve
\* seconds) is gone: other nodes' announcements cannot keep it in the table.
SilentIsGone ==
  pc = "select" => \A ip \in IPs : quiet[ip] > 3 * (2 * Period - 1) => ~Listed(ip)

\* Every listed node is heard again or forgotten.
HeardOrForgotten ==
  \A ip \in IPs : Listed(ip) /\ quiet[ip] > 0 ~> quiet[ip] = 0 \/ ~Listed(ip)

\* The slots implement the leases.  A round of aging takes effect when it
\* starts: slots it has not come to yet are about to lose a round.
RoundsLeft(k) ==
  IF Live(k) /\ new = 0 /\ (pc \in {"self", "start"} \/ (pc = "slot" /\ k >= i))
  THEN client_list[k].age - 1 ELSE client_list[k].age

Lease ==
  [ip \in IPs |-> IF Listed(ip) THEN RoundsLeft(CHOOSE k \in Peers : Holds(k, ip)) ELSE 0]

Leases == INSTANCE Membership WITH
  Capacity <- MaxEntry - 1, Rounds <- AGE_COUNT, lease <- Lease

LeaseSpec == Leases!Spec
=============================================================================
