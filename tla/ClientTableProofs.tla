------------------------- MODULE ClientTableProofs -------------------------
(***************************************************************************)
(* Proofs about ClientTable for any set of nodes, any table size and any   *)
(* aging period.                                                           *)
(***************************************************************************)
EXTENDS ClientTable, FiniteSetTheorems, TLAPS

\* The bounds of the list are part of its type: the slot loop may write entry
\* client_valid_num only because it has not run ahead of i.
Typed == TypeOK /\ ListBehindSlots

LEMMA TypedInit == Init => Typed
<1> SUFFICES ASSUME Init PROVE Typed
  OBVIOUS
<1> USE SizesAssumption DEF Init
<1>1. /\ client_list \in
           [Index -> [ip : IPs \cup {NoIP, BootIP}, info : Infos \cup {NoInfo}, age : 0 .. AGE_COUNT]]
      /\ client_valid_list \in [Index -> [ip : IPs \cup {NoIP, BootIP}, info : Infos \cup {NoInfo}]]
  BY DEF Empty, None, AGE_COUNT
<1>2. quiet \in [IPs -> 0 .. MaxQuiet]
  OBVIOUS
<1>3. pc \in Labels /\ pc # "slot" /\ msg \in Datagrams \cup {None}
  BY DEF Labels
<1>4. client_valid_num \in 0 .. MaxEntry /\ i \in 1 .. MaxEntry /\ new \in {0, 1}
  OBVIOUS
<1>5. since \in 0 .. 2 * Period /\ waited \in 0 .. Period
  OBVIOUS
<1>6. QED
  BY <1>1, <1>2, <1>3, <1>4, <1>5 DEF Typed, TypeOK, ListBehindSlots

\* The thread waits, wakes up, and goes back to waiting.
LEMMA TypedWaiting ==
  ASSUME Typed, Tick \/ Timeout \/ Receive \/ NoData \/ OwnEcho \/ TableFull \/ NewAddress
  PROVE  Typed'
<1> USE SizesAssumption DEF Typed, TypeOK, ListBehindSlots, Labels, table, clock
<1>1. CASE Tick
  <2>1. since' \in 0 .. 2 * Period /\ waited' \in 0 .. Period
    BY <1>1 DEF Tick, CountTo
  <2>2. quiet' \in [IPs -> 0 .. MaxQuiet]
    BY <1>1 DEF Tick, CountTo
  <2>3. QED
    BY <1>1, <2>1, <2>2 DEF Tick
<1>2. ASSUME NEW m \in Datagrams \cup {None}, Wake(m) PROVE Typed'
  BY <1>2 DEF Wake
<1>3. CASE Timeout
  BY <1>2, <1>3 DEF Timeout
<1>4. CASE Receive
  BY <1>2, <1>4 DEF Receive
<1>5. CASE NoData
  BY <1>5 DEF NoData
<1> DEFINE PopulateOnly == Populate /\ BackToSelect
<1>6. ASSUME PopulateOnly PROVE Typed'
  <2>1. client_valid_list' \in [Index -> [ip : IPs \cup {NoIP, BootIP}, info : Infos \cup {NoInfo}]]
    BY <1>6 DEF Populate
  <2>2. pc' = "select" /\ waited' = 0
    BY <1>6 DEF BackToSelect
  <2>3. UNCHANGED <<client_list, client_valid_num, ipAddress, i, new, msg, since, quiet>>
    BY <1>6 DEF Populate, BackToSelect
  <2>4. QED
    BY <2>1, <2>2, <2>3
<1>7. OwnEcho \/ TableFull => PopulateOnly
  BY DEF OwnEcho, TableFull
<1>8. CASE NewAddress
  BY <1>8 DEF NewAddress
<1>9. QED
  BY <1>1, <1>3, <1>4, <1>5, <1>6, <1>7, <1>8

\* The list is rebuilt.
LEMMA TypedRebuild ==
  ASSUME Typed, AgeSelf \/ AgeStart \/ AgeSlot \/ AgeEnd
  PROVE  Typed'
<1> USE SizesAssumption DEF Typed, TypeOK, ListBehindSlots, Labels, table, clock
<1>1. CASE AgeSelf
  <2>1. 0 \in Index /\ AGE_COUNT \in 0 .. AGE_COUNT
    BY DEF Index, AGE_COUNT
  <2>2. client_list' \in
          [Index -> [ip : IPs \cup {NoIP, BootIP}, info : Infos \cup {NoInfo}, age : 0 .. AGE_COUNT]]
    BY <1>1, <2>1 DEF AgeSelf
  <2>3. client_valid_list' \in [Index -> [ip : IPs \cup {NoIP, BootIP}, info : Infos \cup {NoInfo}]]
    BY <1>1, <2>1 DEF AgeSelf
  <2>4. QED
    BY <1>1, <2>2, <2>3 DEF AgeSelf
<1>2. CASE AgeStart
  <2>1. client_valid_list' \in [Index -> [ip : IPs \cup {NoIP, BootIP}, info : Infos \cup {NoInfo}]]
    BY <1>2 DEF AgeStart
  <2>2. client_valid_num' = 1 /\ i' = 1 /\ 1 \in 1 .. MaxEntry /\ 1 \in 0 .. MaxEntry
    BY <1>2 DEF AgeStart
  <2>3. QED
    BY <1>2, <2>1, <2>2 DEF AgeStart
<1>3. CASE AgeSlot
  <2>1. i \in Index /\ client_valid_num \in Index /\ i + 1 \in 1 .. MaxEntry
    BY <1>3 DEF AgeSlot, Index
  <2>2. AgeOf(i) \in 0 .. AGE_COUNT
    BY <2>1 DEF AgeOf, AGE_COUNT
  <2>3. client_list' \in
          [Index -> [ip : IPs \cup {NoIP, BootIP}, info : Infos \cup {NoInfo}, age : 0 .. AGE_COUNT]]
    BY <1>3, <2>1, <2>2 DEF AgeSlot
  <2>4. client_valid_list' \in [Index -> [ip : IPs \cup {NoIP, BootIP}, info : Infos \cup {NoInfo}]]
    BY <1>3, <2>1 DEF AgeSlot
  <2>5. client_valid_num' \in 0 .. MaxEntry /\ client_valid_num' <= i' /\ i' \in 1 .. MaxEntry
    BY <1>3, <2>1 DEF AgeSlot, Index
  <2>6. QED
    BY <1>3, <2>3, <2>4, <2>5 DEF AgeSlot
<1>4. CASE AgeEnd
  BY <1>4 DEF AgeEnd
<1>5. QED
  BY <1>1, <1>2, <1>3, <1>4

\* A node gets a slot.
LEMMA TypedFill ==
  ASSUME Typed, Refresh \/ AddNode
  PROVE  Typed'
<1>1. PICK k \in Peers : Populate /\ Fill(k)
  BY DEF Refresh, AddNode
<1>2. k \in Index
  BY SizesAssumption DEF Peers, Index
<1>3. msg \in Datagrams
  BY <1>1 DEF Typed, TypeOK, Populate
<1>4. client_list' \in
        [Index -> [ip : IPs \cup {NoIP, BootIP}, info : Infos \cup {NoInfo}, age : 0 .. AGE_COUNT]]
  BY <1>1, <1>2, <1>3 DEF Typed, TypeOK, Fill, Datagrams, AGE_COUNT
<1>5. quiet' \in [IPs -> 0 .. MaxQuiet]
  <2>1. 0 \in 0 .. MaxQuiet /\ quiet \in [IPs -> 0 .. MaxQuiet] /\ msg.ip \in IPs
    BY <1>3, SizesAssumption DEF Typed, TypeOK, Datagrams
  <2>2. QED
    BY <1>1, <2>1 DEF Fill
<1>6. client_valid_list' \in [Index -> [ip : IPs \cup {NoIP, BootIP}, info : Infos \cup {NoInfo}]]
  BY <1>1 DEF Typed, TypeOK, Populate
<1>7. QED
  BY <1>1, <1>4, <1>5, <1>6
  DEF Typed, TypeOK, ListBehindSlots, Labels, Populate, Fill

LEMMA TypedNext == Typed /\ [Next]_vars => Typed'
<1>1. Typed /\ UNCHANGED vars => Typed'
  BY DEF vars, Typed, TypeOK, ListBehindSlots
<1>2. QED
  BY <1>1, TypedWaiting, TypedRebuild, TypedFill DEF Next, ServerStep

LEMMA SpecTyped == Spec => []Typed
  BY TypedInit, TypedNext, PTL DEF Spec

\* Every variable keeps to its declared values.
THEOREM TypeCorrect == Spec => []TypeOK
<1>1. Typed => TypeOK
  BY DEF Typed
<1>2. QED
  BY <1>1, SpecTyped, PTL

\* save_valid_client_entry never writes behind the end of client_valid_list,
\* for any MAX_NUM_ENTRY.
THEOREM ListStaysBehind == Spec => []ListBehindSlots
<1>1. Typed => ListBehindSlots
  BY DEF Typed
<1>2. QED
  BY <1>1, SpecTyped, PTL

-----------------------------------------------------------------------------
\* Aging frees slots and changes no address; a new slot is filled only when no
\* live slot holds the address.
LEMMA OneSlotNext == Typed /\ OneSlotPerNode /\ [Next]_vars => OneSlotPerNode'
<1> SUFFICES ASSUME Typed, OneSlotPerNode, [Next]_vars
             PROVE  OneSlotPerNode'
  OBVIOUS
<1>1. CASE UNCHANGED client_list
  BY <1>1 DEF OneSlotPerNode, Live
<1>2. CASE AgeSelf
  <2>1. \A k \in Peers : client_list'[k] = client_list[k]
    BY <1>2 DEF AgeSelf, Typed, TypeOK, Index, Peers
  <2>2. QED
    BY <2>1 DEF OneSlotPerNode, Live
<1>3. CASE AgeSlot
  <2>1. \A k \in Peers : client_list'[k].ip = client_list[k].ip /\ (Live(k)' => Live(k))
    BY <1>3 DEF AgeSlot, AgeOf, Typed, TypeOK, Index, Peers, Live, AGE_COUNT
  <2>2. QED
    BY <2>1 DEF OneSlotPerNode
<1>4. ASSUME NEW k \in Peers, Fill(k), \A j \in Peers : Holds(j, msg.ip) => j = k
      PROVE  OneSlotPerNode'
  <2>1. \A j \in Peers \ {k} : client_list'[j] = client_list[j]
    BY <1>4 DEF Fill, Typed, TypeOK, Index, Peers
  <2>2. client_list'[k].ip = msg.ip
    BY <1>4 DEF Fill, Typed, TypeOK, Index, Peers
  <2>3. QED
    BY <1>4, <2>1, <2>2 DEF OneSlotPerNode, Live, Holds
<1>5. CASE Refresh
  <2>1. PICK k \in Peers : FirstHolding(k, msg.ip) /\ Fill(k)
    BY <1>5 DEF Refresh
  <2>2. \A j \in Peers : Holds(j, msg.ip) => j = k
    BY <2>1 DEF FirstHolding, Holds, OneSlotPerNode
  <2>3. QED
    BY <1>4, <2>1, <2>2
<1>6. CASE AddNode
  BY <1>4, <1>6 DEF AddNode
<1>7. QED
  BY <1>1, <1>2, <1>3, <1>5, <1>6
  DEF Next, ServerStep, Tick, Receive, Timeout, Wake, AgeStart, AgeEnd, NoData,
      OwnEcho, TableFull, BackToSelect, NewAddress, table, vars

\* A node never occupies two live slots.
THEOREM OneSlot == Spec => []OneSlotPerNode
<1>1. Init => OneSlotPerNode
  BY SizesAssumption DEF Init, OneSlotPerNode, Live, Empty, Index, Peers
<1>2. QED
  BY <1>1, OneSlotNext, SpecTyped, PTL DEF Spec

-----------------------------------------------------------------------------
(* The dense list. *)

\* The live slots before m, and the entry of client_valid_list for slot m.
Before(m) == {j \in Peers : j < m /\ Live(j)}
Place(m) == 1 + Cardinality(Before(m))

\* The live slots before m are listed in their order, and nothing after them.
Shown(m) ==
  /\ client_valid_num = Place(m)
  /\ \A k \in Peers : k < m /\ Live(k) =>
       client_valid_list[Place(k)] = [ip |-> client_list[k].ip, info |-> client_list[k].info]

\* The inductive invariant: the slot loop has listed the slots behind it, and
\* between two rebuildings every slot is listed.
ListBuilt ==
  /\ pc = "slot" => Shown(i)
  /\ pc \in {"select", "handle"} => Shown(MaxEntry)

LEMMA BeforeFinite ==
  ASSUME NEW m \in Int
  PROVE  IsFiniteSet(Before(m)) /\ Place(m) \in Nat \ {0}
<1>1. MaxEntry - 1 \in Int
  BY SizesAssumption
<1>2. IsFiniteSet(1 .. MaxEntry - 1)
  BY <1>1, FS_Interval
<1>3. Before(m) \in SUBSET (1 .. MaxEntry - 1)
  BY DEF Before, Peers
<1>4. IsFiniteSet(Before(m))
  BY <1>2, <1>3, FS_Subset
<1>5. Cardinality(Before(m)) \in Nat
  BY <1>4, FS_CardinalityType
<1>6. QED
  BY <1>4, <1>5 DEF Place

\* A live slot's entry lies before the entries of later slots.
LEMMA PlacesGrow ==
  ASSUME NEW m \in Int, NEW k \in Peers, k < m, Live(k)
  PROVE  Place(k) < Place(m)
<1>0. k \in Int
  BY SizesAssumption DEF Peers
<1>1. IsFiniteSet(Before(k)) /\ IsFiniteSet(Before(m)) /\ Place(k) \in Nat /\ Place(m) \in Nat
  BY <1>0, BeforeFinite
<1>2. k \notin Before(k)
  BY <1>0 DEF Before
<1>3. /\ IsFiniteSet(Before(k) \cup {k})
      /\ Cardinality(Before(k) \cup {k}) = Cardinality(Before(k)) + 1
  BY <1>1, <1>2, FS_AddElement
<1>4. Before(k) \cup {k} \in SUBSET Before(m)
  BY <1>0 DEF Before, Peers
<1>5. Cardinality(Before(k) \cup {k}) <= Cardinality(Before(m))
  BY <1>1, <1>4, FS_Subset
<1>6. Cardinality(Before(k)) \in Nat /\ Cardinality(Before(m)) \in Nat
  BY <1>1, FS_CardinalityType
<1>7. QED
  BY <1>3, <1>5, <1>6 DEF Place

\* A step that leaves the slots before m and the entries after ours alone.
LEMMA ShownKept ==
  ASSUME NEW m \in Int, m <= MaxEntry, Shown(m), Typed,
         UNCHANGED client_valid_num,
         \A k \in Peers : k < m => client_list'[k] = client_list[k],
         \A n \in Index \ {0} : client_valid_list'[n] = client_valid_list[n]
  PROVE  Shown(m)'
<1>1. \A k \in Int : k <= m => Before(k)' = Before(k)
  BY DEF Before, Live, Peers
<1>2. \A k \in Int : k <= m => Place(k)' = Place(k)
  BY <1>1 DEF Place
<1>3. client_valid_num' = Place(m)'
  BY <1>2 DEF Shown
<1>4. ASSUME NEW k \in Peers, k < m, Live(k)'
      PROVE  client_valid_list'[Place(k)']
               = [ip |-> client_list'[k].ip, info |-> client_list'[k].info]
  <2>1. k \in Int /\ k <= m
    BY <1>4, SizesAssumption DEF Peers
  <2>2. Live(k) /\ client_list'[k] = client_list[k] /\ Place(k)' = Place(k)
    BY <1>2, <1>4, <2>1 DEF Live
  <2>3. Place(k) < Place(m) /\ Place(m) = client_valid_num
    BY <1>4, <2>2, PlacesGrow DEF Shown
  <2>4. Place(k) \in Nat \ {0} /\ client_valid_num <= MaxEntry /\ client_valid_num \in Nat
    BY <2>1, BeforeFinite DEF Typed, TypeOK, ListBehindSlots
  <2>5. Place(k) \in Index \ {0}
    BY <2>3, <2>4, SizesAssumption DEF Index
  <2>6. QED
    BY <1>4, <2>2, <2>5 DEF Shown
<1>5. QED
  BY <1>3, <1>4 DEF Shown

\* One turn of the slot loop.
LEMMA SlotShown == Typed /\ ListBuilt /\ AgeSlot => ListBuilt'
<1> SUFFICES ASSUME Typed, ListBuilt, AgeSlot
             PROVE  ListBuilt'
  OBVIOUS
\* n names the slot of this turn, which i leaves behind.
<1>0. PICK n : n = i
  OBVIOUS
<1>1. /\ n = i /\ n \in Int /\ n + 1 \in Int
      /\ n \in Peers /\ n \in Index /\ n <= MaxEntry
  BY <1>0, SizesAssumption DEF Typed, TypeOK, AgeSlot, Peers, Index
<1>2. /\ pc = "slot" /\ pc' = "slot" /\ i' = n + 1 /\ Shown(n)
      /\ client_list' = [client_list EXCEPT ![n].age = AgeOf(n)]
  BY <1>0 DEF AgeSlot, ListBuilt
<1>3. \A k \in Peers : k # n => client_list'[k] = client_list[k]
  BY <1>1, <1>2 DEF Typed, TypeOK, Peers, Index
<1>4. /\ client_list'[n].ip = client_list[n].ip
      /\ client_list'[n].info = client_list[n].info
      /\ client_list'[n].age = AgeOf(n)
  BY <1>1, <1>2 DEF Typed, TypeOK
<1>5. client_valid_num \in Index /\ client_valid_num = Place(n)
  BY <1>1, <1>2, SizesAssumption DEF Typed, TypeOK, ListBehindSlots, Index, Shown, AgeSlot
<1>6. \A k \in Int : k <= n => Before(k)' = Before(k)
  BY <1>1, <1>3 DEF Before, Live, Peers
<1>7. \A k \in Int : k <= n => Place(k)' = Place(k)
  BY <1>6 DEF Place
<1>8. \A k \in Peers : k < n => k \in Int /\ k <= n
  BY <1>1 DEF Peers
<1>9. ASSUME NEW k \in Peers, k < n, Live(k)'
      PROVE  /\ Place(k)' # client_valid_num
             /\ client_valid_list[Place(k)'] = [ip |-> client_list'[k].ip, info |-> client_list'[k].info]
  <2>1. Live(k) /\ Place(k)' = Place(k) /\ client_list'[k] = client_list[k] /\ k \in Int
    BY <1>1, <1>3, <1>7, <1>8, <1>9 DEF Live
  <2>2. Place(k) < Place(n) /\ Place(k) \in Nat /\ Place(n) \in Nat
    BY <1>1, <1>9, <2>1, PlacesGrow, BeforeFinite
  <2>3. QED
    BY <1>2, <1>5, <1>9, <2>1, <2>2 DEF Shown
<1>10. CASE AgeOf(n) > 0
  <2>1. /\ client_valid_list' = [client_valid_list EXCEPT ![client_valid_num] =
             [ip |-> client_list[n].ip, info |-> client_list[n].info]]
        /\ client_valid_num' = client_valid_num + 1
    BY <1>0, <1>10 DEF AgeSlot
  <2>2. Before(n + 1)' = Before(n) \cup {n}
    BY <1>1, <1>3, <1>4, <1>10 DEF Before, Live, Peers
  <2>3. Place(n + 1)' = Place(n) + 1
    <3>1. IsFiniteSet(Before(n)) /\ n \notin Before(n)
      BY <1>1, BeforeFinite DEF Before
    <3>2. Cardinality(Before(n) \cup {n}) = Cardinality(Before(n)) + 1
      BY <3>1, FS_AddElement
    <3>3. Cardinality(Before(n)) \in Nat
      BY <3>1, FS_CardinalityType
    <3>4. QED
      BY <2>2, <3>2, <3>3 DEF Place
  <2>4. client_valid_num' = Place(n + 1)'
    BY <1>5, <2>1, <2>3
  <2>5. client_valid_list'[Place(n)'] = [ip |-> client_list'[n].ip, info |-> client_list'[n].info]
    BY <1>1, <1>4, <1>5, <1>7, <2>1 DEF Typed, TypeOK
  <2>6. ASSUME NEW k \in Peers, k < n + 1, Live(k)'
        PROVE  client_valid_list'[Place(k)']
                 = [ip |-> client_list'[k].ip, info |-> client_list'[k].info]
    <3>1. k = n \/ k < n
      BY <1>1, <2>6 DEF Peers
    <3>2. CASE k = n
      BY <2>5, <3>2
    <3>3. CASE k < n
      BY <1>5, <1>9, <2>1, <2>6, <3>3 DEF Typed, TypeOK
    <3>4. QED
      BY <3>1, <3>2, <3>3
  <2>7. Shown(n + 1)'
    BY <2>4, <2>6 DEF Shown
  <2>8. QED
    BY <1>2, <2>4, <2>6 DEF ListBuilt, Shown
<1>11. CASE ~(AgeOf(n) > 0)
  <2>1. UNCHANGED <<client_valid_list, client_valid_num>>
    BY <1>0, <1>11 DEF AgeSlot
  <2>2. Before(n + 1)' = Before(n)
    BY <1>1, <1>3, <1>4, <1>11 DEF Before, Live, Peers
  <2>3. client_valid_num' = Place(n + 1)'
    BY <1>5, <2>1, <2>2 DEF Place
  <2>4. ASSUME NEW k \in Peers, k < n + 1, Live(k)'
        PROVE  client_valid_list'[Place(k)']
                 = [ip |-> client_list'[k].ip, info |-> client_list'[k].info]
    <3>1. k < n
      BY <1>1, <1>4, <1>11, <2>4 DEF Peers, Live
    <3>2. QED
      BY <1>9, <2>1, <2>4, <3>1
  <2>5. QED
    BY <1>2, <2>3, <2>4 DEF ListBuilt, Shown
<1>12. QED
  BY <1>10, <1>11

LEMMA ListBuiltNext == Typed /\ ListBuilt /\ [Next]_vars => ListBuilt'
<1> SUFFICES ASSUME Typed, ListBuilt, [Next]_vars
             PROVE  ListBuilt'
  OBVIOUS
<1>0. MaxEntry \in Int /\ MaxEntry <= MaxEntry
  BY SizesAssumption
\* The table and the list stay, but for our own address in entry 0.
<1>1. ASSUME UNCHANGED <<client_list, client_valid_num>>,
             \A n \in Index \ {0} : client_valid_list'[n] = client_valid_list[n],
             pc \in {"select", "handle"}, pc' \in {"select", "handle", "self"}
      PROVE  ListBuilt'
  BY <1>0, <1>1, ShownKept DEF ListBuilt
<1>2. CASE UNCHANGED <<table, pc, i>>
  BY <1>2 DEF ListBuilt, Shown, Place, Before, Live, table
<1>3. CASE Tick
  BY <1>2, <1>3 DEF Tick
<1>4. ASSUME NEW m, Wake(m) PROVE ListBuilt'
  BY <1>1, <1>4 DEF Wake, table
<1>5. CASE Timeout \/ Receive
  BY <1>4, <1>5 DEF Timeout, Receive
<1>6. CASE AgeSelf
  BY <1>6 DEF AgeSelf, ListBuilt
<1>7. CASE AgeStart
  <2>1. Before(1)' = {}
    BY DEF Before, Peers
  <2>2. Place(1)' = 1
    BY <2>1, FS_EmptySet DEF Place
  <2>3. pc' = "slot" /\ i' = 1 /\ client_valid_num' = 1
    BY <1>7 DEF AgeStart
  <2>4. \A k \in Peers : ~(k < 1)
    BY DEF Peers
  <2>5. Shown(1)'
    BY <2>2, <2>3, <2>4 DEF Shown
  <2>6. QED
    BY <2>2, <2>3, <2>4 DEF ListBuilt, Shown
<1>8. CASE AgeSlot
  BY <1>8, SlotShown
<1>9. CASE AgeEnd
  <2>1. Shown(MaxEntry) /\ UNCHANGED table /\ pc' # "slot"
    BY <1>9 DEF AgeEnd, ListBuilt
  <2>2. Shown(MaxEntry)'
    BY <2>1 DEF Shown, Place, Before, Live, table
  <2>3. QED
    BY <2>1, <2>2 DEF ListBuilt
<1>10. CASE NoData
  BY <1>1, <1>10 DEF NoData, table
<1>11. ASSUME Populate PROVE \A n \in Index \ {0} : client_valid_list'[n] = client_valid_list[n]
  BY <1>11 DEF Populate, Typed, TypeOK, Index
<1>12. CASE OwnEcho \/ TableFull
  <2>1. Populate /\ BackToSelect
    BY <1>12 DEF OwnEcho, TableFull
  <2>2. UNCHANGED <<client_list, client_valid_num>> /\ pc = "handle" /\ pc' = "select"
    BY <2>1 DEF Populate, BackToSelect
  <2>3. QED
    BY <1>1, <1>11, <2>1, <2>2
<1>13. CASE Refresh \/ AddNode
  BY <1>13 DEF Refresh, AddNode, Fill, ListBuilt
<1>14. CASE NewAddress
  BY <1>2, <1>14 DEF NewAddress
<1>15. QED
  BY <1>2, <1>3, <1>5, <1>6, <1>7, <1>8, <1>9, <1>10, <1>12, <1>13, <1>14
  DEF Next, ServerStep, vars, table

LEMMA SpecListBuilt == Spec => [](Typed /\ ListBuilt)
<1>1. Init => ListBuilt
  BY DEF Init, ListBuilt
<1>2. QED
  BY <1>1, ListBuiltNext, SpecTyped, PTL DEF Spec

\* Whenever the server thread waits, the page shows exactly the live slots in
\* their order, for any table size: no rebuilding that a browser may have seen
\* half done leaves a gap, a duplicate or an old entry behind.
THEOREM ListIsTable == Spec => []ListShowsTable
<1>1. Typed /\ ListBuilt => ListShowsTable
  <2> SUFFICES ASSUME Typed, ListBuilt, pc = "select"
               PROVE  /\ client_valid_num = 1 + Cardinality({k \in Peers : Live(k)})
                      /\ \A k \in Peers : Live(k) =>
                           client_valid_list[1 + Cardinality({j \in Peers : j < k /\ Live(j)})]
                             = [ip |-> client_list[k].ip, info |-> client_list[k].info]
    BY DEF ListShowsTable
  <2>1. Shown(MaxEntry)
    BY DEF ListBuilt
  <2>2. \A k \in Peers : k < MaxEntry
    BY SizesAssumption DEF Peers
  <2>3. Before(MaxEntry) = {k \in Peers : Live(k)}
    BY <2>2 DEF Before
  <2>4. QED
    BY <2>1, <2>2, <2>3 DEF Shown, Place, Before
<1>2. QED
  BY <1>1, SpecListBuilt, PTL

-----------------------------------------------------------------------------
(* The slots implement the leases. *)

\* A lease is the rounds left to the slot that holds the address; slots about
\* to be freed and free ones give none.
LEMMA LeaseOfSlot ==
  Typed /\ OneSlotPerNode =>
    \A ip \in IPs :
      /\ \A k \in Peers : client_list[k].ip = ip /\ RoundsLeft(k) > 0 => Lease[ip] = RoundsLeft(k)
      /\ (\A k \in Peers : client_list[k].ip = ip => ~(RoundsLeft(k) > 0)) => Lease[ip] = 0
<1> SUFFICES ASSUME Typed, OneSlotPerNode, NEW ip \in IPs
             PROVE  /\ \A k \in Peers : client_list[k].ip = ip /\ RoundsLeft(k) > 0 =>
                         Lease[ip] = RoundsLeft(k)
                    /\ (\A k \in Peers : client_list[k].ip = ip => ~(RoundsLeft(k) > 0)) =>
                         Lease[ip] = 0
  OBVIOUS
<1>1. \A k \in Peers : RoundsLeft(k) \in Nat /\ (RoundsLeft(k) > 0 => Live(k))
  BY DEF Typed, TypeOK, RoundsLeft, Live, Peers, Index
<1>2. ASSUME NEW k \in Peers, Holds(k, ip)
      PROVE  Lease[ip] = RoundsLeft(k)
  <2>1. \A j \in Peers : Holds(j, ip) <=> j = k
    BY <1>2 DEF Holds, OneSlotPerNode
  <2>2. Listed(ip) /\ (CHOOSE j \in Peers : Holds(j, ip)) = k
    BY <2>1 DEF Listed
  <2>3. QED
    BY <2>2 DEF Lease
<1>3. ~Listed(ip) => Lease[ip] = 0
  BY DEF Lease
<1>4. ASSUME NEW k \in Peers, client_list[k].ip = ip, RoundsLeft(k) > 0
      PROVE  Lease[ip] = RoundsLeft(k)
  BY <1>1, <1>2, <1>4 DEF Holds
<1>5. ASSUME \A k \in Peers : client_list[k].ip = ip => ~(RoundsLeft(k) > 0)
      PROVE  Lease[ip] = 0
  <2>1. CASE Listed(ip)
    <3>1. PICK k \in Peers : Holds(k, ip)
      BY <2>1 DEF Listed
    <3>2. client_list[k].ip = ip /\ Lease[ip] = RoundsLeft(k)
      BY <1>2, <3>1 DEF Holds
    <3>3. QED
      BY <1>1, <1>5, <3>2
  <2>2. QED
    BY <1>3, <2>1
<1>6. QED
  BY <1>4, <1>5

LEMMA LeaseOfSlotNext ==
  Typed' /\ OneSlotPerNode' =>
    \A ip \in IPs :
      /\ \A k \in Peers : client_list'[k].ip = ip /\ RoundsLeft(k)' > 0 => Lease'[ip] = RoundsLeft(k)'
      /\ (\A k \in Peers : client_list'[k].ip = ip => ~(RoundsLeft(k)' > 0)) => Lease'[ip] = 0
<1>1. (Typed /\ OneSlotPerNode =>
         \A ip \in IPs :
           /\ \A k \in Peers : client_list[k].ip = ip /\ RoundsLeft(k) > 0 => Lease[ip] = RoundsLeft(k)
           /\ (\A k \in Peers : client_list[k].ip = ip => ~(RoundsLeft(k) > 0)) => Lease[ip] = 0)'
  BY LeaseOfSlot, PTL
<1>2. QED
  BY <1>1

LEMMA LeaseType == Lease = [ip \in IPs |-> Lease[ip]] /\ Lease' = [ip \in IPs |-> Lease'[ip]]
  BY DEF Lease

\* A slot has the rounds that its age says, less the one that is pending.
Sound == Typed /\ OneSlotPerNode

LEMMA SpecSound == Spec => []Sound
<1>1. Sound <=> Typed /\ OneSlotPerNode
  BY DEF Sound
<1>2. QED
  BY <1>1, SpecTyped, OneSlot, PTL

LEMMA RoundsType ==
  ASSUME Typed, NEW k \in Peers
  PROVE  /\ RoundsLeft(k) \in 0 .. AGE_COUNT
         /\ RoundsLeft(k) > 0 => Live(k)
         /\ ~Live(k) => RoundsLeft(k) = 0
  BY DEF Typed, TypeOK, RoundsLeft, Live, Peers, Index, AGE_COUNT

\* Steps that leave every slot its rounds leave the leases alone.
LEMMA LeaseStutters ==
  ASSUME Sound, Sound',
         \A k \in Peers : RoundsLeft(k)' = RoundsLeft(k) /\ client_list'[k].ip = client_list[k].ip
  PROVE  Lease' = Lease
<1>1. ASSUME NEW ip \in IPs PROVE Lease'[ip] = Lease[ip]
  <2>1. CASE \E k \in Peers : client_list[k].ip = ip /\ RoundsLeft(k) > 0
    BY <2>1, LeaseOfSlot, LeaseOfSlotNext DEF Sound
  <2>2. CASE ~ \E k \in Peers : client_list[k].ip = ip /\ RoundsLeft(k) > 0
    BY <2>2, LeaseOfSlot, LeaseOfSlotNext DEF Sound
  <2>3. QED
    BY <2>1, <2>2
<1>2. QED
  BY <1>1, LeaseType

\* When the aging timer has run out, every lease loses a round at once.
LEMMA LeaseAges ==
  ASSUME Sound, Sound', NEW m, Wake(m), since >= Period
  PROVE  /\ \A ip \in IPs : Lease'[ip] = IF Lease[ip] > 0 THEN Lease[ip] - 1 ELSE 0
         /\ Leases!Age
<1>1. pc = "select" /\ pc' = "self" /\ new' = 0 /\ UNCHANGED client_list
  BY DEF Wake, table
<1>2. ASSUME NEW k \in Peers
      PROVE  /\ client_list'[k].ip = client_list[k].ip
             /\ RoundsLeft(k)' = IF RoundsLeft(k) > 0 THEN RoundsLeft(k) - 1 ELSE 0
  <2>1. client_list[k].age \in Nat
    <3>1. Typed
      BY DEF Sound
    <3>2. k \in Index
      BY DEF Peers, Index
    <3>3. client_list[k] \in [ip : IPs \cup {NoIP, BootIP}, info : Infos \cup {NoInfo}, age : 0 .. AGE_COUNT]
      BY <3>1, <3>2 DEF Typed, TypeOK
    <3>4. QED
      BY <3>3 DEF AGE_COUNT
  <2>2. /\ client_list'[k].ip = client_list[k].ip
        /\ client_list'[k].age = client_list[k].age
        /\ Live(k)' = Live(k)
    BY <1>1 DEF Live
  <2>3. RoundsLeft(k) = client_list[k].age
    BY <1>1 DEF RoundsLeft
  <2>4. RoundsLeft(k)' = IF Live(k) THEN client_list[k].age - 1 ELSE client_list[k].age
    BY <1>1, <2>2 DEF RoundsLeft
  <2>5. Live(k) <=> client_list[k].age > 0
    BY <2>1 DEF Live
  <2>6. QED
    BY <2>1, <2>2, <2>3, <2>4, <2>5
<1>3. ASSUME NEW ip \in IPs
      PROVE  Lease'[ip] = IF Lease[ip] > 0 THEN Lease[ip] - 1 ELSE 0
  <2>1. CASE \E k \in Peers : client_list[k].ip = ip /\ RoundsLeft(k) > 0
    <3>1. PICK k \in Peers : client_list[k].ip = ip /\ RoundsLeft(k) > 0
      BY <2>1
    <3>2. Lease[ip] = RoundsLeft(k) /\ RoundsLeft(k) \in Nat
      BY <3>1, LeaseOfSlot, RoundsType DEF Sound, AGE_COUNT
    <3>3. RoundsLeft(k)' = RoundsLeft(k) - 1 /\ client_list'[k].ip = ip
      BY <1>2, <3>1
    <3>4. CASE RoundsLeft(k)' > 0
      BY <3>1, <3>2, <3>3, <3>4, LeaseOfSlotNext DEF Sound
    <3>5. CASE ~(RoundsLeft(k)' > 0)
      <4>1. \A j \in Peers : client_list[j].ip = ip /\ RoundsLeft(j) > 0 => j = k
        BY <3>1, RoundsType DEF Sound, OneSlotPerNode
      <4>2. \A j \in Peers : client_list'[j].ip = ip => ~(RoundsLeft(j)' > 0)
        BY <1>2, <3>5, <4>1
      <4>3. Lease'[ip] = 0
        BY <4>2, LeaseOfSlotNext DEF Sound
      <4>4. QED
        BY <3>1, <3>2, <3>3, <3>5, <4>3
    <3>6. QED
      BY <3>4, <3>5
  <2>2. CASE ~ \E k \in Peers : client_list[k].ip = ip /\ RoundsLeft(k) > 0
    <3>1. \A k \in Peers : client_list'[k].ip = ip => ~(RoundsLeft(k)' > 0)
      BY <1>2, <2>2
    <3>2. Lease[ip] = 0 /\ Lease'[ip] = 0
      BY <2>2, <3>1, LeaseOfSlot, LeaseOfSlotNext DEF Sound
    <3>3. QED
      BY <3>2
  <2>3. QED
    BY <2>1, <2>2
<1>4. Leases!Age
  <2>1. Lease' = [ip \in IPs |-> IF Lease[ip] > 0 THEN Lease[ip] - 1 ELSE 0]
    BY <1>3, LeaseType
  <2>2. QED
    BY <2>1 DEF Leases!Age
<1>5. QED
  BY <1>3, <1>4

\* The announcement that fills a slot renews the sender's lease and no other.
LEMMA LeaseRenewed ==
  ASSUME Sound, Sound', NEW k \in Peers, Populate, Fill(k),
         Holds(k, msg.ip) \/ ~Live(k),
         \A j \in Peers : Holds(j, msg.ip) => j = k
  PROVE  msg.ip \in IPs /\ Lease' = [Lease EXCEPT ![msg.ip] = AGE_COUNT]
<1>0. msg.ip \in IPs
  BY DEF Populate, Sound, Typed, TypeOK, Datagrams
<1>1. pc = "handle" /\ pc' = "self" /\ new' = 1
  BY DEF Populate, Fill
<1>2. k \in Index /\ client_list'[k] = [ip |-> msg.ip, info |-> msg.info, age |-> AGE_COUNT]
  BY SizesAssumption DEF Fill, Sound, Typed, TypeOK, Peers, Index
<1>3. \A j \in Peers \ {k} : client_list'[j] = client_list[j]
  BY DEF Fill, Sound, Typed, TypeOK, Peers, Index
<1>4. \A j \in Peers \ {k} : RoundsLeft(j)' = RoundsLeft(j)
  BY <1>1, <1>3 DEF RoundsLeft, Live
<1>5. RoundsLeft(k)' = AGE_COUNT /\ client_list'[k].ip = msg.ip
  BY <1>1, <1>2 DEF RoundsLeft
<1>6. Lease'[msg.ip] = AGE_COUNT
  BY <1>0, <1>5, LeaseOfSlotNext DEF Sound, AGE_COUNT
<1>7. ASSUME NEW ip \in IPs \ {msg.ip} PROVE Lease'[ip] = Lease[ip]
  <2>0. ~(client_list[k].ip = ip /\ RoundsLeft(k) > 0)
    BY RoundsType DEF Sound, Holds
  <2>1. \A j \in Peers : client_list[j].ip = ip /\ RoundsLeft(j) > 0 =>
          client_list'[j].ip = ip /\ RoundsLeft(j)' = RoundsLeft(j)
    BY <1>3, <1>4, <2>0
  <2>2. \A j \in Peers : client_list'[j].ip = ip /\ RoundsLeft(j)' > 0 =>
          client_list[j].ip = ip /\ RoundsLeft(j)' = RoundsLeft(j)
    BY <1>3, <1>4, <1>5
  <2>3. CASE \E j \in Peers : client_list[j].ip = ip /\ RoundsLeft(j) > 0
    BY <2>1, <2>3, LeaseOfSlot, LeaseOfSlotNext DEF Sound
  <2>4. CASE ~ \E j \in Peers : client_list[j].ip = ip /\ RoundsLeft(j) > 0
    BY <2>2, <2>4, LeaseOfSlot, LeaseOfSlotNext DEF Sound
  <2>5. QED
    BY <2>3, <2>4
<1>8. QED
  BY <1>0, <1>6, <1>7, LeaseType

\* A new node is only taken when the others leave a slot free.
LEMMA RoomForOne ==
  ASSUME Sound, NEW k \in Peers, ~Live(k)
  PROVE  Cardinality({ip \in IPs : Lease[ip] > 0}) < MaxEntry - 1
<1> DEFINE M == {ip \in IPs : Lease[ip] > 0}
           SlotOf(ip) == CHOOSE j \in Peers : Holds(j, ip)
           f == [ip \in M |-> SlotOf(ip)]
<1>1. ASSUME NEW ip \in M PROVE Holds(SlotOf(ip), ip) /\ SlotOf(ip) \in Peers \ {k}
  <2>1. Listed(ip)
    BY DEF Lease
  <2>2. \E j \in Peers : Holds(j, ip)
    BY <2>1 DEF Listed
  <2>3. SlotOf(ip) \in Peers /\ Holds(SlotOf(ip), ip)
    BY <2>2
  <2>4. QED
    BY <2>3 DEF Holds
<1>2. f \in [M -> Peers \ {k}]
  BY <1>1
<1>3. \A a, b \in M : f[a] = f[b] => a = b
  <2>1. \A a \in M : client_list[f[a]].ip = a
    BY <1>1 DEF Holds
  <2>2. QED
    BY <2>1
<1>4. f \in Injection(M, Peers \ {k})
  BY <1>2, <1>3 DEF Injection, IsInjective
<1>5. MaxEntry - 1 \in Int /\ 1 \in Int /\ ~(1 > MaxEntry - 1)
  BY SizesAssumption DEF Peers
<1>6. IsFiniteSet(Peers) /\ Cardinality(Peers) = MaxEntry - 1
  BY <1>5, FS_Interval, SizesAssumption DEF Peers
<1>7. IsFiniteSet(Peers \ {k}) /\ Cardinality(Peers \ {k}) = Cardinality(Peers) - 1
  BY <1>6, FS_RemoveElement
<1>8. IsFiniteSet(M) /\ Cardinality(M) <= Cardinality(Peers \ {k})
  BY <1>4, <1>7, FS_Injection
<1>9. Cardinality(M) \in Nat
  BY <1>8, FS_CardinalityType
<1>10. QED
  BY <1>5, <1>6, <1>7, <1>8, <1>9

\* No other step of the thread or of the clock changes a lease.
LEMMA LeaseKept ==
  ASSUME Sound, Sound',
         \/ Tick \/ AgeSelf \/ AgeStart \/ AgeSlot \/ AgeEnd
         \/ NoData \/ OwnEcho \/ TableFull \/ NewAddress \/ UNCHANGED vars
  PROVE  Lease' = Lease
<1>1. ASSUME UNCHANGED <<client_list, new>>,
             \A k \in Peers : RoundsLeft(k)' = RoundsLeft(k)
      PROVE  Lease' = Lease
  BY <1>1, LeaseStutters
<1>2. CASE UNCHANGED <<client_list, new, pc, i>>
  <2>1. \A k \in Peers : RoundsLeft(k)' = RoundsLeft(k)
    BY <1>2 DEF RoundsLeft, Live
  <2>2. QED
    BY <1>1, <1>2, <2>1
\* The thread moves between places where no slot awaits its turn.
<1>3. ASSUME UNCHANGED <<client_list, new>>,
             pc \notin {"self", "start", "slot"} \/ (pc = "slot" /\ i = MaxEntry),
             pc' \notin {"self", "start", "slot"}
      PROVE  Lease' = Lease
  <2>1. \A k \in Peers : RoundsLeft(k)' = RoundsLeft(k)
    BY <1>3, SizesAssumption DEF RoundsLeft, Live, Peers
  <2>2. QED
    BY <1>1, <1>3, <2>1
<1>4. CASE AgeSelf
  <2>1. \A k \in Peers : client_list'[k] = client_list[k]
    BY <1>4 DEF AgeSelf, Sound, Typed, TypeOK, Peers, Index
  <2>2. pc = "self" /\ pc' = "start" /\ UNCHANGED new
    BY <1>4 DEF AgeSelf
  <2>3. \A k \in Peers : Live(k)' = Live(k)
    BY <2>1 DEF Live
  <2>4. \A k \in Peers : RoundsLeft(k)' = RoundsLeft(k)
    BY <2>1, <2>2, <2>3 DEF RoundsLeft
  <2>5. QED
    BY <2>1, <2>4, LeaseStutters
<1>5. CASE AgeStart
  <2>1. \A k \in Peers : RoundsLeft(k)' = RoundsLeft(k)
    BY <1>5, SizesAssumption DEF AgeStart, RoundsLeft, Live, Peers
  <2>2. QED
    BY <1>1, <1>5, <2>1 DEF AgeStart
<1>6. CASE AgeSlot
  <2>1. i \in Index /\ i \in Int /\ pc = "slot" /\ pc' = "slot" /\ i' = i + 1 /\ UNCHANGED new
    BY <1>6 DEF AgeSlot, Sound, Typed, TypeOK, Index
  <2>2. ASSUME NEW k \in Peers
        PROVE  RoundsLeft(k)' = RoundsLeft(k) /\ client_list'[k].ip = client_list[k].ip
    <3>0. k \in Int /\ k \in Index /\ client_list[k].age \in 0 .. AGE_COUNT
      BY DEF Peers, Index, Sound, Typed, TypeOK
    <3>1. CASE k = i
      <4>1. client_list'[k].age = AgeOf(k) /\ client_list'[k].ip = client_list[k].ip
        BY <1>6, <2>1, <3>1 DEF AgeSlot, Sound, Typed, TypeOK
      <4>2. RoundsLeft(k)' = AgeOf(k)
        BY <2>1, <3>0, <3>1, <4>1 DEF RoundsLeft
      <4>3. RoundsLeft(k) = AgeOf(k)
        BY <2>1, <3>0, <3>1 DEF RoundsLeft, AgeOf, Live
      <4>4. QED
        BY <4>1, <4>2, <4>3
    <3>2. CASE k # i
      <4>1. client_list'[k] = client_list[k]
        BY <1>6, <3>0, <3>2 DEF AgeSlot, Sound, Typed, TypeOK
      <4>2. k >= i <=> k >= i + 1
        BY <2>1, <3>0, <3>2
      <4>3. QED
        BY <2>1, <4>1, <4>2 DEF RoundsLeft, Live
    <3>3. QED
      BY <3>1, <3>2
  <2>3. QED
    BY <2>2, LeaseStutters
<1>7. CASE AgeEnd \/ NoData \/ OwnEcho \/ TableFull
  BY <1>3, <1>7 DEF AgeEnd, NoData, OwnEcho, TableFull, Populate, BackToSelect, table
<1>8. CASE Tick \/ NewAddress \/ UNCHANGED vars
  BY <1>2, <1>8 DEF Tick, NewAddress, vars, table
<1>9. QED
  BY <1>4, <1>5, <1>6, <1>7, <1>8

LEMMA LeaseWakes ==
  ASSUME Sound, Sound', NEW m, Wake(m), ~(since >= Period)
  PROVE  Lease' = Lease
<1>1. pc = "select" /\ pc' = "handle" /\ UNCHANGED <<client_list, new>>
  BY DEF Wake, table
<1>2. \A k \in Peers : RoundsLeft(k)' = RoundsLeft(k)
  BY <1>1 DEF RoundsLeft, Live
<1>3. QED
  BY <1>1, <1>2, LeaseStutters

LEMMA LeaseHeard ==
  ASSUME Sound, Sound', Refresh \/ AddNode
  PROVE  /\ pc = "handle" /\ msg.ip \in IPs
         /\ Leases!Hear(msg.ip)
         /\ Lease' = [Lease EXCEPT ![msg.ip] = AGE_COUNT]
<1>1. CASE Refresh
  <2>1. PICK k \in Peers : FirstHolding(k, msg.ip) /\ Fill(k)
    BY <1>1 DEF Refresh
  <2>2. Populate /\ pc = "handle" /\ Holds(k, msg.ip)
    BY <1>1, <2>1 DEF Refresh, Populate, FirstHolding
  <2>3. \A j \in Peers : Holds(j, msg.ip) => j = k
    BY <2>2 DEF Holds, Sound, OneSlotPerNode
  <2>4. msg.ip \in IPs /\ Lease' = [Lease EXCEPT ![msg.ip] = AGE_COUNT]
    BY <2>1, <2>2, <2>3, LeaseRenewed
  <2>5. RoundsLeft(k) > 0
    BY <2>2 DEF RoundsLeft, Holds, Live
  <2>6. Lease[msg.ip] > 0
    BY <2>2, <2>4, <2>5, LeaseOfSlot DEF Sound, Holds
  <2>7. Leases!Hear(msg.ip)
    BY <2>4, <2>6 DEF Leases!Hear, Leases!Members
  <2>8. QED
    BY <2>2, <2>4, <2>7
<1>2. CASE AddNode
  <2>1. PICK k \in Peers : FirstFree(k) /\ Fill(k)
    BY <1>2 DEF AddNode
  <2>2. Populate /\ pc = "handle" /\ ~Live(k) /\ (\A j \in Peers : ~Holds(j, msg.ip))
    BY <1>2, <2>1 DEF AddNode, Populate, FirstFree
  <2>3. msg.ip \in IPs /\ Lease' = [Lease EXCEPT ![msg.ip] = AGE_COUNT]
    BY <2>1, <2>2, LeaseRenewed
  <2>4. Cardinality({ip \in IPs : Lease[ip] > 0}) < MaxEntry - 1
    BY <2>2, RoomForOne
  <2>5. Leases!Hear(msg.ip)
    <3>1. Cardinality(Leases!Members) < MaxEntry - 1
      BY <2>4 DEF Leases!Members
    <3>2. Leases!Cardinality(Leases!Members) = Cardinality(Leases!Members)
      BY DEF Leases!Cardinality, Cardinality
    <3>3. QED
      BY <2>3, <3>1, <3>2 DEF Leases!Hear
  <2>6. QED
    BY <2>2, <2>3, <2>5
<1>3. QED
  BY <1>1, <1>2

LEMMA LeaseStep == Sound /\ Sound' /\ [Next]_vars => [Leases!Next]_Lease
<1> SUFFICES ASSUME Sound, Sound', [Next]_vars
             PROVE  Leases!Next \/ Lease' = Lease
  OBVIOUS
<1>1. ASSUME NEW m, Wake(m) PROVE Leases!Next \/ Lease' = Lease
  BY <1>1, LeaseAges, LeaseWakes DEF Leases!Next
<1>2. CASE Timeout \/ Receive
  BY <1>1, <1>2 DEF Timeout, Receive
<1>3. CASE Refresh \/ AddNode
  BY <1>3, LeaseHeard DEF Leases!Next
<1>4. QED
  BY <1>2, <1>3, LeaseKept DEF Next, ServerStep

\* The table of slots, its aging loop and its search for a slot implement a
\* bounded set of leases: an announcement is refused only when the table is
\* full of other nodes, and a round of aging takes effect on all slots at once
\* although the loop visits them one by one.
THEOREM TableImplementsLeases == Spec => LeaseSpec
<1>1. Init => Leases!Init
  <2> SUFFICES ASSUME Init PROVE Leases!Init
    OBVIOUS
  <2>1. \A ip \in IPs : ~Listed(ip)
    BY DEF Init, Listed, Holds, Live, Empty, Peers, Index
  <2>2. Lease = [ip \in IPs |-> 0]
    BY <2>1 DEF Lease
  <2>3. QED
    BY <2>2 DEF Leases!Init
<1>2. QED
  BY <1>1, LeaseStep, SpecSound, PTL DEF Spec, LeaseSpec, Leases!Spec

-----------------------------------------------------------------------------
(* How long a lease lasts. *)

\* A round of aging that has begun counts as done.
Aging == new = 0 /\ pc \in {"self", "start", "slot"}
SinceRound == IF Aging THEN 0 ELSE since

\* The timer is tested at least every two seconds, so it never runs beyond two
\* periods; only a datagram can leave it running.
TimerTested ==
  /\ pc = "select" => waited <= since /\ since < Period + waited
  /\ pc # "select" /\ ~Aging => since < Period
  /\ since < 2 * Period
  /\ pc = "handle" /\ msg = None => since = 0

\* The inductive invariant: a node that has lost a round has been silent for a
\* period, and for each round it lost for two periods at most.
LeasesTimed ==
  \A ip \in IPs :
    /\ quiet[ip] = MaxQuiet \/ quiet[ip] >= SinceRound + (2 - Lease[ip]) * Period + 1
    /\ Lease[ip] > 0 => quiet[ip] <= (3 - Lease[ip]) * (2 * Period - 1) + SinceRound

LEMMA TimerNext == Typed /\ TimerTested /\ [Next]_vars => TimerTested'
<1> SUFFICES ASSUME Typed, TimerTested, [Next]_vars PROVE TimerTested'
  OBVIOUS
<1> USE SizesAssumption DEF Typed, TypeOK, TimerTested, Aging, clock
<1>1. CASE UNCHANGED <<pc, new, msg, since, waited>>
  BY <1>1
<1>2. CASE Tick
  BY <1>2 DEF Tick, CountTo
<1>3. ASSUME NEW m, Wake(m), m # None \/ waited = Period PROVE TimerTested'
  BY <1>3 DEF Wake
<1>4. CASE Timeout
  BY <1>3, <1>4 DEF Timeout
<1>5. CASE Receive
  <2>1. \A d \in Datagrams : d # None
    BY NamesAssumption DEF Datagrams, None
  <2>2. QED
    BY <1>3, <1>5, <2>1 DEF Receive
<1>6. CASE AgeSelf \/ AgeStart \/ AgeSlot
  BY <1>6 DEF AgeSelf, AgeStart, AgeSlot
<1>7. CASE AgeEnd \/ NoData
  BY <1>7 DEF AgeEnd, NoData
<1>8. CASE OwnEcho \/ TableFull
  BY <1>8 DEF OwnEcho, TableFull, Populate, BackToSelect
<1>9. CASE Refresh \/ AddNode
  BY <1>9 DEF Refresh, AddNode, Populate, Fill
<1>10. CASE NewAddress
  BY <1>1, <1>10 DEF NewAddress
<1>11. QED
  BY <1>1, <1>2, <1>4, <1>5, <1>6, <1>7, <1>8, <1>9, <1>10 DEF Next, ServerStep, vars

LEMMA LeaseRange ==
  Sound => \A ip \in IPs : Lease[ip] \in 0 .. AGE_COUNT
<1> SUFFICES ASSUME Sound, NEW ip \in IPs PROVE Lease[ip] \in 0 .. AGE_COUNT
  OBVIOUS
<1>1. CASE \E k \in Peers : client_list[k].ip = ip /\ RoundsLeft(k) > 0
  <2>1. PICK k \in Peers : client_list[k].ip = ip /\ RoundsLeft(k) > 0
    BY <1>1
  <2>2. Lease[ip] = RoundsLeft(k)
    BY <2>1, LeaseOfSlot DEF Sound
  <2>3. RoundsLeft(k) \in 0 .. AGE_COUNT
    BY <2>1, RoundsType DEF Sound
  <2>4. QED
    BY <2>2, <2>3
<1>2. CASE ~ \E k \in Peers : client_list[k].ip = ip /\ RoundsLeft(k) > 0
  <2>1. Lease[ip] = 0
    BY <1>2, LeaseOfSlot DEF Sound
  <2>2. QED
    BY <2>1 DEF AGE_COUNT
<1>3. QED
  BY <1>1, <1>2

\* The bounds of LeasesTimed for one node, as a function of its lease.
Timed(n, q, s) ==
  /\ q = MaxQuiet \/ q >= s + (2 - n) * Period + 1
  /\ n > 0 => q <= (3 - n) * (2 * Period - 1) + s

\* A lease has four values, which makes the bounds linear.
LEMMA TimedValues ==
  ASSUME NEW q \in Int, NEW s \in Int
  PROVE  /\ Timed(0, q, s) <=> q = MaxQuiet \/ q >= s + 2 * Period + 1
         /\ Timed(1, q, s) <=> (q = MaxQuiet \/ q >= s + Period + 1) /\ q <= 4 * Period - 2 + s
         /\ Timed(2, q, s) <=> (q = MaxQuiet \/ q >= s + 1) /\ q <= 2 * Period - 1 + s
         /\ Timed(3, q, s) <=> (q = MaxQuiet \/ q >= s - Period + 1) /\ q <= s
  BY SizesAssumption DEF Timed

LEMMA LeasesTimedIs == LeasesTimed <=> \A ip \in IPs : Timed(Lease[ip], quiet[ip], SinceRound)
  BY DEF LeasesTimed, Timed

LEMMA LeasesTimedIsNext == LeasesTimed' <=> \A ip \in IPs : Timed(Lease'[ip], quiet'[ip], SinceRound')
  BY DEF LeasesTimed, Timed

\* A lease that does not change while its clock does, or does not, move on.
LEMMA TimedPasses ==
  ASSUME NEW n \in 0 .. 3, NEW q \in 0 .. MaxQuiet, NEW s \in Int, Timed(n, q, s)
  PROVE  Timed(n, CountTo(q, MaxQuiet), s + 1)
<1>0. q \in Int /\ CountTo(q, MaxQuiet) \in Int /\ s + 1 \in Int
  BY SizesAssumption DEF CountTo
<1>1. n \in {0, 1, 2, 3}
  OBVIOUS
<1>2. CountTo(q, MaxQuiet) = MaxQuiet \/ CountTo(q, MaxQuiet) = q + 1
  BY DEF CountTo
<1>3. CountTo(q, MaxQuiet) <= q + 1
  BY SizesAssumption DEF CountTo
<1>4. q = MaxQuiet => CountTo(q, MaxQuiet) = MaxQuiet
  BY SizesAssumption DEF CountTo
<1>5. QED
  BY <1>0, <1>1, <1>2, <1>3, <1>4, TimedValues, SizesAssumption

\* A round of aging after at least one and less than two periods.
LEMMA TimedAges ==
  ASSUME NEW n \in 0 .. 3, NEW q \in 0 .. MaxQuiet, NEW s \in Int, Timed(n, q, s),
         Period <= s, s < 2 * Period
  PROVE  Timed(IF n > 0 THEN n - 1 ELSE 0, q, 0)
<1>0. q \in Int /\ 0 \in Int
  BY SizesAssumption
<1>1. n \in {0, 1, 2, 3}
  OBVIOUS
<1>2. CASE n = 0
  BY <1>0, <1>2, TimedValues, SizesAssumption
<1>3. CASE n = 1
  BY <1>0, <1>3, TimedValues, SizesAssumption
<1>4. CASE n = 2
  BY <1>0, <1>4, TimedValues, SizesAssumption
<1>5. CASE n = 3
  BY <1>0, <1>5, TimedValues, SizesAssumption
<1>6. QED
  BY <1>1, <1>2, <1>3, <1>4, <1>5

LEMMA LeasesTimedNext ==
  Sound /\ Sound' /\ TimerTested /\ LeasesTimed /\ [Next]_vars => LeasesTimed'
<1> SUFFICES ASSUME Sound, Sound', TimerTested, LeasesTimed, [Next]_vars,
                    NEW ip \in IPs
             PROVE  Timed(Lease'[ip], quiet'[ip], SinceRound')
  BY LeasesTimedIsNext
<1>0. /\ Lease[ip] \in 0 .. 3 /\ quiet[ip] \in 0 .. MaxQuiet
      /\ SinceRound \in Int /\ since \in Int
      /\ Timed(Lease[ip], quiet[ip], SinceRound)
  BY LeaseRange, LeasesTimedIs, SizesAssumption DEF AGE_COUNT, Sound, Typed, TypeOK, SinceRound
\* Most steps leave all three alone.
<1>1. ASSUME Lease' = Lease, UNCHANGED quiet, SinceRound' = SinceRound
      PROVE  Timed(Lease'[ip], quiet'[ip], SinceRound')
  BY <1>0, <1>1
<1>2. CASE Tick
  <2>1. pc = "select" /\ pc' = pc /\ ~Aging
    BY <1>2 DEF Tick, Aging
  <2>2. Lease' = Lease
    BY <1>2, LeaseKept
  <2>3. quiet'[ip] = CountTo(quiet[ip], MaxQuiet)
    BY <1>2 DEF Tick
  <2>4. SinceRound' = SinceRound + 1
    BY <1>2, <2>1, SizesAssumption DEF Tick, SinceRound, Aging, CountTo, TimerTested, Sound, Typed, TypeOK
  <2>5. QED
    BY <1>0, <2>2, <2>3, <2>4, TimedPasses
<1>3. ASSUME NEW m, Wake(m) PROVE Timed(Lease'[ip], quiet'[ip], SinceRound')
  <2>0. pc = "select" /\ ~Aging /\ SinceRound = since /\ UNCHANGED <<quiet, since>>
    BY <1>3 DEF Wake, SinceRound, Aging, clock
  <2>1. CASE since >= Period
    <3>1. Lease'[ip] = IF Lease[ip] > 0 THEN Lease[ip] - 1 ELSE 0
      BY <1>3, <2>1, LeaseAges
    <3>2. SinceRound' = 0
      BY <1>3, <2>1 DEF Wake, SinceRound, Aging
    <3>3. Period <= since /\ since < 2 * Period
      BY <1>0, <2>1, SizesAssumption DEF TimerTested
    <3>4. QED
      BY <1>0, <2>0, <3>1, <3>2, <3>3, TimedAges
  <2>2. CASE ~(since >= Period)
    <3>1. Lease' = Lease
      BY <1>3, <2>2, LeaseWakes
    <3>2. SinceRound' = SinceRound
      BY <1>3, <2>0, <2>2 DEF Wake, SinceRound, Aging
    <3>3. QED
      BY <1>1, <2>0, <3>1, <3>2
  <2>3. QED
    BY <2>1, <2>2
<1>4. CASE Timeout \/ Receive
  BY <1>3, <1>4 DEF Timeout, Receive
<1>5. CASE \/ AgeSelf \/ AgeStart \/ AgeSlot \/ AgeEnd
           \/ NoData \/ OwnEcho \/ TableFull \/ NewAddress \/ UNCHANGED vars
  <2>1. UNCHANGED quiet
    BY <1>5 DEF AgeSelf, AgeStart, AgeSlot, AgeEnd, NoData, OwnEcho, TableFull, BackToSelect,
                NewAddress, clock, vars
  <2>2. SinceRound' = SinceRound
    <3>1. CASE AgeSelf \/ AgeStart \/ AgeSlot
      BY <3>1 DEF AgeSelf, AgeStart, AgeSlot, SinceRound, Aging, clock
    <3>2. CASE AgeEnd
      BY <3>2 DEF AgeEnd, SinceRound, Aging, Sound, Typed, TypeOK
    <3>3. CASE NoData
      BY <3>3 DEF NoData, SinceRound, Aging, TimerTested
    <3>4. CASE OwnEcho \/ TableFull
      BY <3>4 DEF OwnEcho, TableFull, Populate, BackToSelect, SinceRound, Aging
    <3>5. CASE NewAddress \/ UNCHANGED vars
      BY <3>5 DEF NewAddress, vars, clock, SinceRound, Aging
    <3>6. QED
      BY <1>5, <3>1, <3>2, <3>3, <3>4, <3>5
  <2>3. Lease' = Lease
    BY <1>5, LeaseKept
  <2>4. QED
    BY <1>1, <2>1, <2>2, <2>3
<1>6. CASE Refresh \/ AddNode
  <2>1. /\ msg.ip \in IPs /\ pc = "handle"
        /\ Lease' = [Lease EXCEPT ![msg.ip] = AGE_COUNT]
    BY <1>6, LeaseHeard
  <2>2. quiet' = [quiet EXCEPT ![msg.ip] = 0] /\ new' = 1 /\ since' = since
    BY <1>6 DEF Refresh, AddNode, Populate, Fill
  <2>3. SinceRound = since /\ SinceRound' = since
    BY <2>1, <2>2 DEF SinceRound, Aging
  <2>4. CASE ip # msg.ip
    BY <1>0, <2>1, <2>2, <2>3, <2>4, LeaseType DEF Sound, Typed, TypeOK
  <2>5. CASE ip = msg.ip
    <3>1. Lease'[ip] = 3 /\ quiet'[ip] = 0
      BY <2>1, <2>2, <2>5, LeaseType DEF Sound, Typed, TypeOK, AGE_COUNT
    <3>2. 0 <= since /\ since < Period
      BY <2>1 DEF TimerTested, Aging, Sound, Typed, TypeOK
    <3>3. Timed(3, 0, since)
      BY <1>0, <3>2, SizesAssumption DEF Timed
    <3>4. QED
      BY <2>3, <3>1, <3>3
  <2>6. QED
    BY <2>4, <2>5
<1>7. QED
  BY <1>2, <1>4, <1>5, <1>6 DEF Next, ServerStep

LEMMA SpecTimed == Spec => [](Sound /\ TimerTested /\ LeasesTimed)
<1>1. Init => TimerTested
  BY SizesAssumption DEF Init, TimerTested, Aging
<1>2. Sound /\ Init => LeasesTimed
  <2> SUFFICES ASSUME Sound, Init, NEW ip \in IPs
               PROVE  Timed(Lease[ip], quiet[ip], SinceRound)
    BY LeasesTimedIs
  <2>1. \A k \in Peers : ~(RoundsLeft(k) > 0)
    BY SizesAssumption DEF Init, RoundsLeft, Live, Empty, Peers, Index
  <2>2. Lease[ip] = 0
    BY <2>1, LeaseOfSlot DEF Sound
  <2>3. quiet[ip] = MaxQuiet
    BY DEF Init
  <2>4. QED
    BY <2>2, <2>3 DEF Timed
<1>3. Sound => Typed
  BY DEF Sound
<1>4. QED
  BY <1>1, <1>2, <1>3, TimerNext, LeasesTimedNext, SpecSound, PTL DEF Spec

\* While the thread waits no round is pending, so the leases are the table.
LEMMA LeaseAtSelect ==
  ASSUME Sound, pc = "select", NEW ip \in IPs
  PROVE  Listed(ip) <=> Lease[ip] > 0
<1>1. \A k \in Peers : RoundsLeft(k) > 0 <=> Live(k)
  BY DEF RoundsLeft, Live
<1>2. ASSUME Listed(ip) PROVE Lease[ip] > 0
  <2>1. PICK k \in Peers : Holds(k, ip)
    BY <1>2 DEF Listed
  <2>2. client_list[k].ip = ip /\ RoundsLeft(k) > 0
    BY <1>1, <2>1 DEF Holds
  <2>3. QED
    BY <2>2, LeaseOfSlot DEF Sound
<1>3. ~Listed(ip) => Lease[ip] = 0
  BY DEF Lease
<1>4. QED
  BY <1>2, <1>3

\* A node that was heard in the last four seconds is listed, whatever else the
\* table did meanwhile: the aging round that a datagram delays, and the two
\* that may fall close together, still leave it a round.
THEOREM HeardNodesListed == Spec => []HeardIsListed
<1>1. Sound /\ TimerTested /\ LeasesTimed => HeardIsListed
  <2> SUFFICES ASSUME Sound, TimerTested, LeasesTimed, pc = "select",
                      NEW ip \in IPs, quiet[ip] <= 2 * Period, quiet[ip] < MaxQuiet
               PROVE  Listed(ip)
    BY DEF HeardIsListed
  <2>1. SinceRound = since /\ since \in Nat /\ quiet[ip] \in Int
    BY SizesAssumption DEF SinceRound, Aging, Sound, Typed, TypeOK
  <2>2. Timed(Lease[ip], quiet[ip], since)
    BY <2>1, LeasesTimedIs
  <2>3. Lease[ip] # 0
    BY <2>1, <2>2, TimedValues, SizesAssumption
  <2>4. Lease[ip] > 0
    BY <2>3, LeaseRange
  <2>5. QED
    BY <2>4, LeaseAtSelect
<1>2. QED
  BY <1>1, SpecTimed, PTL

\* A node that has been silent for three of the longest aging periods is gone,
\* although every announcement of another node restarts the two seconds that
\* the thread waits for before it tests the timer without data.
THEOREM SilentNodesGone == Spec => []SilentIsGone
<1>1. Sound /\ TimerTested /\ LeasesTimed => SilentIsGone
  <2> SUFFICES ASSUME Sound, TimerTested, LeasesTimed, pc = "select",
                      NEW ip \in IPs, quiet[ip] > 3 * (2 * Period - 1), Listed(ip)
               PROVE  FALSE
    BY DEF SilentIsGone
  <2>1. SinceRound = since /\ since \in Nat /\ since < 2 * Period /\ quiet[ip] \in Int
    BY SizesAssumption DEF SinceRound, Aging, Sound, Typed, TypeOK, TimerTested
  <2>2. Timed(Lease[ip], quiet[ip], since)
    BY <2>1, LeasesTimedIs
  <2>3. Lease[ip] \in {1, 2, 3}
    BY LeaseAtSelect, LeaseRange DEF AGE_COUNT
  <2>4. QED
    BY <2>1, <2>2, <2>3, TimedValues, SizesAssumption
<1>2. QED
  BY <1>1, SpecTimed, PTL
=============================================================================
