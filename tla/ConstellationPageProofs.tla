----------------------- MODULE ConstellationPageProofs -----------------------
(***************************************************************************)
(* Proofs about ConstellationPage for any table size, any nodes and any    *)
(* sequence of pages: UndisturbedPageIsTheList and NoNodeTwice; and that a  *)
(* node whose own address stays never shares it with a listed one.         *)
(*                                                                         *)
(* The exchange sort of sort_client_list is correct when nothing changes   *)
(* the list meanwhile; and when the list is rebuilt from the same slots    *)
(* each entry gets the node it had, so that a row shows an old or a new    *)
(* copy of the same node.                                                  *)
(***************************************************************************)
EXTENDS ConstellationPage, ClientTableProofs, SequenceTheorems

Cells == IPs \cup {NoIP, BootIP, Unset, Missing}

PageTypes ==
  /\ sort_array \in [Index -> Index \cup {Unset}]
  /\ web \in {"idle", "sort", "row", "copy"}
  /\ sortby \in SortNames
  /\ si \in 0 .. MaxEntry /\ sj \in 0 .. MaxEntry
  /\ si <= sj /\ (si < sj => si < MaxEntry)
  /\ rows \in Seq(Cells)
  /\ Len(rows) <= MaxEntry /\ (web = "copy" => Len(rows) < MaxEntry)
  /\ web = "sort" => rows = <<>> /\ sortby \in {"name", "ip"}

PageTyped == Typed /\ PageTypes

\* Typed holds here because the pages leave the server thread alone.
LEMMA PageImpliesTable == PageSpec => Spec
<1>1. PageInit => Init
  BY DEF PageInit
<1>2. [TableStep \/ PageStep]_allVars => [Next]_vars
  <2> SUFFICES ASSUME TableStep \/ PageStep \/ UNCHANGED allVars
               PROVE  Next \/ UNCHANGED vars
    OBVIOUS
  <2>1. TableStep => Next
    BY DEF TableStep
  <2>2. ASSUME NEW by \in Sorts, PageBegin(by) PROVE UNCHANGED vars
    BY <2>2 DEF PageBegin
  <2>3. PageStep => UNCHANGED vars
    BY <2>2 DEF PageStep, SortOuter, SortNext, SortCompare, RowStart, RowCopy, PageEnd
  <2>4. UNCHANGED allVars => UNCHANGED vars
    BY DEF allVars, vars
  <2>5. QED
    BY <2>1, <2>3, <2>4
<1>3. QED
  BY <1>1, <1>2, PTL DEF PageSpec, Spec

LEMMA AppendRow ==
  ASSUME rows \in Seq(Cells), NEW c \in Cells
  PROVE  /\ Append(rows, c) \in Seq(Cells)
         /\ Len(rows) \in Nat /\ Len(Append(rows, c)) = Len(rows) + 1
         /\ \A k \in 1 .. Len(rows) : Append(rows, c)[k] = rows[k]
         /\ Append(rows, c)[Len(rows) + 1] = c
BY AppendProperties, LenProperties

\* What RowCopy appends.
LEMMA CopiedCell ==
  ASSUME PageTyped, web = "copy"
  PROVE  /\ Len(rows) \in Index
         /\ LET e == EntryOf(Len(rows))
            IN  (IF e = Unset THEN Unset ELSE client_valid_list[e].ip) \in Cells
<1>1. Len(rows) \in Index
  BY LenProperties, SizesAssumption DEF PageTyped, PageTypes, Index
<1>2. EntryOf(Len(rows)) \in Index \cup {Unset}
  BY <1>1 DEF PageTyped, PageTypes, EntryOf
<1>3. QED
  BY <1>1, <1>2 DEF PageTyped, Typed, TypeOK, Cells

LEMMA PageTypedNext ==
  PageTyped /\ Typed' /\ [TableStep \/ PageStep]_allVars => PageTypes'
<1> SUFFICES ASSUME PageTyped, Typed', [TableStep \/ PageStep]_allVars
             PROVE  PageTypes'
  OBVIOUS
<1>0. /\ client_valid_num \in 0 .. MaxEntry /\ MaxEntry \in Nat \ {0} /\ PageTypes
      /\ UNCHANGED vars => client_valid_num' = client_valid_num
  BY SizesAssumption DEF PageTyped, Typed, TypeOK, vars
<1>1. CASE UNCHANGED <<sort_array, web, sortby, si, sj, rows>>
  BY <1>0, <1>1 DEF PageTypes
<1>2. ASSUME NEW by \in Sorts, PageBegin(by) PROVE PageTypes'
  <2>1. sort_array' \in [Index -> Index \cup {Unset}]
    BY <1>0, <1>2 DEF PageBegin, PageTypes, Index
  <2>2. /\ web' \in {"sort", "row"} /\ sortby' \in SortNames
        /\ web' = "sort" => sortby' \in {"name", "ip"}
    BY <1>2, SortsAssumption DEF PageBegin, SortNames
  <2>3. si' = 0 /\ sj' = 0 /\ rows' = <<>>
    BY <1>2 DEF PageBegin
  <2>4. rows' \in Seq(Cells) /\ Len(rows') = 0
    BY <2>3, EmptySeq
  <2>5. QED
    BY <1>0, <2>1, <2>2, <2>3, <2>4 DEF PageTypes
<1>3. CASE SortOuter
  BY <1>0, <1>3 DEF SortOuter, PageTypes
<1>4. CASE SortNext
  BY <1>0, <1>4 DEF SortNext, PageTypes
<1>5. CASE SortCompare
  <2>1. si \in Index /\ sj \in Index
    BY <1>0, <1>5 DEF SortCompare, PageTypes, Index
  <2>2. sort_array' \in [Index -> Index \cup {Unset}]
    BY <1>0, <1>5, <2>1 DEF SortCompare, PageTypes
  <2>3. QED
    BY <1>0, <1>5, <2>2 DEF SortCompare, PageTypes
<1>6. CASE RowStart
  <2>1. CASE Len(rows) >= client_valid_num
    <3>1. rows' = Append(rows, Missing) /\ Missing \in Cells /\ Len(rows) < MaxEntry
      BY <1>6, <2>1 DEF RowStart, Cells
    <3>2. rows' \in Seq(Cells) /\ Len(rows') <= MaxEntry
      BY <1>0, <3>1, AppendRow DEF PageTypes
    <3>3. QED
      BY <1>0, <1>6, <2>1, <3>2 DEF RowStart, PageTypes
  <2>2. CASE ~(Len(rows) >= client_valid_num)
    BY <1>0, <1>6, <2>2 DEF RowStart, PageTypes
  <2>3. QED
    BY <2>1, <2>2
<1>7. CASE RowCopy
  <2> DEFINE e == EntryOf(Len(rows))
             c == IF e = Unset THEN Unset ELSE client_valid_list[e].ip
  <2>1. web = "copy" /\ c \in Cells /\ rows' = Append(rows, c)
    BY <1>7, CopiedCell DEF RowCopy
  <2> HIDE DEF c
  <2>2. rows' \in Seq(Cells) /\ Len(rows') <= MaxEntry
    BY <1>0, <2>1, AppendRow DEF PageTypes
  <2>3. QED
    BY <1>0, <1>7, <2>2 DEF RowCopy, PageTypes
<1>8. CASE PageEnd
  <2>1. rows' \in Seq(Cells) /\ Len(rows') = 0
    BY <1>8, EmptySeq DEF PageEnd
  <2>2. QED
    BY <1>0, <1>8, <2>1 DEF PageEnd, PageTypes, SortNames
<1>9. QED
  BY <1>1, <1>2, <1>3, <1>4, <1>5, <1>6, <1>7, <1>8 DEF TableStep, PageStep, allVars

LEMMA SpecPageTyped == PageSpec => []PageTyped
<1>1. PageInit => PageTypes
  BY SizesAssumption, EmptySeq DEF PageInit, PageTypes, SortNames
<1>2. PageTyped <=> Typed /\ PageTypes
  BY DEF PageTyped
<1>3. QED
  BY <1>1, <1>2, PageImpliesTable, SpecTyped, PageTypedNext, PTL DEF PageSpec

-----------------------------------------------------------------------------
(* The sort, and the page, of a list that nothing changes. *)

Entries == 0 .. client_valid_num - 1

\* The pointers are the entries, each once.
Permuted ==
  /\ \A k \in Entries : sort_array[k] \in Entries
  /\ \A e \in Entries : \E k \in Entries : sort_array[k] = e

Unmoved == sortby = "none" => \A k \in Entries : sort_array[k] = k

\* The places before m hold the smallest keys, in order.
SortedBefore(m) ==
  \A a, b \in Entries : a < b /\ a < m => SortKey(sort_array[a]) <= SortKey(sort_array[b])

\* Place si holds the smallest of the keys it was compared with.
Smallest == \A b \in Entries : si < b /\ b < sj => SortKey(sort_array[si]) <= SortKey(sort_array[b])

SortGoesOn == web = "sort" => SortedBefore(si) /\ Smallest

SortDone ==
  web \in {"row", "copy"} /\ sortby \in {"name", "ip"} => SortedBefore(client_valid_num)

\* What a row of the list as it is now shows.
RowOf(k) == IF k \in Entries THEN client_valid_list[EntryOf(k)].ip ELSE Missing

RowsSoFar ==
  /\ \A r \in 1 .. Len(rows) : rows[r] = RowOf(r - 1)
  /\ web = "copy" => Len(rows) \in Entries

\* The inductive invariant of a page that the list's rebuilding has not met.
Undisturbed ==
  web # "idle" /\ ~torn =>
    /\ ~Rebuilding
    /\ sortby # "advance" => Permuted /\ Unmoved
    /\ SortGoesOn /\ SortDone
    /\ RowsSoFar

\* A step that the page does not notice.
LEMMA UndisturbedKept ==
  ASSUME Undisturbed, UNCHANGED <<sort_array, web, sortby, si, sj, rows>>,
         UNCHANGED <<client_valid_num, client_valid_list>>,
         web' # "idle" /\ ~torn' => ~torn /\ ~Rebuilding'
  PROVE  Undisturbed'
<1>1. ASSUME web # "idle", ~torn, ~Rebuilding' PROVE Undisturbed'
  <2>1. sortby # "advance" => Permuted' /\ Unmoved'
    BY <1>1 DEF Undisturbed, Permuted, Unmoved, Entries
  <2>2. SortGoesOn' /\ SortDone'
    BY <1>1 DEF Undisturbed, SortGoesOn, SortDone, SortedBefore, Smallest, SortKey, Entries
  <2>3. RowsSoFar'
    BY <1>1 DEF Undisturbed, RowsSoFar, RowOf, EntryOf, Entries
  <2>4. QED
    BY <1>1, <2>1, <2>2, <2>3 DEF Undisturbed
<1>2. QED
  BY <1>1 DEF Undisturbed

\* While the list is not rebuilt, its length stays too.
LEMMA UndisturbedTable == Undisturbed /\ TableStep => Undisturbed'
<1> SUFFICES ASSUME Undisturbed, TableStep PROVE Undisturbed'
  OBVIOUS
<1>1. UNCHANGED <<sort_array, web, sortby, si, sj, rows>>
  BY DEF TableStep
<1>2. CASE web = "idle" \/ torn'
  BY <1>1, <1>2 DEF Undisturbed
<1>3. CASE web # "idle" /\ ~torn'
  <2>1. torn' = (torn \/ (web # "idle" /\ (Rebuilding' \/ client_valid_list' # client_valid_list)))
    BY DEF TableStep
  <2>2. ~torn /\ ~Rebuilding' /\ client_valid_list' = client_valid_list
    BY <1>3, <2>1
  <2>3. ~Rebuilding
    BY <1>3, <2>2 DEF Undisturbed
  <2>4. client_valid_num' = client_valid_num
    BY <2>2, <2>3 DEF TableStep, Next, ServerStep, Tick, Receive, Timeout, Wake, AgeSelf, AgeStart,
       AgeSlot, AgeEnd, NoData, OwnEcho, Refresh, AddNode, TableFull, Populate, NewAddress,
       Rebuilding, table
  <2>5. QED
    BY <1>1, <1>3, <2>2, <2>4, UndisturbedKept
<1>4. QED
  BY <1>2, <1>3

LEMMA UndisturbedBegin ==
  ASSUME PageTyped, NEW by \in Sorts, PageBegin(by)
  PROVE  Undisturbed'
<1>1. /\ client_valid_num \in 0 .. MaxEntry /\ MaxEntry \in Nat \ {0}
      /\ UNCHANGED <<client_valid_num, client_valid_list, pc>>
      /\ Entries \subseteq Index
  BY SizesAssumption DEF PageBegin, PageTyped, Typed, TypeOK, vars, Entries, Index
<1>2. CASE torn'
  BY <1>2 DEF Undisturbed
<1>3. CASE ~torn'
  <2>1. ~Rebuilding'
    BY <1>1, <1>3 DEF PageBegin, Rebuilding
  <2>2. by # "advance" => \A k \in Entries : sort_array'[k] = k
    BY <1>1 DEF PageBegin, Entries
  <2>3. Entries' = Entries
    BY <1>1 DEF Entries
  <2>4. sortby' # "advance" => Permuted' /\ Unmoved'
    BY <2>2, <2>3 DEF PageBegin, Permuted, Unmoved
  <2>5. si' = 0 /\ sj' = 0 /\ rows' = <<>> /\ web' \in {"sort", "row"} /\ sortby' = by
    BY DEF PageBegin
  <2>6. SortedBefore(si)' /\ Smallest'
    BY <1>1, <2>3, <2>5 DEF SortedBefore, Smallest, Entries
  <2>7. SortDone'
    BY DEF PageBegin, SortDone
  <2>8. RowsSoFar'
    BY <2>5, EmptySeq DEF RowsSoFar
  <2>9. QED
    BY <2>1, <2>4, <2>6, <2>7, <2>8 DEF Undisturbed, SortGoesOn
<1>4. QED
  BY <1>2, <1>3

\* An exchange keeps the pointers a permutation.
LEMMA SwapPermuted ==
  ASSUME PageTyped, Permuted, NEW a \in Entries, NEW b \in Entries,
         UNCHANGED client_valid_num,
         sort_array' = [sort_array EXCEPT ![a] = sort_array[b], ![b] = sort_array[a]]
  PROVE  Permuted'
<1>1. Entries' = Entries /\ Entries \subseteq Index
  BY SizesAssumption DEF Entries, Index, PageTyped, Typed, TypeOK
<1>2. \A k \in Entries : sort_array'[k] = IF k = b THEN sort_array[a]
                                          ELSE IF k = a THEN sort_array[b] ELSE sort_array[k]
  BY <1>1 DEF PageTyped, PageTypes
<1>3. \A k \in Entries : sort_array'[k] \in Entries
  BY <1>2 DEF Permuted
<1>4. ASSUME NEW e \in Entries PROVE \E k \in Entries : sort_array'[k] = e
  <2>1. PICK k \in Entries : sort_array[k] = e
    BY DEF Permuted
  <2>2. CASE k = a
    BY <1>2, <2>1, <2>2
  <2>3. CASE k = b
    BY <1>2, <2>1, <2>3
  <2>4. CASE k # a /\ k # b
    BY <1>2, <2>1, <2>4
  <2>5. QED
    BY <2>2, <2>3, <2>4
<1>5. QED
  BY <1>1, <1>3, <1>4 DEF Permuted

\* The keys are numbers.
LEMMA KeysOrdered ==
  ASSUME PageTyped, NEW e \in Index
  PROVE  SortKey(e) \in Int
<1>1. client_valid_list[e].ip \in IPs \cup {NoIP, BootIP} /\ client_valid_list[e].info \in Infos \cup {NoInfo}
  BY DEF PageTyped, Typed, TypeOK
<1>2. QED
  BY <1>1, SortsAssumption DEF SortKey

\* One comparison of the sort.
LEMMA UndisturbedCompare ==
  ASSUME PageTyped, Undisturbed, SortCompare
  PROVE  Undisturbed'
<1>0. /\ UNCHANGED <<client_valid_num, client_valid_list, web, sortby, si, rows, torn, pc>>
      /\ web = "sort" /\ rows = <<>> /\ sortby \in {"name", "ip"} /\ sj' = sj + 1
      /\ si < sj /\ sj < client_valid_num
      /\ si \in Nat /\ sj \in Nat /\ client_valid_num \in 0 .. MaxEntry
      /\ \E swap \in SwapsOf(sort_array[si], sort_array[sj]) :
           sort_array' = IF swap
                         THEN [sort_array EXCEPT ![si] = sort_array[sj], ![sj] = sort_array[si]]
                         ELSE sort_array
  BY DEF SortCompare, PageTyped, PageTypes, Typed, TypeOK, vars
<1>1. CASE torn'
  BY <1>1 DEF Undisturbed
<1>2. CASE ~torn'
  <2>1. ~torn
    BY <1>0, <1>2
  <2>2. /\ ~Rebuilding' /\ Permuted /\ SortedBefore(si) /\ Smallest
    BY <1>0, <2>1 DEF Undisturbed, SortGoesOn, Rebuilding
  <2>3. /\ Entries' = Entries /\ Entries \subseteq Index /\ si \in Entries /\ sj \in Entries
    BY <1>0, SizesAssumption DEF Entries, Index
  <2>4. \A k \in Entries : sort_array[k] \in Entries /\ sort_array[k] \in Index /\ sort_array[k] # Unset
    BY <2>2, <2>3, SortsAssumption DEF Permuted
  <2>5. \A e \in Index : SortKey(e)' = SortKey(e) /\ SortKey(e) \in Int
    BY <1>0, KeysOrdered DEF SortKey
  <2> DEFINE key(k) == SortKey(sort_array[k])
             exchanged == [sort_array EXCEPT ![si] = sort_array[sj], ![sj] = sort_array[si]]
  <2>6. \A k \in Entries : key(k) \in Int
    BY <2>4, <2>5
  <2>7. SwapsOf(sort_array[si], sort_array[sj]) = {key(si) > key(sj)}
    BY <2>3, <2>4 DEF SwapsOf
  <2>8. \/ key(si) > key(sj) /\ sort_array' = exchanged
        \/ ~(key(si) > key(sj)) /\ sort_array' = sort_array
    BY <1>0, <2>7
  <2>9. RowsSoFar'
    BY <1>0, EmptySeq DEF RowsSoFar
  <2>10. CASE ~(key(si) > key(sj)) /\ sort_array' = sort_array
    <3>1. \A k \in Entries : SortKey(sort_array[k])' = key(k)
      BY <2>4, <2>5, <2>10
    <3>2. Permuted'
      BY <2>2, <2>3, <2>10 DEF Permuted
    <3>3. SortedBefore(si)'
      BY <1>0, <2>2, <2>3, <3>1 DEF SortedBefore
    <3>4. Smallest'
      <4> SUFFICES ASSUME NEW b \in Entries, si < b, b < sj + 1
                   PROVE  SortKey(sort_array[si])' <= SortKey(sort_array[b])'
        BY <1>0, <2>3 DEF Smallest
      <4>1. SortKey(sort_array[si])' = key(si) /\ SortKey(sort_array[b])' = key(b)
        BY <1>0, <2>3, <3>1
      <4>2. b < sj => key(si) <= key(b)
        BY <2>2 DEF Smallest
      <4>3. b < sj \/ b = sj
        BY <1>0 DEF Entries
      <4> HIDE DEF key
      <4>4. key(si) <= key(b)
        BY <2>3, <2>6, <2>10, <4>2, <4>3
      <4>5. QED
        BY <4>1, <4>4
    <3>5. QED
      BY <1>0, <2>2, <2>9, <3>2, <3>3, <3>4 DEF Undisturbed, Unmoved, SortGoesOn, SortDone
  <2>11. CASE key(si) > key(sj) /\ sort_array' = exchanged
    <3>1. Permuted'
      BY <1>0, <2>2, <2>3, <2>11, SwapPermuted
    <3>2. \A k \in Entries : sort_array'[k] = IF k = sj THEN sort_array[si]
                                              ELSE IF k = si THEN sort_array[sj] ELSE sort_array[k]
      BY <2>3, <2>11 DEF PageTyped, PageTypes
    <3>3. \A k \in Entries : SortKey(sort_array[k])' = IF k = sj THEN key(si)
                                                       ELSE IF k = si THEN key(sj) ELSE key(k)
      BY <2>3, <2>4, <2>5, <3>2
    <3>4. \A a, b \in Entries : a < b /\ a < si => key(a) <= key(b)
      BY <2>2 DEF SortedBefore
    <3>5. \A b \in Entries : si < b /\ b < sj => key(si) <= key(b)
      BY <2>2 DEF Smallest
    <3> HIDE DEF key
    <3>6. SortedBefore(si)'
      <4> SUFFICES ASSUME NEW a \in Entries, NEW b \in Entries, a < b, a < si
                   PROVE  SortKey(sort_array[a])' <= SortKey(sort_array[b])'
        BY <1>0, <2>3 DEF SortedBefore
      <4>1. a # si /\ a # sj /\ a < sj
        BY <1>0 DEF Entries
      <4>2. SortKey(sort_array[a])' = key(a)
        BY <3>3, <4>1
      <4>3. key(a) <= key(b) /\ key(a) <= key(si) /\ key(a) <= key(sj)
        BY <2>3, <3>4, <4>1
      <4>4. QED
        BY <3>3, <4>2, <4>3
    <3>7. Smallest'
      <4> SUFFICES ASSUME NEW b \in Entries, si < b, b < sj + 1
                   PROVE  SortKey(sort_array[si])' <= SortKey(sort_array[b])'
        BY <1>0, <2>3 DEF Smallest
      <4>1. SortKey(sort_array[si])' = key(sj)
        BY <1>0, <2>3, <3>3
      <4>2. CASE b = sj
        <5>1. SortKey(sort_array[b])' = key(si)
          BY <2>3, <3>3, <4>2
        <5>2. key(sj) <= key(si)
          BY <2>3, <2>6, <2>11
        <5>3. QED
          BY <4>1, <5>1, <5>2
      <4>3. CASE b # sj
        <5>1. b < sj /\ b # si
          BY <1>0, <4>3 DEF Entries
        <5>2. SortKey(sort_array[b])' = key(b)
          BY <3>3, <4>3, <5>1
        <5>3. key(si) <= key(b)
          BY <3>5, <5>1
        <5>4. QED
          BY <2>3, <2>6, <2>11, <4>1, <5>2, <5>3
      <4>4. QED
        BY <4>2, <4>3
    <3>8. QED
      BY <1>0, <2>2, <2>9, <3>1, <3>6, <3>7 DEF Undisturbed, Unmoved, SortGoesOn, SortDone
  <2>12. QED
    BY <2>8, <2>10, <2>11
<1>3. QED
  BY <1>1, <1>2

\* The loops of the sort.
LEMMA UndisturbedLoops ==
  ASSUME PageTyped, Undisturbed, SortOuter \/ SortNext
  PROVE  Undisturbed'
<1>0. /\ UNCHANGED <<client_valid_num, client_valid_list, sortby, rows, torn, pc, sort_array>>
      /\ web = "sort" /\ rows = <<>> /\ sortby \in {"name", "ip"}
      /\ si \in Nat /\ sj \in Nat /\ client_valid_num \in 0 .. MaxEntry
      /\ web' \in {"sort", "row"}
  BY DEF SortOuter, SortNext, PageTyped, PageTypes, Typed, TypeOK, vars
<1>1. CASE torn'
  BY <1>1 DEF Undisturbed
<1>2. CASE ~torn'
  <2>1. ~torn
    BY <1>0, <1>2
  <2>2. ~Rebuilding' /\ Permuted' /\ SortedBefore(si) /\ Smallest
    BY <1>0, <2>1 DEF Undisturbed, SortGoesOn, Rebuilding, Permuted, Entries
  <2>3. Entries' = Entries /\ (\A k \in Entries : SortKey(sort_array[k])' = SortKey(sort_array[k]))
    BY <1>0 DEF Entries, SortKey
  <2>4. RowsSoFar'
    BY <1>0, EmptySeq DEF RowsSoFar
  <2>5. SortGoesOn'
    <3>1. CASE SortOuter
      <4>1. SortedBefore(si)'
        BY <2>2, <2>3, <3>1 DEF SortedBefore, SortOuter
      <4>2. web' = "sort" => si' = si /\ sj' = si + 1
        BY <1>0, <3>1 DEF SortOuter
      <4>3. web' = "sort" => Smallest'
        BY <1>0, <4>2 DEF Smallest, Entries
      <4>4. QED
        BY <4>1, <4>3 DEF SortGoesOn
    <3>2. CASE SortNext
      <4>1. si' = si + 1 /\ sj' = si + 1 /\ client_valid_num <= sj
        BY <1>0, <3>2 DEF SortNext
      <4>2. ASSUME NEW a \in Entries, NEW b \in Entries, a < b, a < si'
            PROVE  SortKey(sort_array[a])' <= SortKey(sort_array[b])'
        <5>1. CASE a < si
          BY <2>2, <2>3, <4>2, <5>1 DEF SortedBefore
        <5>2. CASE ~(a < si)
          <6>1. a = si /\ si < b /\ b < sj
            BY <1>0, <4>1, <4>2, <5>2 DEF Entries
          <6>2. QED
            BY <2>2, <2>3, <6>1 DEF Smallest
        <5>3. QED
          BY <5>1, <5>2
      <4>3. SortedBefore(si)'
        BY <2>3, <4>2 DEF SortedBefore
      <4>4. Smallest'
        BY <1>0, <4>1 DEF Smallest, Entries
      <4>5. QED
        BY <4>3, <4>4 DEF SortGoesOn
    <3>3. QED
      BY <3>1, <3>2
  <2>6. SortDone'
    <3>1. ASSUME web' = "row" PROVE SortedBefore(client_valid_num)'
      <4>1. client_valid_num <= si
        BY <1>0, <3>1 DEF SortOuter, SortNext
      <4>2. \A a \in Entries : a < si
        BY <1>0, <4>1 DEF Entries
      <4>3. QED
        BY <2>2, <2>3, <4>2 DEF SortedBefore
    <3>2. QED
      BY <1>0, <3>1 DEF SortDone
  <2>7. QED
    BY <1>0, <2>2, <2>4, <2>5, <2>6 DEF Undisturbed, Unmoved
<1>3. QED
  BY <1>1, <1>2

\* A row is written.
LEMMA UndisturbedRow ==
  ASSUME PageTyped, Undisturbed, RowStart \/ RowCopy
  PROVE  Undisturbed'
<1>0. /\ UNCHANGED <<client_valid_num, client_valid_list, sortby, torn, pc, sort_array, si, sj>>
      /\ web \in {"row", "copy"} /\ web' \in {"row", "copy"}
      /\ client_valid_num \in 0 .. MaxEntry /\ rows \in Seq(Cells) /\ Len(rows) \in Nat
      /\ MaxEntry \in Nat
  BY LenProperties, SizesAssumption DEF RowStart, RowCopy, PageTyped, PageTypes, Typed, TypeOK, vars
<1>1. CASE torn'
  BY <1>1 DEF Undisturbed
<1>2. CASE ~torn'
  <2>1. ~torn
    BY <1>0, <1>2
  <2>2. /\ ~Rebuilding' /\ (sortby' # "advance" => Permuted' /\ Unmoved')
        /\ (sortby # "advance" => Permuted) /\ RowsSoFar
    BY <1>0, <2>1 DEF Undisturbed, Rebuilding, Permuted, Unmoved, Entries
  <2>3. SortGoesOn' /\ SortDone'
    BY <1>0, <2>1 DEF Undisturbed, SortGoesOn, SortDone, SortedBefore, SortKey, Entries
  <2>4. Entries' = Entries /\ (\A k \in Int : RowOf(k)' = RowOf(k))
    BY <1>0 DEF Entries, RowOf, EntryOf
  <2>5. ASSUME NEW c \in Cells, rows' = Append(rows, c), c = RowOf(Len(rows))
        PROVE  \A r \in 1 .. Len(rows') : rows'[r] = RowOf(r - 1)'
    <3>1. /\ Len(rows') = Len(rows) + 1
          /\ \A k \in 1 .. Len(rows) : rows'[k] = rows[k]
          /\ rows'[Len(rows) + 1] = c
      BY <1>0, <2>5, AppendRow
    <3>2. TAKE r \in 1 .. Len(rows')
    <3>3. RowOf(r - 1)' = RowOf(r - 1)
      BY <1>0, <2>4, <3>1
    <3>4. CASE r \in 1 .. Len(rows)
      BY <2>2, <3>1, <3>3, <3>4 DEF RowsSoFar
    <3>5. CASE r = Len(rows) + 1
      <4>1. r - 1 = Len(rows)
        BY <1>0, <3>5
      <4>2. QED
        BY <2>5, <3>1, <3>3, <3>5, <4>1
    <3>6. QED
      BY <1>0, <3>1, <3>4, <3>5
  <2>6. RowsSoFar'
    <3>1. CASE RowStart /\ Len(rows) >= client_valid_num
      <4>1. rows' = Append(rows, Missing) /\ Missing \in Cells /\ web' = "row"
        BY <3>1 DEF RowStart, Cells
      <4>2. Missing = RowOf(Len(rows))
        BY <1>0, <3>1 DEF RowOf, Entries
      <4>3. QED
        BY <2>5, <4>1, <4>2 DEF RowsSoFar
    <3>2. CASE RowStart /\ ~(Len(rows) >= client_valid_num)
      <4>1. rows' = rows /\ Len(rows) \in Entries
        BY <1>0, <3>2 DEF RowStart, Entries
      <4>2. \A r \in 1 .. Len(rows) : r - 1 \in Int
        OBVIOUS
      <4>3. QED
        BY <2>2, <2>4, <4>1, <4>2 DEF RowsSoFar
    <3>3. CASE RowCopy
      <4> DEFINE e == EntryOf(Len(rows))
                 c == IF e = Unset THEN Unset ELSE client_valid_list[e].ip
      <4>1. web = "copy" /\ c \in Cells /\ rows' = Append(rows, c) /\ web' = "row"
        BY <3>3, CopiedCell DEF RowCopy
      <4>2. Len(rows) \in Entries /\ Entries \subseteq Index
        BY <1>0, <2>2, <4>1 DEF RowsSoFar, Entries, Index
      <4>3. e # Unset
        BY <2>2, <4>2, SortsAssumption DEF EntryOf, Permuted
      <4>4. c = RowOf(Len(rows))
        BY <4>2, <4>3 DEF RowOf
      <4> HIDE DEF c
      <4>5. QED
        BY <2>5, <4>1, <4>4 DEF RowsSoFar
    <3>4. QED
      BY <3>1, <3>2, <3>3
  <2>7. QED
    BY <2>2, <2>3, <2>6 DEF Undisturbed
<1>3. QED
  BY <1>1, <1>2

\* A page that the rebuilding of the list has not met shows the list, sorted as
\* asked, whatever earlier sorts left in the pointers, which the code resets
\* only up to the length of the list: sort_client_list's exchange sort is
\* correct, and the rows follow it.
THEOREM UndisturbedPages == PageSpec => []UndisturbedPageIsTheList
<1>1. PageInit => Undisturbed
  BY DEF PageInit, Undisturbed
<1>2. PageTyped /\ Undisturbed /\ [TableStep \/ PageStep]_allVars => Undisturbed'
  <2> SUFFICES ASSUME PageTyped, Undisturbed, [TableStep \/ PageStep]_allVars
               PROVE  Undisturbed'
    OBVIOUS
  <2>1. CASE PageEnd
    BY <2>1 DEF PageEnd, Undisturbed
  <2>2. CASE UNCHANGED allVars
    <3>1. UNCHANGED <<torn, pc>> /\ UNCHANGED <<sort_array, web, sortby, si, sj, rows>>
          /\ UNCHANGED <<client_valid_num, client_valid_list>>
      BY <2>2 DEF allVars
    <3>2. web' # "idle" /\ ~torn' => ~torn /\ ~Rebuilding'
      BY <3>1 DEF Undisturbed, Rebuilding
    <3>3. QED
      BY <3>1, <3>2, UndisturbedKept
  <2>3. QED
    BY <2>1, <2>2, UndisturbedTable, UndisturbedBegin, UndisturbedCompare, UndisturbedLoops,
       UndisturbedRow DEF PageStep
<1>3. PageTyped /\ Undisturbed => UndisturbedPageIsTheList
  <2> SUFFICES ASSUME PageTyped, Undisturbed, PageDone, ~torn
               PROVE  /\ {EntryOf(k) : k \in Entries} = Entries
                      /\ \A k \in Index : rows[k + 1] = RowOf(k)
                      /\ \A a, b \in Entries : a < b => InOrder(a, b)
    BY DEF UndisturbedPageIsTheList, Entries, RowOf
  <2>1. /\ web = "row" /\ Len(rows) = MaxEntry /\ sortby \in SortNames
        /\ (sortby # "advance" => Permuted /\ Unmoved) /\ SortDone /\ RowsSoFar
        /\ client_valid_num \in 0 .. MaxEntry /\ MaxEntry \in Nat
    BY SizesAssumption DEF PageDone, Undisturbed, PageTyped, PageTypes, Typed, TypeOK
  <2>2. {EntryOf(k) : k \in Entries} = Entries
    <3>1. CASE sortby = "advance"
      BY <3>1 DEF EntryOf
    <3>2. CASE sortby # "advance"
      <4>1. Permuted /\ \A k \in Entries : EntryOf(k) = sort_array[k]
        BY <2>1, <3>2 DEF EntryOf
      <4>2. QED
        BY <4>1 DEF Permuted
    <3>3. QED
      BY <3>1, <3>2
  <2>3. ASSUME NEW k \in Index PROVE rows[k + 1] = RowOf(k)
    <3>1. k + 1 \in 1 .. Len(rows) /\ (k + 1) - 1 = k
      BY <2>1 DEF Index
    <3>2. rows[k + 1] = RowOf((k + 1) - 1)
      BY <2>1, <3>1 DEF RowsSoFar
    <3>3. QED
      BY <3>1, <3>2
  <2>4. ASSUME NEW a \in Entries, NEW b \in Entries, a < b PROVE InOrder(a, b)
    <3>1. CASE sortby \in {"advance", "none"}
      <4>1. EntryOf(a) = a /\ EntryOf(b) = b
        BY <2>1, <3>1 DEF EntryOf, Unmoved
      <4>2. QED
        BY <2>4, <3>1, <4>1 DEF InOrder
    <3>2. CASE sortby \in {"name", "ip"}
      <4>1. SortedBefore(client_valid_num) /\ a < client_valid_num
        BY <2>1, <3>2 DEF SortDone, Entries
      <4>2. SortKey(sort_array[a]) <= SortKey(sort_array[b])
        BY <2>4, <4>1 DEF SortedBefore
      <4>3. QED
        BY <3>2, <4>2 DEF InOrder, EntryOf
    <3>3. QED
      BY <2>1, <3>1, <3>2 DEF SortNames
  <2>5. QED
    BY <2>2, <2>3, <2>4
<1>4. QED
  BY <1>1, <1>2, <1>3, SpecPageTyped, PTL DEF PageSpec

-----------------------------------------------------------------------------
(* A page during which the list is rebuilt from the same nodes. *)

LiveSlots == {k \in Peers : Live(k)}

\* Our own entry and an entry for every live slot.
AllEntries == 0 .. Place(MaxEntry) - 1

\* While the address of our entry is a listed node's, it is known to be shared.
SharingSeen == web # "idle" /\ Sharing => shared

\* Every entry keeps its node while it is written again.
SameNodes ==
  web # "idle" /\ ~moved =>
    /\ \A k \in LiveSlots : client_valid_list[Place(k)].ip = client_list[k].ip
    /\ pc # "slot" => client_valid_num = Place(MaxEntry)

\* The sort has seen all of the list: no entry twice.
OnePointerEach ==
  web # "idle" /\ ~moved /\ ~unsorted =>
    /\ web = "sort" => ~Rebuilding
    /\ sortby # "advance" =>
         /\ \A k \in AllEntries : sort_array[k] \in AllEntries
         /\ \A j, k \in AllEntries : sort_array[j] = sort_array[k] => j = k

\* The node of entry e has this address; ours is no listed node's, or shared.
NodeOf(e, ip) ==
  IF e = 0 THEN shared \/ \A k \in LiveSlots : client_list[k].ip # ip
  ELSE \E k \in LiveSlots : Place(k) = e /\ client_list[k].ip = ip

RowsShowNodes ==
  web # "idle" /\ ~moved /\ ~unsorted =>
    /\ web = "copy" => Len(rows) \in AllEntries
    /\ \A r \in 1 .. Len(rows) :
         rows[r] \in IPs => r - 1 \in AllEntries /\ NodeOf(EntryOf(r - 1), rows[r])

Steady == Sound /\ ListBuilt /\ PageTyped

LEMMA SpecSteady == PageSpec => []Steady
<1>1. Steady <=> Sound /\ (Typed /\ ListBuilt) /\ PageTyped
  BY DEF Steady, Sound
<1>2. QED
  BY <1>1, PageImpliesTable, SpecSound, SpecListBuilt, SpecPageTyped, PTL

LEMMA SharingSeenNext ==
  SharingSeen /\ [TableStep \/ PageStep]_allVars => SharingSeen'
<1> SUFFICES ASSUME SharingSeen, [TableStep \/ PageStep]_allVars, web' # "idle", Sharing'
             PROVE  shared'
  BY DEF SharingSeen
<1>1. CASE TableStep
  BY <1>1 DEF TableStep
<1>2. ASSUME UNCHANGED <<client_list, client_valid_list>> PROVE Sharing
  BY <1>2 DEF Sharing, Live
<1>3. ASSUME NEW by \in Sorts, PageBegin(by) PROVE shared'
  BY <1>2, <1>3 DEF PageBegin, vars
<1>4. CASE SortOuter \/ SortNext \/ SortCompare \/ RowStart \/ RowCopy
  BY <1>2, <1>4 DEF SharingSeen, SortOuter, SortNext, SortCompare, RowStart, RowCopy, vars
<1>5. CASE PageEnd
  BY <1>5 DEF PageEnd
<1>6. CASE UNCHANGED allVars
  BY <1>2, <1>6 DEF SharingSeen, allVars
<1>7. QED
  BY <1>1, <1>3, <1>4, <1>5, <1>6 DEF PageStep

\* The slots before m, of the live ones.
LEMMA LiveBefore == \A m : Before(m) = {j \in LiveSlots : j < m}
BY DEF Before, LiveSlots

LEMMA PlacesOfAll ==
  /\ Place(MaxEntry) \in Nat \ {0} /\ Before(MaxEntry) = LiveSlots
  /\ \A k \in LiveSlots : k \in Peers /\ k \in Int /\ Place(k) \in Nat \ {0} /\ Place(k) < Place(MaxEntry)
<1>1. MaxEntry \in Int /\ \A k \in Peers : k \in Int /\ k < MaxEntry
  BY SizesAssumption DEF Peers
<1>2. QED
  BY <1>1, BeforeFinite, PlacesGrow DEF LiveSlots, Before

LEMMA PlacesDiffer ==
  ASSUME NEW j \in LiveSlots, NEW k \in LiveSlots, Place(j) = Place(k)
  PROVE  j = k
<1>1. /\ j \in Peers /\ j \in Int /\ Live(j) /\ Place(j) \in Nat
      /\ k \in Peers /\ k \in Int /\ Live(k) /\ Place(k) \in Nat
  BY PlacesOfAll DEF LiveSlots
<1>2. CASE j < k
  <2>1. Place(j) < Place(k)
    BY <1>1, <1>2, PlacesGrow
  <2>2. QED
    BY <1>1, <2>1
<1>3. CASE k < j
  <2>1. Place(k) < Place(j)
    BY <1>1, <1>3, PlacesGrow
  <2>2. QED
    BY <1>1, <2>1
<1>4. QED
  BY <1>1, <1>2, <1>3

\* Every entry after ours is some live slot's.
LEMMA EntryHasSlot ==
  ASSUME NEW e \in AllEntries, e # 0
  PROVE  \E k \in LiveSlots : Place(k) = e
<1> DEFINE T == 1 .. Place(MaxEntry) - 1
           f == [k \in LiveSlots |-> Place(k)]
<1>1. Place(MaxEntry) - 1 \in Nat /\ Place(MaxEntry) - 1 = Cardinality(LiveSlots)
  <2>1. IsFiniteSet(LiveSlots)
    BY PlacesOfAll, BeforeFinite, SizesAssumption
  <2>2. Cardinality(LiveSlots) \in Nat
    BY <2>1, FS_CardinalityType
  <2>3. QED
    BY <2>2, PlacesOfAll DEF Place
<1>2. IsFiniteSet(T) /\ Cardinality(T) = Place(MaxEntry) - 1
  <2>1. /\ IsFiniteSet(1 .. Place(MaxEntry) - 1)
        /\ Cardinality(1 .. Place(MaxEntry) - 1) =
             IF 1 > Place(MaxEntry) - 1 THEN 0 ELSE Place(MaxEntry) - 1 - 1 + 1
    BY <1>1, FS_Interval
  <2>2. QED
    BY <1>1, <2>1
<1>3. f \in [LiveSlots -> T]
  BY PlacesOfAll
<1>4. f \in Injection(LiveSlots, T)
  BY <1>3, PlacesDiffer DEF Injection, IsInjective
<1>5. f \in Surjection(LiveSlots, T)
  BY <1>1, <1>2, <1>4, FS_Injection
<1>6. e \in T
  BY PlacesOfAll DEF AllEntries
<1>7. QED
  BY <1>5, <1>6 DEF Surjection

\* Our own entry and those of the slots find room in the list.
LEMMA RoomForPlaces == Place(MaxEntry) <= MaxEntry
<1> DEFINE T == 1 .. MaxEntry - 1
<1>1. IsFiniteSet(T) /\ Cardinality(T) = MaxEntry - 1 /\ MaxEntry - 1 \in Nat
  <2>1. /\ IsFiniteSet(1 .. MaxEntry - 1)
        /\ Cardinality(1 .. MaxEntry - 1) = IF 1 > MaxEntry - 1 THEN 0 ELSE MaxEntry - 1 - 1 + 1
    BY SizesAssumption, FS_Interval
  <2>2. QED
    BY <2>1, SizesAssumption
<1>2. LiveSlots \subseteq T
  BY DEF LiveSlots, Peers
<1>3. Cardinality(LiveSlots) <= MaxEntry - 1 /\ Cardinality(LiveSlots) \in Nat
  BY <1>1, <1>2, FS_Subset, FS_CardinalityType
<1>4. QED
  BY <1>3, PlacesOfAll, SizesAssumption DEF Place

LEMMA PlaceInIndex ==
  ASSUME NEW k \in LiveSlots
  PROVE  Place(k) \in Index
BY RoomForPlaces, PlacesOfAll, SizesAssumption DEF Index

\* While no node comes or goes, the slots keep their nodes and their places.
LEMMA SlotsStay ==
  ASSUME Steady, Next, LiveSlots' = LiveSlots
  PROVE  /\ \A k \in LiveSlots : client_list'[k].ip = client_list[k].ip
         /\ \A m : Before(m)' = Before(m)
         /\ \A k \in LiveSlots : Place(k)' = Place(k)
         /\ Place(MaxEntry)' = Place(MaxEntry)
<1>1. \A m : Before(m)' = Before(m)
  BY DEF Before, LiveSlots
<1>2. /\ \A k \in LiveSlots : Place(k)' = Place(k)
      /\ Place(MaxEntry)' = Place(MaxEntry)
  BY <1>1 DEF Place
<1>3. ASSUME NEW k \in LiveSlots PROVE client_list'[k].ip = client_list[k].ip
  <2>0. k \in Index /\ k \in Peers /\ Typed /\ Peers \subseteq Index
    BY SizesAssumption DEF LiveSlots, Peers, Index, Steady, Sound
  <2>1. CASE UNCHANGED client_list
    BY <2>1
  <2>2. CASE AgeSelf \/ AgeSlot
    BY <2>0, <2>2 DEF AgeSelf, AgeSlot, Typed, TypeOK
  <2>3. ASSUME NEW j \in Peers, Fill(j), Live(j) => client_list[j].ip = msg.ip
        PROVE  client_list'[k].ip = client_list[k].ip
    BY <2>0, <2>3 DEF Fill, Typed, TypeOK, LiveSlots
  <2>4. CASE Refresh
    BY <2>3, <2>4 DEF Refresh, FirstHolding, Holds
  <2>5. CASE AddNode
    BY <2>3, <2>5 DEF AddNode, FirstFree
  <2>6. QED
    BY <2>1, <2>2, <2>4, <2>5
    DEF Next, ServerStep, Tick, Receive, Timeout, Wake, AgeStart, AgeEnd, NoData, OwnEcho,
        TableFull, BackToSelect, NewAddress, table
<1>4. QED
  BY <1>1, <1>2, <1>3

\* What ~moved' says of a step of the server thread during a page.
LEMMA NotMoved ==
  ASSUME TableStep, web # "idle", ~moved'
  PROVE  ~moved /\ LiveSlots' = LiveSlots /\ Next /\ (shared => shared')
         /\ UNCHANGED <<sort_array, web, sortby, si, sj, rows>>
<1>1. moved' = (moved \/ (web # "idle" /\ {k \in Peers : Live(k)}' # {k \in Peers : Live(k)}))
  BY DEF TableStep
<1>2. ~moved /\ {k \in Peers : Live(k)}' = {k \in Peers : Live(k)}
  BY <1>1
<1>3. shared => shared'
  BY DEF TableStep
<1>4. QED
  BY <1>2, <1>3 DEF TableStep, LiveSlots

\* The entries that the thread writes get the nodes that they had.
LEMMA EntriesStay ==
  ASSUME Steady, SameNodes, TableStep, web # "idle", ~moved'
  PROVE  /\ \A k \in LiveSlots : client_valid_list'[Place(k)].ip = client_list[k].ip
         /\ pc' # "slot" => client_valid_num' = Place(MaxEntry)
<1>1. ~moved /\ LiveSlots' = LiveSlots /\ Next
  BY NotMoved
<1>2. /\ \A k \in LiveSlots : client_valid_list[Place(k)].ip = client_list[k].ip
      /\ pc # "slot" => client_valid_num = Place(MaxEntry)
  BY <1>1 DEF SameNodes
<1>3. /\ Typed /\ 0 \in Index
      /\ client_valid_list \in [Index -> [ip : IPs \cup {NoIP, BootIP}, info : Infos \cup {NoInfo}]]
  BY SizesAssumption DEF Steady, Sound, Typed, TypeOK, Index
<1>4. \A k \in LiveSlots : k \in Peers /\ k \in Int /\ Place(k) \in Nat \ {0}
                           /\ Place(k) < Place(MaxEntry)
  BY PlacesOfAll
<1>5. ASSUME \A n \in Index \ {0} : client_valid_list'[n] = client_valid_list[n], NEW k \in LiveSlots
      PROVE  client_valid_list'[Place(k)].ip = client_list[k].ip
  <2>1. Place(k) # 0
    BY <1>4
  <2>2. Place(k) \in Index
    BY PlaceInIndex
  <2>3. QED
    BY <1>2, <1>5, <2>1, <2>2
<1>6. CASE AgeSlot
  <2>1. PICK n : n = i
    OBVIOUS
  <2>2. n \in Peers /\ n \in Int /\ n \in Index
    BY <1>3, <1>6, <2>1, SizesAssumption DEF AgeSlot, Peers, Index, Typed, TypeOK
  <2>3. client_valid_num = Place(n)
    BY <1>6, <2>1 DEF AgeSlot, Steady, ListBuilt, Shown
  <2>4. CASE AgeOf(n) > 0
    <3>1. client_valid_list' = [client_valid_list EXCEPT ![Place(n)] =
               [ip |-> client_list[n].ip, info |-> client_list[n].info]]
      BY <1>6, <2>1, <2>3, <2>4 DEF AgeSlot
    <3>2. n \in LiveSlots
      BY <1>3, <2>2, <2>4 DEF AgeOf, Live, LiveSlots, Typed, TypeOK, AGE_COUNT
    <3>3. ASSUME NEW k \in LiveSlots PROVE client_valid_list'[Place(k)].ip = client_list[k].ip
      <4>1. Place(k) \in Index
        BY PlaceInIndex
      <4>2. CASE k = n
        BY <1>3, <3>1, <4>1, <4>2
      <4>3. CASE k # n
        <5>1. Place(k) # Place(n)
          BY <3>2, <4>3, PlacesDiffer
        <5>2. QED
          BY <1>2, <1>3, <3>1, <4>1, <5>1
      <4>4. QED
        BY <4>2, <4>3
    <3>4. QED
      BY <1>6, <3>3 DEF AgeSlot
  <2>5. CASE ~(AgeOf(n) > 0)
    <3>1. UNCHANGED client_valid_list
      BY <1>6, <2>1, <2>5 DEF AgeSlot
    <3>2. QED
      BY <1>2, <1>6, <3>1 DEF AgeSlot
  <2>6. QED
    BY <2>4, <2>5
<1>7. CASE AgeEnd
  <2>1. client_valid_num = Place(MaxEntry)
    BY <1>7 DEF AgeEnd, Steady, ListBuilt, Shown
  <2>2. QED
    BY <1>2, <1>7, <2>1 DEF AgeEnd, table
<1>8. CASE AgeStart
  <2>1. \A n \in Index \ {0} : client_valid_list'[n] = client_valid_list[n]
    BY <1>3, <1>8 DEF AgeStart
  <2>2. pc' = "slot"
    BY <1>8 DEF AgeStart
  <2>3. QED
    BY <1>5, <2>1, <2>2
<1>9. CASE AgeSelf
  <2>1. \A n \in Index \ {0} : client_valid_list'[n] = client_valid_list[n]
    BY <1>3, <1>9 DEF AgeSelf
  <2>2. pc # "slot" /\ client_valid_num' = client_valid_num
    BY <1>9 DEF AgeSelf
  <2>3. QED
    BY <1>2, <1>5, <2>1, <2>2
<1>10. CASE OwnEcho \/ TableFull \/ Refresh \/ AddNode
  <2>0. Populate
    BY <1>10 DEF OwnEcho, TableFull, Refresh, AddNode
  <2>1. \A n \in Index \ {0} : client_valid_list'[n] = client_valid_list[n]
    BY <1>3, <2>0 DEF Populate
  <2>2. pc # "slot" /\ client_valid_num' = client_valid_num
    BY <2>0 DEF Populate
  <2>3. QED
    BY <1>2, <1>5, <2>1, <2>2
<1>11. CASE Tick \/ Receive \/ Timeout \/ NoData \/ NewAddress
  <2>1. UNCHANGED client_valid_list /\ client_valid_num' = client_valid_num
        /\ (pc' # "slot" => pc # "slot")
    BY <1>11 DEF Tick, Receive, Timeout, Wake, NoData, NewAddress, table
  <2>2. QED
    BY <1>2, <2>1
<1>12. QED
  BY <1>1, <1>6, <1>7, <1>8, <1>9, <1>10, <1>11 DEF Next, ServerStep

\* A step of the page leaves the table alone.
LEMMA PageLeavesTable ==
  ASSUME PageStep \/ UNCHANGED allVars
  PROVE  /\ UNCHANGED <<client_list, client_valid_list, client_valid_num, ipAddress, pc>>
         /\ LiveSlots' = LiveSlots
         /\ \A k \in LiveSlots : Place(k)' = Place(k)
         /\ Place(MaxEntry)' = Place(MaxEntry)
<1>1. ASSUME NEW by \in Sorts, PageBegin(by) PROVE UNCHANGED vars
  BY <1>1 DEF PageBegin
<1>2. UNCHANGED vars
  BY <1>1 DEF PageStep, SortOuter, SortNext, SortCompare, RowStart, RowCopy, PageEnd, allVars, vars
<1>3. UNCHANGED <<client_list, client_valid_list, client_valid_num, ipAddress, pc>>
  BY <1>2 DEF vars
<1>4. LiveSlots' = LiveSlots /\ \A m : Before(m)' = Before(m)
  BY <1>3 DEF LiveSlots, Before, Live
<1>5. QED
  BY <1>3, <1>4 DEF Place

LEMMA SameNodesNext ==
  Steady /\ SameNodes /\ [TableStep \/ PageStep]_allVars => SameNodes'
<1> SUFFICES ASSUME Steady, SameNodes, [TableStep \/ PageStep]_allVars, web' # "idle", ~moved'
             PROVE  /\ \A k \in LiveSlots' : client_valid_list'[Place(k)'].ip = client_list'[k].ip
                    /\ pc' # "slot" => client_valid_num' = Place(MaxEntry)'
  BY DEF SameNodes
<1>1. CASE TableStep
  <2>1. web # "idle"
    BY <1>1 DEF TableStep
  <2>2. QED
    BY <1>1, <2>1, NotMoved, SlotsStay, EntriesStay
<1>2. ASSUME NEW by \in Sorts, PageBegin(by)
      PROVE  /\ \A k \in LiveSlots' : client_valid_list'[Place(k)'].ip = client_list'[k].ip
             /\ pc' # "slot" => client_valid_num' = Place(MaxEntry)'
  <2>0. PageStep
    BY <1>2 DEF PageStep
  <2>1. pc \in {"select", "handle"}
    BY <1>2 DEF PageBegin
  <2>2. Shown(MaxEntry)
    BY <2>1 DEF Steady, ListBuilt
  <2>3. \A k \in LiveSlots : k \in Peers /\ k < MaxEntry /\ Live(k)
    BY SizesAssumption DEF LiveSlots, Peers
  <2>4. client_valid_num = Place(MaxEntry)
    BY <2>2 DEF Shown
  <2>5. \A k \in LiveSlots : client_valid_list[Place(k)].ip = client_list[k].ip
    <3>1. TAKE k \in LiveSlots
    <3>2. k \in Peers /\ k < MaxEntry /\ Live(k)
      BY <2>3
    <3>3. client_valid_list[Place(k)] = [ip |-> client_list[k].ip, info |-> client_list[k].info]
      BY <2>2, <3>2 DEF Shown
    <3>4. QED
      BY <3>3
  <2>6. QED
    BY <2>0, <2>4, <2>5, PageLeavesTable
<1>3. CASE (\A by \in Sorts : ~PageBegin(by)) /\ (PageStep \/ UNCHANGED allVars)
  <2>1. web # "idle" /\ ~moved
    BY <1>3 DEF PageStep, SortOuter, SortNext, SortCompare, RowStart, RowCopy, PageEnd, allVars
  <2>2. /\ \A k \in LiveSlots : client_valid_list[Place(k)].ip = client_list[k].ip
        /\ pc # "slot" => client_valid_num = Place(MaxEntry)
    BY <2>1 DEF SameNodes
  <2>3. QED
    BY <1>3, <2>2, PageLeavesTable
<1>4. QED
  BY <1>1, <1>2, <1>3

\* A page begins between two rebuildings; then the sort sees all of the list.
LEMMA PageBegins ==
  ASSUME Steady, NEW by \in Sorts, PageBegin(by), ~moved'
  PROVE  /\ pc \in {"select", "handle"} /\ client_valid_num = Place(MaxEntry)
         /\ web' \in {"sort", "row"} /\ sortby' = by /\ rows' = <<>>
         /\ by # "advance" => \A k \in AllEntries : k \in Index /\ sort_array'[k] = k
<1>1. pc \in {"select", "handle"}
  BY DEF PageBegin
<1>2. client_valid_num = Place(MaxEntry) /\ client_valid_num \in 0 .. MaxEntry
  BY <1>1 DEF Steady, ListBuilt, Shown, Sound, Typed, TypeOK
<1>3. \A k \in AllEntries : k \in Index /\ k < client_valid_num
  BY <1>2, PlacesOfAll, SizesAssumption DEF AllEntries, Index
<1>4. QED
  BY <1>1, <1>2, <1>3 DEF PageBegin

LEMMA OnePointerNext ==
  Steady /\ SameNodes /\ OnePointerEach /\ [TableStep \/ PageStep]_allVars => OnePointerEach'
<1> DEFINE Each == /\ \A k \in AllEntries : sort_array[k] \in AllEntries
                   /\ \A j, k \in AllEntries : sort_array[j] = sort_array[k] => j = k
           Kept == (web' = "sort" => ~Rebuilding') /\ (sortby' # "advance" => Each')
<1> SUFFICES ASSUME Steady, SameNodes, OnePointerEach, [TableStep \/ PageStep]_allVars,
                    web' # "idle", ~moved', ~unsorted'
             PROVE  Kept
  BY DEF OnePointerEach
<1>1. ASSUME AllEntries' = AllEntries, UNCHANGED <<sort_array, sortby>>, web # "idle",
             ~moved, ~unsorted
      PROVE  sortby' # "advance" => Each'
  BY <1>1 DEF OnePointerEach
<1>2. CASE TableStep
  <2>1. web # "idle" /\ unsorted' = (unsorted \/ (web = "sort" /\ Rebuilding'))
    BY <1>2 DEF TableStep
  <2>2. ~unsorted /\ (web = "sort" => ~Rebuilding')
    BY <2>1
  <2>3. /\ ~moved /\ LiveSlots' = LiveSlots /\ Next
        /\ UNCHANGED <<sort_array, web, sortby, si, sj, rows>>
    BY <1>2, <2>1, NotMoved
  <2>4. AllEntries' = AllEntries
    BY <2>3, SlotsStay DEF AllEntries
  <2>5. QED
    BY <1>1, <2>1, <2>2, <2>3, <2>4
<1>3. ASSUME NEW by \in Sorts, PageBegin(by) PROVE Kept
  <2>1. PageStep
    BY <1>3 DEF PageStep
  <2>2. AllEntries' = AllEntries /\ pc' = pc
    BY <2>1, PageLeavesTable DEF AllEntries
  <2>3. QED
    BY <1>3, <2>2, PageBegins DEF Rebuilding
<1>4. CASE PageEnd
  BY <1>4 DEF PageEnd
<1>5. CASE SortOuter \/ SortNext \/ RowStart \/ RowCopy \/ UNCHANGED allVars
  <2>1. /\ web # "idle" /\ UNCHANGED <<sort_array, sortby, moved, unsorted>>
        /\ web' = "sort" => web = "sort"
    BY <1>5 DEF SortOuter, SortNext, RowStart, RowCopy, allVars
  <2>2. ~moved /\ ~unsorted
    BY <2>1
  <2>3. PageStep \/ UNCHANGED allVars
    BY <1>5 DEF PageStep
  <2>4. AllEntries' = AllEntries /\ pc' = pc
    BY <2>3, PageLeavesTable DEF AllEntries
  <2>5. web' = "sort" => ~Rebuilding'
    BY <2>1, <2>2, <2>4 DEF OnePointerEach, Rebuilding
  <2>6. QED
    BY <1>1, <2>1, <2>2, <2>4, <2>5
<1>6. CASE SortCompare
  <2>1. /\ web = "sort" /\ web' = "sort" /\ UNCHANGED <<sortby, moved, unsorted>>
        /\ si < sj /\ sj < client_valid_num
        /\ \E swap \in SwapsOf(sort_array[si], sort_array[sj]) :
             sort_array' = IF swap
                           THEN [sort_array EXCEPT ![si] = sort_array[sj], ![sj] = sort_array[si]]
                           ELSE sort_array
    BY <1>6 DEF SortCompare
  <2>2. ~moved /\ ~unsorted
    BY <2>1
  <2>3. PageStep
    BY <1>6 DEF PageStep
  <2>4. AllEntries' = AllEntries /\ pc' = pc
    BY <2>3, PageLeavesTable DEF AllEntries
  <2>5. ~Rebuilding /\ ~Rebuilding'
    BY <2>1, <2>2, <2>4 DEF OnePointerEach, Rebuilding
  <2>6. client_valid_num = Place(MaxEntry)
    BY <2>1, <2>2, <2>5 DEF SameNodes, Rebuilding
  <2>7. sort_array \in [Index -> Index \cup {Unset}] /\ si \in Nat /\ sj \in Nat
        /\ client_valid_num \in 0 .. MaxEntry
    BY DEF Steady, PageTyped, PageTypes, Typed, TypeOK
  <2>8. AllEntries \subseteq Index /\ si \in AllEntries /\ sj \in AllEntries
    BY <2>1, <2>6, <2>7, SizesAssumption DEF AllEntries, Index
  <2>9. sortby' # "advance" => Each
    BY <2>1, <2>2 DEF OnePointerEach
  <2>10. CASE sort_array' = sort_array
    BY <1>1, <2>1, <2>2, <2>4, <2>5, <2>10
  <2>11. CASE sort_array' = [sort_array EXCEPT ![si] = sort_array[sj], ![sj] = sort_array[si]]
    <3>1. \A k \in AllEntries : sort_array'[k] = IF k = sj THEN sort_array[si]
                                                 ELSE IF k = si THEN sort_array[sj] ELSE sort_array[k]
      BY <2>7, <2>8, <2>11
    <3>2. ASSUME Each PROVE \A k \in AllEntries : sort_array'[k] \in AllEntries
      BY <2>8, <3>1, <3>2
    <3>3. ASSUME Each, NEW j \in AllEntries, NEW k \in AllEntries, sort_array'[j] = sort_array'[k]
          PROVE  j = k
      BY <2>8, <3>1, <3>3
    <3>4. Each => Each'
      BY <2>4, <3>2, <3>3
    <3>5. QED
      BY <2>5, <2>9, <3>4
  <2>12. QED
    BY <2>1, <2>10, <2>11
<1>7. QED
  BY <1>2, <1>3, <1>4, <1>5, <1>6 DEF PageStep

\* The node of an entry stays the same.
LEMMA NodeStays ==
  ASSUME LiveSlots' = LiveSlots, \A k \in LiveSlots : Place(k)' = Place(k),
         \A k \in LiveSlots : client_list'[k].ip = client_list[k].ip,
         shared => shared'
  PROVE  \A e, ip : NodeOf(e, ip) => NodeOf(e, ip)'
BY DEF NodeOf

LEMMA RowsShowKept ==
  ASSUME RowsShowNodes, web # "idle", ~moved, ~unsorted,
         UNCHANGED <<rows, web, sortby, sort_array>>, AllEntries' = AllEntries,
         LiveSlots' = LiveSlots, \A k \in LiveSlots : Place(k)' = Place(k),
         \A k \in LiveSlots : client_list'[k].ip = client_list[k].ip,
         shared => shared'
  PROVE  RowsShowNodes'
<1>1. \A e, ip : NodeOf(e, ip) => NodeOf(e, ip)'
  BY NodeStays
<1>2. /\ web = "copy" => Len(rows) \in AllEntries
      /\ \A r \in 1 .. Len(rows) :
           rows[r] \in IPs => r - 1 \in AllEntries /\ NodeOf(EntryOf(r - 1), rows[r])
  BY DEF RowsShowNodes
<1>3. \A k : EntryOf(k)' = EntryOf(k)
  BY DEF EntryOf
<1>4. ASSUME NEW r \in 1 .. Len(rows'), rows'[r] \in IPs
      PROVE  r - 1 \in AllEntries' /\ NodeOf(EntryOf(r - 1), rows[r])'
  <2>1. PICK e, a : e = EntryOf(r - 1) /\ a = rows[r]
    OBVIOUS
  <2>2. r - 1 \in AllEntries /\ NodeOf(e, a)
    BY <1>2, <1>4, <2>1
  <2>3. NodeOf(e, a)'
    BY <1>1, <2>2
  <2>4. e = EntryOf(r - 1)' /\ a = rows'[r]
    BY <1>3, <2>1
  <2>5. QED
    BY <2>2, <2>3, <2>4 DEF NodeOf
<1>5. QED
  BY <1>2, <1>4 DEF RowsShowNodes

\* What an entry of the page shows is its node, unless it is nobody's.
LEMMA EntryShowsNode ==
  ASSUME SharingSeen, SameNodes, web # "idle", ~moved,
         NEW e \in AllEntries, client_valid_list[e].ip \in IPs
  PROVE  NodeOf(e, client_valid_list[e].ip)
<1>1. CASE e = 0
  BY <1>1 DEF NodeOf, SharingSeen, Sharing, LiveSlots
<1>2. CASE e # 0
  <2>1. PICK k \in LiveSlots : Place(k) = e
    BY <1>2, EntryHasSlot
  <2>2. client_list[k].ip = client_valid_list[e].ip
    BY <2>1 DEF SameNodes
  <2>3. QED
    BY <1>2, <2>1, <2>2 DEF NodeOf
<1>3. QED
  BY <1>1, <1>2

\* The list never reaches beyond the live slots.
LEMMA NeverLonger ==
  ASSUME Steady, SameNodes, web # "idle", ~moved
  PROVE  client_valid_num <= Place(MaxEntry)
<1>1. CASE pc # "slot"
  BY <1>1, PlacesOfAll DEF SameNodes
<1>2. CASE pc = "slot"
  <2>1. client_valid_num = Place(i) /\ i \in Int /\ i <= MaxEntry
    BY <1>2, SizesAssumption DEF Steady, ListBuilt, Shown, Sound, Typed, TypeOK
  <2>2. CASE i = MaxEntry
    BY <2>1, <2>2, PlacesOfAll
  <2>3. IsFiniteSet(LiveSlots) /\ IsFiniteSet(Before(i)) /\ Before(i) \in SUBSET LiveSlots
    BY <2>1, BeforeFinite, PlacesOfAll, SizesAssumption DEF Before, LiveSlots
  <2>4. Cardinality(Before(i)) <= Cardinality(LiveSlots)
        /\ Cardinality(Before(i)) \in Nat /\ Cardinality(LiveSlots) \in Nat
    BY <2>3, FS_Subset, FS_CardinalityType
  <2>5. QED
    BY <2>1, <2>4, PlacesOfAll DEF Place
<1>3. QED
  BY <1>1, <1>2

LEMMA RowsShowNext ==
  Steady /\ SharingSeen /\ SameNodes /\ OnePointerEach /\ RowsShowNodes
    /\ [TableStep \/ PageStep]_allVars => RowsShowNodes'
<1> SUFFICES ASSUME Steady, SharingSeen, SameNodes, OnePointerEach, RowsShowNodes,
                    [TableStep \/ PageStep]_allVars,
                    web' # "idle", ~moved', ~unsorted'
             PROVE  RowsShowNodes'
  BY DEF RowsShowNodes
<1>0. rows \in Seq(Cells) /\ Len(rows) \in Nat /\ client_valid_num \in 0 .. MaxEntry
  BY LenProperties DEF Steady, PageTyped, PageTypes, Typed, TypeOK
<1>1. CASE TableStep
  <2>1. web # "idle" /\ unsorted' = (unsorted \/ (web = "sort" /\ Rebuilding'))
    BY <1>1 DEF TableStep
  <2>2. ~unsorted
    BY <2>1
  <2>3. /\ ~moved /\ LiveSlots' = LiveSlots /\ Next /\ (shared => shared')
        /\ UNCHANGED <<sort_array, web, sortby, si, sj, rows>>
    BY <1>1, <2>1, NotMoved
  <2>4. /\ \A k \in LiveSlots : client_list'[k].ip = client_list[k].ip
        /\ \A k \in LiveSlots : Place(k)' = Place(k)
        /\ AllEntries' = AllEntries
    BY <2>3, SlotsStay DEF AllEntries
  <2>5. QED
    BY <2>1, <2>2, <2>3, <2>4, RowsShowKept
<1>2. ASSUME NEW by \in Sorts, PageBegin(by) PROVE RowsShowNodes'
  <2>1. web' \in {"sort", "row"} /\ rows' = <<>>
    BY <1>2, PageBegins
  <2>2. QED
    BY <2>1 DEF RowsShowNodes
<1>3. CASE PageEnd
  BY <1>3 DEF PageEnd
<1>4. CASE SortOuter \/ SortNext \/ SortCompare
  <2>1. web = "sort" /\ web' \in {"sort", "row"} /\ UNCHANGED rows
    BY <1>4 DEF SortOuter, SortNext, SortCompare
  <2>2. rows' = <<>>
    BY <2>1 DEF Steady, PageTyped, PageTypes
  <2>3. QED
    BY <2>1, <2>2 DEF RowsShowNodes
<1>5. CASE UNCHANGED allVars
  <2>1. web # "idle" /\ ~moved /\ ~unsorted /\ UNCHANGED <<rows, web, sortby, sort_array, shared>>
    BY <1>5 DEF allVars
  <2>2. QED
    BY <1>5, <2>1, PageLeavesTable, RowsShowKept DEF AllEntries
<1>6. CASE RowStart \/ RowCopy
  <2>1. /\ web \in {"row", "copy"} /\ UNCHANGED <<sortby, sort_array, shared>> /\ ~moved /\ ~unsorted
    BY <1>6 DEF RowStart, RowCopy
  <2>2. PageStep
    BY <1>6 DEF PageStep
  <2>3. /\ LiveSlots' = LiveSlots /\ AllEntries' = AllEntries
        /\ \A e, ip : NodeOf(e, ip) => NodeOf(e, ip)'
        /\ \A k : EntryOf(k)' = EntryOf(k)
    BY <2>1, <2>2, PageLeavesTable, NodeStays DEF AllEntries, EntryOf
  <2>4. /\ web = "copy" => Len(rows) \in AllEntries
        /\ \A r \in 1 .. Len(rows) :
             rows[r] \in IPs => r - 1 \in AllEntries /\ NodeOf(EntryOf(r - 1), rows[r])
    BY <2>1 DEF RowsShowNodes
  <2>5. ASSUME NEW c \in Cells, rows' = Append(rows, c), web' = "row",
               c \in IPs => Len(rows) \in AllEntries /\ NodeOf(EntryOf(Len(rows)), c)
        PROVE  RowsShowNodes'
    <3>1. /\ Len(rows') = Len(rows) + 1
          /\ \A k \in 1 .. Len(rows) : rows'[k] = rows[k]
          /\ rows'[Len(rows) + 1] = c
      BY <1>0, <2>5, AppendRow
    <3>2. ASSUME NEW r \in 1 .. Len(rows'), rows'[r] \in IPs
          PROVE  r - 1 \in AllEntries' /\ NodeOf(EntryOf(r - 1), rows[r])'
      <4>1. PICK e, a : e = EntryOf(r - 1) /\ a = rows'[r]
        OBVIOUS
      <4>2. r - 1 \in AllEntries /\ NodeOf(e, a)
        <5>1. CASE r \in 1 .. Len(rows)
          BY <2>4, <3>1, <3>2, <4>1, <5>1
        <5>2. CASE r = Len(rows) + 1
          <6>1. r - 1 = Len(rows) /\ a = c
            BY <1>0, <3>1, <4>1, <5>2
          <6>2. QED
            BY <2>5, <3>2, <4>1, <6>1
        <5>3. QED
          BY <1>0, <3>1, <5>1, <5>2
      <4>3. NodeOf(e, a)' /\ e = EntryOf(r - 1)'
        BY <2>3, <4>1, <4>2
      <4>4. QED
        BY <2>3, <4>1, <4>2, <4>3 DEF NodeOf
    <3>3. QED
      BY <2>5, <3>2 DEF RowsShowNodes
  <2>6. CASE RowStart /\ Len(rows) >= client_valid_num
    BY <2>5, <2>6, SortsAssumption DEF RowStart, Cells
  <2>7. CASE RowStart /\ ~(Len(rows) >= client_valid_num)
    <3>1. rows' = rows
      BY <2>7 DEF RowStart
    <3>2. Len(rows) \in AllEntries
      BY <1>0, <2>1, <2>7, NeverLonger, PlacesOfAll DEF AllEntries
    <3>3. ASSUME NEW r \in 1 .. Len(rows'), rows'[r] \in IPs
          PROVE  r - 1 \in AllEntries' /\ NodeOf(EntryOf(r - 1), rows[r])'
      <4>1. PICK e, a : e = EntryOf(r - 1) /\ a = rows[r]
        OBVIOUS
      <4>2. r - 1 \in AllEntries /\ NodeOf(e, a)
        BY <2>4, <3>1, <3>3, <4>1
      <4>3. NodeOf(e, a)' /\ e = EntryOf(r - 1)' /\ a = rows'[r]
        BY <2>3, <3>1, <4>1, <4>2
      <4>4. QED
        BY <2>3, <4>2, <4>3 DEF NodeOf
    <3>4. QED
      BY <2>3, <3>1, <3>2, <3>3 DEF RowsShowNodes
  <2>8. CASE RowCopy
    <3> DEFINE e == EntryOf(Len(rows))
               c == IF e = Unset THEN Unset ELSE client_valid_list[e].ip
    <3>1. web = "copy" /\ c \in Cells /\ rows' = Append(rows, c) /\ web' = "row"
      BY <2>8, CopiedCell DEF RowCopy, Steady
    <3>2. Len(rows) \in AllEntries /\ \A k \in AllEntries : k \in Index
      <4>1. Place(MaxEntry) <= MaxEntry
        BY RoomForPlaces
      <4>2. QED
        BY <2>4, <3>1, <4>1, PlacesOfAll, SizesAssumption DEF AllEntries, Index
    <3>3. e \in AllEntries
      BY <2>1, <3>1, <3>2 DEF EntryOf, OnePointerEach
    <3>4. e # Unset
      BY <3>2, <3>3, SortsAssumption
    <3>5. c \in IPs => NodeOf(e, c)
      BY <2>1, <3>3, <3>4, EntryShowsNode
    <3>6. PICK x : x = c
      OBVIOUS
    <3>7. /\ x \in Cells /\ rows' = Append(rows, x)
          /\ (x \in IPs => Len(rows) \in AllEntries /\ NodeOf(EntryOf(Len(rows)), x))
      BY <3>1, <3>2, <3>5, <3>6
    <3>8. QED
      BY <2>5, <3>1, <3>7
  <2>9. QED
    BY <1>6, <2>6, <2>7, <2>8
<1>7. QED
  BY <1>1, <1>2, <1>3, <1>4, <1>5, <1>6 DEF PageStep

\* Two rows with one address show one entry, or one of them is our own.
LEMMA OneEntryPerNode ==
  ASSUME Sound, NEW d, NEW e, NEW ip, NodeOf(d, ip), NodeOf(e, ip)
  PROVE  d = e \/ (shared /\ 0 \in {d, e})
<1>1. \A j, k \in LiveSlots : client_list[j].ip = client_list[k].ip => j = k
  BY DEF Sound, OneSlotPerNode, LiveSlots
<1>2. QED
  BY <1>1 DEF NodeOf

\* No node is shown twice, although the list may be emptied and filled again
\* between two rows: as long as no node comes or goes, each entry is written
\* again with the node it had, and the pointers of a sort that saw the whole
\* list name each entry once.  Our own row is the exception the code allows: it
\* may show the address of a listed node, which on a client whose access point is
\* 10.10.100.254 it does at one moment of every rebuilding, and elsewhere after
\* our address has changed to that of the node.
THEOREM EachNodeOnce == PageSpec => []NoNodeTwice
<1> DEFINE IInv == SharingSeen /\ SameNodes /\ OnePointerEach /\ RowsShowNodes
<1>1. PageInit => IInv
  BY DEF PageInit, SharingSeen, SameNodes, OnePointerEach, RowsShowNodes
<1>2. Steady /\ IInv /\ [TableStep \/ PageStep]_allVars => IInv'
  BY SharingSeenNext, SameNodesNext, OnePointerNext, RowsShowNext
<1>3. Steady /\ IInv => NoNodeTwice
  <2> SUFFICES ASSUME Steady, IInv, PageDone, ~unsorted, ~moved,
                      NEW j \in DOMAIN rows, NEW k \in DOMAIN rows,
                      rows[j] \in IPs, rows[k] = rows[j],
                      ~(shared /\ 0 \in {EntryOf(j - 1), EntryOf(k - 1)})
               PROVE  j = k
    BY DEF NoNodeTwice
  <2>1. /\ web = "row" /\ rows \in Seq(Cells) /\ j \in 1 .. Len(rows) /\ k \in 1 .. Len(rows)
        /\ Len(rows) \in Nat
    BY LenProperties DEF PageDone, Steady, PageTyped, PageTypes
  <2>2. /\ j - 1 \in AllEntries /\ NodeOf(EntryOf(j - 1), rows[j])
        /\ k - 1 \in AllEntries /\ NodeOf(EntryOf(k - 1), rows[k])
    BY <2>1 DEF RowsShowNodes
  <2>3. EntryOf(j - 1) = EntryOf(k - 1)
    BY <2>2, OneEntryPerNode DEF Steady
  <2>4. j - 1 = k - 1
    <3>1. CASE sortby = "advance"
      BY <2>3, <3>1 DEF EntryOf
    <3>2. CASE sortby # "advance"
      BY <2>1, <2>2, <2>3, <3>2 DEF EntryOf, OnePointerEach
    <3>3. QED
      BY <3>1, <3>2
  <2>5. QED
    BY <2>1, <2>4
<1>4. QED
  BY <1>1, <1>2, <1>3, SpecSteady, PTL DEF PageSpec

-----------------------------------------------------------------------------
(* An own address that stays. *)

\* Our address does not change: the main loop learns it before the first page.
\* No other node has the address that every rebuilding shows in our row for a
\* moment: we have it ourselves, or it is in no announcement.
OneAddress ==
  /\ \E a : Addresses = {a}
  /\ BootIP \notin IPs \ Addresses

\* Our address stays, and no slot has it.
OwnAddress ==
  /\ ipAddress \in Addresses
  /\ client_list[0].ip = BootIP
  /\ client_valid_list[0].ip \in {NoIP, BootIP, ipAddress}
  /\ \A k \in LiveSlots : client_list[k].ip \in IPs \ {ipAddress}

LEMMA OwnAddressNext ==
  ASSUME OneAddress
  PROVE  Steady /\ OwnAddress /\ [TableStep \/ PageStep]_allVars => OwnAddress'
<1> SUFFICES ASSUME Steady, OwnAddress, [TableStep \/ PageStep]_allVars
             PROVE  OwnAddress'
  OBVIOUS
<1>0. /\ 0 \in Index /\ 0 \notin Peers /\ Peers \subseteq Index /\ Typed
      /\ client_valid_list \in [Index -> [ip : IPs \cup {NoIP, BootIP}, info : Infos \cup {NoInfo}]]
  BY SizesAssumption DEF Index, Peers, Steady, Sound, Typed, TypeOK
<1>1. ASSUME ipAddress' \in Addresses PROVE ipAddress' = ipAddress
  BY <1>1 DEF OneAddress, OwnAddress
<1>2. ASSUME ipAddress' = ipAddress, UNCHANGED client_list,
             client_valid_list'[0].ip \in {client_valid_list[0].ip, BootIP, ipAddress}
      PROVE  OwnAddress'
  BY <1>2 DEF OwnAddress, LiveSlots, Live
<1>3. CASE PageStep \/ UNCHANGED allVars
  <2>1. ASSUME NEW by \in Sorts, PageBegin(by) PROVE UNCHANGED vars
    BY <2>1 DEF PageBegin
  <2>2. UNCHANGED vars
    BY <1>3, <2>1 DEF PageStep, SortOuter, SortNext, SortCompare, RowStart, RowCopy, PageEnd,
                      allVars, vars
  <2>3. QED
    BY <1>2, <2>2 DEF vars
<1>4. CASE TableStep
  <2>1. ipAddress' = ipAddress /\ Next
    BY <1>1, <1>4 DEF TableStep
  <2>2. CASE Tick \/ Receive \/ Timeout \/ AgeEnd \/ NoData \/ NewAddress
    <3>1. UNCHANGED <<client_list, client_valid_list>>
      BY <2>2 DEF Tick, Receive, Timeout, Wake, AgeEnd, NoData, NewAddress, table
    <3>2. QED
      BY <1>2, <2>1, <3>1
  <2>3. CASE AgeSelf
    <3>1. /\ \A k \in Peers : client_list'[k] = client_list[k]
          /\ client_list'[0].ip = client_list[0].ip
      BY <1>0, <2>3 DEF AgeSelf, Typed, TypeOK
    <3>2. client_valid_list'[0].ip = client_list[0].ip
      BY <1>0, <2>3 DEF AgeSelf
    <3>3. QED
      BY <2>1, <3>1, <3>2 DEF OwnAddress, LiveSlots, Live
  <2>4. CASE AgeStart
    <3>1. client_valid_list'[0].ip = ipAddress /\ UNCHANGED client_list
      BY <1>0, <2>4 DEF AgeStart
    <3>2. QED
      BY <1>2, <2>1, <3>1
  <2>5. CASE AgeSlot
    <3>1. PICK n : n = i
      OBVIOUS
    <3>2. n \in Peers /\ client_list' = [client_list EXCEPT ![n].age = AgeOf(n)]
      BY <1>0, <2>5, <3>1, SizesAssumption DEF AgeSlot, Peers, Typed, TypeOK
    <3>3. /\ \A k \in Peers : client_list'[k].ip = client_list[k].ip
          /\ client_list'[0] = client_list[0]
      BY <1>0, <3>2 DEF Typed, TypeOK
    <3>4. \A k \in Peers : Live(k)' => Live(k)
      <4>1. \A k \in Peers : k # n => client_list'[k] = client_list[k]
        BY <1>0, <3>2 DEF Typed, TypeOK
      <4>2. Live(n)' => Live(n)
        BY <1>0, <3>2 DEF Live, AgeOf, AGE_COUNT, Typed, TypeOK
      <4>3. QED
        BY <4>1, <4>2 DEF Live
    <3>5. client_valid_list'[0] = client_valid_list[0]
      <4>1. client_valid_num = Place(n) /\ Place(n) \in Nat \ {0}
        BY <2>5, <3>1, <3>2, BeforeFinite, SizesAssumption DEF AgeSlot, Steady, ListBuilt, Shown, Peers
      <4>2. client_valid_num # 0
        BY <4>1
      <4>3. QED
        BY <1>0, <2>5, <4>2 DEF AgeSlot
    <3>6. QED
      BY <2>1, <3>3, <3>4, <3>5 DEF OwnAddress, LiveSlots
  <2>6. CASE OwnEcho \/ TableFull
    <3>1. UNCHANGED client_list /\ client_valid_list'[0].ip = ipAddress
      BY <1>0, <2>6 DEF OwnEcho, TableFull, Populate, BackToSelect
    <3>2. QED
      BY <1>2, <2>1, <3>1
  <2>7. CASE Refresh \/ AddNode
    <3>1. PICK k \in Peers : Fill(k)
      BY <2>7 DEF Refresh, AddNode
    <3>2. Populate /\ msg.ip # ipAddress
      BY <2>7 DEF Refresh, AddNode
    <3>3. client_valid_list'[0].ip = ipAddress
      BY <1>0, <3>2 DEF Populate
    <3>4. client_list'[k].ip = msg.ip /\ \A j \in Index : j # k => client_list'[j] = client_list[j]
      BY <1>0, <3>1 DEF Fill, Typed, TypeOK
    <3>5. msg.ip \in IPs \ {ipAddress}
      BY <1>0, <3>2 DEF Populate, Typed, TypeOK, Datagrams
    <3>6. QED
      BY <1>0, <2>1, <3>3, <3>4, <3>5 DEF OwnAddress, LiveSlots, Live
  <2>8. QED
    BY <2>1, <2>2, <2>3, <2>4, <2>5, <2>6, <2>7 DEF Next, ServerStep
<1>5. QED
  BY <1>3, <1>4

LEMMA NothingShared ==
  ASSUME OneAddress
  PROVE  OwnAddress /\ [TableStep \/ PageStep]_allVars /\ OwnAddress' /\ ~shared => ~shared'
<1>1. OwnAddress => ~Sharing
  BY NamesAssumption DEF OneAddress, OwnAddress, Sharing, LiveSlots
<1>2. OwnAddress' => ~Sharing'
  BY NamesAssumption DEF OneAddress, OwnAddress, Sharing, LiveSlots, Live
<1>3. QED
  BY <1>1, <1>2 DEF TableStep, PageStep, PageBegin, SortOuter, SortNext, SortCompare, RowStart,
                    RowCopy, PageEnd, allVars

\* populate_new_client keeps a node that uses our address out of the table.  So
\* the exception of EachNodeOnce does not occur as long as our address stays,
\* on an access point with the usual address, or in a network without that one.
THEOREM NeverShared == ASSUME OneAddress PROVE PageSpec => [](~shared)
<1>1. PageInit => OwnAddress /\ ~shared
  BY SizesAssumption DEF PageInit, Init, OwnAddress, LiveSlots, Live, Empty, None, Index, Peers
<1>2. Steady /\ OwnAddress /\ [TableStep \/ PageStep]_allVars => OwnAddress'
  BY OwnAddressNext
<1>3. QED
  BY <1>1, <1>2, NothingShared, SpecSteady, PTL DEF PageSpec
=============================================================================
