-------------------------- MODULE ConstellationPage --------------------------
(***************************************************************************)
(* The pages that list the nodes (CGI_var_map of websrc/cgi/cgi_v2/        *)
(* cgi_api.c with sort_client_list, get_client_entry and                   *)
(* get_client_entry_adva of src/user/UserMain.c), made by the web server   *)
(* while the server thread of ClientTable rebuilds the list.  Nothing      *)
(* locks the list: its length and its entries are read again at every      *)
(* comparison of the sort and for every row.                               *)
(***************************************************************************)
EXTENDS ClientTable, Sequences

CONSTANTS
  Unset,      \* a pointer of sort_array that no sort has written
  Missing,    \* a row that stays away
  Sorts,      \* what the pages sort by: values of SortNames
  Addresses   \* bound: the addresses that our node may have

SortNames == {"name", "ip", "none", "advance"}

\* Names and addresses are numbers here, so that they can be sorted.
ASSUME SortsAssumption ==
  Sorts \subseteq SortNames /\ Unset \notin Index /\ Missing \notin IPs
  /\ IPs \cup Infos \cup {NoIP, BootIP, NoInfo} \subseteq Int

VARIABLES
  sort_array,        \* indices of client_valid_list, or Unset
  web,               \* where the web server is
  sortby,            \* what it sorts by; "advance" does not sort at all
  si, sj,            \* the loops of the sort; sj = si: the outer loop is tested
  rows,              \* the rows written so far: the address in each
  torn,              \* history: the list was being rebuilt during the page
  unsorted,          \* history: it was being rebuilt during the sort
  moved,             \* history: a node came or went during the page
  shared             \* history: a listed node had the address our entry shows

allVars == <<client_list, client_valid_list, client_valid_num, ipAddress, pc, i,
             new, msg, since, waited, quiet, sort_array, web, sortby, si, sj, rows,
             torn, unsorted, moved, shared>>

PageInit ==
  /\ Init /\ ipAddress \in Addresses
  /\ sort_array = [k \in Index |-> Unset]
  /\ web = "idle" /\ sortby = "none" /\ si = 0 /\ sj = 0 /\ rows = <<>>
  /\ torn = FALSE /\ unsorted = FALSE /\ moved = FALSE /\ shared = FALSE

-----------------------------------------------------------------------------
(* sort_client_list, called for the first row of the constellation page *)

Rebuilding == pc \in {"start", "slot"}

\* A node that is listed has the address that our own entry shows.  It comes to
\* this in every rebuilding on a client whose access point is 10.10.100.254, for
\* the moment between AgeSelf and AgeStart, and when our address changes to that
\* of a node.
Sharing == \E k \in Peers : Live(k) /\ client_list[k].ip = client_valid_list[0].ip

\* A page is asked for.  The pointers are set to the entries in their order.
PageBegin(by) ==
  /\ web = "idle"
  /\ sortby' = by
  /\ rows' = <<>>
  /\ si' = 0 /\ sj' = 0
  /\ IF by = "advance"
     THEN web' = "row" /\ UNCHANGED sort_array
     ELSE /\ web' = IF by = "none" THEN "row" ELSE "sort"
          /\ sort_array' = [k \in Index |-> IF k < client_valid_num THEN k ELSE sort_array[k]]
  /\ torn' = Rebuilding /\ unsorted' = Rebuilding
  /\ moved' = (pc \notin {"select", "handle"}) /\ shared' = Sharing
  /\ UNCHANGED vars

\* Faulty variant: the last two entries are not compared.
SortOuter_Early ==
  /\ web = "sort" /\ sj = si
  /\ IF si < client_valid_num - 2
     THEN sj' = si + 1 /\ UNCHANGED web
     ELSE web' = "row" /\ UNCHANGED sj
  /\ UNCHANGED <<vars, sort_array, sortby, si, rows, torn, unsorted, moved, shared>>

\* The outer loop goes on, or the sort is done.
SortOuter ==
  /\ web = "sort" /\ sj = si
  /\ IF si < client_valid_num
     THEN sj' = si + 1 /\ UNCHANGED web
     ELSE web' = "row" /\ UNCHANGED sj
  /\ UNCHANGED <<vars, sort_array, sortby, si, rows, torn, unsorted, moved, shared>>

\* The inner loop ends.
SortNext ==
  /\ web = "sort" /\ sj > si
  /\ sj >= client_valid_num
  /\ si' = si + 1 /\ sj' = si + 1
  /\ UNCHANGED <<vars, sort_array, web, sortby, rows, torn, unsorted, moved, shared>>

\* The text that strcmp compares.
SortKey(e) ==
  IF sortby = "name" THEN client_valid_list[e].info ELSE client_valid_list[e].ip

\* Do entries a and b change places?  What an unset pointer points to is anything.
SwapsOf(a, b) ==
  IF Unset \in {a, b} THEN BOOLEAN ELSE {SortKey(a) > SortKey(b)}

\* Faulty variant: the exchange writes one place only.
SortCompare_Copies ==
  /\ web = "sort" /\ sj > si
  /\ sj < client_valid_num
  /\ \E swap \in SwapsOf(sort_array[si], sort_array[sj]) :
       sort_array' = IF swap THEN [sort_array EXCEPT ![si] = sort_array[sj]] ELSE sort_array
  /\ sj' = sj + 1
  /\ UNCHANGED <<vars, web, sortby, si, rows, torn, unsorted, moved, shared>>

\* One comparison of the sort, and the exchange of the two pointers.
SortCompare ==
  /\ web = "sort" /\ sj > si
  /\ sj < client_valid_num
  /\ \E swap \in SwapsOf(sort_array[si], sort_array[sj]) :
       sort_array' = IF swap
                     THEN [sort_array EXCEPT ![si] = sort_array[sj], ![sj] = sort_array[si]]
                     ELSE sort_array
  /\ sj' = sj + 1
  /\ UNCHANGED <<vars, web, sortby, si, rows, torn, unsorted, moved, shared>>

-----------------------------------------------------------------------------
(* get_client_entry and get_client_entry_adva: one row *)

EntryOf(k) == IF sortby = "advance" THEN k ELSE sort_array[k]

\* A row beyond the list stays away.
RowStart ==
  /\ web = "row"
  /\ Len(rows) < MaxEntry
  /\ IF Len(rows) >= client_valid_num
     THEN rows' = Append(rows, Missing) /\ UNCHANGED web
     ELSE web' = "copy" /\ UNCHANGED rows
  /\ UNCHANGED <<vars, sort_array, sortby, si, sj, torn, unsorted, moved, shared>>

\* The entry is copied, whatever it holds by now.
RowCopy ==
  /\ web = "copy"
  /\ LET e == EntryOf(Len(rows))
     IN rows' = Append(rows, IF e = Unset THEN Unset ELSE client_valid_list[e].ip)
  /\ web' = "row"
  /\ UNCHANGED <<vars, sort_array, sortby, si, sj, torn, unsorted, moved, shared>>

PageDone == web = "row" /\ Len(rows) = MaxEntry

PageEnd ==
  /\ PageDone
  /\ web' = "idle" /\ rows' = <<>> /\ sortby' = "none" /\ si' = 0 /\ sj' = 0
  /\ torn' = FALSE /\ unsorted' = FALSE /\ moved' = FALSE /\ shared' = FALSE
  /\ UNCHANGED <<vars, sort_array>>

PageStep ==
  \/ \E by \in Sorts : PageBegin(by)
  \/ SortOuter \/ SortNext \/ SortCompare \/ RowStart \/ RowCopy \/ PageEnd

\* The server thread and the main loop go on meanwhile.
TableStep ==
  /\ Next
  /\ ipAddress' \in Addresses
  /\ LET making == web # "idle" IN
     /\ torn' = (torn \/ (making /\ (Rebuilding' \/ client_valid_list' # client_valid_list)))
     /\ unsorted' = (unsorted \/ (web = "sort" /\ Rebuilding'))
     /\ moved' = (moved \/ (making /\ {k \in Peers : Live(k)}' # {k \in Peers : Live(k)}))
     /\ shared' = (shared \/ (making /\ Sharing'))
  /\ UNCHANGED <<sort_array, web, sortby, si, sj, rows>>

PageSpec == PageInit /\ [][TableStep \/ PageStep]_allVars

-----------------------------------------------------------------------------
(* Properties of a page that has been made. *)

InOrder(a, b) ==
  CASE sortby = "advance" -> EntryOf(a) < EntryOf(b)
    [] sortby = "none"    -> EntryOf(a) < EntryOf(b)
    [] OTHER              -> SortKey(EntryOf(a)) <= SortKey(EntryOf(b))

\* A page during which the list was not rebuilt shows every entry once, sorted
\* as asked, and nothing else, also when earlier sorts left other pointers in
\* sort_array.
UndisturbedPageIsTheList ==
  PageDone /\ ~torn =>
    LET listed == 0 .. client_valid_num - 1 IN
    /\ {EntryOf(k) : k \in listed} = listed
    /\ \A k \in Index :
         rows[k + 1] = IF k \in listed THEN client_valid_list[EntryOf(k)].ip ELSE Missing
    /\ \A a, b \in listed : a < b => InOrder(a, b)

\* Although rows may stay away while the list is rebuilt, no node is shown
\* twice, as long as the sort saw the whole list and no node came or went; but
\* for our own row, which may show a listed node's address if there was a moment
\* at which our entry did.
NoNodeTwice ==
  PageDone /\ ~unsorted /\ ~moved =>
    \A j, k \in DOMAIN rows :
      rows[j] \in IPs /\ rows[k] = rows[j] =>
        j = k \/ (shared /\ 0 \in {EntryOf(j - 1), EntryOf(k - 1)})
=============================================================================
