---------------------------- MODULE WscDataList ----------------------------
(***************************************************************************)
(* The items of a wsc_data_t (src/data.c): a singly linked list in the     *)
(* order of the names, and the handles that an application holds on items  *)
(* while it runs through the list, sets, removes and erases them.  What an *)
(* item holds is in WscDataItem and WscDataTree.                           *)
(***************************************************************************)
EXTENDS Naturals, FiniteSets

CONSTANTS
  Names,    \* names of settings: numbers, ordered as strcmp orders them
  Cells,    \* addresses an item can have
  Handles,  \* wsc_data_item_t pointers of the application
  NULL

ASSUME NamesAssumption == Names \subseteq Nat
ASSUME CellsAssumption == NULL \notin Cells \cup Names /\ IsFiniteSet(Cells)
ASSUME HandlesAssumption == IsFiniteSet(Handles)

VARIABLES
  live,   \* items allocated and not freed
  name, next, ref,  \* their fields
  first,  \* data->first_item
  hnd,    \* the item whose reference a handle has
  stale   \* handles whose item has moved: they hold its old address

vars == <<live, name, next, ref, first, hnd, stale>>

Ptr == Cells \cup {NULL}

TypeOK ==
  /\ live \subseteq Cells
  /\ name \in [Cells -> Names \cup {NULL}]
  /\ next \in [Cells -> Ptr]
  /\ ref \in [Cells -> 0 .. Cardinality(Handles) + 1]
  /\ first \in Ptr
  /\ hnd \in [Handles -> Ptr]
  /\ stale \subseteq Handles

Init ==
  /\ live = {} /\ name = [a \in Cells |-> NULL]
  /\ next = [a \in Cells |-> NULL] /\ ref = [a \in Cells |-> 0]
  /\ first = NULL
  /\ hnd = [h \in Handles |-> NULL] /\ stale = {}

-----------------------------------------------------------------------------
(* The list.                                                               *)

(* The items met from pointer p on if f is their next: they are in every    *)
(* set that p is in and f does not lead out of.                            *)
Closed(f, S) == \A x \in S : f[x] \in S \cup {NULL}

Walk(f, p) ==
  {a \in Cells : \A S \in SUBSET Cells :
                   p \in S \cup {NULL} /\ Closed(f, S) => a \in S}

Listed == Walk(next, first)

(* get_item; names in the list differ.                                     *)
Item(n) ==
  IF \E a \in Listed : name[a] = n THEN CHOOSE a \in Listed : name[a] = n
                                   ELSE NULL

(* get_item_prev_next and wsc_data_item_detach.                            *)
Detach_KeepsNext(h, a) ==
  IF a \notin Listed THEN h
  ELSE [h EXCEPT !.first = IF @ = a THEN next[a] ELSE @,
                 !.next = [x \in Cells |-> IF x \in Listed /\ @[x] = a
                                           THEN next[a] ELSE @[x]]]

Detach(h, a) ==
  IF a \notin Listed THEN h
  ELSE [h EXCEPT !.first = IF @ = a THEN next[a] ELSE @,
                 !.next = [x \in Cells |->
                             IF x = a THEN NULL
                             ELSE IF x \in Listed /\ @[x] = a THEN next[a]
                             ELSE @[x]]]

Heap == [first |-> first, next |-> next, ref |-> ref, live |-> live]

Addref(h, a) == IF a = NULL THEN h ELSE [h EXCEPT !.ref[a] = @ + 1]

(* wsc_data_item_release; the last reference destroys the item, which      *)
(* detaches it.                                                            *)
Unref(h, a) ==
  IF h.ref[a] > 1 THEN [h EXCEPT !.ref[a] = @ - 1]
  ELSE [Detach(h, a) EXCEPT !.ref[a] = 0, !.live = @ \ {a}]

Becomes(h) ==
  first' = h.first /\ next' = h.next /\ ref' = h.ref /\ live' = h.live

(* The application has no use of a handle that is NULL, and must not use   *)
(* one whose item has moved.                                               *)
Usable(h) == hnd[h] # NULL /\ h \notin stale

-----------------------------------------------------------------------------
(* Setting.                                                                *)

(* Where the search of set_item_data may stop: at an item whose successor  *)
(* is missing or larger.  It stops at the first of them.                   *)
Stops_NotBehind(a, n) == next[a] = NULL \/ name[next[a]] < n
Stops(a, n) == next[a] = NULL \/ name[next[a]] > n

Prev(n) ==
  IF first = NULL THEN NULL
  ELSE CHOOSE a \in Listed :
         /\ Stops(a, n)
         /\ \A b \in Listed : Stops(b, n) => b \in Walk(next, a)

(* set_item_data without an item of that name.                             *)
Insert(n, a) ==
  /\ Item(n) = NULL
  /\ a \notin live
  /\ live' = live \cup {a}
  /\ name' = [name EXCEPT ![a] = n]
  /\ ref' = [ref EXCEPT ![a] = 1]
  /\ LET prev == Prev(n) IN
     IF prev # NULL /\ name[prev] < n
     THEN /\ next' = [next EXCEPT ![a] = next[prev], ![prev] = a]
          /\ UNCHANGED first
     ELSE /\ next' = [next EXCEPT ![a] = prev]
          /\ first' = a
  /\ UNCHANGED <<hnd, stale>>

(* wsc_data_item_ensure_capacity moves item a to b: the fields are copied, *)
(* and wsc_data_item_reattach redirects the list.                          *)
Moved_KeepsList(a, b) ==
  /\ live' = (live \ {a}) \cup {b}
  /\ name' = [name EXCEPT ![b] = name[a]]
  /\ ref' = [ref EXCEPT ![b] = ref[a], ![a] = 0]
  /\ next' = [next EXCEPT ![b] = next[a]]
  /\ UNCHANGED first

Moved(a, b) ==
  /\ live' = (live \ {a}) \cup {b}
  /\ name' = [name EXCEPT ![b] = name[a]]
  /\ ref' = [ref EXCEPT ![b] = ref[a], ![a] = 0]
  /\ next' = [x \in Cells |-> IF x = b THEN next[a]
                              ELSE IF x \in Listed /\ a \in Listed /\ next[x] = a
                              THEN b ELSE next[x]]
  /\ first' = IF first = a THEN b ELSE first

(* A value of item a is set through the pointers in by; brealloc may move  *)
(* the item, and other pointers keep the old address.                      *)
SetItem(a, by) ==
  \E b \in Cells \ live :
    /\ Moved(a, b)
    /\ hnd' = [h \in Handles |-> IF hnd[h] = a THEN b ELSE hnd[h]]
    /\ stale' = stale \cup {h \in Handles \ by : hnd[h] = a}

SetByName(n) == Item(n) # NULL /\ SetItem(Item(n), {})
SetByHandle(h) == Usable(h) /\ SetItem(hnd[h], {h})

-----------------------------------------------------------------------------
(* Handles.                                                                *)

Point(h, a) == hnd' = [hnd EXCEPT ![h] = a] /\ UNCHANGED <<name, stale>>

(* wsc_data_first.                                                         *)
First(h) ==
  /\ hnd[h] = NULL /\ first # NULL
  /\ Point(h, first)
  /\ Becomes(Addref(Heap, first))

(* wsc_data_item_byname.                                                   *)
ByName(h, n) ==
  /\ hnd[h] = NULL /\ Item(n) # NULL
  /\ Point(h, Item(n))
  /\ Becomes(Addref(Heap, Item(n)))

NextItem_KeepsRef(h) ==
  /\ Usable(h)
  /\ Point(h, next[hnd[h]])
  /\ Becomes(Addref(Heap, next[hnd[h]]))

(* wsc_data_item_next: the successor is read before the item is released.  *)
NextItem(h) ==
  /\ Usable(h)
  /\ Point(h, next[hnd[h]])
  /\ Becomes(Addref(Unref(Heap, hnd[h]), next[hnd[h]]))

(* wsc_data_item_release.                                                  *)
Release(h) ==
  /\ Usable(h)
  /\ Point(h, NULL)
  /\ Becomes(Unref(Heap, hnd[h]))

(* wsc_data_item_remove gives up the reference of the list; the handle     *)
(* keeps its own.  Of an item that is not in the list any more it would    *)
(* give up the handle's: the application removes an item once.             *)
Remove(h) ==
  /\ Usable(h) /\ hnd[h] \in Listed
  /\ Becomes(Unref(Detach(Heap, hnd[h]), hnd[h]))
  /\ UNCHANGED <<name, hnd, stale>>

(* wsc_data_erase.                                                         *)
Erase(n) ==
  /\ Item(n) # NULL
  /\ Becomes(Unref(Detach(Heap, Item(n)), Item(n)))
  /\ UNCHANGED <<name, hnd, stale>>

(* wsc_data_release of the last reference, when no handle is left that     *)
(* would reach for the data through item->parent: wsc_data_destroy         *)
(* releases every item, which detaches it.                                 *)
Destroy ==
  /\ \A h \in Handles : hnd[h] = NULL
  /\ first # NULL /\ first' = NULL
  /\ live' = live \ {a \in Listed : ref[a] = 1}
  /\ ref' = [a \in Cells |-> IF a \in Listed THEN ref[a] - 1 ELSE ref[a]]
  /\ next' = [a \in Cells |-> IF a \in Listed THEN NULL ELSE next[a]]
  /\ UNCHANGED <<name, hnd, stale>>

-----------------------------------------------------------------------------
Next ==
  \/ \E n \in Names :
       \/ \E a \in Cells : Insert(n, a)
       \/ SetByName(n) \/ Erase(n)
       \/ \E h \in Handles : ByName(h, n)
  \/ \E h \in Handles :
       SetByHandle(h) \/ First(h) \/ NextItem(h) \/ Release(h) \/ Remove(h)
  \/ Destroy

Spec == Init /\ [][Next]_vars

-----------------------------------------------------------------------------
(* Correctness.                                                            *)

(* The list ends, holds live items only, and its names ascend strictly:    *)
(* set_item_data finds the right place in every list that insertions,      *)
(* removals and moves can produce.                                         *)
ListSorted ==
  /\ Listed \subseteq live
  /\ \A a \in Listed :
       next[a] # NULL => name[a] < name[next[a]] /\ a \notin Walk(next, next[a])

(* An item has one reference for the list and one for each handle, also of *)
(* a handle that has lost its address: no item is freed under a handle,    *)
(* and none that nobody refers to stays.                                   *)
RefsExact ==
  \A a \in Cells :
    /\ ref[a] = Cardinality({h \in Handles : hnd[h] = a})
                  + (IF a \in Listed THEN 1 ELSE 0)
    /\ a \in live <=> ref[a] > 0

(* An application that runs through the settings meets them in ascending   *)
(* order and misses none, whatever is set, added or removed on the way; it *)
(* stops early only if the item it stands on has been removed.             *)
Promise == INSTANCE SettingNames WITH
  None  <- NULL,
  names <- {name[a] : a \in Listed},
  at    <- [h \in Handles |-> IF hnd[h] = NULL THEN NULL ELSE name[hnd[h]]],
  kept  <- [h \in Handles |-> hnd[h] \in Listed]

IteratesInOrder == Promise!Spec
=============================================================================
