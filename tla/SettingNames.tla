---------------------------- MODULE SettingNames ----------------------------
(***************************************************************************)
(* What the item functions of a wsc_data_t promise (src/src/data.h, "Item  *)
(* iteration"), without a list or a count in sight: a set of names and     *)
(* handles that run through it in ascending order, whatever is added or    *)
(* removed meanwhile.  A handle outlives the item it stands on, but then   *)
(* leads nowhere.                                                          *)
(***************************************************************************)
EXTENDS Naturals

CONSTANTS
  Names,    \* numbers, ordered as strcmp orders the names
  Handles,
  None      \* where a handle is that stands on no item

VARIABLES
  names,  \* the names that have an item
  at,     \* the name of the item each handle stands on
  kept    \* is that item still one of the settings?

vars == <<names, at, kept>>

Init ==
  /\ names = {}
  /\ at = [h \in Handles |-> None]
  /\ kept = [h \in Handles |-> FALSE]

Insert(n) ==
  /\ n \notin names
  /\ names' = names \cup {n}
  /\ UNCHANGED <<at, kept>>

Delete(n) ==
  /\ n \in names
  /\ names' = names \ {n}
  /\ kept' = [h \in Handles |-> kept[h] /\ at[h] # n]
  /\ UNCHANGED at

StandOn(h, n) ==
  /\ at' = [at EXCEPT ![h] = n]
  /\ kept' = [kept EXCEPT ![h] = TRUE]
  /\ UNCHANGED names

Leave(h) ==
  /\ at' = [at EXCEPT ![h] = None]
  /\ kept' = [kept EXCEPT ![h] = FALSE]
  /\ UNCHANGED names

Start(h) == \E n \in names : StandOn(h, n)

Later(h) == {n \in names : kept[h] /\ n > at[h]}

Step(h) ==
  /\ at[h] # None
  /\ IF Later(h) = {} THEN Leave(h)
     ELSE \E n \in Later(h) : StandOn(h, n) /\ \A m \in Later(h) : n =< m

Forget ==
  /\ \A h \in Handles : at[h] = None
  /\ names' = {}
  /\ UNCHANGED <<at, kept>>

Next ==
  \/ \E n \in Names : Insert(n) \/ Delete(n)
  \/ \E h \in Handles : Start(h) \/ Step(h) \/ Leave(h)
  \/ Forget

Spec == Init /\ [][Next]_vars
=============================================================================
