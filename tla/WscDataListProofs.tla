------------------------- MODULE WscDataListProofs -------------------------
(***************************************************************************)
(* Proofs about WscDataList.  A walk is the least set that its first       *)
(* pointer is in and that the links do not leave: what holds of every item *)
(* of a list is proved by naming a set with those two properties.          *)
(***************************************************************************)
EXTENDS WscDataList, FiniteSetTheorems, WellFoundedInduction, TLAPS

-----------------------------------------------------------------------------
(* Walks along any links.                                                  *)

Links == [Cells -> Ptr]

(* A walk meets its first item and the successor of every item it meets.   *)
LEMMA WalkClosed ==
  ASSUME NEW f \in Links, NEW p \in Ptr
  PROVE  /\ Walk(f, p) \subseteq Cells
         /\ p \in Walk(f, p) \cup {NULL}
         /\ Closed(f, Walk(f, p))
<1>1. Walk(f, p) \subseteq Cells /\ p \in Walk(f, p) \cup {NULL}
  BY DEF Walk, Ptr
<1>2. ASSUME NEW x \in Walk(f, p), f[x] # NULL PROVE f[x] \in Walk(f, p)
  <2>1. x \in Cells /\ f[x] \in Cells
    BY <1>1, <1>2 DEF Links, Ptr
  <2>2. ASSUME NEW S \in SUBSET Cells, p \in S \cup {NULL}, Closed(f, S)
        PROVE  f[x] \in S
    <3>1. x \in S
      BY <1>2, <2>2 DEF Walk
    <3> QED BY <3>1, <2>2, <1>2 DEF Closed
  <2> QED BY <2>1, <2>2 DEF Walk
<1> QED BY <1>1, <1>2 DEF Closed

(* Whatever holds of the first item, and of the successor of an item it    *)
(* holds of, holds of every item met.                                      *)
LEMMA WalkLeast ==
  ASSUME NEW f \in Links, NEW p \in Ptr, NEW S \in SUBSET Cells,
         p \in S \cup {NULL}, Closed(f, S)
  PROVE  Walk(f, p) \subseteq S
BY DEF Walk

LEMMA WalkIs ==
  ASSUME NEW f \in Links, NEW p \in Ptr, NEW T \in SUBSET Cells,
         p \in T \cup {NULL}, Closed(f, T),
         ASSUME NEW S \in SUBSET Cells, p \in S \cup {NULL}, Closed(f, S)
         PROVE  T \subseteq S
  PROVE  Walk(f, p) = T
<1>1. Walk(f, p) \subseteq T
  BY WalkLeast
<1>2. T \subseteq Walk(f, p)
  BY WalkClosed
<1> QED BY <1>1, <1>2

LEMMA WalkNull ==
  ASSUME NEW f \in Links
  PROVE  Walk(f, NULL) = {}
<1>1. Closed(f, {}) /\ {} \in SUBSET Cells /\ NULL \in Ptr
  BY DEF Closed, Ptr
<1> QED BY <1>1, WalkLeast

(* A walk that starts at an item met stays within the walk.                *)
LEMMA WalkInner ==
  ASSUME NEW f \in Links, NEW p \in Ptr, NEW a \in Walk(f, p)
  PROVE  Walk(f, a) \subseteq Walk(f, p)
<1>1. a \in Ptr /\ Walk(f, p) \in SUBSET Cells /\ Closed(f, Walk(f, p))
  BY WalkClosed DEF Ptr
<1> QED BY <1>1, WalkLeast

LEMMA WalkUnfold ==
  ASSUME NEW f \in Links, NEW p \in Cells
  PROVE  Walk(f, p) = {p} \cup Walk(f, f[p])
<1> DEFINE T == {p} \cup Walk(f, f[p])
<1>1. f[p] \in Ptr /\ p \in Ptr /\ p # NULL
  BY CellsAssumption DEF Links, Ptr
<1>2. T \in SUBSET Cells /\ Closed(f, T)
  BY <1>1, WalkClosed DEF Closed
<1>3. Walk(f, p) \subseteq T
  BY <1>1, <1>2, WalkLeast
<1>4. p \in Walk(f, p) /\ f[p] \in Walk(f, p) \cup {NULL}
  BY <1>1, WalkClosed DEF Closed
<1>5. Walk(f, f[p]) \subseteq Walk(f, p)
  <2>1. Walk(f, p) \in SUBSET Cells /\ Closed(f, Walk(f, p))
    BY <1>1, WalkClosed
  <2> QED BY <1>1, <1>4, <2>1, WalkLeast
<1> QED BY <1>3, <1>4, <1>5

(* Of two items met, one is met after the other.                           *)
LEMMA WalkLinear ==
  ASSUME NEW f \in Links, NEW p \in Ptr,
         NEW a \in Walk(f, p), NEW b \in Walk(f, p)
  PROVE  b \in Walk(f, a) \/ a \in Walk(f, b)
<1> DEFINE S == {x \in Walk(f, p) : x \in Walk(f, a) \/ a \in Walk(f, x)}
<1>1. Walk(f, p) \subseteq Cells /\ Closed(f, Walk(f, p))
  BY WalkClosed
<1>2. p \in S \cup {NULL}
  BY WalkClosed
<1>3. ASSUME NEW x \in S, f[x] # NULL PROVE f[x] \in S
  <2>1. x \in Cells /\ a \in Cells /\ a \in Ptr /\ f[x] \in Walk(f, p)
    BY <1>1, <1>3 DEF Closed, Ptr
  <2>2. CASE x \in Walk(f, a)
    <3>1. f[x] \in Walk(f, a)
      BY <2>1, <2>2, <1>3, WalkClosed DEF Closed
    <3> QED BY <2>1, <3>1
  <2>3. CASE x \notin Walk(f, a)
    <3>1. a \in {x} \cup Walk(f, f[x])
      BY <2>1, <2>3, WalkUnfold
    <3>2. a # x
      BY <2>1, <2>3, WalkUnfold
    <3> QED BY <2>1, <3>1, <3>2
  <2> QED BY <2>2, <2>3
<1>4. Walk(f, p) \subseteq S
  <2>1. S \in SUBSET Cells /\ Closed(f, S)
    BY <1>1, <1>3 DEF Closed
  <2> QED BY <1>2, <2>1, WalkLeast
<1> QED BY <1>4

(* Every item met but the first is the successor of one.                   *)
LEMMA WalkBefore ==
  ASSUME NEW f \in Links, NEW p \in Ptr, NEW a \in Walk(f, p), a # p
  PROVE  \E b \in Walk(f, p) : f[b] = a
<1> SUFFICES ASSUME \A b \in Walk(f, p) : f[b] # a PROVE FALSE
  OBVIOUS
<1> DEFINE S == Walk(f, p) \ {a}
<1>1. S \in SUBSET Cells /\ p \in S \cup {NULL} /\ Closed(f, S)
  BY WalkClosed DEF Closed
<1> QED BY <1>1, WalkLeast

(* Only the links of the items met matter.                                 *)
LEMMA WalkSame ==
  ASSUME NEW f \in Links, NEW g \in Links, NEW p \in Ptr,
         \A x \in Walk(f, p) : g[x] = f[x]
  PROVE  Walk(g, p) = Walk(f, p)
<1> DEFINE T == Walk(f, p)
<1>1. T \in SUBSET Cells /\ p \in T \cup {NULL} /\ Closed(f, T)
  BY WalkClosed
<1>2. Closed(g, T)
  BY <1>1 DEF Closed
<1>3. ASSUME NEW S \in SUBSET Cells, p \in S \cup {NULL}, Closed(g, S)
      PROVE  T \subseteq S
  <2> DEFINE U == T \cap S
  <2>1. U \in SUBSET Cells /\ p \in U \cup {NULL} /\ Closed(f, U)
    BY <1>1, <1>3 DEF Closed
  <2>2. T \subseteq U
    BY <2>1, WalkLeast
  <2> QED BY <2>2
<1> HIDE DEF T
<1>4. Walk(g, p) = T
  BY <1>1, <1>2, <1>3, WalkIs
<1> QED BY <1>4 DEF T

-----------------------------------------------------------------------------
(* Sorted lists.                                                           *)

(* nm gives each item that a walk meets a larger name than its             *)
(* predecessor's.                                                          *)
Ascending(f, nm, p) ==
  /\ \A x \in Walk(f, p) : nm[x] \in Nat
  /\ \A x \in Walk(f, p) : f[x] # NULL => nm[x] < nm[f[x]]

(* What comes later is larger: no item is met twice.                       *)
LEMMA LaterIsGreater ==
  ASSUME NEW f \in Links, NEW nm, NEW p \in Ptr, Ascending(f, nm, p),
         NEW a \in Walk(f, p), NEW b \in Walk(f, f[a])
  PROVE  nm[a] < nm[b]
<1> DEFINE S == {x \in Walk(f, p) : nm[a] < nm[x]}
<1>1. Walk(f, p) \subseteq Cells /\ Closed(f, Walk(f, p))
  BY WalkClosed
<1>2. f[a] \in Ptr /\ f[a] \in S \cup {NULL}
  BY <1>1 DEF Ascending, Closed, Links
<1>3. ASSUME NEW x \in S, f[x] # NULL PROVE f[x] \in S
  <2>1. f[x] \in Walk(f, p)
    BY <1>1, <1>3 DEF Closed
  <2>2. nm[a] < nm[x] /\ nm[x] < nm[f[x]]
    BY <1>3 DEF Ascending
  <2>3. nm[a] \in Nat /\ nm[x] \in Nat /\ nm[f[x]] \in Nat
    BY <2>1 DEF Ascending
  <2> QED BY <2>1, <2>2, <2>3
<1>4. Walk(f, f[a]) \subseteq S
  <2>1. S \in SUBSET Cells /\ Closed(f, S)
    BY <1>1, <1>3 DEF Closed
  <2> QED BY <1>2, <2>1, WalkLeast
<1> QED BY <1>4

LEMMA GreaterIsLater ==
  ASSUME NEW f \in Links, NEW nm, NEW p \in Ptr, Ascending(f, nm, p),
         NEW a \in Walk(f, p), NEW b \in Walk(f, p), nm[a] < nm[b]
  PROVE  b \in Walk(f, f[a])
<1>1. a \in Cells /\ b \in Cells
  BY WalkClosed
<1>2. nm[a] \in Nat /\ nm[b] \in Nat
  BY DEF Ascending
<1>3. b \in Walk(f, a) \/ a \in Walk(f, b)
  BY WalkLinear
<1>4. Walk(f, a) = {a} \cup Walk(f, f[a]) /\ Walk(f, b) = {b} \cup Walk(f, f[b])
  BY <1>1, WalkUnfold
<1>5. a # b
  BY <1>2
<1>6. a \notin Walk(f, f[b])
  BY <1>2, LaterIsGreater
<1> QED BY <1>3, <1>4, <1>5, <1>6

(* Two items of a list have different names.                               *)
LEMMA NamesDiffer ==
  ASSUME NEW f \in Links, NEW nm, NEW p \in Ptr, Ascending(f, nm, p),
         NEW a \in Walk(f, p), NEW b \in Walk(f, p), nm[a] = nm[b]
  PROVE  a = b
<1>1. a \in Cells /\ b \in Cells
  BY WalkClosed
<1>2. nm[a] \in Nat /\ nm[b] \in Nat
  BY DEF Ascending
<1>3. b \in Walk(f, a) \/ a \in Walk(f, b)
  BY WalkLinear
<1>4. Walk(f, a) = {a} \cup Walk(f, f[a]) /\ Walk(f, b) = {b} \cup Walk(f, f[b])
  BY <1>1, WalkUnfold
<1>5. a \notin Walk(f, f[b]) /\ b \notin Walk(f, f[a])
  BY <1>2, LaterIsGreater
<1> QED BY <1>3, <1>4, <1>5

(* The successor of an item has the least of the larger names.             *)
LEMMA NextIsLeast ==
  ASSUME NEW f \in Links, NEW nm, NEW p \in Ptr, Ascending(f, nm, p),
         NEW a \in Walk(f, p), NEW b \in Walk(f, p), nm[a] < nm[b]
  PROVE  /\ f[a] \in Walk(f, p)
         /\ nm[a] < nm[f[a]]
         /\ nm[f[a]] =< nm[b]
<1>1. b \in Walk(f, f[a])
  BY GreaterIsLater
<1>2. f[a] # NULL
  BY <1>1, WalkNull
<1>3. f[a] \in Walk(f, p) /\ f[a] \in Cells
  BY <1>2, WalkClosed DEF Closed
<1>4. b = f[a] \/ b \in Walk(f, f[f[a]])
  BY <1>1, <1>3, WalkUnfold
<1>5. nm[f[a]] \in Nat /\ nm[b] \in Nat
  BY <1>3 DEF Ascending
<1>6. nm[a] < nm[f[a]]
  BY <1>2 DEF Ascending
<1>7. nm[f[a]] =< nm[b]
  BY <1>3, <1>4, <1>5, LaterIsGreater
<1> QED BY <1>3, <1>6, <1>7

LEMMA NoLoop ==
  ASSUME NEW f \in Links, NEW nm, NEW p \in Ptr, Ascending(f, nm, p),
         NEW a \in Walk(f, p)
  PROVE  a \notin Walk(f, f[a]) /\ f[a] # a
<1>1. a \in Cells
  BY WalkClosed
<1>2. nm[a] \in Nat
  BY DEF Ascending
<1>3. a \notin Walk(f, f[a])
  BY <1>2, LaterIsGreater
<1>4. f[a] # a
  <2> SUFFICES ASSUME f[a] = a PROVE FALSE
    OBVIOUS
  <2>1. a \in Walk(f, a)
    BY <1>1, WalkUnfold
  <2> QED BY <2>1, <1>3
<1> QED BY <1>3, <1>4

(* A set of numbers that is not empty has a least one.                     *)
LEMMA NatMin ==
  ASSUME NEW S \in SUBSET Nat, NEW s \in S
  PROVE  \E m \in S : \A n \in S : m =< n
<1> DEFINE R == {ss \in Nat \X Nat : ss[1] < ss[2]}
<1>1. IsWellFoundedOn(R, Nat)
  BY NatLessThanWellFounded, Zenon DEF OpToRel
<1>2. PICK m \in S : \A n \in S : ~ (<<n, m>> \in R)
  <2> HIDE DEF R
  <2> QED BY <1>1, WFMin
<1>3. ASSUME NEW n \in S PROVE m =< n
  <2>1. ~ (n < m)
    BY <1>2, <1>3
  <2> QED BY <2>1
<1> QED BY <1>3

-----------------------------------------------------------------------------
(* What the operations do to the links.                                    *)

(* An item in front of a list.                                             *)
LEMMA Prepended ==
  ASSUME NEW f \in Links, NEW p \in Ptr, NEW a \in Cells \ Walk(f, p),
         NEW g \in Links, g[a] = p, \A x \in Cells \ {a} : g[x] = f[x]
  PROVE  Walk(g, a) = Walk(f, p) \cup {a}
<1>1. Walk(g, p) = Walk(f, p)
  BY WalkSame, WalkClosed
<1>2. Walk(g, a) = {a} \cup Walk(g, g[a])
  BY WalkUnfold
<1> QED BY <1>1, <1>2

(* An item after item q of a list.                                         *)
LEMMA Inserted ==
  ASSUME NEW f \in Links, NEW p \in Ptr, NEW q \in Walk(f, p),
         NEW a \in Cells \ Walk(f, p),
         NEW g \in Links, g[a] = f[q], g[q] = a,
         \A x \in Cells \ {a, q} : g[x] = f[x]
  PROVE  Walk(g, p) = Walk(f, p) \cup {a}
<1> DEFINE R == Walk(f, p)
           T == R \cup {a}
<1>1. R \subseteq Cells /\ p \in R \cup {NULL} /\ Closed(f, R)
  BY WalkClosed
<1>2. T \in SUBSET Cells /\ p \in T \cup {NULL} /\ Closed(g, T)
  BY <1>1 DEF Closed
<1>3. ASSUME NEW S \in SUBSET Cells, p \in S \cup {NULL}, Closed(g, S)
      PROVE  T \subseteq S
  <2> DEFINE U == R \cap S
  <2>1. a # NULL
    BY CellsAssumption
  <2>2. ASSUME NEW x \in U PROVE f[x] \in S \cup {NULL}
    <3>1. x \in Cells /\ x # a
      BY <1>1
    <3>2. CASE x = q
      <4>1. a \in S
        BY <1>3, <2>1, <3>2 DEF Closed
      <4> QED BY <1>3, <3>2, <4>1 DEF Closed
    <3>3. CASE x # q
      BY <1>3, <3>1, <3>3 DEF Closed
    <3> QED BY <3>2, <3>3
  <2>3. U \in SUBSET Cells /\ p \in U \cup {NULL} /\ Closed(f, U)
    BY <1>1, <1>3, <2>2 DEF Closed
  <2>4. R \subseteq U
    BY <2>3, WalkLeast
  <2>5. a \in S
    BY <1>3, <2>1, <2>4 DEF Closed
  <2> QED BY <2>4, <2>5
<1> HIDE DEF R, T
<1>4. Walk(g, p) = T
  BY <1>2, <1>3, WalkIs
<1> QED BY <1>4 DEF T, R

(* wsc_data_item_detach of an item of the list.                            *)
LEMMA Unlinked ==
  ASSUME NEW f \in Links, NEW p \in Ptr, NEW a \in Walk(f, p), f[a] # a,
         NEW g,
         g = [x \in Cells |-> IF x = a THEN NULL
                              ELSE IF x \in Walk(f, p) /\ f[x] = a THEN f[a]
                              ELSE f[x]],
         NEW q, q = IF p = a THEN f[a] ELSE p
  PROVE  g \in Links /\ q \in Ptr /\ Walk(g, q) = Walk(f, p) \ {a}
<1> DEFINE R == Walk(f, p)
           T == R \ {a}
<1>1. R \subseteq Cells /\ p \in R \cup {NULL} /\ Closed(f, R)
  BY WalkClosed
<1>2. a # NULL /\ f[a] \in R \cup {NULL} /\ f[a] \in Ptr
  BY <1>1, CellsAssumption DEF Closed, Links
<1>3. /\ \A x \in Cells : g[x] \in Ptr
      /\ \A x \in R : x # a => g[x] = IF f[x] = a THEN f[a] ELSE f[x]
      /\ g \in Links
  BY <1>1, <1>2 DEF Links, Ptr
<1>4. T \in SUBSET Cells /\ q \in T \cup {NULL} /\ q \in Ptr /\ Closed(g, T)
  BY <1>1, <1>2, <1>3 DEF Closed
<1>5. ASSUME NEW S \in SUBSET Cells, q \in S \cup {NULL}, Closed(g, S)
      PROVE  T \subseteq S
  <2> DEFINE U == {x \in R : \/ x # a /\ x \in S
                             \/ x = a /\ f[a] \in S \cup {NULL}}
  <2>1. p \in U \cup {NULL}
    BY <1>1, <1>5
  <2>2. ASSUME NEW x \in U, f[x] # NULL PROVE f[x] \in U
    <3>1. f[x] \in R /\ f[a] # a
      BY <1>1, <2>2 DEF Closed
    <3>2. CASE x = a
      BY <2>2, <3>1, <3>2
    <3>3. CASE x # a /\ f[x] = a
      <4>1. g[x] = f[a] /\ x \in S
        BY <1>3, <3>3
      <4>2. f[a] \in S \cup {NULL}
        BY <1>5, <4>1 DEF Closed
      <4> QED BY <3>1, <3>3, <4>2
    <3>4. CASE x # a /\ f[x] # a
      <4>1. g[x] = f[x] /\ x \in S
        BY <1>3, <3>4
      <4>2. f[x] \in S
        BY <1>5, <2>2, <4>1 DEF Closed
      <4> QED BY <3>1, <3>4, <4>2
    <3> QED BY <3>2, <3>3, <3>4
  <2>3. U \in SUBSET Cells /\ Closed(f, U)
    BY <1>1, <2>2 DEF Closed
  <2>4. R \subseteq U
    BY <2>1, <2>3, WalkLeast
  <2> QED BY <2>4
<1> HIDE DEF R, T
<1>6. Walk(g, q) = T
  BY <1>3, <1>4, <1>5, WalkIs
<1> QED BY <1>3, <1>4, <1>6 DEF T, R

(* wsc_data_item_reattach of an item of the list that has moved to b.      *)
LEMMA Relinked ==
  ASSUME NEW f \in Links, NEW p \in Ptr, NEW a \in Walk(f, p), f[a] # a,
         NEW b \in Cells \ Walk(f, p),
         NEW g,
         g = [x \in Cells |-> IF x = b THEN f[a]
                              ELSE IF x \in Walk(f, p) /\ f[x] = a THEN b
                              ELSE f[x]],
         NEW q, q = IF p = a THEN b ELSE p
  PROVE  /\ g \in Links /\ q \in Ptr
         /\ Walk(g, q) = (Walk(f, p) \ {a}) \cup {b}
<1> DEFINE R == Walk(f, p)
           T == (R \ {a}) \cup {b}
<1>1. R \subseteq Cells /\ p \in R \cup {NULL} /\ Closed(f, R)
  BY WalkClosed
<1>2. a # NULL /\ b # NULL /\ f[a] \in R \cup {NULL} /\ f[a] \in Ptr
  BY <1>1, CellsAssumption DEF Closed, Links
<1>3. /\ \A x \in R : g[x] = IF f[x] = a THEN b ELSE f[x]
      /\ g[b] = f[a]
      /\ g \in Links
  BY <1>1, <1>2 DEF Links, Ptr
<1>4. T \in SUBSET Cells /\ q \in T \cup {NULL} /\ q \in Ptr /\ Closed(g, T)
  <2>1. T \in SUBSET Cells /\ q \in T \cup {NULL} /\ q \in Ptr
    BY <1>1 DEF Ptr
  <2>2. ASSUME NEW x \in T PROVE g[x] \in T \cup {NULL}
    BY <1>1, <1>2, <1>3 DEF Closed
  <2> QED BY <2>1, <2>2 DEF Closed
<1>5. ASSUME NEW S \in SUBSET Cells, q \in S \cup {NULL}, Closed(g, S)
      PROVE  T \subseteq S
  <2> DEFINE U == {x \in R : \/ x # a /\ x \in S
                             \/ x = a /\ b \in S}
  <2>1. p \in U \cup {NULL}
    BY <1>1, <1>2, <1>5
  <2>2. ASSUME NEW x \in U, f[x] # NULL PROVE f[x] \in U
    <3>1. f[x] \in R /\ f[a] # a
      BY <1>1, <2>2 DEF Closed
    <3>2. CASE x = a
      <4>1. g[b] \in S \cup {NULL}
        BY <1>5, <3>2 DEF Closed
      <4> QED BY <1>3, <2>2, <3>1, <3>2, <4>1
    <3>3. CASE x # a /\ f[x] = a
      <4>1. g[x] = b /\ x \in S
        BY <1>3, <3>3
      <4>2. b \in S
        BY <1>2, <1>5, <4>1 DEF Closed
      <4> QED BY <3>1, <3>3, <4>2
    <3>4. CASE x # a /\ f[x] # a
      <4>1. g[x] = f[x] /\ x \in S
        BY <1>3, <3>4
      <4>2. f[x] \in S
        BY <1>5, <2>2, <4>1 DEF Closed
      <4> QED BY <3>1, <3>4, <4>2
    <3> QED BY <3>2, <3>3, <3>4
  <2>3. U \in SUBSET Cells /\ Closed(f, U)
    BY <1>1, <2>2 DEF Closed
  <2>4. R \subseteq U
    BY <2>1, <2>3, WalkLeast
  <2> QED BY <2>4
<1> HIDE DEF R, T
<1>6. Walk(g, q) = T
  <2>1. g \in Links /\ T \in SUBSET Cells /\ q \in Ptr
        /\ q \in T \cup {NULL} /\ Closed(g, T)
    BY <1>3, <1>4
  <2> QED BY <2>1, <1>5, WalkIs, Zenon
<1> QED BY <1>3, <1>4, <1>6 DEF T, R

-----------------------------------------------------------------------------
(* Counting handles.                                                       *)

(* The handles that g places on item a.                                    *)
HandlesAt(g, a) == {h \in Handles : g[h] = a}

LEMMA HandlesCounted ==
  ASSUME NEW g, NEW a
  PROVE  /\ IsFiniteSet(HandlesAt(g, a))
         /\ Cardinality(HandlesAt(g, a)) \in Nat
         /\ Cardinality(HandlesAt(g, a)) =< Cardinality(Handles)
         /\ Cardinality(HandlesAt(g, a)) = 0 <=> HandlesAt(g, a) = {}
<1>1. HandlesAt(g, a) \in SUBSET Handles
  BY DEF HandlesAt
<1>2. IsFiniteSet(HandlesAt(g, a))
      /\ Cardinality(HandlesAt(g, a)) =< Cardinality(Handles)
  BY <1>1, HandlesAssumption, FS_Subset
<1> QED BY <1>2, FS_CardinalityType, FS_EmptySet

LEMMA HandlePointed ==
  ASSUME NEW g \in [Handles -> Ptr], NEW k \in [Handles -> Ptr],
         NEW h \in Handles, NEW v \in Ptr, NEW a \in Cells,
         \A i \in Handles : k[i] = IF i = h THEN v ELSE g[i]
  PROVE  HandlesAt(k, a) = IF v = a THEN HandlesAt(g, a) \cup {h}
                                    ELSE HandlesAt(g, a) \ {h}
BY DEF HandlesAt

LEMMA HandleCounted ==
  ASSUME NEW g \in [Handles -> Ptr], NEW h \in Handles, NEW a \in Cells
  PROVE  /\ Cardinality(HandlesAt(g, a) \cup {h}) =
              IF g[h] = a THEN Cardinality(HandlesAt(g, a))
                          ELSE Cardinality(HandlesAt(g, a)) + 1
         /\ Cardinality(HandlesAt(g, a) \ {h}) =
              IF g[h] = a THEN Cardinality(HandlesAt(g, a)) - 1
                          ELSE Cardinality(HandlesAt(g, a))
<1> DEFINE G == HandlesAt(g, a)
<1>1. h \in G <=> g[h] = a
  BY DEF HandlesAt
<1>2. IsFiniteSet(G) /\ Cardinality(G) \in Nat
  BY HandlesCounted
<1> HIDE DEF G
<1>3. /\ Cardinality(G \cup {h}) =
           IF h \in G THEN Cardinality(G) ELSE Cardinality(G) + 1
      /\ Cardinality(G \ {h}) =
           IF h \in G THEN Cardinality(G) - 1 ELSE Cardinality(G)
  BY <1>2, FS_AddElement, FS_RemoveElement
<1>4. /\ Cardinality(G \cup {h}) =
           IF g[h] = a THEN Cardinality(G) ELSE Cardinality(G) + 1
      /\ Cardinality(G \ {h}) =
           IF g[h] = a THEN Cardinality(G) - 1 ELSE Cardinality(G)
  BY <1>1, <1>3
<1> QED BY <1>4 DEF G

LEMMA HandlesMoved ==
  ASSUME NEW g \in [Handles -> Ptr], NEW k \in [Handles -> Ptr],
         NEW a \in Cells, NEW b \in Cells, NEW x \in Cells,
         a # b, HandlesAt(g, b) = {},
         \A h \in Handles : k[h] = IF g[h] = a THEN b ELSE g[h]
  PROVE  HandlesAt(k, x) = IF x = a THEN {}
                           ELSE IF x = b THEN HandlesAt(g, a)
                           ELSE HandlesAt(g, x)
BY DEF HandlesAt

-----------------------------------------------------------------------------
(* The invariant.                                                          *)

TypesInv ==
  /\ live \subseteq Cells
  /\ name \in [Cells -> Names \cup {NULL}]
  /\ next \in Links
  /\ ref \in [Cells -> Nat]
  /\ first \in Ptr
  /\ hnd \in [Handles -> Ptr]
  /\ stale \subseteq Handles

(* The names of a list of live items ascend; that no item comes twice      *)
(* follows.                                                                *)
SortedInv ==
  /\ Listed \subseteq live
  /\ \A a \in live : name[a] \in Names
  /\ \A a \in Listed : next[a] # NULL => name[a] < name[next[a]]

(* An item that has left the list leads nowhere.                           *)
AloneInv == \A a \in live \ Listed : next[a] = NULL

IInv == TypesInv /\ SortedInv /\ AloneInv /\ RefsExact

(* An item counts the list L, if it is in it, and the handles g on it; it  *)
(* is one of l as long as the count r is not zero.                         *)
Counted(L, g, r, l) ==
  \A a \in Cells :
    /\ r[a] = Cardinality(HandlesAt(g, a)) + (IF a \in L THEN 1 ELSE 0)
    /\ a \in l <=> r[a] > 0

LEMMA RefsCounted ==
  RefsExact <=> Counted(Listed, hnd, ref, live)
BY DEF RefsExact, Counted, HandlesAt

LEMMA ListFacts ==
  ASSUME IInv
  PROVE  /\ Ascending(next, name, first)
         /\ Listed = Walk(next, first)
         /\ Listed \subseteq Cells
         /\ first \in Listed \cup {NULL}
         /\ Closed(next, Listed)
         /\ NULL \notin Cells
         /\ \A a \in Listed : next[a] # a /\ a \notin Walk(next, next[a])
         /\ next \in Links /\ first \in Ptr
<1>1. Listed = Walk(next, first) /\ next \in Links /\ first \in Ptr
  BY DEF Listed, IInv, TypesInv
<1>2. Ascending(next, name, first)
  BY <1>1, NamesAssumption DEF IInv, SortedInv, Ascending
<1>3. Listed \subseteq Cells /\ first \in Listed \cup {NULL} /\ Closed(next, Listed)
  BY <1>1, WalkClosed
<1>4. \A a \in Listed : next[a] # a /\ a \notin Walk(next, next[a])
  BY <1>1, <1>2, NoLoop
<1> QED BY <1>1, <1>2, <1>3, <1>4, CellsAssumption

(* A handle is on a live item, also on one that has left the list.         *)
LEMMA HandleFacts ==
  ASSUME IInv, NEW h \in Handles, hnd[h] # NULL
  PROVE  /\ hnd[h] \in live
         /\ hnd[h] \in Cells
         /\ ref[hnd[h]] \in Nat
         /\ ref[hnd[h]] > (IF hnd[h] \in Listed THEN 1 ELSE 0)
<1>1. hnd[h] \in Cells
  BY DEF IInv, TypesInv, Ptr
<1>2. h \in HandlesAt(hnd, hnd[h])
  BY DEF HandlesAt
<1> DEFINE c == Cardinality(HandlesAt(hnd, hnd[h]))
<1>3. c \in Nat /\ c # 0
  BY <1>2, HandlesCounted
<1>4. /\ ref[hnd[h]] = c + (IF hnd[h] \in Listed THEN 1 ELSE 0)
      /\ hnd[h] \in live <=> ref[hnd[h]] > 0
  BY <1>1, RefsCounted DEF IInv, Counted
<1> HIDE DEF c
<1> QED BY <1>1, <1>3, <1>4

LEMMA InitIInv ==
  ASSUME Init
  PROVE  IInv /\ Listed = {}
<1>1. TypesInv
  BY CellsAssumption DEF Init, TypesInv, Links, Ptr
<1>2. Listed = {}
  BY <1>1, WalkNull DEF Listed, Init, TypesInv
<1>3. ASSUME NEW a \in Cells PROVE HandlesAt(hnd, a) = {}
  BY CellsAssumption DEF Init, HandlesAt
<1>4. Counted(Listed, hnd, ref, live)
  <2> SUFFICES ASSUME NEW a \in Cells
               PROVE  /\ ref[a] = Cardinality(HandlesAt(hnd, a))
                                    + (IF a \in Listed THEN 1 ELSE 0)
                      /\ a \in live <=> ref[a] > 0
    BY DEF Counted
  <2>1. Cardinality(HandlesAt(hnd, a)) = 0
    BY <1>3, FS_EmptySet
  <2> QED BY <1>2, <2>1 DEF Init
<1>5. SortedInv /\ AloneInv
  BY <1>2 DEF SortedInv, AloneInv, Init
<1> QED BY <1>1, <1>2, <1>4, <1>5, RefsCounted DEF IInv

(* What the runs check follows.                                            *)
LEMMA TypesFollow ==
  ASSUME IInv
  PROVE  TypeOK
<1>1. ASSUME NEW a \in Cells PROVE ref[a] \in 0 .. Cardinality(Handles) + 1
  <2> DEFINE c == Cardinality(HandlesAt(hnd, a))
             n == Cardinality(Handles)
  <2>1. c \in Nat /\ c =< n
    BY HandlesCounted
  <2>2. n \in Nat
    BY HandlesAssumption, FS_CardinalityType
  <2>3. ref[a] = c + (IF a \in Listed THEN 1 ELSE 0)
    BY RefsCounted DEF IInv, Counted
  <2> HIDE DEF c, n
  <2>4. ref[a] \in 0 .. n + 1
    BY <2>1, <2>2, <2>3
  <2> QED BY <2>4 DEF n
<1>2. ref \in [Cells -> 0 .. Cardinality(Handles) + 1]
  BY <1>1 DEF IInv, TypesInv
<1> QED BY <1>2 DEF IInv, TypesInv, TypeOK, Links

LEMMA OrderFollows ==
  ASSUME IInv
  PROVE  ListSorted
BY ListFacts DEF IInv, SortedInv, ListSorted

-----------------------------------------------------------------------------
(* The place of a new name.                                                *)

LEMMA SomeStop ==
  ASSUME IInv, NEW n \in Names, first # NULL
  PROVE  \E a \in Listed : Stops(a, n)
<1> SUFFICES ASSUME \A a \in Listed : ~ Stops(a, n) PROVE FALSE
  OBVIOUS
<1>1. /\ n \in Nat /\ first \in Listed
      /\ \A a \in Listed : name[a] \in Nat
      /\ \A a \in Listed : next[a] # NULL => next[a] \in Listed
      /\ \A a \in Listed : next[a] # NULL => name[a] < name[next[a]]
  BY ListFacts, NamesAssumption DEF Ascending, Closed
<1>2. \A a \in Listed : next[a] \in Listed /\ name[next[a]] =< n
                        /\ name[a] < name[next[a]]
  BY <1>1 DEF Stops
<1> DEFINE S == {n - name[a] : a \in {b \in Listed : name[b] =< n}}
<1>3. S \in SUBSET Nat
  BY <1>1
<1>4. n - name[next[first]] \in S
  BY <1>1, <1>2
<1>5. PICK m \in S : \A k \in S : m =< k
  <2> HIDE DEF S
  <2> QED BY <1>3, <1>4, NatMin
<1>6. PICK a \in Listed : name[a] =< n /\ m = n - name[a]
  BY <1>5
<1>7. n - name[next[a]] \in S
  BY <1>2, <1>6
<1>8. m =< n - name[next[a]]
  BY <1>5, <1>7
<1> QED BY <1>1, <1>2, <1>6, <1>8

LEMMA FirstStop ==
  ASSUME IInv, NEW n \in Names, first # NULL
  PROVE  \E a \in Listed : /\ Stops(a, n)
                           /\ \A b \in Listed : Stops(b, n) => b \in Walk(next, a)
<1> DEFINE X == {a \in Listed : Stops(a, n)}
           S == {name[a] : a \in X}
<1>1. \A a \in Listed : name[a] \in Nat /\ a \in Cells
  BY ListFacts DEF Ascending
<1>2. PICK x \in Listed : Stops(x, n)
  BY SomeStop
<1>3. S \in SUBSET Nat /\ name[x] \in S
  BY <1>1, <1>2
<1>4. PICK m \in S : \A k \in S : m =< k
  <2> HIDE DEF S
  <2> QED BY <1>3, NatMin
<1>5. PICK a \in X : m = name[a]
  BY <1>4
<1>6. ASSUME NEW b \in Listed, Stops(b, n) PROVE b \in Walk(next, a)
  <2>1. name[b] \in S
    BY <1>6
  <2>2. name[a] =< name[b] /\ name[a] \in Nat /\ name[b] \in Nat
    BY <1>1, <1>4, <1>5, <2>1
  <2>3. Walk(next, a) = {a} \cup Walk(next, next[a])
    BY <1>1, ListFacts, WalkUnfold
  <2>4. CASE name[a] = name[b]
    BY <2>3, <2>4, ListFacts, NamesDiffer
  <2>5. CASE name[a] < name[b]
    BY <2>3, <2>5, ListFacts, GreaterIsLater
  <2> QED BY <2>2, <2>4, <2>5
<1> QED BY <1>5, <1>6

(* set_item_data stops at the last item with a smaller name, and at the    *)
(* first item if there is none.                                            *)
LEMMA PrevIsRight ==
  ASSUME IInv, NEW n \in Names, first # NULL,
         \A a \in Listed : name[a] # n
  PROVE  /\ Prev(n) \in Listed
         /\ next[Prev(n)] # NULL => n < name[next[Prev(n)]]
         /\ Prev(n) = first \/ name[Prev(n)] < n
<1> DEFINE p == Prev(n)
           Best(a) == /\ Stops(a, n)
                      /\ \A b \in Listed : Stops(b, n) => b \in Walk(next, a)
<1>1. p \in Listed /\ Best(p)
  <2>1. p = CHOOSE a \in Listed : Best(a)
    BY DEF Prev
  <2>2. \E a \in Listed : Best(a)
    BY FirstStop
  <2> HIDE DEF Best, p
  <2> QED BY <2>1, <2>2
<1>2. next[p] # NULL => n < name[next[p]]
  BY <1>1 DEF Stops
<1>3. ASSUME p # first PROVE name[p] < n
  <2> HIDE DEF p
  <2> SUFFICES ASSUME ~ (name[p] < n) PROVE FALSE
    OBVIOUS
  <2>1. n \in Nat /\ name[p] \in Nat /\ name[p] # n
    BY <1>1, ListFacts, NamesAssumption DEF Ascending
  <2>2. PICK b \in Listed : next[b] = p
    BY <1>1, <1>3, ListFacts, WalkBefore
  <2>3. Stops(b, n)
    BY <2>1, <2>2 DEF Stops
  <2>4. b \in Walk(next, next[b])
    BY <1>1, <2>2, <2>3
  <2> QED BY <2>4, ListFacts
<1> QED BY <1>1, <1>2, <1>3

LEMMA ItemIs ==
  ASSUME IInv, NEW n, Item(n) # NULL
  PROVE  Item(n) \in Listed /\ name[Item(n)] = n
<1>1. \E a \in Listed : name[a] = n
  BY DEF Item
<1> QED BY <1>1 DEF Item

LEMMA NoItem ==
  ASSUME IInv, NEW n, Item(n) = NULL
  PROVE  \A a \in Listed : name[a] # n
BY ListFacts DEF Item

-----------------------------------------------------------------------------
(* What each operation does to the list.                                   *)

(* set_item_data puts the new item where the names stay sorted.            *)
LEMMA InsertEffect ==
  ASSUME IInv, NEW n \in Names, NEW a \in Cells, Insert(n, a)
  PROVE  /\ TypesInv'
         /\ a \notin Listed /\ Listed' = Listed \cup {a}
         /\ SortedInv' /\ AloneInv'
<1>1. /\ a \notin live /\ a \notin Listed /\ a # NULL
      /\ Listed \subseteq live
      /\ next \in Links /\ first \in Ptr
      /\ n \in Nat
      /\ \A x \in live : name[x] \in Names
    BY ListFacts, NamesAssumption DEF Insert, IInv, SortedInv
<1>2. /\ name' \in [Cells -> Names \cup {NULL}]
      /\ name'[a] = n
      /\ \A x \in Cells \ {a} : name'[x] = name[x]
      /\ live' = live \cup {a}
      /\ ref' \in [Cells -> Nat]
      /\ hnd' = hnd /\ stale' = stale
  BY DEF Insert, IInv, TypesInv
<1>3. \A x \in Listed : name[x] # n
  BY NoItem DEF Insert
<1>4. CASE Prev(n) # NULL /\ name[Prev(n)] < n
  <2> DEFINE p == Prev(n)
  <2>1. next' = [next EXCEPT ![a] = next[p], ![p] = a] /\ first' = first
    BY <1>4 DEF Insert
  <2>2. first # NULL
    BY <1>4 DEF Prev
  <2>3. p \in Listed /\ name[p] < n /\ (next[p] # NULL => n < name[next[p]])
    BY <1>3, <1>4, <2>2, PrevIsRight
  <2> HIDE DEF p
  <2>4. /\ next'[a] = next[p] /\ next'[p] = a
        /\ \A x \in Cells \ {a, p} : next'[x] = next[x]
    BY <1>1, <2>1, <2>3, ListFacts DEF Links
  <2>5. next' \in Links /\ Walk(next', first) = Listed \cup {a}
    <3>1. p \in Walk(next, first) /\ a \in Cells \ Walk(next, first)
      BY <1>1, <2>3 DEF Listed
    <3>2. next' \in Links
      BY <1>1, <2>1, <3>1, WalkClosed DEF Links, Ptr
    <3>3. Walk(next', first) = Walk(next, first) \cup {a}
      BY <1>1, <2>4, <3>1, <3>2, Inserted
    <3> QED BY <3>2, <3>3 DEF Listed
  <2>6. Listed' = Listed \cup {a}
    BY <2>1, <2>5 DEF Listed
  <2>7. ASSUME NEW x \in Listed', next'[x] # NULL
        PROVE  name'[x] < name'[next'[x]]
    <3>1. \A y \in Listed : y \in Cells \ {a} /\ (next[y] # NULL => next[y] \in Listed)
      BY <1>1, ListFacts DEF Closed
    <3>2. CASE x = a
      <4>1. next[p] # NULL /\ next[p] \in Listed
        BY <2>3, <2>4, <2>7, <3>1, <3>2
      <4> QED BY <1>2, <2>3, <2>4, <3>1, <3>2, <4>1
    <3>3. CASE x = p
      BY <1>2, <2>3, <2>4, <3>1, <3>3
    <3>4. CASE x # a /\ x # p
      <4>1. x \in Listed /\ next'[x] = next[x]
        BY <2>6, <2>4, <3>1, <3>4
      <4>2. name[x] < name[next[x]] /\ next[x] \in Listed
        BY <2>7, <3>1, <4>1, ListFacts DEF Ascending
      <4> QED BY <1>2, <3>1, <4>1, <4>2
    <3> QED BY <3>2, <3>3, <3>4
  <2>8. SortedInv'
    BY <1>1, <1>2, <2>6, <2>7 DEF SortedInv, IInv, TypesInv
  <2>9. AloneInv'
    BY <1>1, <1>2, <2>3, <2>6, <2>4 DEF AloneInv, IInv, TypesInv
  <2> QED BY <1>1, <1>2, <2>1, <2>5, <2>6, <2>8, <2>9 DEF TypesInv, IInv
<1>5. CASE ~ (Prev(n) # NULL /\ name[Prev(n)] < n)
  <2>1. Prev(n) = first
    BY <1>3, <1>5, PrevIsRight, ListFacts DEF Prev
  <2>2. next' = [next EXCEPT ![a] = first] /\ first' = a
    BY <1>5, <2>1 DEF Insert
  <2>3. next'[a] = first /\ \A x \in Cells \ {a} : next'[x] = next[x]
    BY <2>2, <1>1 DEF Links
  <2>4. next' \in Links /\ Walk(next', a) = Listed \cup {a}
    <3>1. a \in Cells \ Walk(next, first)
      BY <1>1 DEF Listed
    <3>2. next' \in Links
      BY <1>1, <2>2 DEF Links, Ptr
    <3>3. Walk(next', a) = Walk(next, first) \cup {a}
      BY <1>1, <2>3, <3>1, <3>2, Prepended
    <3> QED BY <3>2, <3>3 DEF Listed
  <2>5. Listed' = Listed \cup {a}
    BY <2>2, <2>4 DEF Listed
  <2>6. first # NULL => first \in Listed /\ n < name[first]
    <3> SUFFICES ASSUME first # NULL PROVE first \in Listed /\ n < name[first]
      OBVIOUS
    <3>1. first \in Listed /\ name[first] \in Nat
      BY ListFacts DEF Ascending
    <3>2. name[first] # n /\ ~ (name[first] < n)
      BY <1>3, <1>5, <2>1, <3>1
    <3> QED BY <1>1, <3>1, <3>2
  <2>7. ASSUME NEW x \in Listed', next'[x] # NULL
        PROVE  name'[x] < name'[next'[x]]
    <3>1. \A y \in Listed : y \in Cells \ {a} /\ (next[y] # NULL => next[y] \in Listed)
      BY <1>1, ListFacts DEF Closed
    <3>2. CASE x = a
      BY <1>2, <2>3, <2>6, <2>7, <3>1, <3>2
    <3>3. CASE x # a
      <4>1. x \in Listed /\ next'[x] = next[x]
        BY <2>5, <2>3, <3>1, <3>3
      <4>2. name[x] < name[next[x]] /\ next[x] \in Listed
        BY <2>7, <3>1, <4>1, ListFacts DEF Ascending
      <4> QED BY <1>2, <3>1, <4>1, <4>2
    <3> QED BY <3>2, <3>3
  <2>8. SortedInv'
    BY <1>1, <1>2, <2>5, <2>7 DEF SortedInv, IInv, TypesInv
  <2>9. AloneInv'
    BY <1>1, <1>2, <2>5, <2>3 DEF AloneInv, IInv, TypesInv
  <2> QED BY <1>1, <1>2, <2>2, <2>4, <2>5, <2>8, <2>9 DEF TypesInv, IInv, Ptr
<1> QED BY <1>4, <1>5

LEMMA SameList ==
  ASSUME first' = first, next' = next
  PROVE  Listed' = Listed
BY DEF Listed

(* wsc_data_item_detach of an item of the list; a second call does         *)
(* nothing.                                                                *)
LEMMA DetachEffect ==
  ASSUME IInv, NEW a \in Listed, NEW d, d = Detach(Heap, a)
  PROVE  /\ d.next \in Links /\ d.first \in Ptr
         /\ Walk(d.next, d.first) = Listed \ {a}
         /\ d.next[a] = NULL
         /\ \A x \in Cells \ Listed : d.next[x] = next[x]
         /\ \A x \in Listed \ {a} :
              d.next[x] # NULL => name[x] < name[d.next[x]]
         /\ d.ref = ref /\ d.live = live
         /\ Detach(d, a).next = d.next /\ Detach(d, a).first = d.first
         /\ Detach(d, a).ref = ref /\ Detach(d, a).live = live
<1> DEFINE g == [x \in Cells |-> IF x = a THEN NULL
                                 ELSE IF x \in Listed /\ next[x] = a THEN next[a]
                                 ELSE next[x]]
           q == IF first = a THEN next[a] ELSE first
<1>1. /\ d.first = q /\ d.next = g
      /\ d.ref = ref /\ d.live = live
  BY DEF Detach, Heap
<1>2. next[a] # a /\ a \in Cells /\ a # NULL
  BY ListFacts
<1>3. g \in Links /\ q \in Ptr /\ Walk(g, q) = Listed \ {a}
  <2>1. Listed = Walk(next, first) /\ next \in Links /\ first \in Ptr
    BY ListFacts
  <2>2. g = [x \in Cells |-> IF x = a THEN NULL
                             ELSE IF x \in Walk(next, first) /\ next[x] = a
                             THEN next[a] ELSE next[x]]
    BY <2>1
  <2> HIDE DEF g
  <2> DEFINE r == q
  <2>3. r = IF first = a THEN next[a] ELSE first
    OBVIOUS
  <2> HIDE DEF r
  <2>4. g \in Links /\ r \in Ptr /\ Walk(g, r) = Walk(next, first) \ {a}
    BY <1>2, <2>1, <2>2, <2>3, Unlinked
  <2> QED BY <2>1, <2>4 DEF r
<1>4. /\ g[a] = NULL /\ \A x \in Cells \ Listed : g[x] = next[x]
      /\ \A x \in Listed \ {a} : g[x] = IF next[x] = a THEN next[a] ELSE next[x]
  BY <1>2, ListFacts
<1>5. ASSUME NEW x \in Listed \ {a}, g[x] # NULL PROVE name[x] < name[g[x]]
  <2>1. CASE next[x] = a
    <3>1. name[x] < name[a] /\ name[a] < name[next[a]] /\ next[a] \in Listed
      BY <1>2, <1>4, <1>5, <2>1, ListFacts DEF Ascending, Closed
    <3>2. name[x] \in Nat /\ name[a] \in Nat /\ name[next[a]] \in Nat
      BY <3>1, ListFacts DEF Ascending
    <3> QED BY <1>4, <2>1, <3>1, <3>2
  <2>2. CASE next[x] # a
    BY <1>4, <1>5, <2>2, ListFacts DEF Ascending
  <2> QED BY <2>1, <2>2
<1>6. Detach(d, a).first = d.first /\ Detach(d, a).ref = ref
      /\ Detach(d, a).live = live
  BY <1>1, <1>2 DEF Detach, Heap
<1>7. Detach(d, a).next = d.next
  <2> DEFINE k == [x \in Cells |-> IF x = a THEN NULL
                                   ELSE IF x \in Listed /\ g[x] = a THEN next[a]
                                   ELSE g[x]]
  <2>1. Detach(d, a).next = k
    BY <1>1 DEF Detach, Heap
  <2>2. \A x \in Cells : k[x] = g[x]
    BY <1>2
  <2>3. k = [x \in Cells |-> k[x]] /\ g = [x \in Cells |-> g[x]]
    OBVIOUS
  <2> HIDE DEF k, g
  <2>4. k = g
    BY <2>2, <2>3
  <2> QED BY <1>1, <2>1, <2>4
<1> QED BY <1>1, <1>3, <1>4, <1>5, <1>6, <1>7

-----------------------------------------------------------------------------
(* What each operation does to the counts.                                 *)

LEMMA CountedPoint ==
  ASSUME NEW L, NEW g \in [Handles -> Ptr], NEW r \in [Cells -> Nat],
         NEW l \in SUBSET Cells, Counted(L, g, r, l),
         NEW h \in Handles, g[h] = NULL, NEW a \in l,
         NEW k \in [Handles -> Ptr],
         \A i \in Handles : k[i] = IF i = h THEN a ELSE g[i],
         NEW s \in [Cells -> Nat],
         \A x \in Cells : s[x] = IF x = a THEN r[x] + 1 ELSE r[x]
  PROVE  Counted(L, k, s, l)
<1> SUFFICES ASSUME NEW x \in Cells
             PROVE  /\ s[x] = Cardinality(HandlesAt(k, x))
                                + (IF x \in L THEN 1 ELSE 0)
                    /\ x \in l <=> s[x] > 0
  BY DEF Counted
<1> DEFINE c == Cardinality(HandlesAt(g, x))
           d == Cardinality(HandlesAt(k, x))
<1>1. /\ x # NULL /\ r[x] \in Nat
      /\ a \in Ptr /\ k \in [Handles -> Ptr]
      /\ \A i \in Handles : k[i] = IF i = h THEN a ELSE g[i]
      /\ s[x] = IF x = a THEN r[x] + 1 ELSE r[x]
  BY CellsAssumption DEF Ptr
<1>2. d = IF a = x THEN c + 1 ELSE c
  <2>1. HandlesAt(k, x) = IF a = x THEN HandlesAt(g, x) \cup {h}
                                   ELSE HandlesAt(g, x) \ {h}
    BY <1>1, HandlePointed
  <2>2. g[h] # x
    BY <1>1
  <2>3. /\ Cardinality(HandlesAt(g, x) \cup {h}) = c + 1
        /\ Cardinality(HandlesAt(g, x) \ {h}) = c
    BY <2>2, HandleCounted
  <2> QED BY <2>1, <2>3
<1>3. c \in Nat
  BY HandlesCounted
<1>4. r[x] = c + (IF x \in L THEN 1 ELSE 0) /\ (x \in l <=> r[x] > 0)
  BY DEF Counted
<1> HIDE DEF c, d
<1>5. s[x] = d + (IF x \in L THEN 1 ELSE 0) /\ (x \in l <=> s[x] > 0)
  BY <1>1, <1>2, <1>3, <1>4
<1> QED BY <1>5 DEF d

(* The handle that is taken from an item, or its place in the list, costs  *)
(* one reference; the last reference costs the item.                       *)
LEMMA CountedDrop ==
  ASSUME NEW L, NEW g \in [Handles -> Ptr], NEW r \in [Cells -> Nat],
         NEW l \in SUBSET Cells, Counted(L, g, r, l),
         NEW h \in Handles, NEW a \in Cells, g[h] = a,
         NEW k \in [Handles -> Ptr],
         \A i \in Handles : k[i] = IF i = h THEN NULL ELSE g[i],
         NEW s,
         \A x \in Cells : s[x] = IF x = a THEN r[x] - 1 ELSE r[x],
         NEW m, m = IF r[a] = 1 THEN l \ {a} ELSE l
  PROVE  Counted(L, k, s, m) /\ \A x \in Cells : s[x] \in Nat
<1>1. ASSUME NEW x \in Cells
      PROVE  /\ s[x] = Cardinality(HandlesAt(k, x))
                         + (IF x \in L THEN 1 ELSE 0)
             /\ x \in m <=> s[x] > 0
             /\ s[x] \in Nat
  <2> DEFINE c == Cardinality(HandlesAt(g, x))
             d == Cardinality(HandlesAt(k, x))
  <2>1. /\ x # NULL /\ r[x] \in Nat
        /\ NULL \in Ptr /\ k \in [Handles -> Ptr]
        /\ \A i \in Handles : k[i] = IF i = h THEN NULL ELSE g[i]
        /\ s[x] = IF x = a THEN r[x] - 1 ELSE r[x]
    BY CellsAssumption DEF Ptr
  <2>2. d = IF a = x THEN c - 1 ELSE c
    <3>1. HandlesAt(k, x) = IF NULL = x THEN HandlesAt(g, x) \cup {h}
                                        ELSE HandlesAt(g, x) \ {h}
      BY <2>1, HandlePointed
    <3>2. Cardinality(HandlesAt(g, x) \ {h}) = IF g[h] = x THEN c - 1 ELSE c
      BY HandleCounted
    <3>3. a = x <=> g[h] = x
      OBVIOUS
    <3> QED BY <2>1, <3>1, <3>2, <3>3
  <2>3. c \in Nat /\ d \in Nat
    BY HandlesCounted
  <2>4. r[x] = c + (IF x \in L THEN 1 ELSE 0) /\ (x \in l <=> r[x] > 0)
    BY DEF Counted
  <2> HIDE DEF c, d
  <2>5. s[x] = d + (IF x \in L THEN 1 ELSE 0)
    BY <2>1, <2>2, <2>3, <2>4
  <2>6. s[x] \in Nat
    BY <2>3, <2>5
  <2>7. x \in m <=> s[x] > 0
    BY <2>1, <2>4, <2>6
  <2> QED BY <2>5, <2>6, <2>7 DEF d
<1> QED BY <1>1 DEF Counted

LEMMA CountedOut ==
  ASSUME NEW L, NEW g, NEW r \in [Cells -> Nat],
         NEW l \in SUBSET Cells, Counted(L, g, r, l),
         NEW a \in Cells, a \in L,
         NEW s,
         \A x \in Cells : s[x] = IF x = a THEN r[x] - 1 ELSE r[x],
         NEW m, m = IF r[a] = 1 THEN l \ {a} ELSE l
  PROVE  Counted(L \ {a}, g, s, m) /\ \A x \in Cells : s[x] \in Nat
<1>1. ASSUME NEW x \in Cells
      PROVE  /\ s[x] = Cardinality(HandlesAt(g, x))
                         + (IF x \in L \ {a} THEN 1 ELSE 0)
             /\ x \in m <=> s[x] > 0
             /\ s[x] \in Nat
  <2> DEFINE c == Cardinality(HandlesAt(g, x))
  <2>1. r[x] \in Nat /\ s[x] = IF x = a THEN r[x] - 1 ELSE r[x]
    OBVIOUS
  <2>2. c \in Nat
    BY HandlesCounted
  <2>3. r[x] = c + (IF x \in L THEN 1 ELSE 0) /\ (x \in l <=> r[x] > 0)
    BY DEF Counted
  <2> HIDE DEF c
  <2>4. s[x] = c + (IF x \in L \ {a} THEN 1 ELSE 0) /\ s[x] \in Nat
    BY <2>1, <2>2, <2>3
  <2>5. x \in m <=> s[x] > 0
    BY <2>1, <2>3, <2>4
  <2> QED BY <2>4, <2>5 DEF c
<1> QED BY <1>1 DEF Counted

LEMMA CountedIn ==
  ASSUME NEW L, NEW g, NEW r \in [Cells -> Nat],
         NEW l \in SUBSET Cells, Counted(L, g, r, l),
         NEW a \in Cells \ l,
         NEW s, \A x \in Cells : s[x] = IF x = a THEN 1 ELSE r[x]
  PROVE  Counted(L \cup {a}, g, s, l \cup {a})
<1> SUFFICES ASSUME NEW x \in Cells
             PROVE  /\ s[x] = Cardinality(HandlesAt(g, x))
                                + (IF x \in L \cup {a} THEN 1 ELSE 0)
                    /\ x \in l \cup {a} <=> s[x] > 0
  BY DEF Counted
<1> DEFINE c == Cardinality(HandlesAt(g, x))
<1>1. r[x] \in Nat /\ s[x] = IF x = a THEN 1 ELSE r[x]
  OBVIOUS
<1>2. c \in Nat
  BY HandlesCounted
<1>3. r[x] = c + (IF x \in L THEN 1 ELSE 0) /\ (x \in l <=> r[x] > 0)
  BY DEF Counted
<1> HIDE DEF c
<1>4. s[x] = c + (IF x \in L \cup {a} THEN 1 ELSE 0)
      /\ (x \in l \cup {a} <=> s[x] > 0)
  BY <1>1, <1>2, <1>3
<1> QED BY <1>4 DEF c

LEMMA CountedMoved ==
  ASSUME NEW L \in SUBSET Cells, NEW g \in [Handles -> Ptr],
         NEW r \in [Cells -> Nat],
         NEW l \in SUBSET Cells, Counted(L, g, r, l),
         NEW a \in l, NEW b \in Cells \ l,
         NEW M, M = IF a \in L THEN (L \ {a}) \cup {b} ELSE L,
         NEW k \in [Handles -> Ptr],
         \A h \in Handles : k[h] = IF g[h] = a THEN b ELSE g[h],
         NEW s,
         \A x \in Cells : s[x] = IF x = a THEN 0 ELSE IF x = b THEN r[a] ELSE r[x],
         NEW m, m = (l \ {a}) \cup {b}
  PROVE  Counted(M, k, s, m)
<1> SUFFICES ASSUME NEW x \in Cells
             PROVE  /\ s[x] = Cardinality(HandlesAt(k, x))
                                + (IF x \in M THEN 1 ELSE 0)
                    /\ x \in m <=> s[x] > 0
  BY DEF Counted
<1> DEFINE c(y) == Cardinality(HandlesAt(g, y))
           d == Cardinality(HandlesAt(k, x))
<1>1. /\ a \in Cells /\ a # b /\ r[a] \in Nat /\ r[b] \in Nat /\ r[x] \in Nat
      /\ s[x] = IF x = a THEN 0 ELSE IF x = b THEN r[a] ELSE r[x]
  OBVIOUS
<1>2. \A y \in Cells : /\ c(y) \in Nat
                       /\ r[y] = c(y) + (IF y \in L THEN 1 ELSE 0)
                       /\ y \in l <=> r[y] > 0
  BY HandlesCounted DEF Counted
<1>3. c(b) = 0 /\ b \notin L
  <2> HIDE DEF c
  <2>1. c(b) \in Nat /\ r[b] = c(b) + (IF b \in L THEN 1 ELSE 0)
        /\ ~ (r[b] > 0)
    BY <1>2
  <2> QED BY <1>1, <2>1
<1>4. HandlesAt(g, b) = {}
  BY <1>3, HandlesCounted
<1>5. d = IF x = a THEN 0 ELSE IF x = b THEN c(a) ELSE c(x)
  <2>1. /\ k \in [Handles -> Ptr]
        /\ \A h \in Handles : k[h] = IF g[h] = a THEN b ELSE g[h]
    BY DEF Ptr
  <2>2. HandlesAt(k, x) = IF x = a THEN {}
                          ELSE IF x = b THEN HandlesAt(g, a)
                          ELSE HandlesAt(g, x)
    BY <1>1, <1>4, <2>1, HandlesMoved
  <2> QED BY <2>2, FS_EmptySet
<1> HIDE DEF c, d
<1>6. s[x] = d + (IF x \in M THEN 1 ELSE 0) /\ (x \in m <=> s[x] > 0)
  BY <1>1, <1>2, <1>3, <1>5
<1> QED BY <1>6 DEF d

LEMMA CountedDestroy ==
  ASSUME NEW L, NEW g, NEW r \in [Cells -> Nat],
         NEW l \in SUBSET Cells, Counted(L, g, r, l),
         \A a \in Cells : HandlesAt(g, a) = {},
         NEW s, \A x \in Cells : s[x] = IF x \in L THEN r[x] - 1 ELSE r[x],
         NEW m, m = l \ {a \in L : r[a] = 1}
  PROVE  Counted({}, g, s, m) /\ \A x \in Cells : s[x] \in Nat
<1>1. ASSUME NEW x \in Cells
      PROVE  /\ s[x] = Cardinality(HandlesAt(g, x))
                         + (IF x \in {} THEN 1 ELSE 0)
             /\ x \in m <=> s[x] > 0
             /\ s[x] \in Nat
  <2>1. Cardinality(HandlesAt(g, x)) = 0
    BY FS_EmptySet
  <2>2. r[x] = (IF x \in L THEN 1 ELSE 0) /\ (x \in l <=> r[x] > 0)
    BY <2>1 DEF Counted
  <2> QED BY <2>1, <2>2
<1> QED BY <1>1 DEF Counted

-----------------------------------------------------------------------------
(* Every operation keeps the invariant.                                    *)

LEMMA RefsCountedNext ==
  Counted(Listed', hnd', ref', live') => RefsExact'
BY DEF RefsExact, Counted, HandlesAt

LEMMA InsertKeeps ==
  ASSUME IInv, NEW n \in Names, NEW a \in Cells, Insert(n, a)
  PROVE  IInv'
<1>1. TypesInv' /\ SortedInv' /\ AloneInv' /\ Listed' = Listed \cup {a}
  BY InsertEffect
<1>2. /\ hnd' = hnd /\ live' = live \cup {a} /\ a \in Cells \ live
      /\ ref \in [Cells -> Nat] /\ live \in SUBSET Cells
      /\ \A x \in Cells : ref'[x] = IF x = a THEN 1 ELSE ref[x]
  BY DEF Insert, IInv, TypesInv
<1>3. Counted(Listed, hnd, ref, live)
  BY RefsCounted DEF IInv
<1>4. Counted(Listed \cup {a}, hnd, ref', live \cup {a})
  BY <1>2, <1>3, CountedIn
<1> QED BY <1>1, <1>2, <1>4, RefsCountedNext DEF IInv

(* A moved item takes its place in the list along.                         *)
LEMMA MovedList ==
  ASSUME IInv, NEW a \in live, NEW b \in Cells \ live, Moved(a, b)
  PROVE  /\ next' \in Links /\ first' \in Ptr
         /\ Listed' = IF a \in Listed THEN (Listed \ {a}) \cup {b} ELSE Listed
<1>1. /\ a \in Cells /\ a # b /\ a # NULL /\ b \notin Listed
      /\ next \in Links /\ first \in Ptr /\ Listed = Walk(next, first)
      /\ first \in Listed \cup {NULL}
  BY ListFacts DEF IInv, TypesInv, SortedInv
<1> DEFINE g == [x \in Cells |-> IF x = b THEN next[a]
                                 ELSE IF x \in Listed /\ next[x] = a THEN b
                                 ELSE next[x]]
           q == IF first = a THEN b ELSE first
<1>2. CASE a \in Listed
  <2>1. next' = g /\ first' = q
    BY <1>2 DEF Moved
  <2>2. g = [x \in Cells |-> IF x = b THEN next[a]
                             ELSE IF x \in Walk(next, first) /\ next[x] = a
                             THEN b ELSE next[x]]
    BY <1>1
  <2>3. next[a] # a
    BY <1>2, ListFacts
  <2> HIDE DEF g
  <2> DEFINE r == q
  <2>4. r = IF first = a THEN b ELSE first
    OBVIOUS
  <2> HIDE DEF r
  <2>5. g \in Links /\ r \in Ptr
        /\ Walk(g, r) = (Walk(next, first) \ {a}) \cup {b}
    BY <1>1, <1>2, <2>2, <2>3, <2>4, Relinked
  <2>6. first' = r
    BY <2>1 DEF r
  <2> QED BY <1>1, <1>2, <2>1, <2>5, <2>6 DEF Listed
<1>3. CASE a \notin Listed
  <2>1. first' = first
    BY <1>1, <1>3 DEF Moved
  <2>2. /\ \A x \in Cells : next'[x] = IF x = b THEN next[a] ELSE next[x]
        /\ next' \in Links
    BY <1>1, <1>3 DEF Moved, Links
  <2>3. Walk(next', first) = Walk(next, first)
    <3>1. \A x \in Walk(next, first) : next'[x] = next[x]
      BY <1>1, <2>2, ListFacts
    <3> QED BY <1>1, <2>2, <3>1, WalkSame
  <2> QED BY <1>1, <1>3, <2>1, <2>2, <2>3 DEF Listed
<1> QED BY <1>2, <1>3

LEMMA MoveKeeps ==
  ASSUME IInv, NEW a \in live, NEW by, NEW b \in Cells \ live, Moved(a, b),
         hnd' = [h \in Handles |-> IF hnd[h] = a THEN b ELSE hnd[h]],
         stale' = stale \cup {h \in Handles \ by : hnd[h] = a}
  PROVE  IInv'
<1>1. /\ a \in Cells /\ a # b /\ a # NULL /\ b # NULL
      /\ b \notin Listed /\ Listed \subseteq live
      /\ Listed \in SUBSET Cells /\ live \in SUBSET Cells
      /\ ref \in [Cells -> Nat] /\ hnd \in [Handles -> Ptr]
      /\ next \in Links
  BY ListFacts DEF IInv, TypesInv, SortedInv
<1>2. /\ next' \in Links /\ first' \in Ptr
      /\ Listed' = IF a \in Listed THEN (Listed \ {a}) \cup {b} ELSE Listed
  BY MovedList
<1>3. /\ live' = (live \ {a}) \cup {b}
      /\ name' \in [Cells -> Names \cup {NULL}]
      /\ \A x \in Cells : name'[x] = IF x = b THEN name[a] ELSE name[x]
      /\ ref' \in [Cells -> Nat]
      /\ \A x \in Cells :
           ref'[x] = IF x = a THEN 0 ELSE IF x = b THEN ref[a] ELSE ref[x]
      /\ \A x \in Cells : next'[x] =
           IF x = b THEN next[a]
           ELSE IF x \in Listed /\ a \in Listed /\ next[x] = a THEN b
           ELSE next[x]
  BY <1>1 DEF Moved, IInv, TypesInv
<1>4. /\ hnd' \in [Handles -> Ptr] /\ stale' \subseteq Handles
      /\ \A h \in Handles : hnd'[h] = IF hnd[h] = a THEN b ELSE hnd[h]
  BY <1>1 DEF IInv, TypesInv, Ptr
<1>5. TypesInv'
  BY <1>1, <1>2, <1>3, <1>4 DEF TypesInv
<1>6. SortedInv'
  <2>1. Listed' \subseteq live'
    BY <1>1, <1>2, <1>3
  <2>2. \A x \in live' : name'[x] \in Names
    BY <1>1, <1>3 DEF IInv, SortedInv
  <2>3. ASSUME NEW x \in Listed', next'[x] # NULL
        PROVE  name'[x] < name'[next'[x]]
    <3>1. \A y \in Listed : /\ y # b /\ y \in Cells
                            /\ next[y] # NULL => /\ next[y] \in Listed
                                                 /\ next[y] # y
                                                 /\ name[y] < name[next[y]]
      BY <1>1, ListFacts DEF Closed, Ascending
    <3>2. CASE x = b
      <4>1. a \in Listed /\ next'[b] = next[a]
        BY <1>1, <1>2, <1>3, <2>3, <3>2
      <4>2. next[a] \in Listed /\ name[a] < name[next[a]]
        BY <2>3, <3>1, <3>2, <4>1
      <4> QED BY <1>3, <3>1, <3>2, <4>1, <4>2
    <3>3. CASE x # b
      <4>1. x \in Listed /\ name'[x] = name[x]
        BY <1>1, <1>2, <1>3, <3>3
      <4>2. CASE a \in Listed /\ next[x] = a
        BY <1>1, <1>3, <3>1, <4>1, <4>2, <3>3
      <4>3. CASE ~ (a \in Listed /\ next[x] = a)
        <5>1. next'[x] = next[x]
          BY <1>1, <1>3, <3>3, <4>1, <4>3
        <5>2. next[x] \in Listed /\ name[x] < name[next[x]]
          BY <2>3, <3>1, <4>1, <5>1
        <5> QED BY <1>3, <3>1, <4>1, <5>1, <5>2
      <4> QED BY <4>2, <4>3
    <3> QED BY <3>2, <3>3
  <2> QED BY <2>1, <2>2, <2>3 DEF SortedInv
<1>7. AloneInv'
  BY <1>1, <1>2, <1>3 DEF AloneInv, IInv
<1>8. Counted(Listed', hnd', ref', live')
  <2>1. Counted(Listed, hnd, ref, live)
    BY RefsCounted DEF IInv
  <2> QED BY <1>1, <1>2, <1>3, <1>4, <2>1, CountedMoved
<1> QED BY <1>5, <1>6, <1>7, <1>8, RefsCountedNext DEF IInv

(* A handle that is given an item takes a reference of it.                 *)
LEMMA PointKeeps ==
  ASSUME IInv, NEW h \in Handles, hnd[h] = NULL, NEW a \in live,
         Point(h, a), Becomes(Addref(Heap, a))
  PROVE  IInv' /\ Listed' = Listed
<1>1. /\ a \in Cells /\ a # NULL
      /\ live \in SUBSET Cells /\ ref \in [Cells -> Nat]
      /\ hnd \in [Handles -> Ptr]
  BY CellsAssumption DEF IInv, TypesInv
<1>2. /\ first' = first /\ next' = next /\ live' = live
      /\ ref' = [ref EXCEPT ![a] = ref[a] + 1]
  BY <1>1 DEF Becomes, Addref, Heap
<1>3. /\ hnd' \in [Handles -> Ptr] /\ name' = name /\ stale' = stale
      /\ \A i \in Handles : hnd'[i] = IF i = h THEN a ELSE hnd[i]
  BY <1>1 DEF Point, Ptr
<1>4. /\ ref' \in [Cells -> Nat]
      /\ \A x \in Cells : ref'[x] = IF x = a THEN ref[x] + 1 ELSE ref[x]
  BY <1>1, <1>2
<1>5. Listed' = Listed
  BY <1>2, SameList
<1>6. Counted(Listed, hnd, ref, live)
  BY RefsCounted DEF IInv
<1>7. Counted(Listed, hnd', ref', live)
  BY <1>1, <1>3, <1>4, <1>6, CountedPoint
<1>8. RefsExact'
  BY <1>2, <1>5, <1>7, RefsCountedNext
<1>9. TypesInv' /\ SortedInv' /\ AloneInv'
  BY <1>2, <1>3, <1>4, <1>5 DEF IInv, TypesInv, SortedInv, AloneInv
<1> QED BY <1>5, <1>8, <1>9 DEF IInv

(* wsc_data_item_release: a handle's reference is the last one only of an  *)
(* item that has left the list.                                            *)
LEMMA HandleUnref ==
  ASSUME IInv, NEW h \in Handles, hnd[h] # NULL,
         NEW u, u = Unref(Heap, hnd[h])
  PROVE  /\ u.first = first /\ u.next = next
         /\ u.ref = [ref EXCEPT ![hnd[h]] = ref[hnd[h]] - 1]
         /\ u.live = IF ref[hnd[h]] = 1 THEN live \ {hnd[h]} ELSE live
         /\ ref[hnd[h]] = 1 => hnd[h] \notin Listed
<1> DEFINE a == hnd[h]
<1>1. /\ a \in Cells /\ ref[a] \in Nat
      /\ ref[a] > (IF a \in Listed THEN 1 ELSE 0)
  BY HandleFacts
<1> HIDE DEF a
<1>2. CASE ref[a] > 1
  BY <1>1, <1>2 DEF Unref, Heap, a
<1>3. CASE ~ (ref[a] > 1)
  <2>1. ref[a] = 1 /\ a \notin Listed
    BY <1>1, <1>3
  <2> QED BY <2>1 DEF Unref, Detach, Heap, a
<1> QED BY <1>2, <1>3

LEMMA ReleaseKeeps ==
  ASSUME IInv, NEW h \in Handles, hnd[h] # NULL,
         Point(h, NULL), Becomes(Unref(Heap, hnd[h]))
  PROVE  IInv' /\ Listed' = Listed
<1> DEFINE a == hnd[h]
<1>1. /\ a \in Cells /\ a \in live
      /\ live \in SUBSET Cells /\ ref \in [Cells -> Nat]
      /\ hnd \in [Handles -> Ptr]
  BY HandleFacts DEF IInv, TypesInv
<1>2. /\ first' = first /\ next' = next
      /\ live' = IF ref[a] = 1 THEN live \ {a} ELSE live
      /\ ref[a] = 1 => a \notin Listed
  BY HandleUnref DEF Becomes
<1>3. /\ hnd' \in [Handles -> Ptr] /\ name' = name /\ stale' = stale
      /\ \A i \in Handles : hnd'[i] = IF i = h THEN NULL ELSE hnd[i]
  BY <1>1 DEF Point, Ptr
<1> HIDE DEF a
<1>4. /\ ref' = [x \in Cells |-> ref'[x]]
      /\ \A x \in Cells : ref'[x] = IF x = a THEN ref[x] - 1 ELSE ref[x]
  <2>1. ref' = [ref EXCEPT ![a] = ref[a] - 1]
    BY HandleUnref DEF Becomes, a
  <2> QED BY <1>1, <2>1
<1>5. Listed' = Listed
  BY <1>2, SameList
<1>6. Counted(Listed, hnd, ref, live)
  BY RefsCounted DEF IInv
<1>7. Counted(Listed, hnd', ref', live') /\ \A x \in Cells : ref'[x] \in Nat
  <2>1. hnd[h] = a
    BY DEF a
  <2> QED BY <1>1, <1>2, <1>3, <1>4, <1>6, <2>1, CountedDrop
<1>8. RefsExact'
  BY <1>5, <1>7, RefsCountedNext
<1>9. TypesInv'
  <2>1. ref' \in [Cells -> Nat]
    BY <1>4, <1>7
  <2> QED BY <1>1, <1>2, <1>3, <2>1 DEF IInv, TypesInv
<1>10. SortedInv' /\ AloneInv'
  BY <1>2, <1>3, <1>5 DEF IInv, SortedInv, AloneInv
<1> QED BY <1>5, <1>8, <1>9, <1>10 DEF IInv

(* wsc_data_item_next: where there is a successor the item is in the list, *)
(* so that its release is not the last.                                    *)
LEMMA NextKeeps ==
  ASSUME IInv, NEW h \in Handles, hnd[h] # NULL, next[hnd[h]] # NULL,
         Point(h, next[hnd[h]]),
         Becomes(Addref(Unref(Heap, hnd[h]), next[hnd[h]]))
  PROVE  IInv' /\ Listed' = Listed
<1> DEFINE a == hnd[h]
           v == next[a]
<1>1. /\ a \in Cells /\ a \in live
      /\ ref[a] \in Nat /\ ref[a] > (IF a \in Listed THEN 1 ELSE 0)
      /\ live \in SUBSET Cells /\ ref \in [Cells -> Nat]
      /\ hnd \in [Handles -> Ptr]
  BY HandleFacts DEF IInv, TypesInv
<1>2. a \in Listed
  BY <1>1 DEF IInv, AloneInv
<1>3. v \in Listed /\ v \in live /\ v # a /\ v \in Cells /\ v # NULL
  BY <1>1, <1>2, ListFacts DEF Closed, IInv, SortedInv
<1>4. /\ first' = first /\ next' = next /\ live' = live
      /\ ref' = [ref EXCEPT ![a] = ref[a] - 1, ![v] = ref[v] + 1]
  <2> DEFINE u == Unref(Heap, a)
  <2>1. /\ u.first = first /\ u.next = next
        /\ u.ref = [ref EXCEPT ![a] = ref[a] - 1]
        /\ u.live = live
    <3>1. ref[a] > 1
      BY <1>1, <1>2
    <3> HIDE DEF a
    <3> QED BY <3>1 DEF Unref, Heap
  <2>2. Addref(u, v) = [u EXCEPT !.ref[v] = @ + 1] /\ hnd[h] = a /\ next[a] = v
    BY <1>3 DEF Addref
  <2>3. u = [first |-> first, next |-> next,
             ref |-> [ref EXCEPT ![a] = ref[a] - 1], live |-> live]
    <3>1. ref[a] > 1
      BY <1>1, <1>2
    <3> HIDE DEF a
    <3> QED BY <3>1 DEF Unref, Heap
  <2> HIDE DEF a, v, u
  <2>4. Addref(u, v) = [first |-> first, next |-> next,
                        ref |-> [[ref EXCEPT ![a] = ref[a] - 1]
                                   EXCEPT ![v] = ref[v] + 1],
                        live |-> live]
    BY <1>1, <1>3, <2>2, <2>3
  <2>5. Becomes(Addref(u, v))
    BY <2>2 DEF u
  <2> QED BY <1>1, <1>3, <2>4, <2>5 DEF Becomes
<1> DEFINE k == [hnd EXCEPT ![h] = NULL]
           s == [ref EXCEPT ![a] = ref[a] - 1]
<1>5. /\ k \in [Handles -> Ptr] /\ k[h] = NULL
      /\ \A i \in Handles : k[i] = IF i = h THEN NULL ELSE hnd[i]
  BY <1>1 DEF Ptr
<1>6. \A x \in Cells : s[x] = IF x = a THEN ref[x] - 1 ELSE ref[x]
  BY <1>1
<1>7. /\ hnd' \in [Handles -> Ptr] /\ name' = name /\ stale' = stale
      /\ \A i \in Handles : hnd'[i] = IF i = h THEN v ELSE hnd[i]
  BY <1>1, <1>3 DEF Point, Ptr
<1>8. hnd[h] = a /\ s \in [Cells -> Nat] /\ ref[a] # 1
  BY <1>1, <1>2
<1>9. Counted(Listed, hnd, ref, live)
  BY RefsCounted DEF IInv
<1>10. ref' \in [Cells -> Nat]
       /\ \A x \in Cells : ref'[x] = IF x = v THEN s[x] + 1 ELSE s[x]
  BY <1>1, <1>3, <1>4, <1>8
<1> HIDE DEF a, v, k, s
<1>11. Counted(Listed, k, s, live)
  BY <1>1, <1>5, <1>6, <1>8, <1>9, CountedDrop
<1>12. Counted(Listed, hnd', ref', live)
  <2>1. \A i \in Handles : hnd'[i] = IF i = h THEN v ELSE k[i]
    BY <1>5, <1>7
  <2> QED BY <1>1, <1>3, <1>5, <1>7, <1>8, <1>10, <1>11, <2>1, CountedPoint
<1>13. Listed' = Listed
  BY <1>4, SameList
<1>14. RefsExact'
  BY <1>4, <1>12, <1>13, RefsCountedNext
<1>15. TypesInv' /\ SortedInv' /\ AloneInv'
  BY <1>4, <1>7, <1>10, <1>13 DEF IInv, TypesInv, SortedInv, AloneInv
<1> QED BY <1>13, <1>14, <1>15 DEF IInv

(* wsc_data_item_remove and wsc_data_erase: the item leaves the list, and  *)
(* the list's reference is given up.                                       *)
LEMMA OutKeeps ==
  ASSUME IInv, NEW a \in Listed,
         Becomes(Unref(Detach(Heap, a), a)),
         UNCHANGED <<name, hnd, stale>>
  PROVE  IInv' /\ Listed' = Listed \ {a}
<1> DEFINE d == Detach(Heap, a)
<1>1. /\ a \in Cells /\ a \in live /\ Listed \subseteq live
      /\ live \in SUBSET Cells /\ ref \in [Cells -> Nat]
      /\ hnd \in [Handles -> Ptr]
      /\ name' = name /\ hnd' = hnd /\ stale' = stale
  BY ListFacts DEF IInv, TypesInv, SortedInv
<1>2. /\ d.next \in Links /\ d.first \in Ptr
      /\ Walk(d.next, d.first) = Listed \ {a}
      /\ d.next[a] = NULL
      /\ \A x \in Cells \ Listed : d.next[x] = next[x]
      /\ \A x \in Listed \ {a} :
           d.next[x] # NULL => name[x] < name[d.next[x]]
      /\ d.ref = ref /\ d.live = live
      /\ Detach(d, a).next = d.next /\ Detach(d, a).first = d.first
      /\ Detach(d, a).ref = ref /\ Detach(d, a).live = live
  BY DetachEffect
<1>3. ref[a] \in Nat /\ ref[a] > 0
  BY <1>1, RefsCounted DEF IInv, Counted
<1>4. /\ first' = d.first /\ next' = d.next
      /\ live' = IF ref[a] = 1 THEN live \ {a} ELSE live
      /\ ref' = [ref EXCEPT ![a] = ref[a] - 1]
  <2>1. /\ d = [first |-> d.first, next |-> d.next, ref |-> ref, live |-> live]
        /\ Detach(d, a) = [first |-> d.first, next |-> d.next,
                           ref |-> ref, live |-> live]
    BY <1>2 DEF Detach, Heap
  <2> HIDE DEF d
  <2>2. CASE ref[a] > 1
    <3>1. Unref(d, a) = [first |-> d.first, next |-> d.next,
                         ref |-> [ref EXCEPT ![a] = ref[a] - 1], live |-> live]
      BY <1>2, <2>1, <2>2 DEF Unref
    <3> QED BY <1>3, <2>2, <3>1 DEF Becomes, d
  <2>3. CASE ref[a] = 1
    <3>1. Unref(d, a) = [first |-> d.first, next |-> d.next,
                         ref |-> [ref EXCEPT ![a] = 0], live |-> live \ {a}]
      <4> DEFINE e == Detach(d, a)
      <4>1. ~ (d.ref[a] > 1)
        BY <1>2, <2>3
      <4>2. Unref(d, a) = [e EXCEPT !.ref[a] = 0, !.live = @ \ {a}]
        BY <4>1 DEF Unref
      <4>3. e = [first |-> d.first, next |-> d.next, ref |-> ref, live |-> live]
        BY <2>1
      <4> HIDE DEF e
      <4> QED BY <4>2, <4>3
    <3> QED BY <1>3, <2>3, <3>1 DEF Becomes, d
  <2> QED BY <1>3, <2>2, <2>3
<1> HIDE DEF d
<1>5. /\ ref' = [x \in Cells |-> ref'[x]]
      /\ \A x \in Cells : ref'[x] = IF x = a THEN ref[x] - 1 ELSE ref[x]
  BY <1>1, <1>4
<1>6. live' = IF ref[a] = 1 THEN live \ {a} ELSE live
  BY <1>4
<1>7. Listed' = Listed \ {a}
  BY <1>2, <1>4 DEF Listed
<1>8. Counted(Listed, hnd, ref, live)
  BY RefsCounted DEF IInv
<1>9. Counted(Listed \ {a}, hnd, ref', live') /\ \A x \in Cells : ref'[x] \in Nat
  BY <1>1, <1>5, <1>6, <1>8, CountedOut
<1>10. RefsExact'
  BY <1>1, <1>7, <1>9, RefsCountedNext
<1>11. TypesInv'
  <2>1. ref' \in [Cells -> Nat] /\ live' \subseteq Cells
    BY <1>1, <1>5, <1>6, <1>9
  <2>2. next' \in Links /\ first' \in Ptr
    BY <1>2, <1>4
  <2> QED BY <1>1, <2>1, <2>2 DEF IInv, TypesInv
<1>12. SortedInv'
  <2>1. Listed' \subseteq live' /\ live' \subseteq live
    BY <1>1, <1>6, <1>7
  <2>2. \A x \in Listed' : next'[x] # NULL => name[x] < name[next'[x]]
    BY <1>2, <1>4, <1>7
  <2> QED BY <1>1, <2>1, <2>2 DEF IInv, SortedInv
<1>13. AloneInv'
  <2>1. live' \subseteq live /\ live \subseteq Cells
    BY <1>1, <1>6
  <2>2. ASSUME NEW x \in live' \ Listed' PROVE next'[x] = NULL
    <3>1. CASE x = a
      BY <1>2, <1>4, <3>1
    <3>2. CASE x # a
      BY <1>2, <1>4, <1>7, <2>1, <3>2 DEF IInv, AloneInv
    <3> QED BY <3>1, <3>2
  <2> QED BY <2>2 DEF AloneInv
<1> QED BY <1>7, <1>10, <1>11, <1>12, <1>13 DEF IInv

LEMMA DestroyKeeps ==
  ASSUME IInv, Destroy
  PROVE  IInv' /\ Listed' = {}
<1>1. /\ \A h \in Handles : hnd[h] = NULL
      /\ live \in SUBSET Cells /\ ref \in [Cells -> Nat]
      /\ name' = name /\ hnd' = hnd /\ stale' = stale /\ first' = NULL
      /\ live' = live \ {a \in Listed : ref[a] = 1}
      /\ ref' = [x \in Cells |-> ref'[x]]
      /\ \A x \in Cells : ref'[x] = IF x \in Listed THEN ref[x] - 1 ELSE ref[x]
  BY DEF Destroy, IInv, TypesInv
<1>2. next' \in Links /\ \A x \in Cells \ Listed : next'[x] = next[x]
  <2>1. next' = [a \in Cells |-> IF a \in Listed THEN NULL ELSE next[a]]
        /\ next \in Links
    BY DEF Destroy, IInv, TypesInv
  <2> QED BY <2>1 DEF Links, Ptr
<1>3. Listed' = {}
  BY <1>1, <1>2, WalkNull DEF Listed
<1>4. \A a \in Cells : HandlesAt(hnd, a) = {}
  BY <1>1, CellsAssumption DEF HandlesAt
<1>5. Counted(Listed, hnd, ref, live)
  BY RefsCounted DEF IInv
<1>6. Counted({}, hnd, ref', live') /\ \A x \in Cells : ref'[x] \in Nat
  BY <1>1, <1>4, <1>5, CountedDestroy
<1>7. RefsExact'
  BY <1>1, <1>3, <1>6, RefsCountedNext
<1>8. TypesInv'
  <2>1. ref' \in [Cells -> Nat] /\ live' \subseteq Cells /\ first' \in Ptr
    BY <1>1, <1>6 DEF Ptr
  <2> QED BY <1>1, <1>2, <2>1 DEF IInv, TypesInv
<1>9. live' = {}
  <2> SUFFICES ASSUME NEW x \in live' PROVE FALSE
    OBVIOUS
  <2>1. x \in Cells /\ x \in live /\ Cardinality(HandlesAt(hnd, x)) = 0
    BY <1>1, <1>4, FS_EmptySet
  <2>2. ref[x] = (IF x \in Listed THEN 1 ELSE 0) /\ ref[x] > 0
    BY <1>5, <2>1 DEF Counted
  <2> QED BY <1>1, <2>2
<1>10. SortedInv' /\ AloneInv'
  BY <1>3, <1>9 DEF SortedInv, AloneInv
<1> QED BY <1>3, <1>7, <1>8, <1>10 DEF IInv

-----------------------------------------------------------------------------
(* Every operation is one of SettingNames, or none.                        *)

NamesBar == {name[a] : a \in Listed}
AtBar == [h \in Handles |-> IF hnd[h] = NULL THEN NULL ELSE name[hnd[h]]]
KeptBar == [h \in Handles |-> hnd[h] \in Listed]

LEMMA InsertStep ==
  ASSUME IInv, NEW n \in Names, NEW a \in Cells, Insert(n, a)
  PROVE  Promise!Insert(n)
<1>1. /\ a \notin live /\ a # NULL /\ Listed \subseteq live /\ live \subseteq Cells
      /\ name'[a] = n /\ \A x \in live : name'[x] = name[x]
      /\ hnd' = hnd
  BY ListFacts DEF Insert, IInv, TypesInv, SortedInv
<1>2. Listed' = Listed \cup {a}
  BY InsertEffect
<1>3. n \notin NamesBar
  BY NoItem DEF Insert, NamesBar
<1>4. NamesBar' = NamesBar \cup {n}
  BY <1>1, <1>2 DEF NamesBar
<1>5. ASSUME NEW h \in Handles
      PROVE  /\ hnd[h] # NULL => name'[hnd[h]] = name[hnd[h]]
             /\ hnd[h] \in Listed' <=> hnd[h] \in Listed
  BY <1>1, <1>2, HandleFacts
<1>6. AtBar' = AtBar /\ KeptBar' = KeptBar
  BY <1>1, <1>5 DEF AtBar, KeptBar
<1> QED BY <1>3, <1>4, <1>6 DEF Promise!Insert, NamesBar, AtBar, KeptBar

LEMMA MoveStep ==
  ASSUME IInv, NEW a \in live, NEW b \in Cells \ live, Moved(a, b),
         hnd' = [h \in Handles |-> IF hnd[h] = a THEN b ELSE hnd[h]]
  PROVE  UNCHANGED <<NamesBar, AtBar, KeptBar>>
<1>1. /\ Listed \subseteq live /\ live \subseteq Cells /\ NULL \notin Cells
      /\ name'[b] = name[a] /\ \A x \in live : name'[x] = name[x]
  BY ListFacts DEF Moved, IInv, TypesInv, SortedInv
<1>2. Listed' = IF a \in Listed THEN (Listed \ {a}) \cup {b} ELSE Listed
  BY MovedList
<1>3. NamesBar' = NamesBar
  BY <1>1, <1>2 DEF NamesBar
<1>4. ASSUME NEW h \in Handles
      PROVE  /\ hnd'[h] = NULL <=> hnd[h] = NULL
             /\ hnd[h] # NULL => name'[hnd'[h]] = name[hnd[h]]
             /\ hnd'[h] \in Listed' <=> hnd[h] \in Listed
  <2>1. hnd[h] \in live \/ hnd[h] = NULL
    BY HandleFacts
  <2>2. hnd'[h] = IF hnd[h] = a THEN b ELSE hnd[h]
    OBVIOUS
  <2> QED BY <1>1, <1>2, <2>1, <2>2
<1>5. AtBar' = AtBar /\ KeptBar' = KeptBar
  BY <1>4 DEF AtBar, KeptBar
<1> QED BY <1>3, <1>5

LEMMA StandOnStep ==
  ASSUME IInv, NEW h \in Handles, NEW a \in Listed,
         Listed' = Listed, Point(h, a)
  PROVE  /\ NamesBar' = NamesBar
         /\ AtBar' = [AtBar EXCEPT ![h] = name[a]]
         /\ KeptBar' = [KeptBar EXCEPT ![h] = TRUE]
<1>1. /\ a # NULL /\ hnd \in [Handles -> Ptr]
      /\ hnd' = [hnd EXCEPT ![h] = a] /\ name' = name
  BY ListFacts DEF Point, IInv, TypesInv
<1>2. NamesBar' = NamesBar
  BY <1>1 DEF NamesBar
<1>3. AtBar' = [AtBar EXCEPT ![h] = name[a]]
  BY <1>1 DEF AtBar
<1>4. KeptBar' = [KeptBar EXCEPT ![h] = TRUE]
  <2>1. KeptBar' = [i \in Handles |-> hnd'[i] \in Listed]
    BY DEF KeptBar
  <2>2. [KeptBar EXCEPT ![h] = TRUE]
          = [i \in Handles |-> IF i = h THEN TRUE ELSE hnd[i] \in Listed]
    BY DEF KeptBar
  <2>3. \A i \in Handles :
          (hnd'[i] \in Listed) = IF i = h THEN TRUE ELSE hnd[i] \in Listed
    BY <1>1
  <2> QED BY <2>1, <2>2, <2>3
<1> QED BY <1>2, <1>3, <1>4

LEMMA LeaveStep ==
  ASSUME IInv, NEW h \in Handles, Listed' = Listed, Point(h, NULL)
  PROVE  Promise!Leave(h)
<1>1. /\ NULL \notin Listed /\ hnd \in [Handles -> Ptr]
      /\ hnd' = [hnd EXCEPT ![h] = NULL] /\ name' = name
  BY ListFacts DEF Point, IInv, TypesInv
<1>2. NamesBar' = NamesBar
  BY <1>1 DEF NamesBar
<1>3. AtBar' = [AtBar EXCEPT ![h] = NULL]
  BY <1>1 DEF AtBar
<1>4. KeptBar' = [KeptBar EXCEPT ![h] = FALSE]
  <2>1. KeptBar' = [i \in Handles |-> hnd'[i] \in Listed]
    BY DEF KeptBar
  <2>2. [KeptBar EXCEPT ![h] = FALSE]
          = [i \in Handles |-> IF i = h THEN FALSE ELSE hnd[i] \in Listed]
    BY DEF KeptBar
  <2>3. \A i \in Handles :
          (hnd'[i] \in Listed) = IF i = h THEN FALSE ELSE hnd[i] \in Listed
    <3>1. hnd'[h] \notin Listed
      BY <1>1
    <3>2. (hnd'[h] \in Listed) = FALSE
      BY <3>1
    <3>3. \A i \in Handles : i # h => hnd'[i] = hnd[i]
      BY <1>1
    <3> QED BY <3>2, <3>3
  <2> QED BY <2>1, <2>2, <2>3
<1> QED BY <1>2, <1>3, <1>4 DEF Promise!Leave, NamesBar, AtBar, KeptBar

(* The names after the one that a handle stands on.                        *)
LEMMA LaterNames ==
  ASSUME IInv, NEW h \in Handles, hnd[h] # NULL
  PROVE  /\ next[hnd[h]] = NULL => Promise!Later(h) = {}
         /\ next[hnd[h]] # NULL =>
              /\ next[hnd[h]] \in Listed
              /\ name[next[hnd[h]]] \in Promise!Later(h)
              /\ \A m \in Promise!Later(h) : name[next[hnd[h]]] =< m
<1> DEFINE a == hnd[h]
<1>1. Promise!Later(h) = {n \in NamesBar : a \in Listed /\ n > name[a]}
  BY DEF Promise!Later, NamesBar
<1>2. a \in Cells /\ a \in live
  BY HandleFacts
<1>3. ASSUME NEW n \in Promise!Later(h)
      PROVE  next[a] \in Listed /\ name[next[a]] =< n
  <2>1. PICK b \in Listed : n = name[b]
    BY <1>1 DEF NamesBar
  <2>2. a \in Listed /\ name[a] < name[b]
    BY <1>1, <2>1
  <2> HIDE DEF a
  <2> QED BY <2>1, <2>2, ListFacts, NextIsLeast
<1>4. ASSUME next[a] # NULL
      PROVE  next[a] \in Listed /\ name[next[a]] \in Promise!Later(h)
  <2>1. a \in Listed
    BY <1>2, <1>4 DEF IInv, AloneInv
  <2>2. next[a] \in Listed /\ name[a] < name[next[a]]
    BY <1>4, <2>1, ListFacts DEF Closed, Ascending
  <2> QED BY <1>1, <2>1, <2>2 DEF NamesBar
<1> QED BY <1>3, <1>4, ListFacts

(* An application that goes on meets the next name, if there is one.       *)
LEMMA NextStep ==
  ASSUME IInv, NEW h \in Handles, hnd[h] # NULL,
         Listed' = Listed, Point(h, next[hnd[h]])
  PROVE  Promise!Step(h)
<1>1. AtBar[h] # NULL
  BY HandleFacts, CellsAssumption DEF AtBar, IInv, SortedInv
<1>2. CASE next[hnd[h]] = NULL
  <2>1. Promise!Leave(h)
    BY <1>2, LeaveStep
  <2>2. Promise!Later(h) = {}
    BY <1>2, LaterNames
  <2> QED BY <1>1, <2>1, <2>2 DEF Promise!Step, AtBar
<1>3. CASE next[hnd[h]] # NULL
  <2> DEFINE v == next[hnd[h]]
  <2>1. /\ v \in Listed
        /\ name[v] \in Promise!Later(h)
        /\ \A m \in Promise!Later(h) : name[v] =< m
    BY <1>3, LaterNames
  <2>2. Point(h, v)
    OBVIOUS
  <2> HIDE DEF v
  <2>3. /\ NamesBar' = NamesBar
        /\ AtBar' = [AtBar EXCEPT ![h] = name[v]]
        /\ KeptBar' = [KeptBar EXCEPT ![h] = TRUE]
    BY <2>1, <2>2, StandOnStep
  <2>4. Promise!Later(h) # {}
    BY <2>1
  <2>5. \E n \in Promise!Later(h) :
          /\ AtBar' = [AtBar EXCEPT ![h] = n]
          /\ KeptBar' = [KeptBar EXCEPT ![h] = TRUE]
          /\ NamesBar' = NamesBar
          /\ \A m \in Promise!Later(h) : n =< m
    BY <2>1, <2>3
  <2> QED BY <1>1, <2>4, <2>5
          DEF Promise!Step, Promise!StandOn, NamesBar, AtBar, KeptBar
<1> QED BY <1>2, <1>3

LEMMA DeleteStep ==
  ASSUME IInv, NEW a \in Listed, Listed' = Listed \ {a},
         UNCHANGED <<name, hnd>>
  PROVE  \E n \in Names : Promise!Delete(n)
<1>1. name[a] \in Names /\ NULL \notin Listed
  BY ListFacts DEF IInv, SortedInv
<1>2. \A b \in Listed : name[b] = name[a] => b = a
  BY ListFacts, NamesDiffer
<1>3. name[a] \in NamesBar
  BY DEF NamesBar
<1>4. NamesBar' = NamesBar \ {name[a]}
  BY <1>2 DEF NamesBar
<1>5. AtBar' = AtBar
  BY DEF AtBar
<1>6. KeptBar' = [h \in Handles |-> KeptBar[h] /\ AtBar[h] # name[a]]
  <2>1. ASSUME NEW h \in Handles
        PROVE  hnd[h] \in Listed \ {a} <=> KeptBar[h] /\ AtBar[h] # name[a]
    BY <1>1, <1>2 DEF KeptBar, AtBar
  <2>2. KeptBar' = [h \in Handles |-> hnd[h] \in Listed \ {a}]
    BY DEF KeptBar
  <2> QED BY <2>1, <2>2
<1>7. \E n \in Names :
        /\ n \in NamesBar
        /\ NamesBar' = NamesBar \ {n}
        /\ KeptBar' = [h \in Handles |-> KeptBar[h] /\ AtBar[h] # n]
        /\ AtBar' = AtBar
  BY <1>1, <1>3, <1>4, <1>5, <1>6
<1> QED BY <1>7 DEF Promise!Delete, NamesBar, AtBar, KeptBar

LEMMA ForgetStep ==
  ASSUME IInv, Destroy, Listed' = {}
  PROVE  Promise!Forget
<1>1. (\A h \in Handles : hnd[h] = NULL) /\ NULL \notin Listed
      /\ hnd' = hnd /\ name' = name
  BY ListFacts DEF Destroy
<1>2. \A h \in Handles : AtBar[h] = NULL
  BY <1>1 DEF AtBar
<1>3. NamesBar' = {}
  BY DEF NamesBar
<1>4. AtBar' = AtBar /\ KeptBar' = KeptBar
  BY <1>1 DEF AtBar, KeptBar
<1> QED BY <1>2, <1>3, <1>4 DEF Promise!Forget, NamesBar, AtBar, KeptBar

-----------------------------------------------------------------------------
(* A step keeps the invariant and is a step of SettingNames or a stutter.  *)
Good == IInv' /\ [Promise!Next]_Promise!vars

LEMMA StutterIsGood ==
  ASSUME IInv', UNCHANGED <<NamesBar, AtBar, KeptBar>>
  PROVE  Good
BY DEF Good, Promise!vars, NamesBar, AtBar, KeptBar

LEMMA SetIsGood ==
  ASSUME IInv, NEW a \in live, NEW by, SetItem(a, by)
  PROVE  Good
<1>1. PICK b \in Cells \ live :
        /\ Moved(a, b)
        /\ hnd' = [h \in Handles |-> IF hnd[h] = a THEN b ELSE hnd[h]]
        /\ stale' = stale \cup {h \in Handles \ by : hnd[h] = a}
  BY DEF SetItem
<1>2. IInv'
  BY <1>1, MoveKeeps
<1>3. UNCHANGED <<NamesBar, AtBar, KeptBar>>
  BY <1>1, MoveStep
<1> QED BY <1>2, <1>3, StutterIsGood

LEMMA StartIsGood ==
  ASSUME IInv, NEW h \in Handles, hnd[h] = NULL, NEW a \in Listed,
         Point(h, a), Becomes(Addref(Heap, a))
  PROVE  Good
<1>1. a \in live
  BY DEF IInv, SortedInv
<1>2. IInv' /\ Listed' = Listed
  BY <1>1, PointKeeps
<1>3. /\ NamesBar' = NamesBar
      /\ AtBar' = [AtBar EXCEPT ![h] = name[a]]
      /\ KeptBar' = [KeptBar EXCEPT ![h] = TRUE]
  BY <1>2, StandOnStep
<1>4. name[a] \in NamesBar
  BY DEF NamesBar
<1>5. Promise!Start(h)
  BY <1>3, <1>4 DEF Promise!Start, Promise!StandOn, NamesBar, AtBar, KeptBar
<1> QED BY <1>2, <1>5 DEF Good, Promise!Next

LEMMA ReleaseIsGood ==
  ASSUME IInv, NEW h \in Handles, Release(h)
  PROVE  Good
<1>1. hnd[h] # NULL /\ Point(h, NULL) /\ Becomes(Unref(Heap, hnd[h]))
  BY DEF Release, Usable
<1>2. IInv' /\ Listed' = Listed
  BY <1>1, ReleaseKeeps
<1>3. Promise!Leave(h)
  BY <1>1, <1>2, LeaveStep
<1> QED BY <1>2, <1>3 DEF Good, Promise!Next

LEMMA NextIsGood ==
  ASSUME IInv, NEW h \in Handles, NextItem(h)
  PROVE  Good
<1>1. /\ hnd[h] # NULL /\ Point(h, next[hnd[h]])
      /\ Becomes(Addref(Unref(Heap, hnd[h]), next[hnd[h]]))
  BY DEF NextItem, Usable
<1>2. IInv' /\ Listed' = Listed
  <2>1. CASE next[hnd[h]] # NULL
    BY <1>1, <2>1, NextKeeps
  <2>2. CASE next[hnd[h]] = NULL
    <3>1. Point(h, NULL) /\ Becomes(Unref(Heap, hnd[h]))
      BY <1>1, <2>2 DEF Addref
    <3> QED BY <1>1, <3>1, ReleaseKeeps
  <2> QED BY <2>1, <2>2
<1>3. Promise!Step(h)
  BY <1>1, <1>2, NextStep
<1> QED BY <1>2, <1>3 DEF Good, Promise!Next

LEMMA OutIsGood ==
  ASSUME IInv, NEW a \in Listed,
         Becomes(Unref(Detach(Heap, a), a)),
         UNCHANGED <<name, hnd, stale>>
  PROVE  Good
<1>1. IInv' /\ Listed' = Listed \ {a}
  BY OutKeeps
<1>2. \E n \in Names : Promise!Delete(n)
  BY <1>1, DeleteStep
<1> QED BY <1>1, <1>2 DEF Good, Promise!Next

LEMMA StepIsGood ==
  ASSUME IInv, [Next]_vars
  PROVE  Good
<1>1. CASE UNCHANGED vars
  <2>1. IInv'
    BY <1>1 DEF vars, IInv, TypesInv, SortedInv, AloneInv, RefsExact, Listed
  <2>2. UNCHANGED <<NamesBar, AtBar, KeptBar>>
    BY <1>1 DEF vars, NamesBar, AtBar, KeptBar, Listed
  <2> QED BY <2>1, <2>2, StutterIsGood
<1>2. ASSUME NEW n \in Names, NEW a \in Cells, Insert(n, a) PROVE Good
  <2>1. IInv'
    BY <1>2, InsertKeeps
  <2>2. Promise!Insert(n)
    BY <1>2, InsertStep
  <2> QED BY <2>1, <2>2 DEF Good, Promise!Next
<1>3. ASSUME NEW n \in Names, SetByName(n) PROVE Good
  <2>1. Item(n) \in live /\ SetItem(Item(n), {})
    BY <1>3, ItemIs DEF SetByName, IInv, SortedInv
  <2> QED BY <2>1, SetIsGood
<1>4. ASSUME NEW n \in Names, Erase(n) PROVE Good
  <2>1. Item(n) \in Listed
    BY <1>4, ItemIs DEF Erase
  <2> QED BY <1>4, <2>1, OutIsGood DEF Erase
<1>5. ASSUME NEW n \in Names, NEW h \in Handles, ByName(h, n) PROVE Good
  <2>1. Item(n) \in Listed
    BY <1>5, ItemIs DEF ByName
  <2> QED BY <1>5, <2>1, StartIsGood DEF ByName
<1>6. ASSUME NEW h \in Handles, SetByHandle(h) PROVE Good
  <2>1. hnd[h] \in live /\ SetItem(hnd[h], {h})
    BY <1>6, HandleFacts DEF SetByHandle, Usable
  <2> QED BY <2>1, SetIsGood
<1>7. ASSUME NEW h \in Handles, First(h) PROVE Good
  <2>1. first \in Listed
    BY <1>7, ListFacts DEF First
  <2> QED BY <1>7, <2>1, StartIsGood DEF First
<1>8. ASSUME NEW h \in Handles, Remove(h) PROVE Good
  BY <1>8, OutIsGood DEF Remove
<1>9. CASE Destroy
  <2>1. IInv' /\ Listed' = {}
    BY <1>9, DestroyKeeps
  <2>2. Promise!Forget
    BY <1>9, <2>1, ForgetStep
  <2> QED BY <2>1, <2>2 DEF Good, Promise!Next
<1> QED BY <1>1, <1>2, <1>3, <1>4, <1>5, <1>6, <1>7, <1>8, <1>9,
           ReleaseIsGood, NextIsGood DEF Next

LEMMA IInvHolds ==
  Spec => []IInv
<1>1. Init => IInv
  BY InitIInv
<1>2. IInv /\ [Next]_vars => IInv'
  BY StepIsGood DEF Good
<1> QED BY <1>1, <1>2, PTL DEF Spec

-----------------------------------------------------------------------------
(* The variables keep their types; in particular no item has more          *)
(* references than there are handles and one list.                         *)
THEOREM TypeCorrect ==
  Spec => []TypeOK
<1>1. IInv => TypeOK
  BY TypesFollow
<1> QED BY <1>1, IInvHolds, PTL

(* The list of wsc_data_t ends, holds live items only and stays sorted by  *)
(* name, whatever is set, moved, removed and erased: for any settings,     *)
(* items and handles.                                                      *)
THEOREM ListStaysSorted ==
  Spec => []ListSorted
<1>1. IInv => ListSorted
  BY OrderFollows
<1> QED BY <1>1, IInvHolds, PTL

(* An item's count is the list and the handles on it: wsc_data_item_release *)
(* frees it neither too early nor never.                                   *)
THEOREM RefsStayExact ==
  Spec => []RefsExact
<1>1. IInv => RefsExact
  BY DEF IInv
<1> QED BY <1>1, IInvHolds, PTL

(* The item functions of src/src/data.c implement SettingNames: whoever    *)
(* runs through the settings meets every name that is there, in ascending  *)
(* order, and stops early only on an item that has been removed.           *)
THEOREM IterationIsComplete ==
  Spec => IteratesInOrder
<1>1. Init => Promise!Init
  <2> SUFFICES ASSUME Init PROVE Promise!Init
    OBVIOUS
  <2>1. Listed = {} /\ hnd = [h \in Handles |-> NULL]
    BY InitIInv DEF Init
  <2>2. NamesBar = {} /\ AtBar = [h \in Handles |-> NULL]
        /\ KeptBar = [h \in Handles |-> FALSE]
    <3>1. \A h \in Handles : (hnd[h] \in Listed) = FALSE
      BY <2>1
    <3> QED BY <2>1, <3>1 DEF NamesBar, AtBar, KeptBar
  <2> QED BY <2>2 DEF Promise!Init, NamesBar, AtBar, KeptBar
<1>2. IInv /\ [Next]_vars => [Promise!Next]_Promise!vars
  BY StepIsGood DEF Good
<1> QED BY <1>1, <1>2, IInvHolds, PTL DEF Spec, IteratesInOrder, Promise!Spec
=============================================================================
