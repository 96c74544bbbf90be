------------------------- MODULE WscDataItemProofs -------------------------
(***************************************************************************)
(* Proofs about WscDataItem for any sizes of values and any alignment.     *)
(***************************************************************************)
EXTENDS WscDataItem, TLAPS

(* get_align_size returns a multiple of the alignment that is not smaller  *)
(* than the size it is given.                                              *)
LEMMA AlignSize ==
  ASSUME NEW n \in Nat
  PROVE  /\ get_align_size(n) \in Nat
         /\ get_align_size(n) >= n
         /\ get_align_size(n) % Alignment = 0
  <1> USE AlignmentAssumption DEF AlignmentAssumption
  <1> DEFINE k == (n + Alignment - 1) \div Alignment
  <1>1. k \in Nat
    BY SMTT(30)
  <1>2. k * Alignment >= n
    BY SMTT(30)
  <1>3. k * Alignment \in Nat /\ (k * Alignment) % Alignment = 0
    <2> HIDE DEF k
    <2>1. QED BY <1>1, SMTT(30)
  <1>4. QED BY <1>2, <1>3 DEF get_align_size

(* Aligned sizes add up to aligned offsets.                                *)
LEMMA AlignedSum ==
  ASSUME NEW x \in Nat, NEW y \in Nat,
         x % Alignment = 0, y % Alignment = 0
  PROVE  (x + y) % Alignment = 0
  <1> USE AlignmentAssumption DEF AlignmentAssumption
  <1>1. PICK i \in Nat : x = i * Alignment
    <2>1. x \div Alignment \in Nat /\ x = (x \div Alignment) * Alignment
      BY SMTT(30)
    <2>2. QED BY <2>1
  <1>2. PICK k \in Nat : y = k * Alignment
    <2>1. y \div Alignment \in Nat /\ y = (y \div Alignment) * Alignment
      BY SMTT(30)
    <2>2. QED BY <2>1
  <1>3. x + y = (i + k) * Alignment
    BY <1>1, <1>2, SMTT(30)
  <1>4. ((i + k) * Alignment) % Alignment = 0
    <2>1. i + k \in Nat OBVIOUS
    <2>2. QED BY <2>1, SMTT(30)
  <1>5. QED BY <1>3, <1>4

-----------------------------------------------------------------------------
(* Memory.                                                                 *)

(* m is a block of c bytes.                                                *)
Block(m, c) == c \in Nat /\ m = [i \in 0 .. c - 1 |-> m[i]]

(* The value of n bytes set in a layer lies at ptr in m, a block of c.     *)
Holds(m, c, ptr, layer, n) ==
  \A i \in 0 .. n - 1 : ptr + i < c /\ m[ptr + i] = <<layer, n, i>>

LEMMA BytesAt ==
  ASSUME NEW layer, NEW n \in Nat, NEW i \in 0 .. n - 1
  PROVE  i \in DOMAIN Bytes(layer, n) /\ Bytes(layer, n)[i] = <<layer, n, i>>
  BY DEF Bytes

(* brealloc keeps what was in the smaller block.                           *)
LEMMA GrownHolds ==
  ASSUME NEW m, NEW c \in Nat, NEW t \in Nat, Block(m, c), c =< t
  PROVE  /\ Block(Grown(m, t), t)
         /\ \A ptr \in Nat, n \in Nat, layer \in Layers :
              Holds(m, c, ptr, layer, n) => Holds(Grown(m, t), t, ptr, layer, n)
  <1>1. DOMAIN m = 0 .. c - 1
    BY DEF Block
  <1>2. Block(Grown(m, t), t)
    BY DEF Block, Grown
  <1>3. ASSUME NEW i \in 0 .. c - 1
        PROVE  Grown(m, t)[i] = m[i]
    BY <1>1 DEF Grown, At
  <1>4. QED BY <1>2, <1>3 DEF Holds

(* What is moved arrives, and what lies in front of the target stays.      *)
LEMMA MoveHolds ==
  ASSUME NEW m, NEW c \in Nat, Block(m, c),
         NEW to \in Nat, NEW from \in Nat, NEW len \in Nat
  PROVE  /\ Block(memmove(m, to, from, len), c)
         /\ \A off \in Nat, n \in Nat, layer \in Layers :
              /\ Holds(m, c, from + off, layer, n)
              /\ off + n =< len /\ to + off + n =< c
              => Holds(memmove(m, to, from, len), c, to + off, layer, n)
         /\ \A ptr \in Nat, n \in Nat, layer \in Layers :
              /\ Holds(m, c, ptr, layer, n)
              /\ ptr + n =< to \/ len = 0
              => Holds(memmove(m, to, from, len), c, ptr, layer, n)
  <1> DEFINE M == memmove(m, to, from, len)
  <1>1. DOMAIN m = 0 .. c - 1
    BY DEF Block
  <1>2. Block(M, c)
    BY <1>1 DEF Block, memmove
  <1>3. ASSUME NEW i \in 0 .. c - 1, i >= to, i < to + len, from + i - to < c
        PROVE  M[i] = m[from + i - to]
    BY <1>1, <1>3 DEF memmove, At
  <1>4. ASSUME NEW i \in 0 .. c - 1, i < to \/ i >= to + len
        PROVE  M[i] = m[i]
    BY <1>1, <1>4 DEF memmove
  <1> HIDE DEF M
  <1>5. ASSUME NEW off \in Nat, NEW n \in Nat, NEW layer \in Layers,
               Holds(m, c, from + off, layer, n),
               off + n =< len, to + off + n =< c
        PROVE  Holds(M, c, to + off, layer, n)
    <2> SUFFICES ASSUME NEW i \in 0 .. n - 1
                 PROVE  to + off + i < c /\ M[to + off + i] = <<layer, n, i>>
      BY DEF Holds
    <2>1. from + off + i < c /\ m[from + off + i] = <<layer, n, i>>
      BY <1>5 DEF Holds
    <2>2. /\ to + off + i \in 0 .. c - 1
          /\ from + (to + off + i) - to = from + off + i
      BY <1>5
    <2>3. M[to + off + i] = m[from + (to + off + i) - to]
      BY <1>3, <1>5, <2>1, <2>2
    <2>4. QED BY <2>1, <2>2, <2>3
  <1>6. ASSUME NEW ptr \in Nat, NEW n \in Nat, NEW layer \in Layers,
               Holds(m, c, ptr, layer, n), ptr + n =< to \/ len = 0
        PROVE  Holds(M, c, ptr, layer, n)
    <2> SUFFICES ASSUME NEW i \in 0 .. n - 1
                 PROVE  ptr + i < c /\ M[ptr + i] = <<layer, n, i>>
      BY DEF Holds
    <2>1. ptr + i < c /\ m[ptr + i] = <<layer, n, i>>
      BY <1>6 DEF Holds
    <2>2. M[ptr + i] = m[ptr + i]
      BY <1>4, <1>6, <2>1
    <2>3. QED BY <2>1, <2>2
  <1>7. QED BY <1>2, <1>5, <1>6 DEF M

(* The value that is copied is there, and what it does not overlap stays.  *)
LEMMA CopyHolds ==
  ASSUME NEW m, NEW c \in Nat, Block(m, c),
         NEW to \in Nat, NEW new \in Layers, NEW k \in Nat, to + k =< c
  PROVE  /\ Block(memcpy(m, to, Bytes(new, k)), c)
         /\ Holds(memcpy(m, to, Bytes(new, k)), c, to, new, k)
         /\ \A ptr \in Nat, n \in Nat, layer \in Layers :
              /\ Holds(m, c, ptr, layer, n)
              /\ ptr + n =< to \/ to + k =< ptr
              => Holds(memcpy(m, to, Bytes(new, k)), c, ptr, layer, n)
  <1> DEFINE M == memcpy(m, to, Bytes(new, k))
  <1>1. DOMAIN m = 0 .. c - 1 /\ DOMAIN Bytes(new, k) = 0 .. k - 1
    BY DEF Block, Bytes
  <1>2. Block(M, c)
    BY <1>1 DEF Block, memcpy
  <1>3. ASSUME NEW i \in 0 .. k - 1
        PROVE  M[to + i] = <<new, k, i>>
    <2>1. to + i \in 0 .. c - 1 /\ to + i - to = i
      OBVIOUS
    <2>2. M[to + i] = Bytes(new, k)[i]
      BY <1>1, <2>1 DEF memcpy
    <2>3. QED BY <2>2 DEF Bytes
  <1>4. ASSUME NEW i \in 0 .. c - 1, i < to \/ i >= to + k
        PROVE  M[i] = m[i]
    BY <1>1, <1>4 DEF memcpy
  <1> HIDE DEF M
  <1>5. Holds(M, c, to, new, k)
    BY <1>3 DEF Holds
  <1>6. ASSUME NEW ptr \in Nat, NEW n \in Nat, NEW layer \in Layers,
               Holds(m, c, ptr, layer, n), ptr + n =< to \/ to + k =< ptr
        PROVE  Holds(M, c, ptr, layer, n)
    <2> SUFFICES ASSUME NEW i \in 0 .. n - 1
                 PROVE  ptr + i < c /\ M[ptr + i] = <<layer, n, i>>
      BY DEF Holds
    <2>1. ptr + i < c /\ m[ptr + i] = <<layer, n, i>>
      BY <1>6 DEF Holds
    <2>2. M[ptr + i] = m[ptr + i]
      BY <1>4, <1>6, <2>1
    <2>3. QED BY <2>1, <2>2
  <1>7. QED BY <1>2, <1>5, <1>6 DEF M

-----------------------------------------------------------------------------
(* The inductive invariant.                                                *)

(* The room of a value that has another one behind it.                     *)
Room(n) == IF n > 0 THEN get_align_size(n) ELSE 0

(* Sizes of an item and the room they take.                                *)
Layout(s) ==
  /\ s.data_size \in MaybeSize /\ s.data_len \in Rooms
  /\ s.default_size \in MaybeSize /\ s.default_len \in Rooms
  /\ s.autoselect_size \in MaybeSize
  /\ s.data_size =< s.data_len /\ (s.data_size = 0 => s.data_len = 0)
  /\ s.default_size =< s.default_len /\ (s.default_size = 0 => s.default_len = 0)
  /\ s.default_size > 0 \/ s.autoselect_size > 0 => s.data_len = Room(s.data_size)
  /\ s.autoselect_size > 0 => s.default_len = Room(s.default_size)

(* The values of sizes s lie where they belong in the block m of c bytes.  *)
Fits(s, m, c) ==
  /\ Block(m, c) /\ Total(s) =< c
  /\ Holds(m, c, 0, "user", s.data_size)
  /\ Holds(m, c, s.data_len, "default", s.default_size)
  /\ Holds(m, c, s.data_len + s.default_len, "autoselect", s.autoselect_size)

(* An item that is not in the list has no values.                          *)
AbsentInv ==
  /\ present \in BOOLEAN
  /\ ~present => data_size = 0 /\ default_size = 0 /\ autoselect_size = 0

IInv == AbsentInv /\ Layout(Now) /\ Fits(Now, mem, capacity)

LEMMA SizesAreNat ==
  /\ MaybeSize \subseteq Nat /\ Rooms \subseteq Nat
  /\ \A n \in Sizes : /\ n \in Nat /\ n > 0
                      /\ n \in MaybeSize /\ n \in Rooms
                      /\ get_align_size(n) \in Rooms
  /\ 0 \in MaybeSize /\ 0 \in Rooms
  <1>1. \A n \in Sizes : n \in Nat /\ n > 0
    BY SizesAssumption DEF SizesAssumption
  <1>2. \A n \in Sizes : get_align_size(n) \in Nat
    BY <1>1, AlignSize
  <1>3. QED BY <1>1, <1>2 DEF MaybeSize, Rooms, None

LEMMA RoomOfSize ==
  ASSUME NEW n \in MaybeSize
  PROVE  /\ Room(n) \in Rooms /\ Room(n) \in Nat /\ n =< Room(n)
         /\ Room(n) % Alignment = 0
         /\ n = 0 => Room(n) = 0
  <1>1. n \in Nat /\ (n > 0 => n \in Sizes)
    BY SizesAreNat DEF MaybeSize, None
  <1>2. 0 % Alignment = 0
    BY AlignmentAssumption, SMTT(30) DEF AlignmentAssumption
  <1>3. CASE n > 0
    BY <1>1, <1>3, SizesAreNat, AlignSize DEF Room
  <1>4. CASE n = 0
    BY <1>2, <1>4, SizesAreNat DEF Room
  <1>5. QED BY <1>1, <1>3, <1>4

LEMMA LayoutNat ==
  ASSUME NEW s, Layout(s)
  PROVE  /\ s.data_size \in Nat /\ s.data_len \in Nat
         /\ s.default_size \in Nat /\ s.default_len \in Nat
         /\ s.autoselect_size \in Nat
         /\ Total(s) \in Nat
  <1>1. /\ s.data_size \in Nat /\ s.data_len \in Nat
        /\ s.default_size \in Nat /\ s.default_len \in Nat
        /\ s.autoselect_size \in Nat
    BY SizesAreNat DEF Layout
  <1>2. QED BY <1>1 DEF Total

(* Counting what lies between the values as unwritten loses no value.      *)
LEMMA KeptFits ==
  ASSUME NEW s, NEW m, NEW c \in Nat, Layout(s), Fits(s, m, c)
  PROVE  Fits(s, Kept(s, m), c)
  <1>1. DOMAIN m = 0 .. c - 1
    BY DEF Fits, Block
  <1>2. Block(Kept(s, m), c)
    BY <1>1 DEF Block, Kept
  <1>3. /\ s.data_size \in Nat /\ s.data_len \in Nat
        /\ s.default_size \in Nat /\ s.default_len \in Nat
        /\ s.autoselect_size \in Nat
    BY LayoutNat
  <1>4. ASSUME NEW i \in 0 .. c - 1,
               \/ i < s.data_size
               \/ i - s.data_len \in 0 .. s.default_size - 1
               \/ i - (s.data_len + s.default_len) \in 0 .. s.autoselect_size - 1
        PROVE  Kept(s, m)[i] = m[i]
    BY <1>1, <1>4 DEF Kept
  <1>5. Holds(Kept(s, m), c, 0, "user", s.data_size)
    <2> SUFFICES ASSUME NEW i \in 0 .. s.data_size - 1
                 PROVE  /\ 0 + i < c
                        /\ Kept(s, m)[0 + i] = <<"user", s.data_size, i>>
      BY DEF Holds
    <2>1. 0 + i < c /\ m[0 + i] = <<"user", s.data_size, i>>
      BY DEF Fits, Holds
    <2>2. 0 + i \in 0 .. c - 1
      BY <1>3, <2>1
    <2>3. Kept(s, m)[0 + i] = m[0 + i]
      BY <1>3, <1>4, <2>2
    <2>4. QED BY <2>1, <2>3
  <1>6. Holds(Kept(s, m), c, s.data_len, "default", s.default_size)
    <2> SUFFICES ASSUME NEW i \in 0 .. s.default_size - 1
                 PROVE  /\ s.data_len + i < c
                        /\ Kept(s, m)[s.data_len + i] = <<"default", s.default_size, i>>
      BY DEF Holds
    <2>1. s.data_len + i < c /\ m[s.data_len + i] = <<"default", s.default_size, i>>
      BY DEF Fits, Holds
    <2>2. s.data_len + i \in 0 .. c - 1
      BY <1>3, <2>1
    <2>3. Kept(s, m)[s.data_len + i] = m[s.data_len + i]
      BY <1>3, <1>4, <2>2
    <2>4. QED BY <2>1, <2>3
  <1>7. Holds(Kept(s, m), c, s.data_len + s.default_len, "autoselect",
              s.autoselect_size)
    <2> SUFFICES ASSUME NEW i \in 0 .. s.autoselect_size - 1
                 PROVE  /\ s.data_len + s.default_len + i < c
                        /\ Kept(s, m)[s.data_len + s.default_len + i]
                             = <<"autoselect", s.autoselect_size, i>>
      BY DEF Holds
    <2>1. /\ s.data_len + s.default_len + i < c
          /\ m[s.data_len + s.default_len + i] = <<"autoselect", s.autoselect_size, i>>
      BY DEF Fits, Holds
    <2>2. s.data_len + s.default_len + i \in 0 .. c - 1
      BY <1>3, <2>1
    <2>3. Kept(s, m)[s.data_len + s.default_len + i] = m[s.data_len + s.default_len + i]
      BY <1>3, <1>4, <2>2
    <2>4. QED BY <2>1, <2>3
  <1>8. QED BY <1>2, <1>5, <1>6, <1>7 DEF Fits

-----------------------------------------------------------------------------
(* One operation.                                                          *)

LEMMA InitIInv == Init => IInv
  <1> SUFFICES ASSUME Init PROVE IInv
    OBVIOUS
  <1>1. Layout(Now)
    BY SizesAreNat DEF Init, Layout, Now
  <1>2. Fits(Now, mem, capacity)
    <2>1. Block(mem, capacity)
      BY DEF Init, Block
    <2>2. QED BY <2>1 DEF Init, Fits, Holds, Total, Now
  <1>3. QED BY <1>1, <1>2 DEF Init, IInv, AbsentInv

(* The item's own sizes and memory, grown to hold x bytes.                 *)
LEMMA GrownNow ==
  ASSUME IInv, NEW x \in Nat
  PROVE  /\ ensure_capacity(x) \in Nat /\ x =< ensure_capacity(x)
         /\ Fits(Now, Grown(mem, ensure_capacity(x)), ensure_capacity(x))
  <1> DEFINE t == ensure_capacity(x)
  <1>1. /\ capacity \in Nat /\ Block(mem, capacity) /\ Layout(Now)
        /\ Fits(Now, mem, capacity)
    BY DEF IInv, Fits, Block
  <1>2. t \in Nat /\ x =< t /\ capacity =< t
    BY <1>1 DEF ensure_capacity
  <1>3. /\ data_size \in Nat /\ data_len \in Nat /\ default_size \in Nat
        /\ default_len \in Nat /\ autoselect_size \in Nat /\ Total(Now) \in Nat
    BY <1>1, LayoutNat DEF Now
  <1> HIDE DEF t
  <1>4. /\ Block(Grown(mem, t), t)
        /\ \A ptr \in Nat, n \in Nat, layer \in Layers :
             Holds(mem, capacity, ptr, layer, n) => Holds(Grown(mem, t), t, ptr, layer, n)
    BY <1>1, <1>2, GrownHolds
  <1>5. Fits(Now, Grown(mem, t), t)
    BY <1>1, <1>2, <1>3, <1>4 DEF Fits, Now, Layers
  <1>6. QED BY <1>2, <1>5 DEF t

LEMMA RearrangedKeeps ==
  ASSUME IInv, NEW s, Layout(s), NEW m, NEW c \in Nat,
         present' = TRUE, Sized(s), Fits(s, m, c),
         capacity' = c, mem' = Kept(s, m)
  PROVE  IInv'
  <1>1. Layout(Now)'
    BY DEF Layout, Sized, Now
  <1>2. Fits(s, Kept(s, m), c)
    BY KeptFits
  <1>3. Fits(Now, mem, capacity)'
    BY <1>2 DEF Fits, Sized, Now, Total
  <1>4. QED BY <1>1, <1>3 DEF IInv, AbsentInv

(* The facts about the item that every operation starts from.              *)
LEMMA ItemNat ==
  ASSUME IInv
  PROVE  /\ data_size \in Nat /\ data_len \in Nat
         /\ default_size \in Nat /\ default_len \in Nat
         /\ autoselect_size \in Nat
         /\ Layout(Now)
         /\ data_size =< data_len /\ default_size =< default_len
  <1>1. Layout(Now)
    BY DEF IInv
  <1>2. /\ Now.data_size \in Nat /\ Now.data_len \in Nat
        /\ Now.default_size \in Nat /\ Now.default_len \in Nat
        /\ Now.autoselect_size \in Nat
    BY <1>1, LayoutNat
  <1>3. Now.data_size =< Now.data_len /\ Now.default_size =< Now.default_len
    BY <1>1 DEF Layout
  <1>4. QED BY <1>1, <1>2, <1>3 DEF Now

LEMMA SetdataKeeps ==
  ASSUME IInv, NEW n \in Sizes, setdata(n)
  PROVE  IInv'
  <1> DEFINE s == [Now EXCEPT !.data_size = n,
                              !.data_len = IF HasLater THEN get_align_size(n) ELSE n]
             t == ensure_capacity(Total(s))
             g == Grown(mem, t)
             later == IF HasLater THEN default_len + autoselect_size ELSE 0
             v == memmove(g, s.data_len, default_ptr, later)
             m == memcpy(v, 0, Bytes("user", n))
  <1>1. /\ s.data_size = n
        /\ s.data_len = IF HasLater THEN get_align_size(n) ELSE n
        /\ s.default_size = default_size /\ s.default_len = default_len
        /\ s.autoselect_size = autoselect_size
    BY DEF Now
  <1>2. /\ present' = TRUE /\ Sized(s) /\ capacity' = t
        /\ mem' = Kept(s, m)
    BY DEF setdata, Rearranged, IInv, AbsentInv
  <1>3. /\ n \in Nat /\ n > 0 /\ n =< s.data_len
        /\ s.data_len \in Nat
        /\ HasLater => s.data_len = Room(n)
    BY <1>1, SizesAreNat, AlignSize DEF Room
  <1> HIDE DEF s
  <1>4. Layout(s)
    BY <1>1, <1>3, SizesAreNat, ItemNat DEF Layout, Now, HasLater
  <1>5. Total(s) \in Nat /\ Total(s) = s.data_len + default_len + autoselect_size
    BY <1>1, <1>4, LayoutNat DEF Total
  <1>6. /\ t \in Nat /\ Total(s) =< t
        /\ Fits(Now, g, t)
    BY <1>5, GrownNow
  <1> HIDE DEF t, g
  <1>7. /\ Block(v, t)
        /\ Holds(v, t, s.data_len, "default", default_size)
        /\ Holds(v, t, s.data_len + default_len, "autoselect", autoselect_size)
    <2>1. /\ Block(g, t)
          /\ Holds(g, t, data_len + 0, "default", default_size)
          /\ Holds(g, t, data_len + default_len, "autoselect", autoselect_size)
      BY <1>6, ItemNat DEF Fits, Now
    <2>2. CASE HasLater
      <3>1. later = default_len + autoselect_size
        BY <2>2
      <3>2. QED
        <4>1. /\ later \in Nat /\ default_ptr \in Nat /\ default_ptr = data_len
              /\ s.data_len + later =< t
          BY <1>3, <1>5, <1>6, <3>1, ItemNat DEF default_ptr
        <4> HIDE DEF later
        <4>2. /\ Block(v, t)
              /\ \A off \in Nat, k \in Nat, layer \in Layers :
                   /\ Holds(g, t, default_ptr + off, layer, k)
                   /\ off + k =< later /\ s.data_len + off + k =< t
                   => Holds(v, t, s.data_len + off, layer, k)
          BY <1>3, <1>6, <2>1, <4>1, MoveHolds DEF v
        <4>3. Holds(v, t, s.data_len + 0, "default", default_size)
          <5>1. Holds(g, t, default_ptr + 0, "default", default_size)
            BY <2>1, <4>1
          <5>2. 0 + default_size =< later /\ s.data_len + 0 + default_size =< t
            BY <1>3, <1>5, <1>6, <3>1, <4>1, ItemNat
          <5>3. QED BY <4>2, <5>1, <5>2, ItemNat DEF Layers
        <4>4. Holds(v, t, s.data_len + default_len, "autoselect", autoselect_size)
          <5>1. Holds(g, t, default_ptr + default_len, "autoselect", autoselect_size)
            BY <2>1, <4>1
          <5>2. /\ default_len + autoselect_size =< later
                /\ s.data_len + default_len + autoselect_size =< t
            BY <1>3, <1>5, <1>6, <3>1, <4>1, ItemNat
          <5>3. QED BY <4>2, <5>1, <5>2, ItemNat DEF Layers
        <4>5. QED BY <1>3, <4>2, <4>3, <4>4
    <2>3. CASE ~HasLater
      <3>1. default_size = 0 /\ autoselect_size = 0 /\ later = 0
        BY <2>3, ItemNat DEF HasLater
      <3>2. Block(v, t)
        BY <1>3, <1>6, <2>1, <3>1, ItemNat, MoveHolds DEF default_ptr
      <3>3. QED BY <3>1, <3>2 DEF Holds
    <2>4. QED BY <2>2, <2>3
  <1> HIDE DEF v
  <1>8. /\ Block(m, t)
        /\ Holds(m, t, 0, "user", n)
        /\ Holds(m, t, s.data_len, "default", default_size)
        /\ Holds(m, t, s.data_len + default_len, "autoselect", autoselect_size)
    <2>1. /\ Block(m, t)
          /\ Holds(m, t, 0, "user", n)
          /\ \A ptr \in Nat, k \in Nat, layer \in Layers :
               Holds(v, t, ptr, layer, k) /\ (ptr + k =< 0 \/ 0 + n =< ptr)
                 => Holds(m, t, ptr, layer, k)
      <3>1. 0 + n =< t /\ "user" \in Layers /\ 0 \in Nat
        BY <1>3, <1>5, <1>6, ItemNat DEF Layers
      <3>2. QED BY <1>3, <1>6, <1>7, <3>1, CopyHolds
    <2>2. QED BY <1>3, <1>7, <2>1, ItemNat DEF Layers
  <1> HIDE DEF m
  <1>9. Fits(s, m, t)
    BY <1>1, <1>6, <1>8 DEF Fits
  <1>10. QED BY <1>2, <1>4, <1>6, <1>9, RearrangedKeeps

LEMMA SetDefaultKeeps ==
  ASSUME IInv, NEW n \in Sizes, set_default_data(n)
  PROVE  IInv'
  <1> DEFINE s == [Now EXCEPT !.default_size = n,
                              !.default_len = IF autoselect_size > 0
                                              THEN get_align_size(n) ELSE n,
                              !.data_len = UserRoom]
             t == ensure_capacity(Total(s))
             g == Grown(mem, t)
             v == memmove(g, s.data_len + s.default_len, autoselect_ptr,
                          autoselect_size)
             m == memcpy(v, s.data_len, Bytes("default", n))
  <1>1. /\ s.data_size = data_size /\ s.data_len = Room(data_size)
        /\ s.default_size = n
        /\ s.default_len = IF autoselect_size > 0 THEN get_align_size(n) ELSE n
        /\ s.autoselect_size = autoselect_size
    BY DEF Now, Room, UserRoom
  <1>2. /\ present' = TRUE /\ Sized(s) /\ capacity' = t
        /\ mem' = Kept(s, m)
    BY DEF set_default_data, Rearranged, IInv, AbsentInv
  <1>3. /\ n \in Nat /\ n > 0 /\ n =< s.default_len
        /\ s.default_len \in Nat
        /\ autoselect_size > 0 => s.default_len = Room(n)
    BY <1>1, SizesAreNat, AlignSize DEF Room
  <1>4. data_size \in MaybeSize /\ autoselect_size \in MaybeSize
    BY DEF IInv, Layout, Now
  <1>5. s.data_len \in Nat /\ data_size =< s.data_len
    BY <1>1, <1>4, RoomOfSize
  <1> HIDE DEF s
  <1>6. Layout(s)
    BY <1>1, <1>3, <1>4, SizesAreNat, RoomOfSize DEF Layout
  <1>7. /\ Total(s) \in Nat
        /\ Total(s) = s.data_len + s.default_len + autoselect_size
    BY <1>1, <1>6, LayoutNat DEF Total
  <1>8. /\ t \in Nat /\ Total(s) =< t
        /\ Fits(Now, g, t)
    BY <1>7, GrownNow
  <1> HIDE DEF t, g
  <1>9. /\ Block(v, t)
        /\ Holds(v, t, 0, "user", data_size)
        /\ Holds(v, t, s.data_len + s.default_len, "autoselect", autoselect_size)
    <2>1. /\ Block(g, t)
          /\ Holds(g, t, 0, "user", data_size)
          /\ Holds(g, t, autoselect_ptr + 0, "autoselect", autoselect_size)
      BY <1>8, ItemNat DEF Fits, Now, autoselect_ptr
    <2>2. autoselect_ptr \in Nat /\ s.data_len + s.default_len \in Nat
      BY <1>3, <1>5, ItemNat DEF autoselect_ptr
    <2>3. /\ Block(v, t)
          /\ \A off \in Nat, k \in Nat, layer \in Layers :
               /\ Holds(g, t, autoselect_ptr + off, layer, k)
               /\ off + k =< autoselect_size
               /\ s.data_len + s.default_len + off + k =< t
               => Holds(v, t, s.data_len + s.default_len + off, layer, k)
          /\ \A ptr \in Nat, k \in Nat, layer \in Layers :
               /\ Holds(g, t, ptr, layer, k)
               /\ ptr + k =< s.data_len + s.default_len \/ autoselect_size = 0
               => Holds(v, t, ptr, layer, k)
      BY <1>8, <2>1, <2>2, ItemNat, MoveHolds DEF v
    <2>4. Holds(v, t, 0, "user", data_size)
      BY <1>3, <1>5, <2>1, <2>3, ItemNat DEF Layers
    <2>5. Holds(v, t, s.data_len + s.default_len + 0, "autoselect", autoselect_size)
      <3>1. s.data_len + s.default_len + 0 + autoselect_size =< t
        BY <1>3, <1>5, <1>7, <1>8, ItemNat
      <3>2. QED BY <2>1, <2>3, <3>1, ItemNat DEF Layers
    <2>6. QED BY <2>2, <2>3, <2>4, <2>5
  <1> HIDE DEF v
  <1>10. /\ Block(m, t)
         /\ Holds(m, t, 0, "user", data_size)
         /\ Holds(m, t, s.data_len, "default", n)
         /\ Holds(m, t, s.data_len + s.default_len, "autoselect", autoselect_size)
    <2>1. s.data_len + n =< t
      BY <1>3, <1>5, <1>7, <1>8, ItemNat
    <2>2. /\ Block(m, t)
          /\ Holds(m, t, s.data_len, "default", n)
          /\ \A ptr \in Nat, k \in Nat, layer \in Layers :
               /\ Holds(v, t, ptr, layer, k)
               /\ ptr + k =< s.data_len \/ s.data_len + n =< ptr
               => Holds(m, t, ptr, layer, k)
      <3>1. "default" \in Layers
        BY DEF Layers
      <3>2. QED BY <1>3, <1>5, <1>8, <1>9, <2>1, <3>1, CopyHolds
    <2>3. QED BY <1>3, <1>5, <1>9, <2>2, ItemNat DEF Layers
  <1> HIDE DEF m
  <1>11. Fits(s, m, t)
    BY <1>1, <1>8, <1>10 DEF Fits
  <1>12. QED BY <1>2, <1>6, <1>8, <1>11, RearrangedKeeps

LEMMA SetAutoselectKeeps ==
  ASSUME IInv, NEW n \in Sizes, set_autoselect_data(n)
  PROVE  IInv'
  <1> DEFINE s == [Now EXCEPT !.autoselect_size = n,
                              !.data_len = UserRoom,
                              !.default_len = IF default_size > 0
                                              THEN get_align_size(default_size)
                                              ELSE 0]
             t == ensure_capacity(Total(s))
             g == Grown(mem, t)
             m == memcpy(g, s.data_len + s.default_len, Bytes("autoselect", n))
  <1>1. /\ s.data_size = data_size /\ s.data_len = Room(data_size)
        /\ s.default_size = default_size /\ s.default_len = Room(default_size)
        /\ s.autoselect_size = n
    BY DEF Now, Room, UserRoom
  <1>2. /\ present' = TRUE /\ Sized(s) /\ capacity' = t
        /\ mem' = Kept(s, m)
    BY DEF set_autoselect_data, Rearranged, IInv, AbsentInv
  <1>3. /\ data_size \in MaybeSize /\ default_size \in MaybeSize
        /\ default_size > 0 => data_len = Room(data_size)
    BY DEF IInv, Layout, Now
  <1>4. /\ n \in Nat /\ n > 0
        /\ s.data_len \in Nat /\ data_size =< s.data_len
        /\ s.default_len \in Nat /\ default_size =< s.default_len
    BY <1>1, <1>3, SizesAreNat, RoomOfSize
  <1> HIDE DEF s
  <1>5. Layout(s)
    BY <1>1, <1>3, <1>4, SizesAreNat, RoomOfSize DEF Layout
  <1>6. /\ Total(s) \in Nat
        /\ Total(s) = s.data_len + s.default_len + n
    BY <1>1, <1>5, LayoutNat DEF Total
  <1>7. /\ t \in Nat /\ Total(s) =< t
        /\ Fits(Now, g, t)
    BY <1>6, GrownNow
  <1> HIDE DEF t, g
  <1>8. /\ Block(g, t)
        /\ Holds(g, t, 0, "user", data_size)
        /\ Holds(g, t, s.data_len, "default", default_size)
    <2>1. /\ Block(g, t)
          /\ Holds(g, t, 0, "user", data_size)
          /\ Holds(g, t, data_len, "default", default_size)
      BY <1>7 DEF Fits, Now
    <2>2. CASE default_size > 0
      BY <1>1, <1>3, <2>1, <2>2
    <2>3. CASE ~(default_size > 0)
      BY <2>1, <2>3, ItemNat DEF Holds
    <2>4. QED BY <2>2, <2>3
  <1>9. /\ Block(m, t)
        /\ Holds(m, t, 0, "user", data_size)
        /\ Holds(m, t, s.data_len, "default", default_size)
        /\ Holds(m, t, s.data_len + s.default_len, "autoselect", n)
    <2>1. /\ s.data_len + s.default_len \in Nat
          /\ s.data_len + s.default_len + n =< t
      BY <1>4, <1>6, <1>7
    <2>2. /\ Block(m, t)
          /\ Holds(m, t, s.data_len + s.default_len, "autoselect", n)
          /\ \A ptr \in Nat, k \in Nat, layer \in Layers :
               /\ Holds(g, t, ptr, layer, k)
               /\ \/ ptr + k =< s.data_len + s.default_len
                  \/ s.data_len + s.default_len + n =< ptr
               => Holds(m, t, ptr, layer, k)
      <3>1. "autoselect" \in Layers
        BY DEF Layers
      <3>2. QED BY <1>4, <1>7, <1>8, <2>1, <3>1, CopyHolds
    <2>3. QED BY <1>4, <1>8, <2>2, ItemNat DEF Layers
  <1> HIDE DEF m
  <1>10. Fits(s, m, t)
    BY <1>1, <1>7, <1>9 DEF Fits
  <1>11. QED BY <1>2, <1>5, <1>7, <1>10, RearrangedKeeps

LEMMA UnsetUserKeeps ==
  ASSUME IInv, unset_user_value
  PROVE  IInv'
  <1> DEFINE s == [Now EXCEPT !.data_size = 0, !.data_len = 0]
             t == ensure_capacity(Total(s))
             g == Grown(mem, t)
             later == default_len + autoselect_size
             m == memmove(g, 0, default_ptr, later)
  <1>1. /\ s.data_size = 0 /\ s.data_len = 0
        /\ s.default_size = default_size /\ s.default_len = default_len
        /\ s.autoselect_size = autoselect_size
    BY DEF Now
  <1>2. /\ present' = TRUE /\ Sized(s) /\ capacity' = t
        /\ mem' = Kept(s, m)
    BY DEF unset_user_value, Rearranged, IInv, AbsentInv
  <1> HIDE DEF s
  <1>3. Layout(s)
    BY <1>1, SizesAreNat, ItemNat DEF Layout, Now, Room
  <1>4. Total(s) \in Nat /\ Total(s) = later
    BY <1>1, <1>3, LayoutNat, ItemNat DEF Total
  <1>5. /\ t \in Nat /\ Total(s) =< t
        /\ Fits(Now, g, t)
    BY <1>4, GrownNow
  <1> HIDE DEF t, g
  <1>6. /\ Block(g, t)
        /\ Holds(g, t, default_ptr + 0, "default", default_size)
        /\ Holds(g, t, default_ptr + default_len, "autoselect", autoselect_size)
    BY <1>5, ItemNat DEF Fits, Now, default_ptr
  <1>7. /\ default_ptr \in Nat /\ later \in Nat
        /\ 0 + default_size =< later /\ 0 + 0 + default_size =< t
        /\ default_len + autoselect_size =< later
        /\ 0 + default_len + autoselect_size =< t
    BY <1>4, <1>5, ItemNat DEF default_ptr
  <1> HIDE DEF later
  <1>8. /\ Block(m, t)
        /\ \A off \in Nat, k \in Nat, layer \in Layers :
             /\ Holds(g, t, default_ptr + off, layer, k)
             /\ off + k =< later /\ 0 + off + k =< t
             => Holds(m, t, 0 + off, layer, k)
    BY <1>5, <1>6, <1>7, MoveHolds
  <1> HIDE DEF m
  <1>9. /\ Holds(m, t, 0 + 0, "default", default_size)
        /\ Holds(m, t, 0 + default_len, "autoselect", autoselect_size)
    BY <1>6, <1>7, <1>8, ItemNat DEF Layers
  <1>10. Fits(s, m, t)
    <2>1. Holds(m, t, 0, "user", 0)
      BY DEF Holds
    <2>2. 0 + 0 = 0 /\ 0 + default_len = default_len
      BY ItemNat
    <2>3. QED BY <1>1, <1>5, <1>8, <1>9, <2>1, <2>2 DEF Fits
  <1>11. QED BY <1>2, <1>3, <1>5, <1>10, RearrangedKeeps

LEMMA UnsetDefaultKeeps ==
  ASSUME IInv, unset_default_value
  PROVE  IInv'
  <1> DEFINE s == [Now EXCEPT !.default_size = 0, !.default_len = 0]
             t == ensure_capacity(Total(s))
             g == Grown(mem, t)
             m == memmove(g, data_len, autoselect_ptr, autoselect_size)
  <1>1. /\ s.data_size = data_size /\ s.data_len = data_len
        /\ s.default_size = 0 /\ s.default_len = 0
        /\ s.autoselect_size = autoselect_size
    BY DEF Now
  <1>2. /\ present' = TRUE /\ Sized(s) /\ capacity' = t
        /\ mem' = Kept(s, m)
    BY DEF unset_default_value, Rearranged, IInv, AbsentInv
  <1> HIDE DEF s
  <1>3. Layout(s)
    BY <1>1, SizesAreNat, ItemNat DEF Layout, Now, Room
  <1>4. Total(s) \in Nat /\ Total(s) = data_len + autoselect_size
    BY <1>1, <1>3, LayoutNat, ItemNat DEF Total
  <1>5. /\ t \in Nat /\ Total(s) =< t
        /\ Fits(Now, g, t)
    BY <1>4, GrownNow
  <1> HIDE DEF t, g
  <1>6. /\ Block(g, t)
        /\ Holds(g, t, 0, "user", data_size)
        /\ Holds(g, t, autoselect_ptr + 0, "autoselect", autoselect_size)
    BY <1>5, ItemNat DEF Fits, Now, autoselect_ptr
  <1>7. autoselect_ptr \in Nat /\ data_len + 0 + autoselect_size =< t
    BY <1>4, <1>5, ItemNat DEF autoselect_ptr
  <1>8. /\ Block(m, t)
        /\ \A off \in Nat, k \in Nat, layer \in Layers :
             /\ Holds(g, t, autoselect_ptr + off, layer, k)
             /\ off + k =< autoselect_size /\ data_len + off + k =< t
             => Holds(m, t, data_len + off, layer, k)
        /\ \A ptr \in Nat, k \in Nat, layer \in Layers :
             /\ Holds(g, t, ptr, layer, k)
             /\ ptr + k =< data_len \/ autoselect_size = 0
             => Holds(m, t, ptr, layer, k)
    BY <1>5, <1>6, <1>7, ItemNat, MoveHolds
  <1> HIDE DEF m
  <1>9. Holds(m, t, 0, "user", data_size)
    BY <1>6, <1>8, ItemNat DEF Layers
  <1>10. Holds(m, t, data_len + 0, "autoselect", autoselect_size)
    BY <1>6, <1>7, <1>8, ItemNat DEF Layers
  <1>11. Fits(s, m, t)
    <2>1. Holds(m, t, data_len, "default", 0)
      BY DEF Holds
    <2>2. QED BY <1>1, <1>5, <1>8, <1>9, <1>10, <2>1 DEF Fits
  <1>12. QED BY <1>2, <1>3, <1>5, <1>11, RearrangedKeeps

LEMMA UnsetAutoselectKeeps ==
  ASSUME IInv, unset_autoselect_value
  PROVE  IInv'
  <1> DEFINE s == [Now EXCEPT !.autoselect_size = 0]
             t == ensure_capacity(Total(s))
             g == Grown(mem, t)
  <1>1. /\ s.data_size = data_size /\ s.data_len = data_len
        /\ s.default_size = default_size /\ s.default_len = default_len
        /\ s.autoselect_size = 0
    BY DEF Now
  <1>2. /\ present' = TRUE /\ Sized(s) /\ capacity' = t
        /\ mem' = Kept(s, g)
    BY DEF unset_autoselect_value, Rearranged, IInv, AbsentInv
  <1> HIDE DEF s
  <1>3. Layout(s)
    BY <1>1, SizesAreNat, ItemNat DEF Layout, Now
  <1>4. Total(s) \in Nat
    BY <1>3, LayoutNat
  <1>5. /\ t \in Nat /\ Total(s) =< t
        /\ Fits(Now, g, t)
    BY <1>4, GrownNow
  <1> HIDE DEF t, g
  <1>6. Fits(s, g, t)
    <2>1. Holds(g, t, data_len + default_len, "autoselect", 0)
      BY DEF Holds
    <2>2. QED BY <1>1, <1>5, <2>1 DEF Fits, Now
  <1>7. QED BY <1>2, <1>3, <1>5, <1>6, RearrangedKeeps

LEMMA CreateKeeps ==
  ASSUME IInv, NEW layer \in Layers, NEW n \in Sizes, Create(layer, n)
  PROVE  IInv'
  <1>1. n \in Nat /\ n > 0 /\ n \in MaybeSize /\ n \in Rooms
        /\ 0 \in MaybeSize /\ 0 \in Rooms
    BY SizesAreNat
  <1>2. present' = TRUE /\ capacity' = n /\ mem' = Bytes(layer, n)
    BY DEF Create
  <1>3. Block(mem', n) /\ Holds(mem', n, 0, layer, n)
    BY <1>1, <1>2, BytesAt DEF Block, Bytes, Holds
  <1>4. \A l, ptr : Holds(mem', n, ptr, l, 0)
    BY DEF Holds
  <1>5. CASE layer = "user"
    <2>1. /\ data_size' = n /\ data_len' = n /\ default_size' = 0
          /\ default_len' = 0 /\ autoselect_size' = 0
      BY <1>5 DEF Create, Sized, Nothing
    <2>2. QED
      BY <1>1, <1>2, <1>3, <1>4, <1>5, <2>1 DEF IInv, AbsentInv, Layout, Fits, Total, Now
  <1>6. CASE layer = "default"
    <2>1. /\ data_size' = 0 /\ data_len' = 0 /\ default_size' = n
          /\ default_len' = n /\ autoselect_size' = 0
      BY <1>6 DEF Create, Sized, Nothing
    <2>2. QED
      BY <1>1, <1>2, <1>3, <1>4, <1>6, <2>1
         DEF IInv, AbsentInv, Layout, Fits, Total, Now, Room
  <1>7. CASE layer = "autoselect"
    <2>1. /\ data_size' = 0 /\ data_len' = 0 /\ default_size' = 0
          /\ default_len' = 0 /\ autoselect_size' = n
      BY <1>7 DEF Create, Sized, Nothing
    <2>2. QED
      BY <1>1, <1>2, <1>3, <1>4, <1>7, <2>1
         DEF IInv, AbsentInv, Layout, Fits, Total, Now, Room
  <1>8. QED BY <1>5, <1>6, <1>7 DEF Layers

LEMMA EraseKeeps ==
  ASSUME IInv, Erase
  PROVE  IInv'
  <1>1. /\ present' = FALSE /\ capacity' = 0
        /\ data_size' = 0 /\ data_len' = 0 /\ default_size' = 0
        /\ default_len' = 0 /\ autoselect_size' = 0
        /\ mem' = [i \in {} |-> Junk]
    BY DEF Erase, Sized, Nothing
  <1>2. Block(mem', 0) /\ \A l, ptr : Holds(mem', 0, ptr, l, 0)
    BY <1>1 DEF Block, Holds
  <1>3. Layout(Now)'
    BY <1>1, SizesAreNat DEF Layout, Now
  <1>4. Total(Now)' =< capacity'
    BY <1>1 DEF Total, Now
  <1>5. Fits(Now, mem, capacity)'
    BY <1>1, <1>2, <1>4 DEF Fits, Now
  <1>6. QED BY <1>1, <1>3, <1>5 DEF IInv, AbsentInv

LEMMA StutterKeeps ==
  ASSUME IInv, UNCHANGED vars
  PROVE  IInv'
  BY DEF IInv, AbsentInv, Layout, Fits, Total, Now, vars, sizeVars

LEMMA StepIInv == IInv /\ [Next]_vars => IInv'
  <1> SUFFICES ASSUME IInv, [Next]_vars PROVE IInv'
    OBVIOUS
  <1>1. ASSUME NEW n \in Sizes, NEW layer \in Layers, Create(layer, n) PROVE IInv'
    BY <1>1, CreateKeeps
  <1>2. ASSUME NEW n \in Sizes, setdata(n) PROVE IInv'
    BY <1>2, SetdataKeeps
  <1>3. ASSUME NEW n \in Sizes, set_default_data(n) PROVE IInv'
    BY <1>3, SetDefaultKeeps
  <1>4. ASSUME NEW n \in Sizes, set_autoselect_data(n) PROVE IInv'
    BY <1>4, SetAutoselectKeeps
  <1>5. QED
    BY <1>1, <1>2, <1>3, <1>4, UnsetUserKeeps, UnsetDefaultKeeps,
       UnsetAutoselectKeeps, EraseKeeps, StutterKeeps DEF Next

LEMMA IInvHolds == Spec => []IInv
  BY InitIInv, StepIInv, PTL DEF Spec

-----------------------------------------------------------------------------
(* Every variable keeps its type; the allocation is one block of capacity  *)
(* bytes.                                                                  *)
THEOREM TypeCorrect == Spec => []TypeOK
  <1>1. IInv => TypeOK
    <2> SUFFICES ASSUME IInv PROVE TypeOK
      OBVIOUS
    <2>1. capacity \in Nat /\ DOMAIN mem = 0 .. capacity - 1
      BY DEF IInv, Fits, Block
    <2>2. QED BY <2>1 DEF IInv, AbsentInv, Layout, Now, TypeOK
  <1>2. QED BY <1>1, IInvHolds, PTL

(* No operation needs more bytes than were allocated for the item.         *)
THEOREM StaysInside == Spec => []InsideAllocation
  <1>1. IInv => InsideAllocation
    BY DEF IInv, Fits, Total, Now, InsideAllocation
  <1>2. QED BY <1>1, IInvHolds, PTL

(* The default and the autoselect value are aligned, whatever the          *)
(* alignment is (get_align_size).                                          *)
THEOREM StaysAligned == Spec => []LayersAligned
  <1>1. IInv => LayersAligned
    <2> SUFFICES ASSUME IInv PROVE LayersAligned
      OBVIOUS
    <2>1. /\ data_size \in MaybeSize /\ default_size \in MaybeSize
          /\ default_size > 0 \/ autoselect_size > 0 => data_len = Room(data_size)
          /\ autoselect_size > 0 => default_len = Room(default_size)
      BY DEF IInv, Layout, Now
    <2>2. /\ Room(data_size) \in Nat /\ Room(data_size) % Alignment = 0
          /\ Room(default_size) \in Nat /\ Room(default_size) % Alignment = 0
      BY <2>1, RoomOfSize
    <2>3. (Room(data_size) + Room(default_size)) % Alignment = 0
      BY <2>2, AlignedSum
    <2>4. QED BY <2>1, <2>2, <2>3 DEF LayersAligned, default_ptr, autoselect_ptr
  <1>2. QED BY <1>1, IInvHolds, PTL

(* A value that holds its bytes reads back as it was set.                  *)
LEMMA HoldsRead ==
  ASSUME Block(mem, capacity), NEW ptr \in Nat, NEW n \in Nat,
         NEW layer \in Layers, Holds(mem, capacity, ptr, layer, n)
  PROVE  Read(ptr, n) = Bytes(layer, n)
  <1>1. \A i \in 0 .. n - 1 : ptr + i \in 0 .. capacity - 1
    <2>1. capacity \in Nat /\ \A i \in 0 .. n - 1 : ptr + i < capacity
      BY DEF Holds, Block
    <2>2. QED BY <2>1
  <1>2. \A i \in 0 .. n - 1 : At(mem, ptr + i) = <<layer, n, i>>
    BY <1>1 DEF Holds, Block, At
  <1>3. QED BY <1>2 DEF Read, Bytes

(* What the three layers read is a function of their sizes.                *)
ReadsBack ==
  /\ Read(0, data_size) = Bytes("user", data_size)
  /\ Read(default_ptr, default_size) = Bytes("default", default_size)
  /\ Read(autoselect_ptr, autoselect_size) = Bytes("autoselect", autoselect_size)

LEMMA LayersRead == IInv => ReadsBack
  <1> SUFFICES ASSUME IInv PROVE ReadsBack
    OBVIOUS
  <1>1. /\ Block(mem, capacity)
        /\ Holds(mem, capacity, 0, "user", data_size)
        /\ Holds(mem, capacity, default_ptr, "default", default_size)
        /\ Holds(mem, capacity, autoselect_ptr, "autoselect", autoselect_size)
    BY DEF IInv, Fits, Now, default_ptr, autoselect_ptr
  <1>2. default_ptr \in Nat /\ autoselect_ptr \in Nat
    BY ItemNat DEF default_ptr, autoselect_ptr
  <1>3. QED BY <1>1, <1>2, ItemNat, HoldsRead DEF Layers, ReadsBack

(* A plain get returns the first value that is set (get_item_data).        *)
THEOREM GetIsCorrect == Spec => []GetFallsBack
  <1>1. IInv => GetFallsBack
    <2> SUFFICES ASSUME IInv PROVE GetFallsBack
      OBVIOUS
    <2>1. data_size = 0 => default_ptr = 0
      BY DEF IInv, Layout, Now, default_ptr
    <2>2. data_size = 0 /\ default_size = 0 => autoselect_ptr = 0
      BY DEF IInv, Layout, Now, autoselect_ptr
    <2>3. QED BY <2>1, <2>2, LayersRead DEF GetFallsBack, ReadsBack
  <1>2. QED BY <1>1, IInvHolds, PTL

-----------------------------------------------------------------------------
(* The refinement.                                                         *)

NoValue == [i \in {} |-> Junk]

LEMMA EmptyBytes == \A layer \in Layers : Bytes(layer, 0) = NoValue
  BY DEF Bytes, NoValue

(* A step changes the size of one layer, or clears all three.              *)
LEMMA StepSizes ==
  ASSUME IInv, [Next]_vars
  PROVE  \/ data_size' \in MaybeSize /\ UNCHANGED <<default_size, autoselect_size>>
         \/ default_size' \in MaybeSize /\ UNCHANGED <<data_size, autoselect_size>>
         \/ autoselect_size' \in MaybeSize /\ UNCHANGED <<data_size, default_size>>
         \/ data_size' = 0 /\ default_size' = 0 /\ autoselect_size' = 0
  <1> DEFINE Goal ==
         \/ data_size' \in MaybeSize /\ UNCHANGED <<default_size, autoselect_size>>
         \/ default_size' \in MaybeSize /\ UNCHANGED <<data_size, autoselect_size>>
         \/ autoselect_size' \in MaybeSize /\ UNCHANGED <<data_size, default_size>>
         \/ data_size' = 0 /\ default_size' = 0 /\ autoselect_size' = 0
  <1> SUFFICES Goal
    OBVIOUS
  <1> USE SizesAreNat DEF Rearranged, Sized, Now
  <1>1. ASSUME NEW n \in Sizes, setdata(n) PROVE Goal
    BY <1>1 DEF setdata
  <1>2. ASSUME NEW n \in Sizes, set_default_data(n) PROVE Goal
    BY <1>2 DEF set_default_data
  <1>3. ASSUME NEW n \in Sizes, set_autoselect_data(n) PROVE Goal
    BY <1>3 DEF set_autoselect_data
  <1>4. CASE unset_user_value
    BY <1>4 DEF unset_user_value
  <1>5. CASE unset_default_value
    BY <1>5 DEF unset_default_value
  <1>6. CASE unset_autoselect_value
    BY <1>6 DEF unset_autoselect_value
  <1>7. CASE Erase
    BY <1>7 DEF Erase, Nothing
  <1>8. CASE UNCHANGED vars
    <2>1. data_size \in MaybeSize
      BY DEF IInv, Layout
    <2>2. QED BY <1>8, <2>1 DEF vars, sizeVars
  <1>9. ASSUME NEW n \in Sizes, NEW layer \in Layers, Create(layer, n) PROVE Goal
    <2>1. /\ data_size = 0 /\ default_size = 0 /\ autoselect_size = 0
          /\ n \in MaybeSize
      BY <1>9 DEF Create, IInv, AbsentInv
    <2>2. CASE layer = "user"
      BY <1>9, <2>1, <2>2 DEF Create, Nothing
    <2>3. CASE layer = "default"
      BY <1>9, <2>1, <2>3 DEF Create, Nothing
    <2>4. CASE layer = "autoselect"
      BY <1>9, <2>1, <2>4 DEF Create, Nothing
    <2>5. QED BY <2>2, <2>3, <2>4 DEF Layers
  <1>10. QED
    BY <1>1, <1>2, <1>3, <1>4, <1>5, <1>6, <1>7, <1>8, <1>9 DEF Next

LEMMA InitPromise == Init => Promise!Init
  <1>1. Init => ReadsBack
    BY InitIInv, LayersRead
  <1>2. QED BY <1>1, EmptyBytes DEF Init, ReadsBack, Layers, NoValue, Promise!Init

(* What a layer reads is a value of that layer, or nothing.                *)
LEMMA BytesAreValues ==
  ASSUME NEW n \in MaybeSize, NEW layer \in Layers
  PROVE  Bytes(layer, n) \in {Bytes(layer, k) : k \in Sizes} \cup {NoValue}
  BY EmptyBytes DEF MaybeSize, None

LEMMA StepPromise ==
  ASSUME IInv, ReadsBack, ReadsBack', [Next]_vars
  PROVE  [Promise!Next]_(Promise!layers)
  <1>1. CASE data_size' \in MaybeSize /\ UNCHANGED <<default_size, autoselect_size>>
    <2>1. Promise!SetUser
      BY <1>1, BytesAreValues DEF ReadsBack, Promise!SetUser, Layers, NoValue
    <2>2. QED BY <2>1 DEF Promise!Next
  <1>2. CASE default_size' \in MaybeSize /\ UNCHANGED <<data_size, autoselect_size>>
    <2>1. Promise!SetDefault
      BY <1>2, BytesAreValues DEF ReadsBack, Promise!SetDefault, Layers, NoValue
    <2>2. QED BY <2>1 DEF Promise!Next
  <1>3. CASE autoselect_size' \in MaybeSize /\ UNCHANGED <<data_size, default_size>>
    <2>1. Promise!SetAutoselect
      BY <1>3, BytesAreValues DEF ReadsBack, Promise!SetAutoselect, Layers, NoValue
    <2>2. QED BY <2>1 DEF Promise!Next
  <1>4. CASE data_size' = 0 /\ default_size' = 0 /\ autoselect_size' = 0
    <2>1. Promise!Erase
      BY <1>4, EmptyBytes DEF ReadsBack, Promise!Erase, Layers, NoValue
    <2>2. QED BY <2>1 DEF Promise!Next
  <1>5. QED BY <1>1, <1>2, <1>3, <1>4, StepSizes

(* The values lie inside the allocation, aligned, and where a plain get    *)
(* looks for them.                                                         *)
THEOREM ValuesStayInPlace == Spec => []ValuesInPlace
  <1>1. GetFallsBack /\ InsideAllocation /\ LayersAligned => ValuesInPlace
    BY DEF ValuesInPlace
  <1>2. QED BY <1>1, GetIsCorrect, StaysInside, StaysAligned, PTL

(* Setting or unsetting one value never changes what another one reads:    *)
(* the item implements LayeredValue (wsc_data_item_setdata and the other   *)
(* operations of data.c on items).                                         *)
THEOREM LayersAreIndependent == Spec => LayersIndependent
  <1>1. IInv /\ IInv' /\ [Next]_vars => [Promise!Next]_(Promise!layers)
    <2>1. IInv' => ReadsBack'
      BY LayersRead, PTL
    <2>2. QED BY <2>1, LayersRead, StepPromise
  <1>2. QED
    BY <1>1, InitPromise, IInvHolds, PTL DEF Spec, LayersIndependent, Promise!Spec
=============================================================================
