---------------------------- MODULE WscDataItem ----------------------------
(***************************************************************************)
(* One item of a wsc_data_t (src/data.c): a single allocation that holds   *)
(* the user value, the default value and the autoselect value behind each  *)
(* other, and is rearranged whenever one of them is set or unset.  Offsets *)
(* are relative to get_data_ptr, the end of the name; a byte of a value    *)
(* records the layer, the size and its place in the value.                 *)
(***************************************************************************)
EXTENDS Integers, FiniteSets

CONSTANTS
  Sizes,      \* the sizes values have
  Alignment,  \* base_get_alignment()
  Junk        \* a byte nobody wrote

ASSUME SizesAssumption == Sizes \subseteq Nat \ {0}
ASSUME AlignmentAssumption == Alignment \in Nat \ {0}

VARIABLES
  present,                    \* the item is in the list of its wsc_data_t
  data_size, data_len,        \* user value, and the room it takes
  default_size, default_len,  \* default value
  autoselect_size,
  capacity,
  mem                         \* the bytes from get_data_ptr on

sizeVars == <<data_size, data_len, default_size, default_len, autoselect_size>>
vars == <<present, sizeVars, capacity, mem>>

None == 0
Layers == {"user", "default", "autoselect"}
MaybeSize == Sizes \cup {None}

get_align_size(n) == ((n + Alignment - 1) \div Alignment) * Alignment

Rooms == MaybeSize \cup {get_align_size(n) : n \in Sizes}

TypeOK ==
  /\ present \in BOOLEAN
  /\ data_size \in MaybeSize /\ data_len \in Rooms
  /\ default_size \in MaybeSize /\ default_len \in Rooms
  /\ autoselect_size \in MaybeSize
  /\ capacity \in Nat
  /\ DOMAIN mem = 0 .. capacity - 1

Init ==
  /\ present = FALSE
  /\ data_size = 0 /\ data_len = 0
  /\ default_size = 0 /\ default_len = 0
  /\ autoselect_size = 0
  /\ capacity = 0
  /\ mem = [i \in {} |-> Junk]

-----------------------------------------------------------------------------
(* Memory.                                                                 *)

(* The bytes of a value of n bytes set in a layer.                         *)
Bytes(layer, n) == [i \in 0 .. n - 1 |-> <<layer, n, i>>]

At(m, i) == IF i \in DOMAIN m THEN m[i] ELSE Junk

memmove(m, to, from, n) ==
  [i \in DOMAIN m |-> IF i \in to .. to + n - 1 THEN At(m, from + i - to)
                                                 ELSE m[i]]

memcpy(m, to, bytes) ==
  [i \in DOMAIN m |-> IF i - to \in DOMAIN bytes THEN bytes[i - to] ELSE m[i]]

(* wsc_data_item_ensure_capacity: brealloc keeps the bytes that were there *)
(* and leaves the new ones as they are.                                    *)
Grown(m, n) == [i \in 0 .. n - 1 |-> At(m, i)]

ensure_capacity(total) == IF capacity >= total THEN capacity ELSE total

default_ptr == data_len
autoselect_ptr == data_len + default_len

(* The item's sizes after a step, as one record, and what they occupy.     *)
Total(s) == s.data_len + s.default_len + s.autoselect_size

Sized(s) ==
  /\ data_size' = s.data_size /\ data_len' = s.data_len
  /\ default_size' = s.default_size /\ default_len' = s.default_len
  /\ autoselect_size' = s.autoselect_size

Now == [data_size |-> data_size, data_len |-> data_len,
        default_size |-> default_size, default_len |-> default_len,
        autoselect_size |-> autoselect_size]

Nothing == [data_size |-> 0, data_len |-> 0, default_size |-> 0,
            default_len |-> 0, autoselect_size |-> 0]

(* The bytes of m that belong to a value; what lies between and behind     *)
(* them counts as unwritten.                                               *)
Kept(s, m) ==
  [i \in DOMAIN m |->
     IF \/ i < s.data_size
        \/ i - s.data_len \in 0 .. s.default_size - 1
        \/ i - (s.data_len + s.default_len) \in 0 .. s.autoselect_size - 1
     THEN m[i] ELSE Junk]

(* The item takes the sizes s; Written fills its memory, grown to hold s.  *)
Rearranged(s, Written(_)) ==
  /\ present /\ UNCHANGED present
  /\ Sized(s)
  /\ capacity' = ensure_capacity(Total(s))
  /\ mem' = Kept(s, Written(Grown(mem, ensure_capacity(Total(s)))))

-----------------------------------------------------------------------------
(* Operations.                                                             *)

Create(layer, n) ==
  /\ ~present /\ present' = TRUE
  /\ Sized(CASE layer = "user" ->
                  [Nothing EXCEPT !.data_size = n, !.data_len = n]
             [] layer = "default" ->
                  [Nothing EXCEPT !.default_size = n, !.default_len = n]
             [] OTHER -> [Nothing EXCEPT !.autoselect_size = n])
  /\ capacity' = n
  /\ mem' = Bytes(layer, n)

HasLater == default_size > 0 \/ autoselect_size > 0

setdata_WriteFirst(n) ==
  LET s == [Now EXCEPT !.data_size = n,
                       !.data_len = IF HasLater THEN get_align_size(n) ELSE n]
  IN Rearranged(s, LAMBDA m :
       memmove(memcpy(m, 0, Bytes("user", n)), s.data_len, default_ptr,
               IF HasLater THEN default_len + autoselect_size ELSE 0))

(* wsc_data_item_setdata: later layers move first, then the value is       *)
(* copied.                                                                 *)
setdata(n) ==
  LET s == [Now EXCEPT !.data_size = n,
                       !.data_len = IF HasLater THEN get_align_size(n) ELSE n]
      later == IF HasLater THEN default_len + autoselect_size ELSE 0
  IN Rearranged(s, LAMBDA m :
       memcpy(memmove(m, s.data_len, default_ptr, later), 0, Bytes("user", n)))

UserRoom == IF data_size > 0 THEN get_align_size(data_size) ELSE 0

set_default_Tight(n) ==
  LET s == [Now EXCEPT !.default_size = n, !.default_len = n,
                       !.data_len = UserRoom]
  IN Rearranged(s, LAMBDA m :
       memcpy(memmove(m, s.data_len + s.default_len, autoselect_ptr,
                      autoselect_size),
              s.data_len, Bytes("default", n)))

(* wsc_data_item_set_default_data.                                         *)
set_default_data(n) ==
  LET s == [Now EXCEPT !.default_size = n,
                       !.default_len = IF autoselect_size > 0
                                       THEN get_align_size(n) ELSE n,
                       !.data_len = UserRoom]
  IN Rearranged(s, LAMBDA m :
       memcpy(memmove(m, s.data_len + s.default_len, autoselect_ptr,
                      autoselect_size),
              s.data_len, Bytes("default", n)))

(* wsc_data_item_set_autoselect_data.                                      *)
set_autoselect_data(n) ==
  LET s == [Now EXCEPT !.autoselect_size = n,
                       !.data_len = UserRoom,
                       !.default_len = IF default_size > 0
                                       THEN get_align_size(default_size) ELSE 0]
  IN Rearranged(s, LAMBDA m :
       memcpy(m, s.data_len + s.default_len, Bytes("autoselect", n)))

(* wsc_data_item_unset_user_value, and clear_item of wsc_data_clear.       *)
unset_user_value ==
  /\ data_size > 0
  /\ Rearranged([Now EXCEPT !.data_size = 0, !.data_len = 0], LAMBDA m :
       memmove(m, 0, default_ptr, default_len + autoselect_size))

unset_default_value ==
  /\ default_size > 0
  /\ Rearranged([Now EXCEPT !.default_size = 0, !.default_len = 0], LAMBDA m :
       memmove(m, data_len, autoselect_ptr, autoselect_size))

unset_autoselect_value ==
  /\ autoselect_size > 0
  /\ Rearranged([Now EXCEPT !.autoselect_size = 0], LAMBDA m : m)

(* wsc_data_erase.                                                         *)
Erase ==
  /\ present /\ present' = FALSE
  /\ Sized(Nothing) /\ capacity' = 0 /\ mem' = [i \in {} |-> Junk]

-----------------------------------------------------------------------------
Next ==
  \/ \E n \in Sizes :
       \/ \E layer \in Layers : Create(layer, n)
       \/ present /\ (setdata(n) \/ set_default_data(n) \/ set_autoselect_data(n))
  \/ unset_user_value \/ unset_default_value \/ unset_autoselect_value
  \/ Erase

Spec == Init /\ [][Next]_vars

-----------------------------------------------------------------------------
(* Correctness.                                                            *)

Read(ptr, n) == [i \in 0 .. n - 1 |-> At(mem, ptr + i)]

(* Each layer reads back what was last set in it: setting, growing and     *)
(* unsetting the others moves its bytes but does not change them.          *)
Promise == INSTANCE LayeredValue WITH
  UserValues <- {Bytes("user", n) : n \in Sizes},
  DefaultValues <- {Bytes("default", n) : n \in Sizes},
  AutoselectValues <- {Bytes("autoselect", n) : n \in Sizes},
  None <- [i \in {} |-> Junk],
  user <- Read(0, data_size),
  default <- Read(default_ptr, default_size),
  autoselect <- Read(autoselect_ptr, autoselect_size)

LayersIndependent == Promise!Spec

(* A plain get reads the user value, without one the default value, and    *)
(* without that the autoselect value: get_item_data relies on the layers   *)
(* closing up behind an unset one.                                         *)
GetFallsBack ==
  /\ data_size > 0 => Read(0, data_size) = Bytes("user", data_size)
  /\ data_size = 0 /\ default_size > 0 =>
       Read(0, default_size) = Bytes("default", default_size)
  /\ data_size = 0 /\ default_size = 0 =>
       Read(0, autoselect_size) = Bytes("autoselect", autoselect_size)

(* The item never needs more bytes than were allocated for it.             *)
InsideAllocation == data_len + default_len + autoselect_size =< capacity

(* The default and the autoselect value start at aligned addresses (the    *)
(* name is padded so that get_data_ptr is aligned).                        *)
LayersAligned ==
  /\ default_size > 0 => default_ptr % Alignment = 0
  /\ autoselect_size > 0 => autoselect_ptr % Alignment = 0

(* The values lie where a plain get looks for them, whatever was set,      *)
(* moved and unset before.                                                 *)
ValuesInPlace == GetFallsBack /\ InsideAllocation /\ LayersAligned
=============================================================================
