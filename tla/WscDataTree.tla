---------------------------- MODULE WscDataTree ----------------------------
(***************************************************************************)
(* What settings hold (src/data.c): objects whose items have up to three   *)
(* values (user, default, autoselect), values that are objects or arrays   *)
(* of objects, and the references these take and give up when settings are *)
(* set, unset, erased, cleared, read, copied by wsc_data_apply, read from  *)
(* JSON and written as JSON.  How an object keeps its items is in          *)
(* WscDataList, how an item keeps its values in WscDataItem.               *)
(*                                                                         *)
(* The functions of data.c call each other along the tree.  Here their     *)
(* activations are frames on a stack, and every step is one of the         *)
(* function on top, between two calls that it makes.                       *)
(***************************************************************************)
EXTENDS Naturals, Sequences, FiniteSets, SequencesExt, Functions

CONSTANTS
  Objs,    \* addresses of objects
  Arrays,  \* addresses of arrays
  Names,   \* names of settings
  Layers,  \* bound: which of the three values items use
  Scalars, \* values that are not nested
  Docs,    \* JSON documents the application reads, as Json below
  MaxApp,  \* bound: references the application owns at a time
  MaxLen   \* bound: elements of an array

Cells == Objs \cup Arrays

(* NaN stands for the numbers that JSON cannot express, NULL for an object *)
(* or array value that is a null pointer.                                  *)
Null == {"NULL object", "NULL array"}
Values == Scalars \cup Null \cup Cells

ASSUME ScalarsAssumption == Scalars \subseteq {"int", "double", "NaN", "text", "true"}
ASSUME LayersAssumption ==
  "user" \in Layers /\ Layers \subseteq {"user", "default", "autoselect"}
ASSUME CellsAssumption ==
  /\ IsFiniteSet(Objs) /\ IsFiniteSet(Arrays) /\ IsFiniteSet(Names)
  /\ Objs \cap Arrays = {}
  /\ Cells \cap (Scalars \cup Null \cup {"unset"}) = {}
ASSUME BoundsAssumption == MaxApp \in Nat /\ MaxLen \in Nat

VARIABLES
  type,    \* item->type of every object and name, "none" without an item
  val,     \* the values of every item by layer
  elems,   \* the elements of every array
  refs,    \* reference counts; 0: free
  app,     \* the references the application owns
  odd,     \* history: a call after which counts, types or memory do not fit
  misused, \* a freed object or array was used
  stack,   \* the functions under way, the innermost last
  call     \* history: wsc_data_apply or a reload under way, and its outset

heapVars == <<type, val, elems, refs>>
vars == <<heapVars, app, odd, misused, stack, call>>

Items == Objs \X Names
Slots == Objs \X Names \X Layers

Kind(v) ==
  CASE v \in {"int", "double", "NaN"}       -> "number"
    [] v \in Objs \cup {"NULL object"}      -> "object"
    [] v \in Arrays \cup {"NULL array"}     -> "array"
    [] OTHER                                -> v

Types == {"number", "text", "true", "object", "array"}

-----------------------------------------------------------------------------
(* The functions under way.  A frame that releases, sets or pushes a cell  *)
(* it was given has that cell as "cell" or "value".                        *)

(* wsc_data_release, wsc_data_array_release: owns the reference it gives up. *)
Releasing(x) == [op |-> "release", cell |-> x]
(* wsc_data_destroy, wsc_data_array_destroy.                               *)
Destroying(x) == [op |-> "destroy", cell |-> x]
(* wsc_data_item_destroy.                                                  *)
Erasing(o, n) == [op |-> "erase", to |-> o, name |-> n]
(* wsc_data_clear with the items ns left.                                  *)
Clearing(o, ns) == [op |-> "clear", to |-> o, names |-> ns]
(* wsc_data_item_setdata and its two siblings.                             *)
Setting(o, n, l, v) == [op |-> "set", to |-> o, name |-> n, layer |-> l, value |-> v]
(* wsc_data_array_push_back.                                               *)
Pushing(a, o) == [op |-> "push", to |-> a, value |-> o]
(* wsc_data_apply with the items ns left.                                  *)
Applying(t, s, ns) == [op |-> "apply", to |-> t, from |-> s, names |-> ns]
(* copy_array from its element k on.                                       *)
CopyingArray(b, a, k) == [op |-> "copy", to |-> b, from |-> a, at |-> k]
(* wsc_data_add_json_object_data with the members ns left.                 *)
AddingMembers(o, j, ns) == [op |-> "members", to |-> o, doc |-> j, names |-> ns]
(* wsc_data_add_json_array with the elements js left.                      *)
AddingElements(a, js) == [op |-> "elements", to |-> a, docs |-> js]

FrameOK(f) ==
  \/ \E x \in Cells : f = Releasing(x) \/ f = Destroying(x)
  \/ \E o \in Objs, n \in Names : f = Erasing(o, n)
  \/ /\ f.op = "clear" /\ f = Clearing(f.to, f.names)
     /\ f.to \in Objs /\ f.names \subseteq Names
  \/ /\ f.op = "set" /\ f = Setting(f.to, f.name, f.layer, f.value)
     /\ f.to \in Objs /\ f.name \in Names /\ f.layer \in Layers /\ f.value \in Values
  \/ \E a \in Arrays, o \in Objs : f = Pushing(a, o)
  \/ /\ f.op = "apply" /\ f = Applying(f.to, f.from, f.names)
     /\ f.to \in Objs /\ f.from \in Objs /\ f.names \subseteq Names
  \/ /\ f.op = "copy" /\ f = CopyingArray(f.to, f.from, f.at)
     /\ f.to \in Arrays /\ f.from \in Arrays /\ f.at \in Nat \ {0}
  \/ /\ f.op = "members" /\ f = AddingMembers(f.to, f.doc, f.names)
     /\ f.to \in Objs /\ f.names \subseteq Names
  \/ f.op = "elements" /\ f = AddingElements(f.to, f.docs) /\ f.to \in Arrays

FramesOK(fs) == fs \in Seq(ToSet(fs)) /\ \A f \in ToSet(fs) : FrameOK(f)

(* Types of variables and frames; an item has the type of its values.      *)
TypeOK ==
  /\ type \in [Items -> Types \cup {"none"}]
  /\ val \in [Slots -> Values \cup {"unset"}]
  /\ elems \in [Arrays -> Seq(Objs)] /\ \A a \in Arrays : Len(elems[a]) =< MaxLen
  /\ refs \in [Cells -> Nat] /\ app \in [Cells -> Nat]
  /\ odd \in BOOLEAN /\ misused \in BOOLEAN
  /\ FramesOK(stack)
  /\ ~odd => \A o \in Objs, n \in Names, l \in Layers :
               val[<<o, n, l>>] # "unset" => type[<<o, n>>] = Kind(val[<<o, n, l>>])

Heap == [type |-> type, val |-> val, elems |-> elems, refs |-> refs]
NoCall == [fn |-> "none"]

Init ==
  /\ type = [i \in Items |-> "none"] /\ val = [s \in Slots |-> "unset"]
  /\ elems = [a \in Arrays |-> <<>>]
  /\ refs = [x \in Cells |-> 0] /\ app = [x \in Cells |-> 0]
  /\ odd = FALSE /\ misused = FALSE /\ stack = <<>> /\ call = NoCall

-----------------------------------------------------------------------------
(* References.                                                             *)

(* wsc_data_create, wsc_data_array_create: any address that is not in use, *)
(* be it by an object whose destruction has not ended.                     *)
Free(S) == {x \in S : refs[x] = 0 /\ Destroying(x) \notin ToSet(stack)}
New(S) == CHOOSE x \in Free(S) : TRUE
Created(S) == Free(S) # {} /\ refs' = [refs EXCEPT ![New(S)] = 1]

Top == Last(stack)
Replace(fs) == stack' = Front(stack) \o fs

(* item_data_release and its two siblings, on a value, before f goes on:   *)
(* nothing to do for a scalar or NULL.                                     *)
Freeing(v, f) == IF v \in Cells THEN <<f, Releasing(v)>> ELSE <<f>>

(* wsc_data_release, wsc_data_array_release.                               *)
Release(x) ==
  /\ Top = Releasing(x)
  /\ refs' = [refs EXCEPT ![x] = @ - 1]
  /\ Replace(IF refs[x] = 1 THEN <<Destroying(x)>> ELSE <<>>)
  /\ UNCHANGED <<type, val, elems, odd>>

(* wsc_data_destroy goes through the items, wsc_data_array_destroy through *)
(* the elements.                                                           *)
DestroyObj(x) ==
  /\ Top = Destroying(x)
  /\ \/ \E n \in Names : type[<<x, n>>] # "none" /\ Replace(<<Top, Erasing(x, n)>>)
     \/ (\A n \in Names : type[<<x, n>>] = "none") /\ Replace(<<>>)
  /\ UNCHANGED <<heapVars, odd>>

DestroyArray(x) ==
  /\ Top = Destroying(x)
  /\ \/ /\ elems[x] # <<>> /\ elems' = [elems EXCEPT ![x] = Tail(@)]
        /\ Replace(<<Top, Releasing(Head(elems[x]))>>)
     \/ elems[x] = <<>> /\ Replace(<<>>) /\ UNCHANGED elems
  /\ UNCHANGED <<type, val, refs, odd>>

(* wsc_data_item_destroy: the values, in whichever order, then the item.   *)
EraseItem(o, n) ==
  /\ Top = Erasing(o, n)
  /\ \/ \E l \in Layers :
          /\ val[<<o, n, l>>] # "unset" /\ val' = [val EXCEPT ![<<o, n, l>>] = "unset"]
          /\ Replace(Freeing(val[<<o, n, l>>], Top))
          /\ UNCHANGED type
     \/ /\ \A l \in Layers : val[<<o, n, l>>] = "unset"
        /\ type' = [type EXCEPT ![<<o, n>>] = "none"]
        /\ Replace(<<>>) /\ UNCHANGED val
  /\ UNCHANGED <<elems, refs, odd>>

(* clear_item: the item stays, with its type and its other values.         *)
ClearItem ==
  /\ Top.op = "clear"
  /\ LET o == Top.to
         ns == Top.names
     IN \/ \E n \in ns :
             /\ val' = [val EXCEPT ![<<o, n, "user">>] = "unset"]
             /\ Replace(Freeing(val[<<o, n, "user">>], Clearing(o, ns \ {n})))
        \/ ns = {} /\ Replace(<<>>) /\ UNCHANGED val
  /\ UNCHANGED <<type, elems, refs, odd>>

-----------------------------------------------------------------------------
(* Setting a value: wsc_data_item_create, wsc_data_item_setdata,           *)
(* wsc_data_item_set_default_data, wsc_data_item_set_autoselect_data.      *)

SetReleases_KeepsOld(o, n, l, v) ==
  /\ Top = Setting(o, n, l, v) /\ val[<<o, n, l>>] \in Cells
  /\ val' = [val EXCEPT ![<<o, n, l>>] = "unset"]
  /\ Replace(<<Top>>)
  /\ UNCHANGED <<type, elems, refs, odd>>

(* The value of that layer is given up first.                              *)
SetReleases(o, n, l, v) ==
  /\ Top = Setting(o, n, l, v) /\ val[<<o, n, l>>] \in Cells
  /\ val' = [val EXCEPT ![<<o, n, l>>] = "unset"]
  /\ Replace(Freeing(val[<<o, n, l>>], Top))
  /\ UNCHANGED <<type, elems, refs, odd>>

Takes_NoAutoselect(o, n, l, v) ==
  /\ v \in Cells /\ l # "autoselect"
  /\ l = "default" => type[<<o, n>>] = "none" \/ val[<<o, n, "user">>] # "unset"

(* item_data_addref, which counts for a new item whatever its layer, and   *)
(* its two siblings: item_default_data_addref does nothing without a user  *)
(* value.                                                                  *)
Takes(o, n, l, v) ==
  /\ v \in Cells
  /\ l = "default" => type[<<o, n>>] = "none" \/ val[<<o, n, "user">>] # "unset"

(* Values of other layers are then read, and released, as what they are    *)
(* not.                                                                    *)
Retypes(o, n, l, v) ==
  \E k \in Layers \ {l} : val[<<o, n, k>>] # "unset" /\ Kind(val[<<o, n, k>>]) # Kind(v)

OddSet(o, n, l, v) ==
  \/ Retypes(o, n, l, v)
  \/ l = "default" /\ v \in Cells /\ ~Takes(o, n, l, v)

SetStores_KeepsType(o, n, l, v) ==
  /\ Top = Setting(o, n, l, v) /\ val[<<o, n, l>>] \notin Cells
  /\ type' = [type EXCEPT ![<<o, n>>] = IF @ = "none" THEN Kind(v) ELSE @]
  /\ val' = [val EXCEPT ![<<o, n, l>>] = v]
  /\ refs' = IF Takes(o, n, l, v) THEN [refs EXCEPT ![v] = @ + 1] ELSE refs
  /\ odd' = OddSet(o, n, l, v)
  /\ Replace(<<>>) /\ UNCHANGED elems

SetStores(o, n, l, v) ==
  /\ Top = Setting(o, n, l, v) /\ val[<<o, n, l>>] \notin Cells
  /\ type' = [type EXCEPT ![<<o, n>>] = Kind(v)]
  /\ val' = [val EXCEPT ![<<o, n, l>>] = v]
  /\ refs' = IF Takes(o, n, l, v) THEN [refs EXCEPT ![v] = @ + 1] ELSE refs
  /\ odd' = OddSet(o, n, l, v)
  /\ Replace(<<>>) /\ UNCHANGED elems

(* wsc_data_array_push_back.                                               *)
Push(a, o) ==
  /\ Top = Pushing(a, o) /\ Len(elems[a]) < MaxLen
  /\ elems' = [elems EXCEPT ![a] = Append(@, o)]
  /\ refs' = [refs EXCEPT ![o] = @ + 1]
  /\ Replace(<<>>) /\ UNCHANGED <<type, val, odd>>

Nested_Keeps(rest, o, n, c, f) == <<rest, Setting(o, n, "user", c), f>>

(* A new object or array c is filled (f), becomes the value of setting n   *)
(* of o, or an element of a, and is released; then the rest.               *)
Nested(rest, o, n, c, f) == <<rest, Releasing(c), Setting(o, n, "user", c), f>>
Element(rest, a, c, f) == <<rest, Releasing(c), Pushing(a, c), f>>

-----------------------------------------------------------------------------
(* wsc_data_apply: user values only, nested ones copied.                   *)

CopyItem_SharesArrays(t, n, v, rest) ==
  \/ v \in Null \cup {"unset"} /\ Replace(<<rest>>) /\ UNCHANGED refs
  \/ /\ v \in Scalars \cup Arrays
     /\ Replace(<<rest, Setting(t, n, "user", v)>>) /\ UNCHANGED refs
  \/ /\ v \in Objs /\ Created(Objs)
     /\ LET c == New(Objs) IN Replace(Nested(rest, t, n, c, Applying(c, v, Names)))

(* copy_item with copy_obj and copy_array up to their first call: NULL     *)
(* objects and arrays are not copied.                                      *)
CopyItem(t, n, v, rest) ==
  \/ v \in Null \cup {"unset"} /\ Replace(<<rest>>) /\ UNCHANGED refs
  \/ v \in Scalars /\ Replace(<<rest, Setting(t, n, "user", v)>>) /\ UNCHANGED refs
  \/ /\ v \in Objs /\ Created(Objs)
     /\ LET c == New(Objs) IN Replace(Nested(rest, t, n, c, Applying(c, v, Names)))
  \/ /\ v \in Arrays /\ Created(Arrays)
     /\ LET c == New(Arrays) IN Replace(Nested(rest, t, n, c, CopyingArray(c, v, 1)))

ApplyItem ==
  /\ Top.op = "apply"
  /\ LET t == Top.to
         s == Top.from
         ns == Top.names
     IN \/ \E n \in ns : CopyItem(t, n, val[<<s, n, "user">>], Applying(t, s, ns \ {n}))
        \/ ns = {} /\ Replace(<<>>) /\ UNCHANGED refs
  /\ UNCHANGED <<type, val, elems, odd>>

(* The loop of copy_array.                                                 *)
CopyElement ==
  /\ Top.op = "copy"
  /\ LET b == Top.to
         a == Top.from
         k == Top.at
         c == New(Objs)
     IN \/ /\ k \in DOMAIN elems[a] /\ Created(Objs)
           /\ Replace(Element(CopyingArray(b, a, k + 1), b, c,
                              Applying(c, elems[a][k], Names)))
        \/ k \notin DOMAIN elems[a] /\ Replace(<<>>) /\ UNCHANGED refs
  /\ UNCHANGED <<type, val, elems, odd>>

-----------------------------------------------------------------------------
(* JSON.  A value is <<"object", function from names>>, <<"array",         *)
(* sequence>>, <<"null">> or <<scalar>>.                                   *)

(* json_real refuses a number that is not finite, and json_object_set_new  *)
(* then sets nothing.                                                      *)
Expressible(v) == v \notin {"unset", "NaN"}

(* wsc_data_to_json; NULL reads as an empty object or array.               *)
Json(h, v) ==
  LET J[x \in Values] ==
        CASE x \in Scalars      -> <<x>>
          [] x = "NULL object"  -> <<"object", <<>> >>
          [] x = "NULL array"   -> <<"array", <<>> >>
          [] x \in Arrays       -> <<"array", [k \in DOMAIN h.elems[x] |-> J[h.elems[x][k]]]>>
          [] x \in Objs         ->
               <<"object", [n \in {m \in Names : Expressible(h.val[<<x, m, "user">>])} |->
                              J[h.val[<<x, n, "user">>]]]>>
  IN J[v]

(* json_object_foreach finds no member in an array.                        *)
Members(j) == IF j[1] = "object" THEN Names \cap DOMAIN j[2] ELSE {}

AddItem_NoReal(o, n, j, rest) ==
  \/ /\ j[1] \in Scalars \ {"double"}
     /\ Replace(<<rest, Setting(o, n, "user", j[1])>>) /\ UNCHANGED refs
  \/ /\ j[1] = "object" /\ Created(Objs)
     /\ LET c == New(Objs)
        IN Replace(Nested(rest, o, n, c, AddingMembers(c, j, Members(j))))
  \/ /\ j[1] = "array" /\ Created(Arrays)
     /\ LET c == New(Arrays) IN Replace(Nested(rest, o, n, c, AddingElements(c, j[2])))
  \/ /\ j[1] \notin (Scalars \ {"double"}) \cup {"object", "array"}
     /\ Replace(<<rest>>) /\ UNCHANGED refs

(* wsc_data_add_json_item with wsc_data_add_json_object and                *)
(* wsc_data_add_json_array up to their first call; null is skipped.        *)
AddItem(o, n, j, rest) ==
  \/ /\ j[1] \in Scalars
     /\ Replace(<<rest, Setting(o, n, "user", j[1])>>) /\ UNCHANGED refs
  \/ /\ j[1] = "object" /\ Created(Objs)
     /\ LET c == New(Objs)
        IN Replace(Nested(rest, o, n, c, AddingMembers(c, j, Members(j))))
  \/ /\ j[1] = "array" /\ Created(Arrays)
     /\ LET c == New(Arrays) IN Replace(Nested(rest, o, n, c, AddingElements(c, j[2])))
  \/ j[1] \notin Scalars \cup {"object", "array"} /\ Replace(<<rest>>) /\ UNCHANGED refs

(* wsc_data_add_json_object_data.                                          *)
AddMember ==
  /\ Top.op = "members"
  /\ LET o == Top.to
         j == Top.doc
         ns == Top.names
     IN \/ \E n \in ns : AddItem(o, n, j[2][n], AddingMembers(o, j, ns \ {n}))
        \/ ns = {} /\ Replace(<<>>) /\ UNCHANGED refs
  /\ UNCHANGED <<type, val, elems, odd>>

(* The loop of wsc_data_add_json_array skips what is not an object.        *)
AddElement ==
  /\ Top.op = "elements"
  /\ LET a == Top.to
         js == Top.docs
         c == New(Objs)
     IN \/ js = <<>> /\ Replace(<<>>) /\ UNCHANGED refs
        \/ /\ js # <<>> /\ Head(js)[1] # "object"
           /\ Replace(<<AddingElements(a, Tail(js))>>) /\ UNCHANGED refs
        \/ /\ js # <<>> /\ Head(js)[1] = "object" /\ Created(Objs)
           /\ Replace(Element(AddingElements(a, Tail(js)), a, c,
                             AddingMembers(c, Head(js), Members(Head(js)))))
  /\ UNCHANGED <<type, val, elems, odd>>

-----------------------------------------------------------------------------
(* The steps of the functions.                                             *)

(* What a frame reads and writes; an object under destruction is its own.  *)
Uses(f) ==
  Cells \cap
    CASE f.op = "release" -> {f.cell}
      [] f.op = "clear" -> {f.to}
      [] f.op \in {"set", "push"} -> {f.to, f.value}
      [] f.op \in {"apply", "copy"} -> {f.to, f.from}
      [] f.op \in {"members", "elements"} -> {f.to}
      [] OTHER -> {}

Defined == ~odd /\ ~misused

Step ==
  \/ \E x \in Cells : Release(x)
  \/ \E o \in Objs :
       \/ DestroyObj(o)
       \/ \E n \in Names :
            \/ EraseItem(o, n)
            \/ \E l \in Layers, v \in Values :
                 SetReleases(o, n, l, v) \/ SetStores(o, n, l, v)
  \/ \E a \in Arrays : DestroyArray(a) \/ \E o \in Objs : Push(a, o)
  \/ ClearItem \/ ApplyItem \/ CopyElement \/ AddMember \/ AddElement

(* After a freed object or array has been used anything may follow.        *)
Run ==
  /\ misused' = \E x \in Uses(Top) : refs[x] = 0
  /\ IF misused' THEN UNCHANGED <<heapVars, odd, stack>> ELSE Step
  /\ call' = IF stack' = <<>> THEN NoCall ELSE call
  /\ UNCHANGED app

-----------------------------------------------------------------------------
(* The application.  It passes what it holds a reference to, and closes no *)
(* cycle of objects: the code would count it for ever and follow it for    *)
(* ever.                                                                   *)

Owned == {x \in Cells : app[x] > 0}

Below(h, x) ==
  IF x \in Objs THEN {h.val[<<x, n, l>>] : n \in Names, l \in Layers} \cap Cells
                ELSE ToSet(h.elems[x])

Reach(h, x) ==
  LET R[y \in Cells] == {y} \cup UNION {R[z] : z \in Below(h, y)} IN R[x]

Calls(fs) == stack' = fs /\ UNCHANGED call

Room == SumFunction(app) < MaxApp
Hold(x) == Room /\ app' = [app EXCEPT ![x] = @ + 1]

(* An addref by the application's call itself.                             *)
Addref(x) == refs' = [refs EXCEPT ![x] = @ + 1] /\ misused' = (refs[x] = 0)

(* wsc_data_create, wsc_data_array_create.                                 *)
Create(S) ==
  /\ Created(S) /\ Hold(New(S)) /\ Calls(<<>>)
  /\ UNCHANGED <<type, val, elems, odd, misused>>

(* wsc_data_create_from_json; the object made for a document that cannot   *)
(* be parsed is released.                                                  *)
FromJson(j) ==
  LET c == New(Objs) IN
  /\ Created(Objs)
  /\ IF j[1] = "invalid" THEN Calls(<<Releasing(c)>>) /\ UNCHANGED app
     ELSE Calls(<<AddingMembers(c, j, Members(j))>>) /\ Hold(c)
  /\ UNCHANGED <<type, val, elems, odd, misused>>

(* wsc_data_get_json, and wsc_data_create_from_json of its result.         *)
Reload(o) ==
  LET c == New(Objs)
      j == Json(Heap, o)
  IN /\ o \in Owned /\ Created(Objs) /\ Hold(c)
     /\ stack' = <<AddingMembers(c, j, Members(j))>>
     /\ call' = [fn |-> "reload", to |-> c, from |-> o, heap |-> Heap]
     /\ UNCHANGED <<type, val, elems, odd, misused>>

(* wsc_data_release, wsc_data_array_release.                               *)
AppRelease(x) ==
  /\ x \in Owned /\ app' = [app EXCEPT ![x] = @ - 1]
  /\ Calls(<<Releasing(x)>>) /\ UNCHANGED <<heapVars, odd, misused>>

(* wsc_data_set_... , wsc_data_set_default_... and                         *)
(* wsc_data_set_autoselect_...; set_item_def refuses a value of another    *)
(* type.                                                                   *)
Set(o, n, l, v) ==
  /\ o \in Owned
  /\ v \in Cells => v \in Owned /\ o \notin Reach(Heap, v)
  /\ l = "default" => type[<<o, n>>] \in {"none", Kind(v)}
  /\ Calls(<<Setting(o, n, l, v)>>) /\ UNCHANGED <<heapVars, app, odd, misused>>

(* wsc_data_unset_user_value, _default_value and _autoselect_value.        *)
Unset(o, n, l) ==
  /\ o \in Owned /\ val[<<o, n, l>>] # "unset"
  /\ val' = [val EXCEPT ![<<o, n, l>>] = "unset"]
  /\ LET v == val[<<o, n, l>>] IN Calls(IF v \in Cells THEN <<Releasing(v)>> ELSE <<>>)
  /\ UNCHANGED <<type, elems, refs, app, odd, misused>>

(* wsc_data_erase, wsc_data_clear, wsc_data_apply.                         *)
Erase(o, n) ==
  /\ o \in Owned /\ type[<<o, n>>] # "none"
  /\ Calls(<<Erasing(o, n)>>) /\ UNCHANGED <<heapVars, app, odd, misused>>

Clear(o) ==
  /\ o \in Owned
  /\ Calls(<<Clearing(o, Names)>>) /\ UNCHANGED <<heapVars, app, odd, misused>>

Apply(t, s) ==
  /\ {t, s} \subseteq Owned /\ t # s
  /\ stack' = <<Applying(t, s, Names)>>
  /\ call' = [fn |-> "apply", to |-> t, from |-> s, heap |-> Heap]
  /\ UNCHANGED <<heapVars, app, odd, misused>>

(* get_item_data: the first value that is set.                             *)
Current(o, n) ==
  LET Value(l) == IF l \in Layers THEN val[<<o, n, l>>] ELSE "unset" IN
  CASE Value("user") # "unset"    -> Value("user")
    [] Value("user") = "unset" /\ Value("default") # "unset" -> Value("default")
    [] OTHER                      -> Value("autoselect")

(* wsc_data_get_obj, wsc_data_get_default_obj, which reads the same place, *)
(* and wsc_data_get_autoselect_obj; likewise for arrays.                   *)
Get(o, n, v) ==
  /\ o \in Owned
  /\ v = Current(o, n) \/ ("autoselect" \in Layers /\ v = val[<<o, n, "autoselect">>])
  /\ Hold(v) /\ Addref(v) /\ Calls(<<>>) /\ UNCHANGED <<type, val, elems, odd>>

(* wsc_data_array_item.                                                    *)
GetElement(a, v) ==
  /\ a \in Owned /\ v \in ToSet(elems[a])
  /\ Hold(v) /\ Addref(v) /\ Calls(<<>>) /\ UNCHANGED <<type, val, elems, odd>>

(* wsc_data_array_push_back and wsc_data_array_insert.                     *)
Insert(a, k, o) ==
  /\ {a, o} \subseteq Owned /\ a \notin Reach(Heap, o)
  /\ k \in 1 .. Len(elems[a]) + 1 /\ Len(elems[a]) < MaxLen
  /\ elems' = [elems EXCEPT ![a] = InsertAt(@, k, o)]
  /\ Addref(o) /\ Calls(<<>>) /\ UNCHANGED <<type, val, app, odd>>

(* wsc_data_array_erase: the element is released, then removed.            *)
EraseAt(a, k) ==
  /\ a \in Owned /\ k \in DOMAIN elems[a]
  /\ elems' = [elems EXCEPT ![a] = RemoveAt(@, k)]
  /\ Calls(<<Releasing(elems[a][k])>>)
  /\ UNCHANGED <<type, val, refs, app, odd, misused>>

(* How often f has the value x.                                            *)
Count(f, x) == Cardinality({d \in DOMAIN f : f[d] = x})

(* wsc_data_array_push_back_array.  darray_push_back_array has taken b's   *)
(* memory before it resizes a's: if they are the same, it may read what    *)
(* has been freed.                                                         *)
PushBackArray(a, b) ==
  /\ {a, b} \subseteq Owned
  /\ Len(elems[a]) + Len(elems[b]) =< MaxLen
  /\ \A o \in ToSet(elems[b]) : a \notin Reach(Heap, o)
  /\ refs' = [x \in Cells |-> refs[x] + Count(elems[b], x)]
  /\ misused' = \E o \in ToSet(elems[b]) : refs[o] = 0
  /\ \/ elems' = [elems EXCEPT ![a] = @ \o elems[b]] /\ UNCHANGED odd
     \/ a = b /\ elems[b] # <<>> /\ odd' = TRUE /\ UNCHANGED elems
  /\ Calls(<<>>) /\ UNCHANGED <<type, val, app>>

Call ==
  \/ \E S \in {Objs, Arrays} : Create(S)
  \/ \E j \in Docs : FromJson(j)
  \/ \E x \in Cells : AppRelease(x)
  \/ \E o \in Objs :
       \/ Reload(o) \/ Clear(o) \/ \E s \in Objs : Apply(o, s)
       \/ \E n \in Names :
            \/ Erase(o, n) \/ \E v \in Cells : Get(o, n, v)
            \/ \E l \in Layers : Unset(o, n, l) \/ \E v \in Values : Set(o, n, l, v)
  \/ \E a \in Arrays :
       \/ \E k \in 1..MaxLen : EraseAt(a, k) \/ \E o \in Objs : Insert(a, k, o)
       \/ \E o \in Objs : GetElement(a, o)
       \/ \E b \in Arrays : PushBackArray(a, b)

Next == Defined /\ (IF stack = <<>> THEN Call ELSE Run)

Spec == Init /\ [][Next]_vars

-----------------------------------------------------------------------------
(* Correctness.                                                            *)

Elements ==
  [p \in UNION {{a} \X DOMAIN elems[a] : a \in Arrays} |-> elems[p[1]][p[2]]]

Holders(x) == Count(val, x) + Count(Elements, x)

Blank(x) ==
  IF x \in Objs
  THEN \A n \in Names : /\ type[<<x, n>>] = "none"
                        /\ \A l \in Layers : val[<<x, n, l>>] = "unset"
  ELSE elems[x] = <<>>

(* At every moment every object and array has one reference for each value *)
(* and each element that holds it, one for each that the application owns  *)
(* and one for each that a function under way is going to release; and     *)
(* what is free holds nothing.  So nothing leaks, and nothing that can be  *)
(* reached has been freed.                                                 *)
RefsExact ==
  ~odd => /\ \A x \in Cells :
               refs[x] = app[x] + Holders(x) + Count(stack, Releasing(x))
          /\ \A x \in Free(Cells) : Blank(x)

(* No function of data.c uses a freed object or array, of its own caller   *)
(* or in the middle of a tree that is copied, read, replaced or destroyed. *)
NothingFreedIsUsed == ~misused

(* What settings amount to, wherever they are stored: a NULL object or     *)
(* array says as little as a setting without a value.                      *)
Content(h, v) ==
  LET C[x \in Values] ==
        CASE x \in Objs ->
               <<"object", [n \in {m \in Names : h.val[<<x, m, "user">>] \notin Null \cup {"unset"}}
                              |-> C[h.val[<<x, n, "user">>]]]>>
          [] x \in Arrays ->
               <<"array", [k \in DOMAIN h.elems[x] |-> C[h.elems[x][k]]]>>
          [] OTHER -> <<x>>
  IN C[v]

Same(h, g, x) ==
  IF x \in Objs
  THEN \A n \in Names : /\ h.type[<<x, n>>] = g.type[<<x, n>>]
                        /\ \A l \in Layers : h.val[<<x, n, l>>] = g.val[<<x, n, l>>]
  ELSE h.elems[x] = g.elems[x]

(* wsc_data_apply(t, s) gives t every user value of s and keeps what s     *)
(* does not mention; nested objects and arrays become copies that nobody   *)
(* else shares, so that a later change on one side does not show on the    *)
(* other; and nothing but t changes, even if t holds s or s holds t.       *)
ApplyCopies ==
  [][call.fn = "apply" /\ stack # <<>> /\ stack' = <<>> =>
       LET t == call.to
           s == call.from
           h == call.heap
       IN /\ \A n \in Names :
               LET v == h.val[<<s, n, "user">>]
                   w == val'[<<t, n, "user">>]
               IN /\ IF v \in Null \cup {"unset"} THEN w = h.val[<<t, n, "user">>]
                     ELSE /\ Content(h, v) = Content(Heap', w)
                          /\ w \in Cells => \A x \in Reach(Heap', w) : refs'[x] = 1
                  /\ \A l \in Layers \ {"user"} : val'[<<t, n, l>>] = h.val[<<t, n, l>>]
          /\ \A x \in Cells \ {t} : h.refs[x] > 0 /\ refs'[x] > 0 => Same(h, Heap', x)
    ]_vars

(* What wsc_data_get_json writes, wsc_data_create_from_json reads back:    *)
(* the new object gives the same text, is all user values, shares nothing  *)
(* with the old one, and leaves it as it was.                              *)
RoundTrip ==
  [][call.fn = "reload" /\ stack # <<>> /\ stack' = <<>> =>
       LET new == call.to
           h == call.heap
       IN /\ Json(Heap', new) = Json(h, call.from)
          /\ Content(Heap', new) = Json(h, call.from)
          /\ \A x \in Reach(Heap', new) : h.refs[x] = 0 /\ refs'[x] = 1
          /\ \A x \in Cells : h.refs[x] > 0 => Same(h, Heap', x)
    ]_vars
=============================================================================
