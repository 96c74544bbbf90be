--------------------------- MODULE WscJsonProofs ---------------------------
(***************************************************************************)
(* Proofs about WscJson for any number of callers and connections.  The    *)
(* static variable of ev_handler is shared by the connections, so that     *)
(* what a handler does with its reply can only be told if no other has     *)
(* been at work beside it; that those which have do no harm to the rest is *)
(* the point of the invariant.                                             *)
(***************************************************************************)
EXTENDS WscJson, TLAPS

(* The three values of thread t are counted so often.                      *)
Counts(t, top, part, copy) ==
  refs[<<t, "top">>] = top /\ refs[<<t, "part">>] = part /\ refs[<<t, "copy">>] = copy

(* What a caller holds at each place.  The function that takes a pack for  *)
(* a failure leaves its values behind.                                     *)
CallerInv(a) ==
  /\ app[a] \in {"packed", "wrap"} => Counts(a, 1, 1, 0)
  /\ app[a] = "sending" => Counts(a, 2, 2, 1)
  /\ app[a] = "idle" => refs[<<a, "copy">>] = 0
  /\ app[a] = "idle" /\ kind[a] # "inverted" => Counts(a, 0, 0, 0)

(* What the poll thread of connection c holds, if it runs beside no other. *)
ConnInv(c) ==
  ~crossed[c] =>
    /\ pc[c] = "idle" \/ got[c] = NULL => Counts(c, 0, 0, 0)
    /\ pc[c] = "parsed" /\ got[c] # NULL => Counts(c, 1, 1, 0)
    /\ pc[c] = "notified" /\ got[c] # NULL =>
         Counts(c, 1, IF cb[c] = "releases" THEN 0 ELSE 1, 0)

(* The static variable is the reply that is being handled, or one that     *)
(* came while a handler ran beside this one.                               *)
ReplyInv(c) ==
  /\ got[c] \in {c, NULL} /\ refs[<<c, "copy">>] = 0
  /\ pc[c] # "idle" =>
       /\ \A d \in Conns : d # c /\ pc[d] # "idle" => crossed[c]
       /\ data = got[c] \/ (crossed[c] /\ (data = NULL \/ crossed[data]))
  /\ pc[c] = "notified" =>
       handled[c] = got[c] \/ (crossed[c] /\ (handled[c] = NULL \/ crossed[handled[c]]))

IInv ==
  /\ TypeOK /\ OrdinaryCodeIsSafe /\ \A c \in Conns : ReplyInv(c)
  /\ Defined => (\A c \in Conns : ConnInv(c)) /\ \A a \in Callers : CallerInv(a)

-----------------------------------------------------------------------------
(* The threads' cells are different cells.                                 *)
LEMMA CellsOf ==
  ASSUME NEW t \in Callers \cup Conns
  PROVE  <<t, "top">> \in Cells /\ <<t, "part">> \in Cells /\ <<t, "copy">> \in Cells
  BY DEF Cells

LEMMA InitIInv == Init => IInv
  <1> SUFFICES ASSUME Init PROVE IInv
    OBVIOUS
  <1>1. TypeOK
    BY KindsAssumption DEF Init, TypeOK, KindsAssumption
  <1>2. \A t \in Callers \cup Conns : Counts(t, 0, 0, 0)
    BY CellsOf DEF Init, Counts
  <1>3. QED
    BY <1>1, <1>2 DEF Init, IInv, OrdinaryCodeIsSafe, ReplyInv, ConnInv, CallerInv,
                      Counts

-----------------------------------------------------------------------------
(* Giving the three values of one thread new counts leaves the others'     *)
(* alone.                                                                  *)
Put(t, top, part, copy) ==
  [refs EXCEPT ![<<t, "top">>] = top, ![<<t, "part">>] = part, ![<<t, "copy">>] = copy]

LEMMA PutCounts ==
  ASSUME NEW t \in Callers \cup Conns, TypeOK,
         NEW x \in 0..2, NEW y \in 0..2, NEW z \in 0..2, refs' = Put(t, x, y, z)
  PROVE  /\ refs' \in [Cells -> 0..2]
         /\ Counts(t, x, y, z)'
         /\ \A u \in Callers \cup Conns : u # t =>
              /\ refs'[<<u, "top">>] = refs[<<u, "top">>]
              /\ refs'[<<u, "part">>] = refs[<<u, "part">>]
              /\ refs'[<<u, "copy">>] = refs[<<u, "copy">>]
  <1>1. refs' \in [Cells -> 0..2]
    BY DEF Put, TypeOK
  <1>2. Counts(t, x, y, z)'
    BY CellsOf DEF Put, TypeOK, Counts
  <1>3. ASSUME NEW u \in Callers \cup Conns, u # t
        PROVE  /\ refs'[<<u, "top">>] = refs[<<u, "top">>]
               /\ refs'[<<u, "part">>] = refs[<<u, "part">>]
               /\ refs'[<<u, "copy">>] = refs[<<u, "copy">>]
    BY <1>3, CellsOf DEF Put, TypeOK
  <1>4. QED BY <1>1, <1>2, <1>3

(* A poll thread makes no copies.                                          *)
LEMMA CopyUntouched ==
  ASSUME TypeOK, NEW t \in Conns, NEW x \in 0..2, NEW y \in 0..2, refs' = Put(t, x, y, 0),
         NEW d \in Conns, refs[<<d, "copy">>] = 0
  PROVE  refs'[<<d, "copy">>] = 0
  <1>1. 0 \in 0..2 /\ t \in Callers \cup Conns /\ d \in Callers \cup Conns
    OBVIOUS
  <1>2. CASE d = t
    <2>1. Counts(t, x, y, 0)'
      BY <1>1, PutCounts
    <2>2. QED BY <1>2, <2>1 DEF Counts
  <1>3. CASE d # t BY <1>1, <1>3, PutCounts
  <1>4. QED BY <1>2, <1>3

(* Writing the counts a thread has changes nothing.                        *)
LEMMA PutSame ==
  ASSUME NEW t \in Callers \cup Conns, TypeOK, NEW x, NEW y, NEW z, Counts(t, x, y, z)
  PROVE  refs = Put(t, x, y, z)
  BY CellsOf DEF Put, TypeOK, Counts

LEMMA PutTop ==
  ASSUME NEW t \in Callers \cup Conns, TypeOK, NEW x, NEW y, NEW z,
         refs[<<t, "copy">>] = z
  PROVE  [refs EXCEPT ![<<t, "top">>] = x, ![<<t, "part">>] = y] = Put(t, x, y, z)
  <1> DEFINE f == [refs EXCEPT ![<<t, "top">>] = x, ![<<t, "part">>] = y]
             g == Put(t, x, y, z)
  <1>1. f = [w \in Cells |-> f[w]] /\ g = [w \in Cells |-> g[w]]
    BY DEF Put, TypeOK
  <1>2. ASSUME NEW w \in Cells PROVE f[w] = g[w]
    <2>1. CASE w = <<t, "top">> BY <2>1 DEF Put, TypeOK
    <2>2. CASE w = <<t, "part">> BY <2>2 DEF Put, TypeOK
    <2>3. CASE w = <<t, "copy">> BY <2>3 DEF Put, TypeOK
    <2>4. CASE w \notin {<<t, "top">>, <<t, "part">>, <<t, "copy">>}
      BY <2>4 DEF Put, TypeOK
    <2>5. QED BY <2>1, <2>2, <2>3, <2>4
  <1> HIDE DEF f, g
  <1>3. f = g BY <1>1, <1>2
  <1>4. QED BY <1>3 DEF f, g

(* What json_pack and recv_json make.                                      *)
LEMMA PutMade ==
  ASSUME NEW t \in Callers \cup Conns, TypeOK, NEW n, refs[<<t, "copy">>] = 0
  PROVE  Made(t, n) = Put(t, n, n, 0)
  <1>1. refs[<<t, "copy">>] = 0
    OBVIOUS
  <1>2. ASSUME NEW x, NEW y
        PROVE  [refs EXCEPT ![<<t, "top">>] = x, ![<<t, "part">>] = y] = Put(t, x, y, 0)
    BY <1>1, PutTop
  <1>3. [refs EXCEPT ![<<t, "top">>] = n, ![<<t, "part">>] = n] = Put(t, n, n, 0)
    BY <1>2
  <1>4. QED BY <1>3 DEF Made

LEMMA PutPart ==
  ASSUME NEW t \in Callers \cup Conns, TypeOK, NEW x, NEW y, NEW z,
         refs[<<t, "top">>] = x, refs[<<t, "copy">>] = z
  PROVE  [refs EXCEPT ![<<t, "part">>] = y, ![<<t, "part">>] = y] = Put(t, x, y, z)
  <1> DEFINE f == [refs EXCEPT ![<<t, "part">>] = y, ![<<t, "part">>] = y]
             g == Put(t, x, y, z)
  <1>1. f = [w \in Cells |-> f[w]] /\ g = [w \in Cells |-> g[w]]
    BY DEF Put, TypeOK
  <1>2. ASSUME NEW w \in Cells PROVE f[w] = g[w]
    <2>1. CASE w = <<t, "top">> BY <2>1 DEF Put, TypeOK
    <2>2. CASE w = <<t, "part">> BY <2>2 DEF Put, TypeOK
    <2>3. CASE w = <<t, "copy">> BY <2>3 DEF Put, TypeOK
    <2>4. CASE w \notin {<<t, "top">>, <<t, "part">>, <<t, "copy">>}
      BY <2>4 DEF Put, TypeOK
    <2>5. QED BY <2>1, <2>2, <2>3, <2>4
  <1> HIDE DEF f, g
  <1>3. f = g BY <1>1, <1>2
  <1>4. QED BY <1>3 DEF f, g

(* json_decref on the value alone, and on a container that is not the last *)
(* or the last one.                                                        *)
LEMMA UnrefPart ==
  ASSUME NEW t \in Callers \cup Conns, TypeOK, NEW x, NEW z, NEW y \in 1..2,
         Counts(t, x, y, z)
  PROVE  Unref(Heap, t, "part") = [refs |-> Put(t, x, y - 1, z), bad |-> FALSE]
  <1>1. Heap.refs = refs /\ ~Heap.bad /\ refs[<<t, "part">>] = y /\ y # 0
    BY DEF Heap, Counts
  <1>2. Unref(Heap, t, "part") =
          [refs |-> [refs EXCEPT ![<<t, "part">>] = y - 1, ![<<t, "part">>] = y - 1],
           bad |-> FALSE]
    BY <1>1 DEF Unref
  <1>3. [refs EXCEPT ![<<t, "part">>] = y - 1, ![<<t, "part">>] = y - 1]
          = Put(t, x, y - 1, z)
    <2> DEFINE v == y - 1
    <2> HIDE DEF v
    <2>1. [refs EXCEPT ![<<t, "part">>] = v, ![<<t, "part">>] = v] = Put(t, x, v, z)
      BY PutPart DEF Counts
    <2>2. QED BY <2>1 DEF v
  <1>4. QED BY <1>2, <1>3

LEMMA UnrefTop ==
  ASSUME NEW t \in Callers \cup Conns, TypeOK, NEW z, NEW x \in 1..2, NEW y \in 1..2,
         Counts(t, x, y, z)
  PROVE  Unref(Heap, t, "top") =
           [refs |-> Put(t, x - 1, IF x = 1 THEN y - 1 ELSE y, z), bad |-> FALSE]
  <1> DEFINE left == IF x = 1 THEN y - 1 ELSE y
  <1>1. /\ Heap.refs = refs /\ ~Heap.bad
        /\ refs[<<t, "top">>] = x /\ x # 0 /\ refs[<<t, "part">>] = y /\ y # 0
        /\ x - 1 = 0 <=> x = 1
    BY DEF Heap, Counts
  <1>2. Unref(Heap, t, "top") =
          [refs |-> [refs EXCEPT ![<<t, "top">>] = x - 1, ![<<t, "part">>] = left],
           bad |-> FALSE]
    BY <1>1 DEF Unref
  <1>3. [refs EXCEPT ![<<t, "top">>] = x - 1, ![<<t, "part">>] = left]
          = Put(t, x - 1, left, z)
    <2> DEFINE v == x - 1
    <2> HIDE DEF v, left
    <2>1. refs[<<t, "copy">>] = z
      BY DEF Counts
    <2>2. ASSUME NEW p, NEW q
          PROVE  [refs EXCEPT ![<<t, "top">>] = p, ![<<t, "part">>] = q] = Put(t, p, q, z)
      BY <2>1, PutTop
    <2>3. [refs EXCEPT ![<<t, "top">>] = v, ![<<t, "part">>] = left] = Put(t, v, left, z)
      BY <2>2
    <2>4. QED BY <2>3 DEF v
  <1>4. QED BY <1>2, <1>3

(* A part that was released before is missed when its container goes.      *)
LEMMA UnrefMissing ==
  ASSUME NEW t, NEW h, h.refs[<<t, "top">>] = 1, h.refs[<<t, "part">>] = 0
  PROVE  Unref(h, t, "top") = [refs |-> h.refs, bad |-> TRUE]
  <1>1. h.refs[<<t, "top">>] - 1 = 0
    BY Z3
  <1>2. QED BY <1>1 DEF Unref

LEMMA UnrefEmpty ==
  ASSUME NEW t \in Callers \cup Conns, TypeOK, NEW z, Counts(t, 1, 0, z)
  PROVE  Unref(Heap, t, "top") = [refs |-> Put(t, 1, 0, z), bad |-> TRUE]
  <1>1. Unref(Heap, t, "top") = [refs |-> refs, bad |-> TRUE]
    BY DEF Unref, Heap, Counts
  <1>2. QED BY <1>1, PutSame

(* The two releases at the end of send_request, and those of a function    *)
(* that also releases what json_pack has taken.                            *)
LEMMA UnrefCopy ==
  ASSUME NEW t, NEW h, ~h.bad, h.refs[<<t, "copy">>] = 1, h.refs[<<t, "part">>] = 2
  PROVE  Unref(h, t, "copy") =
           [refs |-> [h.refs EXCEPT ![<<t, "copy">>] = 0, ![<<t, "part">>] = 1],
            bad |-> FALSE]
  <1>1. h.refs[<<t, "copy">>] - 1 = 0 /\ h.refs[<<t, "part">>] - 1 = 1
    BY Z3
  <1> DEFINE x == <<t, "copy">>
             g == h.refs
  <1>2. Unref(h, t, "copy") = [refs |-> [h.refs EXCEPT ![<<t, "copy">>] =
            h.refs[<<t, "copy">>] - 1, ![<<t, "part">>] = h.refs[<<t, "part">>] - 1],
            bad |-> FALSE]
    BY <1>1 DEF Unref
  <1>3. QED BY <1>1, <1>2

LEMMA UnrefBoth ==
  ASSUME NEW t \in Callers \cup Conns, TypeOK, Counts(t, 2, 2, 1)
  PROVE  Unref(Unref(Heap, t, "top"), t, "copy") =
           [refs |-> Put(t, 1, 1, 0), bad |-> FALSE]
  <1> DEFINE h == [refs |-> Put(t, 1, 2, 1), bad |-> FALSE]
  <1>1. Unref(Heap, t, "top") = h
    BY UnrefTop
  <1>2. h.refs[<<t, "copy">>] = 1 /\ h.refs[<<t, "part">>] = 2 /\ ~h.bad
    BY CellsOf DEF Put, TypeOK
  <1>3. Unref(h, t, "copy") =
          [refs |-> [h.refs EXCEPT ![<<t, "copy">>] = 0, ![<<t, "part">>] = 1],
           bad |-> FALSE]
    BY <1>2, UnrefCopy
  <1>4. [h.refs EXCEPT ![<<t, "copy">>] = 0, ![<<t, "part">>] = 1] = Put(t, 1, 1, 0)
    BY CellsOf DEF Put, TypeOK
  <1>5. QED BY <1>1, <1>3, <1>4

LEMMA UnrefStolen ==
  ASSUME NEW t \in Callers \cup Conns, TypeOK, Counts(t, 1, 1, 0)
  PROVE  Unref(Unref(Heap, t, "part"), t, "top") =
           [refs |-> Put(t, 1, 0, 0), bad |-> TRUE]
  <1> DEFINE h == [refs |-> Put(t, 1, 0, 0), bad |-> FALSE]
  <1>1. Unref(Heap, t, "part") = h
    BY UnrefPart
  <1>2. ~h.bad /\ h.refs[<<t, "top">>] = 1 /\ h.refs[<<t, "part">>] = 0
    BY CellsOf DEF Put, TypeOK
  <1>3. Unref(h, t, "top") = [refs |-> h.refs, bad |-> TRUE]
    BY <1>2, UnrefMissing
  <1>4. QED BY <1>1, <1>3

(* Whatever a value's counts are, a release changes only this thread's.    *)
LEMMA UnrefAny ==
  ASSUME NEW t \in Callers \cup Conns, TypeOK, refs[<<t, "copy">>] = 0,
         NEW role \in {"top", "part"}
  PROVE  \E x, y \in 0..2 : Unref(Heap, t, role).refs = Put(t, x, y, 0)
  <1> DEFINE x == refs[<<t, "top">>]
             y == refs[<<t, "part">>]
  <1>1. x \in 0..2 /\ y \in 0..2 /\ Counts(t, x, y, 0)
    BY CellsOf DEF TypeOK, Counts
  <1>2. refs = Put(t, x, y, 0)
    BY <1>1, PutSame
  <1>3. CASE role = "part" /\ y # 0
    <2>1. y \in 1..2 /\ y - 1 \in 0..2
      BY <1>1, <1>3
    <2>2. Unref(Heap, t, "part").refs = Put(t, x, y - 1, 0)
      BY <1>1, <2>1, UnrefPart
    <2>3. QED BY <1>1, <1>3, <2>1, <2>2
  <1>4. CASE role = "top" /\ x # 0 /\ y # 0
    <2>1. x \in 1..2 /\ y \in 1..2 /\ x - 1 \in 0..2 /\ (IF x = 1 THEN y - 1 ELSE y) \in 0..2
      BY <1>1, <1>4
    <2>2. Unref(Heap, t, "top").refs = Put(t, x - 1, IF x = 1 THEN y - 1 ELSE y, 0)
      BY <1>1, <2>1, UnrefTop
    <2>3. QED BY <1>4, <2>1, <2>2
  <1>5. CASE role = "top" /\ x = 2 /\ y = 0
    <2> DEFINE v == x - 1
    <2>1. v = 1 /\ v # 0 /\ x # 0 /\ v \in 0..2 /\ y \in 0..2
      BY <1>1, <1>5
    <2>2. Unref(Heap, t, "top") =
            [refs |-> [refs EXCEPT ![<<t, "top">>] = v, ![<<t, "part">>] = y], bad |-> FALSE]
      <3>1. Heap.refs = refs /\ ~Heap.bad
        BY DEF Heap
      <3>2. refs[<<t, "top">>] - 1 = v /\ refs[<<t, "part">>] = y /\ refs[<<t, "top">>] # 0
        BY <2>1
      <3> HIDE DEF x, y, v
      <3>3. QED BY <2>1, <3>1, <3>2 DEF Unref
    <2>3. [refs EXCEPT ![<<t, "top">>] = v, ![<<t, "part">>] = y] = Put(t, v, y, 0)
      <3>1. refs[<<t, "copy">>] = 0
        OBVIOUS
      <3>2. ASSUME NEW p, NEW q
            PROVE  [refs EXCEPT ![<<t, "top">>] = p, ![<<t, "part">>] = q] = Put(t, p, q, 0)
        BY <3>1, PutTop
      <3> HIDE DEF x, y, v
      <3>3. QED BY <3>2
    <2>4. Unref(Heap, t, "top").refs = Put(t, v, y, 0)
      <3> HIDE DEF x, y, v
      <3> QED BY <2>2, <2>3
    <2>5. QED BY <1>5, <2>1, <2>4
  <1>6. CASE \/ role = "part" /\ y = 0
             \/ role = "top" /\ (x = 0 \/ (x = 1 /\ y = 0))
    <2>1. Unref(Heap, t, role).refs = refs
      <3>1. CASE role = "part" /\ y = 0
        BY <3>1 DEF Unref, Heap
      <3>2. CASE role = "top" /\ x = 0
        BY <3>2 DEF Unref, Heap
      <3>3. CASE role = "top" /\ x = 1 /\ y = 0
        BY <3>3 DEF Unref, Heap
      <3>4. QED BY <1>6, <3>1, <3>2, <3>3
    <2>2. QED BY <1>1, <1>2, <2>1
  <1>7. QED BY <1>1, <1>3, <1>4, <1>5, <1>6

-----------------------------------------------------------------------------
(* A step of one caller: what it has to establish for itself.  The counts  *)
(* of every other thread stay as they are.                                 *)
LEMMA CallerStep ==
  ASSUME IInv, NEW a \in Callers,
         NEW x \in 0..2, NEW y \in 0..2, NEW z \in 0..2, refs' = Put(a, x, y, z),
         Defined, misused' \in {"no", "stolen"}, UNCHANGED pollVars,
         NEW to \in {"idle", "packed", "sending", "wrap"},
         app' = [app EXCEPT ![a] = to],
         NEW k \in WrapperKinds, kind' = [kind EXCEPT ![a] = k],
         Defined' => CallerInv(a)'
  PROVE  IInv'
  <1> USE ThreadsAssumption DEF ThreadsAssumption
  <1>1. /\ TypeOK /\ \A c \in Conns : ReplyInv(c) /\ ConnInv(c)
        /\ \A u \in Callers : CallerInv(u)
    BY DEF IInv
  <1>2. /\ refs' \in [Cells -> 0..2]
        /\ \A u \in Callers \cup Conns : u # a =>
             /\ refs'[<<u, "top">>] = refs[<<u, "top">>]
             /\ refs'[<<u, "part">>] = refs[<<u, "part">>]
             /\ refs'[<<u, "copy">>] = refs[<<u, "copy">>]
    BY <1>1, PutCounts
  <1>3. TypeOK'
    BY <1>1, <1>2 DEF TypeOK, pollVars, WrapperKinds
  <1>4. OrdinaryCodeIsSafe'
    BY DEF OrdinaryCodeIsSafe
  <1>5. ASSUME NEW c \in Conns PROVE ReplyInv(c)' /\ ConnInv(c)'
    <2>1. c # a
      OBVIOUS
    <2>2. QED BY <1>1, <1>2, <2>1 DEF ReplyInv, ConnInv, Counts, pollVars
  <1>6. ASSUME NEW u \in Callers, Defined' PROVE CallerInv(u)'
    <2>1. CASE u = a BY <1>6, <2>1
    <2>2. CASE u # a
      <3>1. app'[u] = app[u] /\ kind'[u] = kind[u]
        BY <1>1, <2>2 DEF TypeOK
      <3>2. CallerInv(u)
        BY <1>1
      <3>3. QED BY <1>2, <2>2, <3>1, <3>2 DEF CallerInv, Counts
    <2>3. QED BY <2>1, <2>2
  <1>7. QED BY <1>3, <1>4, <1>5, <1>6 DEF IInv

(* A step of the poll thread of c changes the counts of one connection j:  *)
(* its own, or one of which nothing is said because it raced.              *)
LEMMA ConnStep ==
  ASSUME IInv, NEW c \in Conns, NEW j \in Conns, j # c => crossed'[j],
         NEW x \in 0..2, NEW y \in 0..2, refs' = Put(j, x, y, 0),
         Defined, misused' \in {"no", "releases", "race"}, UNCHANGED appVars,
         NEW to \in {"idle", "parsed", "notified"}, pc' = [pc EXCEPT ![c] = to],
         data' \in Conns \cup {NULL},
         NEW k \in CallbackKinds, cb' = [cb EXCEPT ![c] = k],
         NEW g \in {c, NULL}, got' = [got EXCEPT ![c] = g],
         NEW h \in Conns \cup {NULL}, handled' = [handled EXCEPT ![c] = h],
         crossed' \in [Conns -> BOOLEAN],
         \A d \in Conns \ {c} : crossed[d] => crossed'[d],
         \A d \in Conns : ReplyInv(d)',
         Defined' => ConnInv(c)'
  PROVE  IInv'
  <1> USE ThreadsAssumption DEF ThreadsAssumption
  <1>1. /\ TypeOK /\ \A d \in Conns : ConnInv(d)
        /\ \A u \in Callers : CallerInv(u)
    BY DEF IInv
  <1>2. /\ refs' \in [Cells -> 0..2]
        /\ \A u \in Callers \cup Conns : u # j =>
             /\ refs'[<<u, "top">>] = refs[<<u, "top">>]
             /\ refs'[<<u, "part">>] = refs[<<u, "part">>]
             /\ refs'[<<u, "copy">>] = refs[<<u, "copy">>]
    <2>1. j \in Callers \cup Conns /\ 0 \in 0..2
      OBVIOUS
    <2>2. QED BY <1>1, <2>1, PutCounts
  <1>3. TypeOK'
    BY <1>1, <1>2 DEF TypeOK, appVars, CallbackKinds
  <1>4. OrdinaryCodeIsSafe'
    BY DEF OrdinaryCodeIsSafe
  <1>5. ASSUME NEW u \in Callers PROVE CallerInv(u)'
    <2>1. u # j /\ CallerInv(u)
      BY <1>1
    <2>2. QED BY <1>2, <2>1 DEF CallerInv, Counts, appVars
  <1>6. ASSUME NEW d \in Conns, Defined' PROVE ConnInv(d)'
    <2>1. CASE d = c BY <1>6, <2>1
    <2>2. CASE d # c /\ crossed'[d]
      BY <2>2 DEF ConnInv
    <2>3. CASE d # c /\ ~crossed'[d]
      <3>1. pc'[d] = pc[d] /\ cb'[d] = cb[d] /\ got'[d] = got[d]
        BY <1>1, <2>3 DEF TypeOK
      <3>2. d # j /\ ~crossed[d] /\ ConnInv(d)
        BY <1>1, <2>3
      <3>3. QED BY <1>2, <3>1, <3>2 DEF ConnInv, Counts
    <2>4. QED BY <2>1, <2>2, <2>3
  <1>7. QED BY <1>3, <1>4, <1>5, <1>6 DEF IInv

LEMMA CallerPreserves ==
  ASSUME IInv, NEW a \in Callers,
         Pack(a) \/ Begin(a) \/ Refuse(a) \/ Sent(a) \/ WrapUp(a)
  PROVE  IInv'
  <1>1. Defined /\ TypeOK /\ CallerInv(a) /\ a \in Callers \cup Conns
    BY DEF Pack, Begin, Refuse, Sent, WrapUp, Step, IInv
  <1>2. /\ \E to \in {"idle", "packed", "sending", "wrap"} : app' = [app EXCEPT ![a] = to]
        /\ \E k \in WrapperKinds : kind' = [kind EXCEPT ![a] = k]
        /\ UNCHANGED pollVars
    <2>1. kind[a] \in WrapperKinds /\ kind = [kind EXCEPT ![a] = kind[a]]
      BY <1>1 DEF TypeOK
    <2>2. Wrappers \subseteq WrapperKinds
      BY KindsAssumption DEF KindsAssumption
    <2>3. QED BY <2>1, <2>2 DEF Pack, Begin, Refuse, Sent, WrapUp, Step
  <1>3. SUFFICES \E x, y, z \in 0..2 :
                   /\ refs' = Put(a, x, y, z) /\ misused' \in {"no", "stolen"}
                   /\ Defined' => CallerInv(a)'
    <2>1. PICK x \in 0..2, y \in 0..2, z \in 0..2 :
            /\ refs' = Put(a, x, y, z) /\ misused' \in {"no", "stolen"}
            /\ Defined' => CallerInv(a)'
      BY <1>3
    <2>2. QED BY <1>1, <1>2, <2>1, CallerStep
  <1>4. ASSUME NEW x \in 0..2, NEW y \in 0..2, NEW z \in 0..2, refs' = Put(a, x, y, z)
        PROVE  Counts(a, x, y, z)'
    BY <1>1, <1>4, PutCounts
  <1>5. CASE Pack(a)
    <2>1. refs[<<a, "copy">>] = 0 /\ app'[a] = "packed" /\ misused' = "no"
      BY <1>1, <1>5 DEF Pack, Step, CallerInv, TypeOK, Defined
    <2>2. refs' = Put(a, 1, 1, 0)
      BY <1>1, <1>5, <2>1, PutMade DEF Pack
    <2>3. CallerInv(a)'
      BY <1>4, <2>1, <2>2 DEF CallerInv
    <2>4. QED BY <2>1, <2>2, <2>3
  <1>6. CASE Begin(a)
    <2>1. Counts(a, 1, 1, 0) /\ app'[a] = "sending" /\ misused' = "no"
      BY <1>1, <1>6 DEF Begin, Step, CallerInv, TypeOK, Defined
    <2>2. refs' = Put(a, 2, 2, 1)
      BY <1>1, <1>6, <2>1, CellsOf DEF Begin, Put, Counts, TypeOK
    <2>3. CallerInv(a)'
      BY <1>4, <2>1, <2>2 DEF CallerInv
    <2>4. QED BY <2>1, <2>2, <2>3
  <1>7. CASE Refuse(a)
    <2>1. Counts(a, 1, 1, 0) /\ app'[a] = "wrap" /\ misused' = "no"
      BY <1>1, <1>7 DEF Refuse, Step, CallerInv, TypeOK, Defined
    <2>2. refs' = Put(a, 1, 1, 0)
      BY <1>1, <1>7, <2>1, PutSame DEF Refuse, Put
    <2>3. CallerInv(a)'
      BY <1>4, <2>1, <2>2 DEF CallerInv
    <2>4. QED BY <2>1, <2>2, <2>3
  <1>8. CASE Sent(a)
    <2>1. Counts(a, 2, 2, 1) /\ app'[a] = "wrap"
      BY <1>1, <1>8 DEF Sent, Step, CallerInv, TypeOK
    <2>2. refs' = Put(a, 1, 1, 0) /\ misused' = "no"
      BY <1>1, <1>8, <2>1, UnrefBoth DEF Sent, Becomes, Defined
    <2>3. CallerInv(a)'
      BY <1>4, <2>1, <2>2 DEF CallerInv
    <2>4. QED BY <2>2, <2>3
  <1>9. CASE WrapUp(a)
    <2>1. Counts(a, 1, 1, 0) /\ app'[a] = "idle" /\ kind' = kind
      BY <1>1, <1>9 DEF WrapUp, Step, CallerInv, TypeOK
    <2>2. CASE kind[a] = "plain"
      <3>1. refs' = Put(a, 0, 0, 0) /\ misused' = "no"
        BY <1>1, <1>9, <2>1, <2>2, UnrefTop DEF WrapUp, Becomes, Defined
      <3>2. CallerInv(a)'
        BY <1>4, <2>1, <3>1 DEF CallerInv, Counts
      <3>3. QED BY <3>1, <3>2
    <2>3. CASE kind[a] = "stolen"
      <3>1. refs' = Put(a, 1, 0, 0) /\ misused' = "stolen"
        BY <1>1, <1>9, <2>1, <2>3, UnrefStolen DEF WrapUp, Becomes
      <3>2. QED BY <3>1 DEF Defined
    <2>4. CASE kind[a] = "inverted"
      <3>1. refs' = Put(a, 1, 1, 0) /\ misused' = "no"
        BY <1>1, <1>9, <2>1, <2>4, PutSame DEF WrapUp, Defined, Put
      <3>2. CallerInv(a)'
        BY <1>4, <2>1, <2>4, <3>1 DEF CallerInv, Counts
      <3>3. QED BY <3>1, <3>2
    <2>5. QED BY <1>1, <2>2, <2>3, <2>4 DEF TypeOK, WrapperKinds
  <1>10. QED BY <1>5, <1>6, <1>7, <1>8, <1>9

(* What a step of the poll thread of c does to the counts of one reply j.  *)
Touches(c, j) ==
  /\ j \in Conns /\ (j # c => crossed[c] /\ crossed[j])
  /\ \E x, y \in 0..2 : refs' = Put(j, x, y, 0)

(* A poll thread whose handler raced is only known to touch replies that   *)
(* raced too.                                                              *)
LEMMA Racing ==
  ASSUME IInv, Defined, NEW c \in Conns, pc[c] # "idle", crossed[c], NEW j \in Reload(c),
         NEW k, NEW role \in {"top", "part"},
         \/ UNCHANGED <<refs, misused>>
         \/ j # NULL /\ Becomes([Heap EXCEPT !.bad = TRUE], Culprit(c, k))
         \/ j # NULL /\ Becomes(Unref(Heap, j, role), Culprit(c, k))
  PROVE  misused' \in {"no", "race"} /\ \E i \in Conns : Touches(c, i)
  <1> USE ThreadsAssumption DEF ThreadsAssumption
  <1>1. TypeOK /\ misused = "no" /\ \A d \in Conns : ReplyInv(d)
    BY DEF IInv, Defined
  <1>2. misused' \in {"no", "race"}
    <2>1. Culprit(c, k) = "race"
      BY DEF Culprit
    <2>2. ASSUME NEW h, Becomes(h, "race") PROVE misused' \in {"no", "race"}
      BY <1>1, <2>2 DEF Becomes
    <2>3. QED BY <1>1, <2>1, <2>2
  <1>3. j \in Conns \cup {NULL} /\ (j \in Conns /\ j # c => crossed[j])
    <2>1. ReplyInv(c) /\ j \in {got[c], data}
      BY <1>1 DEF Reload
    <2>2. CASE j = got[c]
      BY <2>1, <2>2 DEF ReplyInv
    <2>3. CASE j = data
      BY <1>1, <2>1, <2>3 DEF ReplyInv, TypeOK
    <2>4. QED BY <2>1, <2>2, <2>3
  <1>4. ASSUME NEW i \in Conns
        PROVE \E x, y \in 0..2 : refs = Put(i, x, y, 0)
    <2>1. Counts(i, refs[<<i, "top">>], refs[<<i, "part">>], 0)
      BY <1>1 DEF ReplyInv, Counts
    <2>2. refs[<<i, "top">>] \in 0..2 /\ refs[<<i, "part">>] \in 0..2
      BY <1>1, CellsOf DEF TypeOK
    <2>3. QED BY <1>1, <2>1, <2>2, PutSame
  <1>5. CASE refs' = refs
    <2>1. Touches(c, c)
      BY <1>4, <1>5 DEF Touches
    <2>2. QED BY <1>2, <2>1
  <1>6. CASE j # NULL /\ Becomes(Unref(Heap, j, role), Culprit(c, k))
    <2>1. j \in Conns /\ refs[<<j, "copy">>] = 0
      BY <1>1, <1>3, <1>6 DEF ReplyInv
    <2>2. \E x, y \in 0..2 : refs' = Put(j, x, y, 0)
      <3>1. refs' = Unref(Heap, j, role).refs
        BY <1>6 DEF Becomes
      <3>2. QED BY <1>1, <2>1, <3>1, UnrefAny
    <2>3. Touches(c, j)
      BY <1>3, <2>1, <2>2 DEF Touches
    <2>4. QED BY <1>2, <2>1, <2>3
  <1>7. QED BY <1>2, <1>5, <1>6 DEF Becomes, Heap

LEMMA ParsePreserves ==
  ASSUME IInv, NEW c \in Conns, Parse(c)
  PROVE  IInv'
  <1> USE ThreadsAssumption DEF ThreadsAssumption
  <1>1. /\ Defined /\ misused = "no" /\ TypeOK /\ \A d \in Conns : ReplyInv(d)
        /\ c \in Callers \cup Conns /\ c # NULL /\ refs[<<c, "copy">>] = 0
    BY DEF Parse, Enter, IInv, Defined, ReplyInv
  <1>2. PICK n \in {0, 1} :
          /\ got' = [got EXCEPT ![c] = IF n = 1 THEN c ELSE NULL]
          /\ data' = (IF n = 1 THEN c ELSE NULL) /\ refs' = Made(c, n)
    BY DEF Parse
  <1>3. /\ pc[c] = "idle" /\ pc' = [pc EXCEPT ![c] = "parsed"]
        /\ UNCHANGED <<misused, appVars, cb, handled>>
        /\ crossed' = [d \in Conns |->
                         IF d = c THEN Inside # {} ELSE crossed[d] \/ d \in Inside]
    BY DEF Parse, Enter
  <1>4. refs' = Put(c, n, n, 0) /\ n \in 0..2
    BY <1>1, <1>2, PutMade
  <1>5. /\ Counts(c, n, n, 0)'
        /\ \A u \in Conns : u # c => refs'[<<u, "copy">>] = refs[<<u, "copy">>]
    <2>1. 0 \in 0..2 /\ Conns \subseteq Callers \cup Conns
      OBVIOUS
    <2>2. QED BY <1>1, <1>4, <2>1, PutCounts
  <1>6. \A d \in Conns : d # c /\ pc[d] # "idle" => crossed'[d] /\ crossed'[c]
    BY <1>3 DEF Inside
  <1>7. crossed' \in [Conns -> BOOLEAN] /\ \A d \in Conns \ {c} : crossed[d] => crossed'[d]
    BY <1>1, <1>3 DEF TypeOK
  <1>8. ASSUME NEW d \in Conns PROVE ReplyInv(d)'
    <2>1. CASE d = c
      <3>1. got'[c] \in {c, NULL} /\ data' = got'[c] /\ pc'[c] = "parsed"
        BY <1>1, <1>2, <1>3 DEF TypeOK
      <3>2. \A e \in Conns : e # c /\ pc'[e] # "idle" => crossed'[c]
        BY <1>1, <1>3, <1>6 DEF TypeOK
      <3>3. QED BY <1>5, <2>1, <3>1, <3>2 DEF ReplyInv, Counts
    <2>2. CASE d # c
      <3>1. pc'[d] = pc[d] /\ got'[d] = got[d] /\ handled'[d] = handled[d] /\ ReplyInv(d)
        BY <1>1, <1>2, <1>3, <2>2 DEF TypeOK
      <3>2. CASE pc[d] = "idle"
        BY <1>5, <2>2, <3>1, <3>2 DEF ReplyInv
      <3>3. CASE pc[d] # "idle"
        <4>1. crossed'[d] /\ crossed'[c] /\ (data' = NULL \/ crossed'[data'])
          BY <1>2, <1>6, <2>2, <3>3
        <4>2. ASSUME pc[d] = "notified", handled[d] # got[d], handled[d] # NULL
              PROVE  crossed'[handled[d]]
          <5>1. handled[d] \in Conns /\ crossed[handled[d]]
            BY <1>1, <3>1, <4>2 DEF ReplyInv, TypeOK
          <5>2. QED BY <1>7, <4>1, <5>1
        <4>3. QED BY <1>5, <2>2, <3>1, <4>1, <4>2 DEF ReplyInv
      <3>4. QED BY <3>2, <3>3
    <2>3. QED BY <2>1, <2>2
  <1>9. ConnInv(c)'
    <2>1. got'[c] = (IF n = 1 THEN c ELSE NULL) /\ pc'[c] = "parsed"
      BY <1>1, <1>2, <1>3 DEF TypeOK
    <2>2. QED BY <1>1, <1>5, <2>1 DEF ConnInv
  <1>10. /\ cb[c] \in CallbackKinds /\ cb' = [cb EXCEPT ![c] = cb[c]]
         /\ handled[c] \in Conns \cup {NULL} /\ handled' = [handled EXCEPT ![c] = handled[c]]
    BY <1>1, <1>3 DEF TypeOK
  <1>11. (IF n = 1 THEN c ELSE NULL) \in {c, NULL} /\ data' \in Conns \cup {NULL}
    BY <1>2
  <1>12. misused' = "no" /\ UNCHANGED appVars
    BY <1>1, <1>3
  <1>13. QED
    BY <1>1, <1>2, <1>3, <1>4, <1>7, <1>8, <1>9, <1>10, <1>11, <1>12, ConnStep

(* The two steps that use the reply: what is said of the replies of all    *)
(* handlers stays true.                                                    *)
LEMMA RepliesKept ==
  ASSUME IInv, NEW c \in Conns, pc[c] # "idle", NEW to \in {"idle", "notified"},
         pc' = [pc EXCEPT ![c] = to],
         NEW j \in Reload(c), UNCHANGED <<data, got, crossed>>,
         handled' = (IF to = "notified" THEN [handled EXCEPT ![c] = j] ELSE handled),
         \A d \in Conns : refs'[<<d, "copy">>] = 0
  PROVE  \A d \in Conns : ReplyInv(d)'
  <1> SUFFICES ASSUME NEW d \in Conns PROVE ReplyInv(d)'
    OBVIOUS
  <1>1. TypeOK /\ ReplyInv(c) /\ ReplyInv(d)
    BY DEF IInv
  <1>2. CASE d = c
    <2>1. to = "notified" =>
            handled'[c] = got[c] \/ (crossed[c] /\ (handled'[c] = NULL \/ crossed[handled'[c]]))
      BY <1>1 DEF Reload, ReplyInv, TypeOK
    <2>2. pc'[c] = to /\ \A e \in Conns : e # c => pc'[e] = pc[e]
      BY <1>1 DEF TypeOK
    <2>3. QED BY <1>1, <1>2, <2>1, <2>2 DEF ReplyInv
  <1>3. CASE d # c
    <2>1. handled'[d] = handled[d] /\ pc'[d] = pc[d]
      BY <1>1, <1>3 DEF TypeOK
    <2>2. \A e \in Conns : pc'[e] # "idle" => pc[e] # "idle"
      BY <1>1 DEF TypeOK
    <2>3. QED BY <1>1, <2>1, <2>2 DEF ReplyInv
  <1>4. QED BY <1>2, <1>3

LEMMA NotifyPreserves ==
  ASSUME IInv, NEW c \in Conns, Notify(c)
  PROVE  IInv'
  <1> USE ThreadsAssumption DEF ThreadsAssumption
  <1>1. /\ Defined /\ misused = "no" /\ TypeOK /\ ConnInv(c) /\ \A d \in Conns : ReplyInv(d)
        /\ c \in Callers \cup Conns /\ c # NULL
        /\ pc[c] = "parsed" /\ pc' = [pc EXCEPT ![c] = "notified"] /\ pc'[c] = "notified"
        /\ UNCHANGED <<appVars, data, got, crossed>>
    BY DEF Notify, IInv, Defined, TypeOK
  <1>2. PICK j \in Reload(c), k \in Callbacks :
          /\ handled' = [handled EXCEPT ![c] = j] /\ cb' = [cb EXCEPT ![c] = k]
          /\ IF j = NULL THEN UNCHANGED <<refs, misused>>
             ELSE Becomes(Called(k, j), Culprit(c, k))
    BY DEF Notify
  <1>3. k \in CallbackKinds /\ cb'[c] = k /\ j \in Conns \cup {NULL}
    BY <1>1, <1>2, KindsAssumption DEF KindsAssumption, TypeOK, Reload
  <1>4. /\ misused' \in {"no", "race"} /\ \E i \in Conns : Touches(c, i)
        /\ ConnInv(c)'
    <2>1. CASE crossed[c]
      <3>1. \/ UNCHANGED <<refs, misused>>
            \/ j # NULL /\ Becomes([Heap EXCEPT !.bad = TRUE], Culprit(c, k))
            \/ j # NULL /\ Becomes(Unref(Heap, j, "part"), Culprit(c, k))
        BY <1>1, <1>2 DEF Called, Becomes, Heap
      <3>2. misused' \in {"no", "race"} /\ \E i \in Conns : Touches(c, i)
        <4>1. pc[c] # "idle" /\ "part" \in {"top", "part"}
          BY <1>1
        <4>2. QED BY <1>1, <2>1, <3>1, <4>1, Racing
      <3>3. ConnInv(c)'
        BY <1>1, <2>1 DEF ConnInv
      <3>4. QED BY <3>2, <3>3
    <2>2. CASE ~crossed[c] /\ j = NULL
      <3>1. got[c] = NULL /\ Counts(c, 0, 0, 0) /\ refs' = refs
        BY <1>1, <1>2, <2>2 DEF ConnInv, ReplyInv, Reload
      <3>2. refs' = Put(c, 0, 0, 0) /\ misused' = "no" /\ Touches(c, c)
        BY <1>1, <1>2, <2>2, <3>1, PutSame DEF Touches, Put
      <3>3. ConnInv(c)'
        BY <1>1, <3>1 DEF ConnInv, Counts
      <3>4. QED BY <3>2, <3>3
    <2>3. CASE ~crossed[c] /\ j # NULL
      <3>1. j = c /\ got[c] = c /\ Counts(c, 1, 1, 0) /\ Culprit(c, k) = k
        BY <1>1, <2>3 DEF ReplyInv, Reload, ConnInv, Culprit
      <3>2. Becomes(IF k = "releases" THEN Unref(Heap, c, "part") ELSE Heap, k)
        BY <1>2, <2>3, <3>1 DEF Called, Counts
      <3>3. refs' = Put(c, 1, IF k = "releases" THEN 0 ELSE 1, 0) /\ misused' = "no"
        <4>1. CASE k = "releases"
          BY <1>1, <3>1, <3>2, <4>1, UnrefPart DEF Becomes
        <4>2. CASE k # "releases"
          BY <1>1, <3>1, <3>2, <4>2, PutSame DEF Becomes, Heap, Put
        <4>3. QED BY <4>1, <4>2
      <3>4. (IF k = "releases" THEN 0 ELSE 1) \in 0..2 /\ 1 \in 0..2 /\ 0 \in 0..2
        OBVIOUS
      <3>5. Counts(c, 1, IF k = "releases" THEN 0 ELSE 1, 0)'
        BY <1>1, <3>3, <3>4, PutCounts
      <3>6. ConnInv(c)'
        BY <1>1, <1>3, <3>1, <3>5 DEF ConnInv
      <3>7. QED BY <3>3, <3>4, <3>6 DEF Touches
    <2>4. QED BY <2>1, <2>2, <2>3
  <1>5. PICK i \in Conns, x \in 0..2, y \in 0..2 :
          refs' = Put(i, x, y, 0) /\ (i # c => crossed[c] /\ crossed[i])
    BY <1>4 DEF Touches
  <1>6. \A d \in Conns : refs'[<<d, "copy">>] = 0
    BY <1>1, <1>5, CopyUntouched DEF ReplyInv
  <1>7. \A d \in Conns : ReplyInv(d)'
    BY <1>1, <1>2, <1>6, RepliesKept
  <1>8. got = [got EXCEPT ![c] = got[c]] /\ got[c] \in {c, NULL} /\ crossed \in [Conns -> BOOLEAN]
    BY <1>1 DEF TypeOK, ReplyInv
  <1>9. data' \in Conns \cup {NULL}
    BY <1>1 DEF TypeOK
  <1>10. QED
    BY <1>1, <1>2, <1>3, <1>4, <1>5, <1>7, <1>8, <1>9, ConnStep

LEMMA ReleasePreserves ==
  ASSUME IInv, NEW c \in Conns, Release(c)
  PROVE  IInv'
  <1> USE ThreadsAssumption DEF ThreadsAssumption
  <1>1. /\ Defined /\ misused = "no" /\ TypeOK /\ ConnInv(c) /\ \A d \in Conns : ReplyInv(d)
        /\ c \in Callers \cup Conns /\ c # NULL
        /\ pc[c] = "notified" /\ pc' = [pc EXCEPT ![c] = "idle"] /\ pc'[c] = "idle"
        /\ UNCHANGED <<appVars, data, cb, got, handled, crossed>>
    BY DEF Release, IInv, Defined, TypeOK
  <1>2. PICK j \in Reload(c) :
          IF j = NULL THEN UNCHANGED <<refs, misused>>
          ELSE Becomes(Unref(Heap, j, "top"), Culprit(c, cb[c]))
    BY DEF Release
  <1>3. /\ misused' \in {"no", "releases", "race"} /\ \E i \in Conns : Touches(c, i)
        /\ Defined' => ConnInv(c)'
    <2>1. CASE crossed[c]
      <3>1. \/ UNCHANGED <<refs, misused>>
            \/ j # NULL /\ Becomes(Unref(Heap, j, "top"), Culprit(c, cb[c]))
        BY <1>2
      <3>2. misused' \in {"no", "race"} /\ \E i \in Conns : Touches(c, i)
        <4>1. pc[c] # "idle" /\ "top" \in {"top", "part"}
          BY <1>1
        <4>2. QED BY <1>1, <2>1, <3>1, <4>1, Racing
      <3>3. ConnInv(c)'
        BY <1>1, <2>1 DEF ConnInv
      <3>4. QED BY <3>2, <3>3
    <2>2. CASE ~crossed[c] /\ j = NULL
      <3>1. got[c] = NULL /\ Counts(c, 0, 0, 0) /\ refs' = refs
        BY <1>1, <1>2, <2>2 DEF ConnInv, ReplyInv, Reload
      <3>2. refs' = Put(c, 0, 0, 0) /\ misused' = "no" /\ Touches(c, c)
        BY <1>1, <1>2, <2>2, <3>1, PutSame DEF Touches, Put
      <3>3. ConnInv(c)'
        BY <1>1, <3>1 DEF ConnInv, Counts
      <3>4. QED BY <3>2, <3>3
    <2>3. CASE ~crossed[c] /\ j # NULL
      <3>1. /\ j = c /\ got[c] = c /\ Culprit(c, cb[c]) = cb[c]
            /\ Counts(c, 1, IF cb[c] = "releases" THEN 0 ELSE 1, 0)
        BY <1>1, <2>3 DEF ReplyInv, Reload, ConnInv, Culprit
      <3>2. Becomes(Unref(Heap, c, "top"), cb[c])
        BY <1>2, <2>3, <3>1
      <3>3. CASE cb[c] = "releases"
        <4>1. refs' = Put(c, 1, 0, 0) /\ misused' = "releases"
          BY <1>1, <3>1, <3>2, <3>3, UnrefEmpty DEF Becomes
        <4>2. QED BY <4>1 DEF Touches, Defined
      <3>4. CASE cb[c] # "releases"
        <4>1. refs' = Put(c, 0, 0, 0) /\ misused' = "no"
          BY <1>1, <3>1, <3>2, <3>4, UnrefTop DEF Becomes
        <4>2. Counts(c, 0, 0, 0)'
          <5>1. 0 \in 0..2
            OBVIOUS
          <5>2. QED BY <1>1, <4>1, <5>1, PutCounts
        <4>3. ConnInv(c)'
          BY <1>1, <4>2 DEF ConnInv
        <4>4. QED BY <4>1, <4>3 DEF Touches
      <3>5. QED BY <3>3, <3>4
    <2>4. QED BY <2>1, <2>2, <2>3
  <1>4. PICK i \in Conns, x \in 0..2, y \in 0..2 :
          refs' = Put(i, x, y, 0) /\ (i # c => crossed[c] /\ crossed[i])
    BY <1>3 DEF Touches
  <1>5. \A d \in Conns : refs'[<<d, "copy">>] = 0
    BY <1>1, <1>4, CopyUntouched DEF ReplyInv
  <1>6. \A d \in Conns : ReplyInv(d)'
    <2>1. handled' = (IF "idle" = "notified" THEN [handled EXCEPT ![c] = j] ELSE handled)
      BY <1>1
    <2>2. QED BY <1>1, <1>5, <2>1, RepliesKept
  <1>7. /\ got = [got EXCEPT ![c] = got[c]] /\ got[c] \in {c, NULL}
        /\ cb = [cb EXCEPT ![c] = cb[c]] /\ cb[c] \in CallbackKinds
        /\ handled = [handled EXCEPT ![c] = handled[c]] /\ handled[c] \in Conns \cup {NULL}
        /\ crossed \in [Conns -> BOOLEAN] /\ data' \in Conns \cup {NULL}
    BY <1>1 DEF TypeOK, ReplyInv
  <1>8. QED
    BY <1>1, <1>3, <1>4, <1>6, <1>7, ConnStep

LEMMA NextIInv == IInv /\ [Next]_vars => IInv'
  <1> SUFFICES ASSUME IInv, [Next]_vars PROVE IInv'
    OBVIOUS
  <1>1. CASE Next
    BY <1>1, CallerPreserves, ParsePreserves, NotifyPreserves, ReleasePreserves DEF Next
  <1>2. CASE UNCHANGED vars
    BY <1>2 DEF vars, appVars, pollVars, IInv, TypeOK, OrdinaryCodeIsSafe, ReplyInv,
                Defined, ConnInv, CallerInv, Counts
  <1>3. QED BY <1>1, <1>2

LEMMA Inductive == Spec => []IInv
  BY InitIInv, NextIInv, PTL DEF Spec

-----------------------------------------------------------------------------
(* No count of a JSON value goes below 0 or above 2, whatever request      *)
(* functions, callbacks and connections run side by side.                  *)
THEOREM TypesHold == Spec => []TypeOK
  <1>1. IInv => TypeOK
    BY DEF IInv
  <1>2. QED BY <1>1, Inductive, PTL

(* However many threads call send_request and however many connections     *)
(* receive: only the functions that release what json_pack has taken, the  *)
(* callbacks that release what they borrowed, and handlers that run beside *)
(* each other ever touch a freed value.                                    *)
THEOREM OrdinaryCodeStaysSafe == Spec => []OrdinaryCodeIsSafe
  <1>1. IInv => OrdinaryCodeIsSafe
    BY DEF IInv
  <1>2. QED BY <1>1, Inductive, PTL

(* The data a caller is sending is alive whatever the handlers do to each  *)
(* other's replies, and so is the reply of a handler that runs beside no   *)
(* other.                                                                  *)
THEOREM ValuesInUseStayAlive == Spec => []InUseIsAlive
  <1>1. IInv => InUseIsAlive
    <2>1. SUFFICES ASSUME IInv, Defined PROVE InUseIsAlive
      BY DEF InUseIsAlive
    <2>2. ASSUME NEW a \in Callers, app[a] # "idle"
          PROVE  refs[<<a, "top">>] > 0 /\ refs[<<a, "part">>] > 0
      <3>1. CallerInv(a) /\ app[a] \in {"packed", "sending", "wrap"}
        BY <2>1, <2>2 DEF IInv, TypeOK
      <3>2. QED BY <3>1 DEF CallerInv, Counts
    <2>3. ASSUME NEW c \in Conns, pc[c] = "parsed", got[c] = c, ~crossed[c]
          PROVE  refs[<<c, "top">>] > 0 /\ refs[<<c, "part">>] > 0
      <3>1. c # NULL /\ ConnInv(c)
        BY <2>1, ThreadsAssumption DEF IInv, ThreadsAssumption
      <3>2. QED BY <2>3, <3>1 DEF ConnInv, Counts
    <2>4. QED BY <2>2, <2>3 DEF InUseIsAlive
  <1>2. QED BY <1>1, Inductive, PTL

(* A request function or a handler that has returned leaves no JSON value  *)
(* behind, except a function that takes its own success for a failure and  *)
(* a handler that ran beside another.                                      *)
THEOREM NothingEverLeaks == Spec => []NothingLeaks
  <1>1. IInv => NothingLeaks
    <2>1. SUFFICES ASSUME IInv, Defined, NEW w \in Cells, refs[w] > 0
                   PROVE  \/ w[1] \in Callers /\ (app[w[1]] # "idle" \/ kind[w[1]] = "inverted")
                          \/ w[1] \in Conns /\ (pc[w[1]] # "idle" \/ crossed[w[1]])
      BY DEF NothingLeaks
    <2>2. PICK t \in Callers \cup Conns, r \in {"top", "part", "copy"} : w = <<t, r>>
      BY DEF Cells
    <2>3. ~Counts(t, 0, 0, 0)
      BY <2>1, <2>2 DEF Counts
    <2>4. CASE t \in Callers
      BY <2>1, <2>2, <2>3, <2>4 DEF IInv, CallerInv
    <2>5. CASE t \in Conns
      BY <2>1, <2>2, <2>3, <2>5 DEF IInv, ConnInv
    <2>6. QED BY <2>4, <2>5
  <1>2. QED BY <1>1, Inductive, PTL

(* However many connections share ev_handler's static variable: replies    *)
(* are mixed up only between handlers that run beside each other, and a    *)
(* handler that runs alone passes on the reply of its own connection.      *)
THEOREM OwnReplyIsHandled == Spec => []OwnReplyHandled
  <1>1. IInv => OwnReplyHandled
    BY DEF IInv, ReplyInv, OwnReplyHandled
  <1>2. QED BY <1>1, Inductive, PTL
=============================================================================
