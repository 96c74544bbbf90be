------------------------ MODULE WscDataTreeProofs ------------------------
(***************************************************************************)
(* Proofs about WscDataTree, for any objects, arrays, names, layers,       *)
(* documents and bounds: references are exact at every step of every       *)
(* function, and no function uses what has been freed.                     *)
(*                                                                         *)
(* Counts alone are not inductive: that a function in the middle of a tree *)
(* finds its object alive depends on the frames below it.  Fits says what  *)
(* every frame relies on.  What is filled is new and owned by the frame    *)
(* that will release it, what is stored is owned further down or by the    *)
(* application, what is copied is held by what a frame below is copying,   *)
(* and that is changed by nobody.  A frame below the top keeps fitting     *)
(* because the top changes only what nobody else knows or what it has been *)
(* given (FramesContinue); a step that fits keeps the counts (SoundStep).  *)
(***************************************************************************)
EXTENDS WscDataTree, FiniteSetTheorems, FunctionTheorems, SequenceTheorems, TLAPS

-----------------------------------------------------------------------------
(* Counting the places at which a function has a value.                    *)

One(v, x) == IF v = x THEN 1 ELSE 0

(* Of a finite function every place counts.                                *)
LEMMA CountNat ==
  ASSUME NEW f, IsFiniteSet(DOMAIN f), NEW x
  PROVE  /\ Count(f, x) \in Nat
         /\ \A d \in DOMAIN f : f[d] = x => Count(f, x) >= 1
         /\ \A d, e \in DOMAIN f : d # e /\ f[d] = x /\ f[e] = x => Count(f, x) >= 2
<1> DEFINE D == {d \in DOMAIN f : f[d] = x}
<1>1. IsFiniteSet(D) /\ Cardinality(D) \in Nat
  <2>1. D \in SUBSET DOMAIN f
    OBVIOUS
  <2>2. QED BY <2>1, FS_Subset, FS_CardinalityType
<1>2. ASSUME NEW d \in DOMAIN f, f[d] = x PROVE Cardinality(D) >= 1
  <2>1. D # {}
    BY <1>2
  <2>2. Cardinality(D) # 0
    BY <1>1, <2>1, FS_EmptySet
  <2>3. QED BY <1>1, <2>2
<1>3. ASSUME NEW d \in DOMAIN f, NEW e \in DOMAIN f, d # e, f[d] = x, f[e] = x
      PROVE  Cardinality(D) >= 2
  <2>1. d \in D /\ e \in D
    BY <1>3
  <2>2. Cardinality(D) # 1
    <3>1. ASSUME Cardinality(D) = 1 PROVE FALSE
      <4>1. PICK z : D = {z}
        BY <1>1, <3>1, FS_Singleton
      <4>2. QED BY <2>1, <4>1, <1>3
    <3>2. QED BY <3>1
  <2>3. QED BY <1>1, <1>2, <1>3, <2>2
<1>4. QED BY <1>1, <1>2, <1>3 DEF Count

(* One place changes its value.                                            *)
LEMMA CountChanged ==
  ASSUME NEW f, NEW g, IsFiniteSet(DOMAIN f), DOMAIN g = DOMAIN f,
         NEW d \in DOMAIN f, \A e \in DOMAIN f \ {d} : g[e] = f[e], NEW x
  PROVE  Count(g, x) = Count(f, x) - One(f[d], x) + One(g[d], x)
<1> DEFINE Others == {e \in DOMAIN f \ {d} : f[e] = x}
           At(h) == {e \in DOMAIN h : h[e] = x}
<1>1. IsFiniteSet(Others) /\ Cardinality(Others) \in Nat
  <2>1. Others \in SUBSET DOMAIN f
    OBVIOUS
  <2>2. QED BY <2>1, FS_Subset, FS_CardinalityType
<1>2. d \notin Others
  OBVIOUS
<1>3. Cardinality(Others \cup {d}) = Cardinality(Others) + 1
  BY <1>1, <1>2, FS_AddElement
<1>4. Cardinality(At(f)) = Cardinality(Others) + One(f[d], x)
  <2>1. CASE f[d] = x
    <3>1. At(f) = Others \cup {d}
      BY <2>1
    <3>2. QED BY <1>1, <1>3, <3>1, <2>1 DEF One
  <2>2. CASE f[d] # x
    <3>1. At(f) = Others
      BY <2>2
    <3>2. QED BY <1>1, <3>1, <2>2 DEF One
  <2>3. QED BY <2>1, <2>2
<1>5. Cardinality(At(g)) = Cardinality(Others) + One(g[d], x)
  <2>1. CASE g[d] = x
    <3>1. At(g) = Others \cup {d}
      BY <2>1
    <3>2. QED BY <1>1, <1>3, <3>1, <2>1 DEF One
  <2>2. CASE g[d] # x
    <3>1. At(g) = Others
      BY <2>2
    <3>2. QED BY <1>1, <3>1, <2>2 DEF One
  <2>3. QED BY <2>1, <2>2
<1> HIDE DEF Others
<1>6. Count(f, x) = Cardinality(At(f)) /\ Count(g, x) = Cardinality(At(g))
  BY DEF Count
<1>7. One(f[d], x) \in Nat /\ One(g[d], x) \in Nat
  BY DEF One
<1> HIDE DEF At
<1>8. QED BY <1>1, <1>4, <1>5, <1>6, <1>7

(* The places of a sequence are the numbers up to its length.              *)
LEMMA SeqIsFinite ==
  ASSUME NEW S, NEW s \in Seq(S)
  PROVE  IsFiniteSet(DOMAIN s) /\ DOMAIN s = 1 .. Len(s) /\ Len(s) \in Nat
BY FS_Interval, LenProperties

(* Sequences in a row.                                                     *)
LEMMA CountConcat ==
  ASSUME NEW S, NEW s \in Seq(S), NEW t \in Seq(S), NEW x
  PROVE  Count(s \o t, x) = Count(s, x) + Count(t, x)
<1> DEFINE n == Len(s)
           A == {k \in DOMAIN s : s[k] = x}
           B == {k \in DOMAIN t : t[k] = x}
           C == {k \in DOMAIN (s \o t) : (s \o t)[k] = x}
           sh == [k \in B |-> n + k]
           D == {k \in DOMAIN (s \o t) : k > n /\ (s \o t)[k] = x}
<1>1. /\ s \o t \in Seq(S) /\ n \in Nat /\ Len(t) \in Nat
      /\ DOMAIN s = 1 .. n /\ DOMAIN t = 1 .. Len(t) /\ DOMAIN (s \o t) = 1 .. n + Len(t)
      /\ \A i \in 1 .. n + Len(t) : (s \o t)[i] = IF i <= n THEN s[i] ELSE t[i - n]
  BY ConcatProperties, LenProperties
<1>2. C = A \cup D /\ A \cap D = {}
  BY <1>1
<1>3. sh \in Bijection(B, D)
  <2>1. sh \in [B -> D]
    BY <1>1
  <2>2. ASSUME NEW k \in B, NEW l \in B, sh[k] = sh[l] PROVE k = l
    BY <1>1, <2>2
  <2>3. ASSUME NEW d \in D PROVE \E k \in B : sh[k] = d
    <3>1. d - n \in B /\ sh[d - n] = d
      BY <1>1, <2>3
    <3>2. QED BY <3>1
  <2>4. QED BY <2>1, <2>2, <2>3, Fun_IsBij
<1>4. IsFiniteSet(A) /\ IsFiniteSet(B)
  <2>1. A \in SUBSET DOMAIN s /\ B \in SUBSET DOMAIN t
    OBVIOUS
  <2>2. QED BY <2>1, SeqIsFinite, FS_Subset
<1> HIDE DEF A, B, C, D, sh
<1>5. IsFiniteSet(D) /\ Cardinality(D) = Cardinality(B)
  BY <1>3, <1>4, FS_Bijection DEF ExistsBijection
<1>6. Cardinality(C) = Cardinality(A) + Cardinality(D)
  <2>1. Cardinality(A \cup D) = Cardinality(A) + Cardinality(D) - Cardinality(A \cap D)
    BY <1>4, <1>5, FS_Union
  <2>2. Cardinality(A \cap D) = 0
    BY <1>2, FS_EmptySet
  <2>3. Cardinality(A) \in Nat /\ Cardinality(D) \in Nat
    BY <1>4, <1>5, FS_CardinalityType
  <2>4. QED BY <1>2, <2>1, <2>2, <2>3
<1>7. QED BY <1>5, <1>6 DEF Count, A, B, C

(* One element, or none.                                                   *)
LEMMA CountSingle ==
  ASSUME NEW v, NEW x
  PROVE  Count(<<v>>, x) = One(v, x) /\ Count(<<>>, x) = 0
<1>1. Count(<<>>, x) = 0
  <2>1. {d \in DOMAIN <<>> : <<>>[d] = x} = {}
    OBVIOUS
  <2>2. QED BY <2>1, FS_EmptySet DEF Count
<1>2. CASE v = x
  <2>1. {d \in DOMAIN <<v>> : <<v>>[d] = x} = {1}
    BY <1>2
  <2>2. QED BY <1>1, <1>2, <2>1, FS_Singleton DEF Count, One
<1>3. CASE v # x
  <2>1. {d \in DOMAIN <<v>> : <<v>>[d] = x} = {}
    BY <1>3
  <2>2. QED BY <1>1, <1>3, <2>1, FS_EmptySet DEF Count, One
<1>4. QED BY <1>2, <1>3

(* Two elements.                                                           *)
LEMMA CountPair ==
  ASSUME NEW e, NEW f, NEW x
  PROVE  Count(<<e, f>>, x) = One(e, x) + One(f, x)
<1> DEFINE S == {e, f}
<1>1. <<e>> \in Seq(S) /\ <<f>> \in Seq(S) /\ <<e, f>> \in Seq(S)
  OBVIOUS
<1>2. <<e>> \o <<f>> \in Seq(S)
  BY <1>1, ConcatProperties
<1>3. <<e, f>> = <<e>> \o <<f>>
  <2>1. Len(<<e>> \o <<f>>) = 2 /\ (<<e>> \o <<f>>)[1] = e /\ (<<e>> \o <<f>>)[2] = f
    BY <1>1, ConcatProperties
  <2>2. Len(<<e, f>>) = 2 /\ <<e, f>>[1] = e /\ <<e, f>>[2] = f
    OBVIOUS
  <2> HIDE DEF S
  <2>3. \A i \in 1 .. 2 : <<e, f>>[i] = (<<e>> \o <<f>>)[i]
    BY <2>1, <2>2
  <2>4. QED BY <1>1, <1>2, <2>1, <2>2, <2>3, SeqEqual
<1> HIDE DEF S
<1>4. Count(<<e>> \o <<f>>, x) = Count(<<e>>, x) + Count(<<f>>, x)
  BY <1>1, CountConcat
<1>5. QED BY <1>3, <1>4, CountSingle

(* Four elements: the most frames that a step puts on the stack.           *)
LEMMA CountFour ==
  ASSUME NEW a, NEW b, NEW c, NEW d, NEW x
  PROVE  Count(<<a, b, c, d>>, x) = One(a, x) + One(b, x) + One(c, x) + One(d, x)
<1> DEFINE S == {a, b, c, d}
<1>1. <<a, b>> \in Seq(S) /\ <<c, d>> \in Seq(S) /\ <<a, b, c, d>> \in Seq(S)
  OBVIOUS
<1>2. <<a, b, c, d>> = <<a, b>> \o <<c, d>>
  <2>1. <<a, b>> \o <<c, d>> \in Seq(S) /\ Len(<<a, b>> \o <<c, d>>) = 4
    BY <1>1, ConcatProperties
  <2>2. /\ (<<a, b>> \o <<c, d>>)[1] = a /\ (<<a, b>> \o <<c, d>>)[2] = b
        /\ (<<a, b>> \o <<c, d>>)[3] = c /\ (<<a, b>> \o <<c, d>>)[4] = d
    BY <1>1, ConcatProperties
  <2> HIDE DEF S
  <2>3. \A i \in 1 .. 4 : <<a, b, c, d>>[i] = (<<a, b>> \o <<c, d>>)[i]
    BY <2>2
  <2>4. Len(<<a, b, c, d>>) = 4
    OBVIOUS
  <2>5. QED BY <1>1, <2>1, <2>3, <2>4, SeqEqual
<1> HIDE DEF S
<1>3. Count(<<a, b>> \o <<c, d>>, x) = Count(<<a, b>>, x) + Count(<<c, d>>, x)
  BY <1>1, CountConcat
<1>4. Count(<<a, b, c, d>>, x) = Count(<<a, b>>, x) + Count(<<c, d>>, x)
  BY <1>2, <1>3
<1> DEFINE p == One(a, x)
           q == One(b, x)
           r == One(c, x)
           t == One(d, x)
<1>5. Count(<<a, b>>, x) = p + q /\ Count(<<c, d>>, x) = r + t
  BY CountPair
<1>6. p + q + (r + t) = p + q + r + t
  <2>1. p \in Nat /\ q \in Nat /\ r \in Nat /\ t \in Nat
    BY DEF One
  <2> HIDE DEF p, q, r, t
  <2>2. QED BY <2>1
<1>7. QED BY <1>4, <1>5, <1>6

(* A function without the value.                                           *)
LEMMA CountNone ==
  ASSUME NEW f, NEW x, \A d \in DOMAIN f : f[d] # x
  PROVE  Count(f, x) = 0
<1>1. {d \in DOMAIN f : f[d] = x} = {}
  OBVIOUS
<1>2. QED BY <1>1, FS_EmptySet DEF Count

-----------------------------------------------------------------------------
(* The stack.                                                              *)

(* A stack is what is below, and its top.                                  *)
LEMMA FrontAndLast ==
  ASSUME NEW S, NEW s \in Seq(S), s # <<>>
  PROVE  /\ Front(s) \in Seq(S) /\ Last(s) \in S /\ Last(s) = s[Len(s)]
         /\ Len(Front(s)) = Len(s) - 1 /\ Len(s) \in Nat \ {0}
         /\ \A i \in 1 .. Len(s) - 1 : Front(s)[i] = s[i]
         /\ \A x : Count(s, x) = Count(Front(s), x) + One(Last(s), x)
<1>1. Len(s) \in Nat \ {0}
  BY EmptySeq, LenProperties
<1>2. /\ Front(s) \in Seq(S) /\ Len(Front(s)) = Len(s) - 1
      /\ \A i \in 1 .. Len(s) - 1 : Front(s)[i] = s[i]
  <2>1. \A i \in 1 .. Len(s) - 1 : s[i] \in S
    BY <1>1, ElementOfSeq
  <2>2. /\ SubSeq(s, 1, Len(s) - 1) \in Seq(S)
        /\ Len(SubSeq(s, 1, Len(s) - 1)) =
             IF 1 <= Len(s) - 1 THEN Len(s) - 1 - 1 + 1 ELSE 0
        /\ \A i \in 1 .. Len(s) - 1 - 1 + 1 : SubSeq(s, 1, Len(s) - 1)[i] = s[1 + i - 1]
    BY <1>1, <2>1, SubSeqProperties
  <2> DEFINE n == Len(s)
             u == SubSeq(s, 1, n - 1)
  <2>3. n \in Nat \ {0}
    BY <1>1
  <2>4. u \in Seq(S) /\ Len(u) = n - 1 /\ \A i \in 1 .. n - 1 : u[i] = s[i]
    <3>1. /\ u \in Seq(S) /\ Len(u) = IF 1 <= n - 1 THEN n - 1 - 1 + 1 ELSE 0
          /\ \A i \in 1 .. n - 1 - 1 + 1 : u[i] = s[1 + i - 1]
      BY <2>2
    <3> HIDE DEF n, u
    <3>2. QED BY <2>3, <3>1
  <2>5. u = Front(s)
    BY DEF Front
  <2>6. QED BY <2>4, <2>5
<1>3. Last(s) \in S /\ Last(s) = s[Len(s)]
  BY <1>1, ElementOfSeq DEF Last
<1>4. s = Front(s) \o <<Last(s)>>
  <2>1. <<Last(s)>> \in Seq(S) /\ Len(<<Last(s)>>) = 1 /\ <<Last(s)>>[1] = Last(s)
    BY <1>3
  <2>2. /\ Front(s) \o <<Last(s)>> \in Seq(S) /\ Len(Front(s) \o <<Last(s)>>) = Len(s)
        /\ \A i \in 1 .. Len(s) : (Front(s) \o <<Last(s)>>)[i] =
             IF i <= Len(s) - 1 THEN Front(s)[i] ELSE <<Last(s)>>[i - (Len(s) - 1)]
    BY <1>1, <1>2, <2>1, ConcatProperties
  <2>3. \A i \in 1 .. Len(s) : (Front(s) \o <<Last(s)>>)[i] = s[i]
    BY <1>1, <1>2, <1>3, <2>1, <2>2
  <2>4. QED BY <2>2, <2>3, SeqEqual
<1>5. ASSUME NEW x PROVE Count(s, x) = Count(Front(s), x) + One(Last(s), x)
  <2>1. <<Last(s)>> \in Seq(S)
    BY <1>3
  <2>2. Count(Front(s) \o <<Last(s)>>, x) = Count(Front(s), x) + Count(<<Last(s)>>, x)
    BY <1>2, <2>1, CountConcat
  <2>3. QED BY <1>4, <2>2, CountSingle
<1>6. QED BY <1>1, <1>2, <1>3, <1>5

(* The function on top goes on as fs.                                      *)
LEMMA Replaced ==
  ASSUME NEW S, NEW s \in Seq(S), s # <<>>, NEW fs \in Seq(S)
  PROVE  /\ Front(s) \o fs \in Seq(S) /\ Len(s) \in Nat \ {0} /\ Len(fs) \in Nat
         /\ Len(Front(s) \o fs) = Len(s) - 1 + Len(fs)
         /\ \A i \in 1 .. Len(s) - 1 : (Front(s) \o fs)[i] = s[i]
         /\ \A i \in 1 .. Len(fs) : (Front(s) \o fs)[Len(s) - 1 + i] = fs[i]
         /\ \A x : Count(Front(s) \o fs, x) = Count(s, x) - One(s[Len(s)], x) + Count(fs, x)
<1> DEFINE t == Front(s) \o fs
<1>1. /\ Front(s) \in Seq(S) /\ Last(s) = s[Len(s)]
      /\ Len(Front(s)) = Len(s) - 1 /\ Len(s) \in Nat \ {0}
      /\ \A i \in 1 .. Len(s) - 1 : Front(s)[i] = s[i]
      /\ \A x : Count(s, x) = Count(Front(s), x) + One(Last(s), x)
  BY FrontAndLast
<1>2. Len(fs) \in Nat
  BY LenProperties
<1>3. /\ t \in Seq(S) /\ Len(t) = Len(s) - 1 + Len(fs)
      /\ \A i \in 1 .. Len(s) - 1 + Len(fs) :
           t[i] = IF i <= Len(s) - 1 THEN Front(s)[i] ELSE fs[i - (Len(s) - 1)]
  <2> DEFINE fr == Front(s)
  <2>1. fr \in Seq(S) /\ Len(fr) = Len(s) - 1
    BY <1>1
  <2>2. t = fr \o fs
    OBVIOUS
  <2> HIDE DEF fr, t
  <2>3. /\ t \in Seq(S) /\ Len(t) = Len(fr) + Len(fs)
        /\ \A i \in 1 .. Len(fr) + Len(fs) : t[i] = IF i <= Len(fr) THEN fr[i] ELSE fs[i - Len(fr)]
    BY <2>1, <2>2, ConcatProperties
  <2>4. QED BY <2>1, <2>3 DEF fr
<1>4. \A i \in 1 .. Len(s) - 1 : t[i] = s[i]
  BY <1>1, <1>2, <1>3
<1>5. \A i \in 1 .. Len(fs) : t[Len(s) - 1 + i] = fs[i]
  BY <1>1, <1>2, <1>3
<1>6. ASSUME NEW x PROVE Count(t, x) = Count(s, x) - One(s[Len(s)], x) + Count(fs, x)
  <2>1. Count(t, x) = Count(Front(s), x) + Count(fs, x)
    <3> DEFINE fr == Front(s)
    <3>1. fr \in Seq(S)
      BY <1>1
    <3> HIDE DEF fr
    <3>2. Count(fr \o fs, x) = Count(fr, x) + Count(fs, x)
      BY <3>1, CountConcat
    <3>3. QED BY <3>2 DEF fr
  <2>2. Count(s, x) = Count(Front(s), x) + One(s[Len(s)], x)
    BY <1>1
  <2>3. Count(Front(s), x) \in Nat /\ Count(fs, x) \in Nat
    <3>1. IsFiniteSet(DOMAIN Front(s)) /\ IsFiniteSet(DOMAIN fs)
      BY <1>1, SeqIsFinite
    <3>2. QED BY <3>1, CountNat
  <2>4. One(s[Len(s)], x) \in Nat
    BY DEF One
  <2> DEFINE p == Count(Front(s), x)
             q == Count(fs, x)
             r == One(s[Len(s)], x)
  <2>5. p \in Nat /\ q \in Nat /\ r \in Nat
    BY <2>3, <2>4
  <2>6. Count(t, x) = p + q /\ Count(s, x) = p + r
    BY <2>1, <2>2
  <2> HIDE DEF p, q
  <2>7. Count(t, x) = Count(s, x) - r + q
    <3> HIDE DEF r
    <3>1. QED BY <2>5, <2>6
  <2>8. QED BY <2>7 DEF q
<1>7. QED BY <1>1, <1>2, <1>3, <1>4, <1>5, <1>6

-----------------------------------------------------------------------------
(* Who holds an object or an array.                                        *)

Places(e) == UNION {{a} \X DOMAIN e[a] : a \in Arrays}
ElementsOf(e) == [p \in Places(e) |-> e[p[1]][p[2]]]

(* Items and layers are finitely many, so that values can be counted.      *)
LEMMA SlotsFinite == IsFiniteSet(Slots)
<1>1. IsFiniteSet(Objs) /\ IsFiniteSet(Names)
  BY CellsAssumption
<1>2. IsFiniteSet(Layers)
  <2>1. IsFiniteSet({"user"})
    BY FS_Singleton
  <2>2. IsFiniteSet({"user"} \cup {"default"})
    BY <2>1, FS_AddElement
  <2>3. IsFiniteSet({"user"} \cup {"default"} \cup {"autoselect"})
    BY <2>2, FS_AddElement
  <2>4. Layers \in SUBSET ({"user"} \cup {"default"} \cup {"autoselect"})
    BY LayersAssumption
  <2>5. QED BY <2>3, <2>4, FS_Subset
<1>3. IsFiniteSet((Objs \X Names) \X Layers)
  <2>1. IsFiniteSet(Objs \X Names)
    BY <1>1, FS_Product
  <2>2. QED BY <2>1, <1>2, FS_Product
<1> DEFINE f == [s \in Slots |-> << <<s[1], s[2]>>, s[3]>>]
<1>4. f \in [Slots -> (Objs \X Names) \X Layers]
  BY DEF Slots
<1>5. ASSUME NEW s \in Slots, NEW t \in Slots, f[s] = f[t] PROVE s = t
  BY <1>5 DEF Slots
<1> HIDE DEF f
<1>6. f \in Injection(Slots, (Objs \X Names) \X Layers)
  BY <1>4, <1>5, Fun_IsInj
<1>7. QED BY <1>3, <1>6, FS_Injection

(* So are the places in arrays.                                            *)
LEMMA PlacesFinite ==
  ASSUME NEW e \in [Arrays -> Seq(Objs)]
  PROVE  /\ IsFiniteSet(Places(e)) /\ DOMAIN ElementsOf(e) = Places(e)
         /\ \A p \in Places(e) : p[1] \in Arrays /\ p[2] \in DOMAIN e[p[1]] /\ p = <<p[1], p[2]>>
<1> DEFINE P == {{a} \X DOMAIN e[a] : a \in Arrays}
           f == [a \in Arrays |-> {a} \X DOMAIN e[a]]
<1>1. f \in Surjection(Arrays, P)
  <2>1. f \in [Arrays -> P] /\ \A q \in P : \E a \in Arrays : f[a] = q
    OBVIOUS
  <2>2. QED BY <2>1, Fun_IsSurj
<1>2. IsFiniteSet(P)
  BY <1>1, CellsAssumption, FS_Surjection
<1>3. ASSUME NEW T \in P PROVE IsFiniteSet(T)
  <2>1. PICK a \in Arrays : T = {a} \X DOMAIN e[a]
    BY <1>3
  <2>2. IsFiniteSet({a}) /\ IsFiniteSet(DOMAIN e[a])
    BY FS_Singleton, SeqIsFinite
  <2>3. QED BY <2>1, <2>2, FS_Product
<1>4. IsFiniteSet(UNION P)
  BY <1>2, <1>3, FS_UNION
<1>5. QED BY <1>4 DEF Places, ElementsOf

(* One array changes.                                                      *)
LEMMA ArrayChanged ==
  ASSUME NEW e \in [Arrays -> Seq(Objs)], NEW g \in [Arrays -> Seq(Objs)],
         NEW a \in Arrays, \A b \in Arrays \ {a} : g[b] = e[b], NEW x
  PROVE  Count(ElementsOf(g), x) = Count(ElementsOf(e), x) - Count(e[a], x) + Count(g[a], x)
<1> DEFINE At(h) == {p \in Places(h) : ElementsOf(h)[p] = x}
           Mine(h) == {p \in At(h) : p[1] = a}
           Others(h) == {p \in At(h) : p[1] # a}
           K(h) == {k \in DOMAIN h[a] : h[a][k] = x}
<1>1. ASSUME NEW h \in [Arrays -> Seq(Objs)]
      PROVE  /\ Count(ElementsOf(h), x) = Cardinality(Others(h)) + Count(h[a], x)
             /\ Cardinality(Others(h)) \in Nat /\ Count(h[a], x) \in Nat
  <2>1. IsFiniteSet(At(h)) /\ IsFiniteSet(Mine(h)) /\ IsFiniteSet(Others(h))
    <3>1. IsFiniteSet(Places(h))
      BY PlacesFinite
    <3>2. /\ At(h) \in SUBSET Places(h) /\ Mine(h) \in SUBSET Places(h)
          /\ Others(h) \in SUBSET Places(h)
      OBVIOUS
    <3>3. QED BY <3>1, <3>2, FS_Subset
  <2>2. IsFiniteSet(K(h))
    <3>1. IsFiniteSet(DOMAIN h[a]) /\ K(h) \in SUBSET DOMAIN h[a]
      BY SeqIsFinite
    <3>2. QED BY <3>1, FS_Subset
  <2>3. Cardinality(Mine(h)) = Cardinality(K(h))
    <3> DEFINE s == [k \in K(h) |-> <<a, k>>]
    <3>1. s \in [K(h) -> Mine(h)]
      BY DEF Places, ElementsOf
    <3>2. \A k, l \in K(h) : s[k] = s[l] => k = l
      OBVIOUS
    <3>3. ASSUME NEW p \in Mine(h) PROVE \E k \in K(h) : s[k] = p
      <4>1. p[2] \in K(h) /\ p = <<a, p[2]>>
        BY PlacesFinite DEF ElementsOf
      <4>2. QED BY <4>1
    <3> HIDE DEF s
    <3>4. s \in Bijection(K(h), Mine(h))
      BY <3>1, <3>2, <3>3, Fun_IsBij
    <3>5. QED BY <3>4, <2>2, FS_Bijection DEF ExistsBijection
  <2>4. At(h) = Others(h) \cup Mine(h) /\ Others(h) \cap Mine(h) = {}
    OBVIOUS
  <2>5. Count(ElementsOf(h), x) = Cardinality(At(h)) /\ Count(h[a], x) = Cardinality(K(h))
    BY PlacesFinite DEF Count
  <2>6. /\ Cardinality(Others(h)) \in Nat /\ Cardinality(Mine(h)) \in Nat
    BY <2>1, FS_CardinalityType
  <2> HIDE DEF At, Mine, Others, K
  <2>7. Cardinality(At(h)) = Cardinality(Others(h)) + Cardinality(Mine(h))
    <3>1. /\ Cardinality(Others(h) \cup Mine(h)) = Cardinality(Others(h)) + Cardinality(Mine(h))
                                                    - Cardinality(Others(h) \cap Mine(h))
          /\ Cardinality(Others(h) \cap Mine(h)) = 0
      BY <2>1, <2>4, FS_Union, FS_EmptySet
    <3>2. QED BY <2>4, <2>6, <3>1
  <2>8. QED BY <2>3, <2>5, <2>6, <2>7
<1>2. Others(g) = Others(e)
  <2>1. ASSUME NEW u \in [Arrays -> Seq(Objs)], NEW w \in [Arrays -> Seq(Objs)],
               \A b \in Arrays \ {a} : u[b] = w[b], NEW p \in Others(u)
        PROVE  p \in Others(w)
    <3>1. p[1] \in Arrays \ {a} /\ p[2] \in DOMAIN u[p[1]] /\ p = <<p[1], p[2]>>
      BY PlacesFinite
    <3>2. u[p[1]] = w[p[1]]
      BY <2>1, <3>1
    <3>3. p \in Places(w)
      BY <3>1, <3>2 DEF Places
    <3>4. QED BY <3>2, <3>3 DEF ElementsOf
  <2> HIDE DEF Others
  <2>2. \A p \in Others(g) : p \in Others(e)
    BY <2>1
  <2>3. \A p \in Others(e) : p \in Others(g)
    BY <2>1
  <2>4. QED BY <2>2, <2>3
<1> HIDE DEF Others
<1>3. QED BY <1>1, <1>2

-----------------------------------------------------------------------------
(* What holds at every step of every function.                             *)

Owed(x) == Count(stack, Releasing(x))

Balanced == \A x \in Cells : refs[x] = app[x] + Holders(x) + Owed(x)

FreeBlank == \A x \in Free(Cells) : Blank(x)

(* A cell that has just been made, before the frame k: its one reference   *)
(* is owned by a function further down, so that nobody else knows it.      *)
Fresh(x, k) == refs[x] = 1 /\ \E j \in 1 .. k-1 : stack[j] = Releasing(x)

(* What the frame k stores outlives it.                                    *)
Given(v, k) == v \in Cells => app[v] > 0 \/ (k > 1 /\ stack[k-1] = Releasing(v))

(* What x copies holds y.                                                  *)
Copies(f) == f.op \in {"apply", "copy"}
Holds(f, y) ==
  \/ f.op = "apply" /\ \E n \in Names : val[<<f.from, n, "user">>] = y
  \/ f.op = "copy" /\ \E p \in DOMAIN elems[f.from] : elems[f.from][p] = y

(* A copy under way further down than k holds x in what it copies from.    *)
HeldBelow(x, k) == \E i \in 1 .. k-1 : Holds(stack[i], x)

(* The frame f at k: objects are destroyed only when nobody has them, and  *)
(* what else is changed is new and its maker's, or the application's own   *)
(* argument; what is copied is the application's, or held by what a copy   *)
(* further down copies.                                                    *)
Fits(f, k) ==
  /\ (f.op = "destroy" => refs[f.cell] = 0)
  /\ (f.op = "erase" => \/ k = 1 /\ app[f.to] > 0
                        \/ k > 1 /\ stack[k-1] = Destroying(f.to))
  /\ (f.op = "clear" => k = 1 /\ app[f.to] > 0)
  /\ (f.op = "set" =>
        /\ Given(f.value, k)
        /\ \/ Fresh(f.to, k)
           \/ app[f.to] > 0 /\ \A i \in 2 .. k-1 : ~Copies(stack[i]))
  /\ (f.op = "push" => Fresh(f.to, k) /\ Given(f.value, k))
  /\ (f.op = "apply" => \/ k = 1 /\ app[f.to] > 0 /\ app[f.from] > 0
                        \/ Fresh(f.to, k) /\ HeldBelow(f.from, k))
  /\ (f.op = "copy" => Fresh(f.to, k) /\ HeldBelow(f.from, k))
  /\ (f.op = "members" => (k = 1 /\ app[f.to] > 0) \/ Fresh(f.to, k))
  /\ (f.op = "elements" => Fresh(f.to, k))

FramesInv == \A f : \A k \in 1 .. Len(stack) : f = stack[k] => Fits(f, k)

IInv == /\ TypeOK /\ ~misused
        /\ (~odd => Balanced /\ FreeBlank /\ FramesInv)

-----------------------------------------------------------------------------
(* Facts of one state.                                                     *)

(* What the fields of a frame are.                                         *)
LEMMA FrameShapes ==
  ASSUME NEW f, FrameOK(f)
  PROVE  /\ f.op \in {"release", "destroy", "erase", "clear", "set", "push", "apply",
                      "copy", "members", "elements"}
         /\ (f.op \in {"release", "destroy"} => f.cell \in Cells)
         /\ (f.op = "release" => f = Releasing(f.cell))
         /\ (f.op = "destroy" => f = Destroying(f.cell))
         /\ (f.op = "erase" => f.to \in Objs /\ f.name \in Names /\ f = Erasing(f.to, f.name))
         /\ (f.op = "clear" => f.to \in Objs /\ f.names \subseteq Names)
         /\ (f.op = "set" => /\ f.to \in Objs /\ f.name \in Names /\ f.layer \in Layers
                             /\ f.value \in Values
                             /\ f = Setting(f.to, f.name, f.layer, f.value))
         /\ (f.op = "push" => f.to \in Arrays /\ f.value \in Objs /\ f = Pushing(f.to, f.value))
         /\ (f.op = "apply" => f.to \in Objs /\ f.from \in Objs /\ f.names \subseteq Names)
         /\ (f.op = "copy" => f.to \in Arrays /\ f.from \in Arrays /\ f.at \in Nat \ {0})
         /\ (f.op = "members" => f.to \in Objs /\ f.names \subseteq Names)
         /\ (f.op = "elements" => f.to \in Arrays)
BY DEF FrameOK, Releasing, Destroying, Erasing, Clearing, Setting, Pushing, Applying,
       CopyingArray, AddingMembers, AddingElements

(* The frames that release and destroy are known by their cell.            *)
LEMMA ShapesApart ==
  /\ \A x, y : Releasing(x) = Releasing(y) <=> x = y
  /\ \A x, y : Destroying(x) = Destroying(y) <=> x = y
  /\ \A x : Releasing(x).op = "release" /\ Releasing(x).cell = x
  /\ \A x : Destroying(x).op = "destroy" /\ Destroying(x).cell = x
<1>1. \A x : Releasing(x).op = "release" /\ Releasing(x).cell = x
  BY DEF Releasing
<1>2. \A x : Destroying(x).op = "destroy" /\ Destroying(x).cell = x
  BY DEF Destroying
<1>3. QED BY <1>1, <1>2

(* The stack is a sequence of frames.                                      *)
LEMMA StackTyped ==
  ASSUME TypeOK
  PROVE  /\ stack \in Seq(ToSet(stack)) /\ Len(stack) \in Nat
         /\ DOMAIN stack = 1 .. Len(stack) /\ IsFiniteSet(DOMAIN stack)
         /\ ToSet(stack) = {stack[k] : k \in 1 .. Len(stack)}
         /\ \A k \in 1 .. Len(stack) : FrameOK(stack[k])
         /\ (stack # <<>> => Len(stack) > 0)
<1>1. stack \in Seq(ToSet(stack)) /\ \A f \in ToSet(stack) : FrameOK(f)
  BY DEF TypeOK, FramesOK
<1>2. /\ DOMAIN stack = 1 .. Len(stack) /\ Len(stack) \in Nat /\ IsFiniteSet(DOMAIN stack)
  BY <1>1, SeqIsFinite
<1>3. ToSet(stack) = {stack[k] : k \in 1 .. Len(stack)}
  BY <1>2 DEF ToSet
<1>4. \A k \in 1 .. Len(stack) : FrameOK(stack[k])
  BY <1>1, <1>3
<1>5. stack # <<>> => Len(stack) > 0
  <2>1. stack # <<>> => Len(stack) # 0
    BY <1>1, EmptySeq
  <2>2. QED BY <1>2, <2>1
<1>6. QED BY <1>1, <1>2, <1>3, <1>4, <1>5

(* All counts are natural numbers.                                         *)
LEMMA Numbers ==
  ASSUME TypeOK, NEW x \in Cells
  PROVE  /\ refs[x] \in Nat /\ app[x] \in Nat /\ Owed(x) \in Nat /\ Holders(x) \in Nat
         /\ Count(val, x) \in Nat /\ Count(ElementsOf(elems), x) \in Nat
         /\ Holders(x) = Count(val, x) + Count(ElementsOf(elems), x)
<1>1. refs[x] \in Nat /\ app[x] \in Nat
  BY DEF TypeOK
<1>2. Owed(x) \in Nat
  BY StackTyped, CountNat DEF Owed
<1>3. Count(val, x) \in Nat
  <2>1. DOMAIN val = Slots
    BY DEF TypeOK
  <2>2. QED BY <2>1, SlotsFinite, CountNat
<1>4. Count(ElementsOf(elems), x) \in Nat
  <2>1. elems \in [Arrays -> Seq(Objs)]
    BY DEF TypeOK
  <2>2. QED BY <2>1, PlacesFinite, CountNat
<1>5. Elements = ElementsOf(elems)
  BY DEF Elements, ElementsOf, Places
<1>6. QED BY <1>1, <1>2, <1>3, <1>4, <1>5 DEF Holders

(* Whoever releases x has a reference to it.                               *)
LEMMA OwedByFrames ==
  ASSUME TypeOK, NEW x \in Cells
  PROVE  /\ \A j \in 1 .. Len(stack) : stack[j] = Releasing(x) => Owed(x) >= 1
         /\ \A i, j \in 1 .. Len(stack) :
              i # j /\ stack[i] = Releasing(x) /\ stack[j] = Releasing(x) => Owed(x) >= 2
BY StackTyped, CountNat DEF Owed

(* Whoever holds x counts.                                                 *)
LEMMA HeldByPlaces ==
  ASSUME TypeOK, NEW x \in Cells
  PROVE  /\ \A o \in Objs, n \in Names, l \in Layers : val[<<o, n, l>>] = x => Holders(x) >= 1
         /\ \A a \in Arrays : \A p \in DOMAIN elems[a] : elems[a][p] = x => Holders(x) >= 1
<1>1. ASSUME NEW o \in Objs, NEW n \in Names, NEW l \in Layers, val[<<o, n, l>>] = x
      PROVE  Holders(x) >= 1
  <2>1. DOMAIN val = Slots /\ <<o, n, l>> \in Slots
    BY DEF TypeOK, Slots
  <2>2. Count(val, x) >= 1
    BY <2>1, <1>1, SlotsFinite, CountNat
  <2>3. QED BY <2>2, Numbers
<1>2. ASSUME NEW a \in Arrays, NEW p \in DOMAIN elems[a], elems[a][p] = x
      PROVE  Holders(x) >= 1
  <2>1. elems \in [Arrays -> Seq(Objs)]
    BY DEF TypeOK
  <2>2. <<a, p>> \in Places(elems) /\ ElementsOf(elems)[<<a, p>>] = x
    BY <1>2 DEF ElementsOf, Places
  <2>3. DOMAIN ElementsOf(elems) = Places(elems) /\ IsFiniteSet(Places(elems))
    BY <2>1, PlacesFinite
  <2>4. Count(ElementsOf(elems), x) >= 1
    BY <2>2, <2>3, CountNat
  <2>5. QED BY <2>4, Numbers
<1>3. QED BY <1>1, <1>2

(* What is fresh has no owner but the one function that made it.           *)
LEMMA FreshAlone ==
  ASSUME TypeOK, Balanced, NEW x \in Cells, NEW k \in 1 .. Len(stack) + 1, Fresh(x, k)
  PROVE  app[x] = 0 /\ Holders(x) = 0 /\ Owed(x) = 1 /\ refs[x] = 1
<1>1. PICK j \in 1 .. k-1 : stack[j] = Releasing(x)
  BY DEF Fresh
<1>2. j \in 1 .. Len(stack)
  BY StackTyped
<1>3. Owed(x) >= 1
  BY <1>1, <1>2, OwedByFrames
<1>4. refs[x] = app[x] + Holders(x) + Owed(x) /\ refs[x] = 1
  BY DEF Balanced, Fresh
<1>5. app[x] \in Nat /\ Holders(x) \in Nat /\ Owed(x) \in Nat
  BY Numbers
<1>6. QED BY <1>3, <1>4, <1>5

(* What is copied is the application's or held.                            *)
LEMMA SourceKept ==
  ASSUME TypeOK, Balanced, FramesInv, NEW k \in 1 .. Len(stack), Copies(stack[k])
  PROVE  /\ stack[k].from \in Cells
         /\ app[stack[k].from] + Holders(stack[k].from) >= 1
         /\ refs[stack[k].from] >= 1 + Owed(stack[k].from)
<1> DEFINE f == stack[k]
           x == f.from
<1>1. FrameOK(f) /\ Fits(f, k)
  BY StackTyped DEF FramesInv
<1>2. x \in Cells
  BY <1>1, FrameShapes DEF Copies, Cells
<1>3. (k = 1 /\ app[x] > 0) \/ HeldBelow(x, k)
  BY <1>1 DEF Fits, Copies
<1>4. app[x] \in Nat /\ Holders(x) \in Nat /\ Owed(x) \in Nat
  BY <1>2, Numbers
<1>5. app[x] + Holders(x) >= 1
  <2>1. CASE app[x] > 0
    BY <2>1, <1>4
  <2>2. CASE HeldBelow(x, k)
    <3>1. PICK i \in 1 .. k-1 : Holds(stack[i], x)
      BY <2>2 DEF HeldBelow
    <3>2. FrameOK(stack[i])
      BY StackTyped
    <3>3. CASE stack[i].op = "apply"
      <4>1. PICK n \in Names : val[<<stack[i].from, n, "user">>] = x
        BY <3>1, <3>3 DEF Holds
      <4>2. stack[i].from \in Objs /\ "user" \in Layers
        BY <3>2, <3>3, FrameShapes, LayersAssumption
      <4>3. QED BY <4>1, <4>2, <1>2, <1>4, HeldByPlaces
    <3>4. CASE stack[i].op = "copy"
      <4>1. PICK p \in DOMAIN elems[stack[i].from] : elems[stack[i].from][p] = x
        BY <3>1, <3>4 DEF Holds
      <4>2. stack[i].from \in Arrays
        BY <3>2, <3>4, FrameShapes
      <4>3. QED BY <4>1, <4>2, <1>2, <1>4, HeldByPlaces
    <3>5. QED BY <3>1, <3>3, <3>4 DEF Holds
  <2>3. QED BY <1>3, <2>1, <2>2
<1>6. refs[x] = app[x] + Holders(x) + Owed(x)
  BY <1>2 DEF Balanced
<1>7. QED BY <1>2, <1>4, <1>5, <1>6

-----------------------------------------------------------------------------
(* What a step changes.                                                    *)

(* Without a change to values and elements the holders stay.               *)
LEMMA HoldersKept ==
  ASSUME val' = val, elems' = elems, NEW x
  PROVE  Holders(x)' = Holders(x)
BY DEF Holders, Elements, Count

(* One value changes.                                                      *)
LEMMA ValueChanged ==
  ASSUME TypeOK, TypeOK', NEW o \in Objs, NEW n \in Names, NEW l \in Layers,
         \A s \in Slots \ {<<o, n, l>>} : val'[s] = val[s], elems' = elems, NEW x \in Cells
  PROVE  Holders(x)' = Holders(x) - One(val[<<o, n, l>>], x) + One(val'[<<o, n, l>>], x)
<1>1. DOMAIN val = Slots /\ DOMAIN val' = Slots /\ <<o, n, l>> \in Slots
  BY DEF TypeOK, Slots
<1>2. Count(val', x) = Count(val, x) - One(val[<<o, n, l>>], x) + One(val'[<<o, n, l>>], x)
  BY <1>1, SlotsFinite, CountChanged
<1>3. Holders(x)' = Count(val', x) + Count(ElementsOf(elems), x)
  BY DEF Holders, Elements, ElementsOf, Places, Count
<1>4. /\ Holders(x) = Count(val, x) + Count(ElementsOf(elems), x)
      /\ Count(val, x) \in Nat /\ Count(ElementsOf(elems), x) \in Nat
  BY Numbers
<1>5. One(val[<<o, n, l>>], x) \in Nat /\ One(val'[<<o, n, l>>], x) \in Nat
  BY DEF One
<1>6. QED BY <1>2, <1>3, <1>4, <1>5

(* The elements of one array change.                                       *)
LEMMA ElementsChanged ==
  ASSUME TypeOK, TypeOK', NEW a \in Arrays, \A b \in Arrays \ {a} : elems'[b] = elems[b],
         val' = val, NEW x \in Cells
  PROVE  /\ Holders(x)' = Holders(x) - Count(elems[a], x) + Count(elems'[a], x)
         /\ Count(elems[a], x) \in Nat /\ Count(elems'[a], x) \in Nat
<1>1. elems \in [Arrays -> Seq(Objs)] /\ elems' \in [Arrays -> Seq(Objs)]
  BY DEF TypeOK
<1>2. Count(ElementsOf(elems'), x) =
        Count(ElementsOf(elems), x) - Count(elems[a], x) + Count(elems'[a], x)
  BY <1>1, ArrayChanged
<1>3. Holders(x)' = Count(val, x) + Count(ElementsOf(elems'), x)
  BY DEF Holders, Elements, ElementsOf, Places, Count
<1>4. /\ Holders(x) = Count(val, x) + Count(ElementsOf(elems), x)
      /\ Count(val, x) \in Nat /\ Count(ElementsOf(elems), x) \in Nat
  BY Numbers
<1>5. Count(elems[a], x) \in Nat /\ Count(elems'[a], x) \in Nat
  <2>1. elems[a] \in Seq(Objs) /\ elems'[a] \in Seq(Objs)
    BY <1>1
  <2>2. IsFiniteSet(DOMAIN elems[a]) /\ IsFiniteSet(DOMAIN elems'[a])
    BY <2>1, SeqIsFinite
  <2>3. QED BY <2>2, CountNat
<1>6. QED BY <1>2, <1>3, <1>4, <1>5

(* The frames of a step.                                                   *)
LEMMA ShortStacks ==
  /\ FramesOK(<<>>)
  /\ \A f : FrameOK(f) => FramesOK(<<f>>)
  /\ \A f, g : FrameOK(f) /\ FrameOK(g) => FramesOK(<<f, g>>)
  /\ \A f, g, h, i : FrameOK(f) /\ FrameOK(g) /\ FrameOK(h) /\ FrameOK(i) =>
                     FramesOK(<<f, g, h, i>>)
<1>1. ASSUME NEW S, NEW s \in Seq(S), \A f \in S : FrameOK(f) PROVE FramesOK(s)
  <2>1. DOMAIN s = 1 .. Len(s) /\ Len(s) \in Nat /\ \A k \in 1 .. Len(s) : s[k] \in S
    BY SeqIsFinite, ElementOfSeq
  <2>2. ToSet(s) = {s[k] : k \in 1 .. Len(s)}
    BY <2>1 DEF ToSet
  <2>3. s \in Seq(ToSet(s))
    BY <2>2
  <2>4. QED BY <1>1, <2>1, <2>2, <2>3 DEF FramesOK
<1>2. FramesOK(<<>>)
  <2> DEFINE S == {}
             s == <<>>
  <2>1. s \in Seq(S) /\ \A e \in S : FrameOK(e)
    OBVIOUS
  <2> HIDE DEF S, s
  <2>2. FramesOK(s)
    BY <2>1, <1>1
  <2>3. QED BY <2>2 DEF s
<1>3. ASSUME NEW f, FrameOK(f) PROVE FramesOK(<<f>>)
  <2> DEFINE S == {f}
             s == <<f>>
  <2>1. s \in Seq(S) /\ \A e \in S : FrameOK(e)
    BY <1>3
  <2> HIDE DEF S, s
  <2>2. FramesOK(s)
    BY <2>1, <1>1
  <2>3. QED BY <2>2 DEF s
<1>4. ASSUME NEW f, NEW g, FrameOK(f), FrameOK(g) PROVE FramesOK(<<f, g>>)
  <2> DEFINE S == {f, g}
             s == <<f, g>>
  <2>1. s \in Seq(S) /\ \A e \in S : FrameOK(e)
    BY <1>4
  <2> HIDE DEF S, s
  <2>2. FramesOK(s)
    BY <2>1, <1>1
  <2>3. QED BY <2>2 DEF s
<1>5. ASSUME NEW f, NEW g, NEW h, NEW i, FrameOK(f), FrameOK(g), FrameOK(h), FrameOK(i)
      PROVE  FramesOK(<<f, g, h, i>>)
  <2> DEFINE S == {f, g, h, i}
             s == <<f, g, h, i>>
  <2>1. s \in Seq(S) /\ \A e \in S : FrameOK(e)
    BY <1>5
  <2> HIDE DEF S, s
  <2>2. FramesOK(s)
    BY <2>1, <1>1
  <2>3. QED BY <2>2 DEF s
<1>6. QED BY <1>2, <1>3, <1>4, <1>5

(* The top frame becomes the frames fs.                                    *)
LEMMA TopReplaced ==
  ASSUME TypeOK, stack # <<>>, NEW fs, FramesOK(fs), Replace(fs)
  PROVE  /\ FramesOK(stack')
         /\ Len(stack) \in Nat \ {0} /\ Len(fs) \in Nat /\ Top = stack[Len(stack)]
         /\ Len(stack') = Len(stack) - 1 + Len(fs)
         /\ \A i \in 1 .. Len(stack) - 1 : stack'[i] = stack[i]
         /\ \A i \in 1 .. Len(fs) : stack'[Len(stack) - 1 + i] = fs[i]
         /\ \A x : Owed(x)' = Owed(x) - One(Top, Releasing(x)) + Count(fs, Releasing(x))
         /\ \A f \in ToSet(stack) : f = Top \/ f \in ToSet(stack')
         /\ \A i \in 1 .. Len(fs) : fs[i] \in ToSet(stack')
<1> DEFINE T == ToSet(stack) \cup ToSet(fs)
<1>1. stack \in Seq(T) /\ fs \in Seq(T) /\ \A f \in T : FrameOK(f)
  BY DEF TypeOK, FramesOK
<1>2. stack' = Front(stack) \o fs
  BY DEF Replace
<1> HIDE DEF T
<1>3. /\ stack' \in Seq(T) /\ Len(stack) \in Nat \ {0} /\ Len(fs) \in Nat
      /\ Len(stack') = Len(stack) - 1 + Len(fs)
      /\ \A i \in 1 .. Len(stack) - 1 : stack'[i] = stack[i]
      /\ \A i \in 1 .. Len(fs) : stack'[Len(stack) - 1 + i] = fs[i]
      /\ \A x : Count(stack', x) = Count(stack, x) - One(stack[Len(stack)], x) + Count(fs, x)
  <2> DEFINE u == Front(stack) \o fs
  <2>1. /\ u \in Seq(T) /\ Len(stack) \in Nat \ {0} /\ Len(fs) \in Nat
        /\ Len(u) = Len(stack) - 1 + Len(fs)
        /\ \A i \in 1 .. Len(stack) - 1 : u[i] = stack[i]
        /\ \A i \in 1 .. Len(fs) : u[Len(stack) - 1 + i] = fs[i]
        /\ \A x : Count(u, x) = Count(stack, x) - One(stack[Len(stack)], x) + Count(fs, x)
    <3>1. stack # <<>>
      OBVIOUS
    <3>2. QED BY <1>1, <3>1, Replaced
  <2> HIDE DEF u
  <2>2. stack' = u
    BY <1>2 DEF u
  <2>3. QED BY <2>1, <2>2
<1>4. Top = stack[Len(stack)]
  BY DEF Top, Last
<1>5. DOMAIN stack' = 1 .. Len(stack')
  BY <1>3
<1>6. ToSet(stack') = {stack'[k] : k \in 1 .. Len(stack')}
  BY <1>5 DEF ToSet
<1>7. FramesOK(stack')
  <2>1. ToSet(stack') \subseteq T
    BY <1>3, <1>6
  <2>2. stack' \in Seq(ToSet(stack'))
    BY <1>3, <1>6
  <2>3. QED BY <1>1, <2>1, <2>2 DEF FramesOK
<1>8. \A x : Owed(x)' = Owed(x) - One(Top, Releasing(x)) + Count(fs, Releasing(x))
  BY <1>3, <1>4 DEF Owed, Count
<1>9. \A f \in ToSet(stack) : f = Top \/ f \in ToSet(stack')
  <2>1. ASSUME NEW k \in 1 .. Len(stack) PROVE stack[k] = Top \/ stack[k] \in ToSet(stack')
    <3>1. CASE k = Len(stack)
      BY <1>4, <3>1
    <3>2. CASE k # Len(stack)
      <4>1. k \in 1 .. Len(stack) - 1 /\ k \in 1 .. Len(stack')
        BY <1>3, <3>2
      <4>2. stack'[k] = stack[k]
        BY <1>3, <4>1
      <4>3. QED BY <1>6, <4>1, <4>2
    <3>3. QED BY <3>1, <3>2
  <2>2. QED BY <2>1, StackTyped
<1>10. \A i \in 1 .. Len(fs) : fs[i] \in ToSet(stack')
  <2>1. ASSUME NEW i \in 1 .. Len(fs) PROVE fs[i] \in ToSet(stack')
    <3>1. Len(stack) - 1 + i \in 1 .. Len(stack') /\ stack'[Len(stack) - 1 + i] = fs[i]
      BY <1>3
    <3>2. QED BY <1>6, <3>1
  <2>2. QED BY <2>1
<1>11. QED BY <1>3, <1>4, <1>7, <1>8, <1>9, <1>10

(* A lower frame still fits.                                               *)
LEMMA LowerFits ==
  ASSUME NEW k \in Nat \ {0}, NEW f, FrameOK(f), Fits(f, k), app' = app,
         \A j \in 1 .. k-1 : stack'[j] = stack[j],
         \A x \in Cells, j \in 1 .. k-1 : stack[j] = Releasing(x) /\ refs[x] = 1 => refs'[x] = 1,
         \A x \in Cells : f = Destroying(x) => refs'[x] = 0,
         Copies(f) => \A x \in Cells : HeldBelow(x, k) => HeldBelow(x, k)'
  PROVE  Fits(f, k)'
<1>1. \A x \in Cells : Fresh(x, k) => Fresh(x, k)'
  BY DEF Fresh
<1>2. \A v : Given(v, k) => Given(v, k)'
  BY DEF Given
<1>3. (\A i \in 2 .. k-1 : ~Copies(stack[i])) => (\A i \in 2 .. k-1 : ~Copies(stack[i]))'
  BY DEF Copies
<1> USE FrameShapes DEF Cells
<1>4. (f.op = "destroy" => refs[f.cell] = 0)'
  OBVIOUS
<1>5. (f.op = "erase" => \/ k = 1 /\ app[f.to] > 0
                         \/ k > 1 /\ stack[k-1] = Destroying(f.to))'
  <2>1. k > 1 => stack'[k-1] = stack[k-1]
    OBVIOUS
  <2>2. QED BY <2>1 DEF Fits, Destroying
<1>6. (f.op = "clear" => k = 1 /\ app[f.to] > 0)'
  BY DEF Fits
<1>7. (f.op = "set" => /\ Given(f.value, k)
                       /\ \/ Fresh(f.to, k)
                          \/ app[f.to] > 0 /\ \A i \in 2 .. k-1 : ~Copies(stack[i]))'
  BY <1>1, <1>2, <1>3 DEF Fits
<1>8. (f.op = "push" => Fresh(f.to, k) /\ Given(f.value, k))'
  BY <1>1, <1>2 DEF Fits
<1>9. (f.op = "apply" => \/ k = 1 /\ app[f.to] > 0 /\ app[f.from] > 0
                         \/ Fresh(f.to, k) /\ HeldBelow(f.from, k))'
  BY <1>1 DEF Fits, Copies
<1>10. (f.op = "copy" => Fresh(f.to, k) /\ HeldBelow(f.from, k))'
  BY <1>1 DEF Fits, Copies
<1>11. (f.op = "members" => (k = 1 /\ app[f.to] > 0) \/ Fresh(f.to, k))'
  BY <1>1 DEF Fits
<1>12. (f.op = "elements" => Fresh(f.to, k))'
  BY <1>1 DEF Fits
<1> HIDE FrameShapes
<1>13. QED BY <1>4, <1>5, <1>6, <1>7, <1>8, <1>9, <1>10, <1>11, <1>12 DEF Fits

(* Below the top, what is new stays its maker's, what is being destroyed   *)
(* stays free, and what copies hold stays held.                            *)
RefsBelowKept ==
  /\ \A x \in Cells, j \in 1 .. Len(stack) - 2 :
       stack[j] = Releasing(x) /\ refs[x] = 1 => refs'[x] = 1
  /\ \A x \in Cells, j \in 1 .. Len(stack) - 1 : stack[j] = Destroying(x) => refs'[x] = 0

CopiesBelowKept ==
  \A x \in Cells, k \in 1 .. Len(stack) - 1 :
    Copies(stack[k]) /\ HeldBelow(x, k) => HeldBelow(x, k)'

(* The frames fs that take the place of the top one fit, and so do those   *)
(* below.                                                                  *)
LEMMA FramesContinue ==
  ASSUME TypeOK, FramesInv, stack # <<>>, NEW fs, FramesOK(fs), Replace(fs), app' = app,
         RefsBelowKept, CopiesBelowKept,
         \A f, k : \A i \in 1 .. Len(fs) : f = fs[i] /\ k = Len(stack) - 1 + i => Fits(f, k)'
  PROVE  FramesInv'
<1>1. /\ Len(stack) \in Nat \ {0} /\ Len(fs) \in Nat
      /\ Len(stack') = Len(stack) - 1 + Len(fs)
      /\ \A i \in 1 .. Len(stack) - 1 : stack'[i] = stack[i]
      /\ \A i \in 1 .. Len(fs) : stack'[Len(stack) - 1 + i] = fs[i]
  BY TopReplaced
<1>2. ASSUME NEW f, NEW k \in 1 .. Len(stack'), f = stack'[k] PROVE Fits(f, k)'
  <2>1. CASE k < Len(stack)
    <3>1. k \in 1 .. Len(stack) - 1 /\ f = stack[k] /\ k \in Nat \ {0}
      BY <1>1, <1>2, <2>1
    <3>2. Fits(f, k) /\ FrameOK(f)
      <4>1. k \in 1 .. Len(stack)
        BY <3>1, <1>1
      <4>2. \A i \in 1 .. Len(stack) : FrameOK(stack[i])
        BY StackTyped
      <4>3. QED BY <3>1, <4>1, <4>2 DEF FramesInv
    <3>3. \A j \in 1 .. k-1 : stack'[j] = stack[j]
      BY <3>1, <1>1
    <3>4. \A x \in Cells, j \in 1 .. k-1 : stack[j] = Releasing(x) /\ refs[x] = 1 => refs'[x] = 1
      BY <3>1, <1>1 DEF RefsBelowKept
    <3>5. \A x \in Cells : f = Destroying(x) => refs'[x] = 0
      BY <3>1 DEF RefsBelowKept
    <3>6. Copies(f) => \A x \in Cells : HeldBelow(x, k) => HeldBelow(x, k)'
      BY <3>1 DEF CopiesBelowKept
    <3>7. QED BY <3>1, <3>2, <3>3, <3>4, <3>5, <3>6, LowerFits
  <2>2. CASE k >= Len(stack)
    <3>1. /\ k - Len(stack) + 1 \in 1 .. Len(fs) /\ f = fs[k - Len(stack) + 1]
          /\ Len(stack) - 1 + (k - Len(stack) + 1) = k
      BY <1>1, <1>2, <2>2
    <3>2. QED BY <3>1
  <2>3. QED BY <1>1, <2>1, <2>2
<1>3. QED BY <1>2 DEF FramesInv

(* A step that changes no value changes nothing that is copied.            *)
LEMMA CopiesKept ==
  ASSUME TypeOK, \A j \in 1 .. Len(stack)-1 : stack'[j] = stack[j],
         val' = val, elems' = elems
  PROVE  CopiesBelowKept
<1>1. ASSUME NEW x \in Cells, NEW k \in 1 .. Len(stack)-1, HeldBelow(x, k) PROVE HeldBelow(x, k)'
  <2>1. PICK i \in 1 .. k-1 : Holds(stack[i], x)
    BY <1>1 DEF HeldBelow
  <2>2. stack'[i] = stack[i]
    BY <2>1, StackTyped
  <2>3. (Holds(stack[i], x))'
    BY <2>1, <2>2 DEF Holds
  <2>4. QED BY <2>3 DEF HeldBelow
<1>2. QED BY <1>1 DEF CopiesBelowKept

(* What o has changes, and nobody is copying it.                           *)
LEMMA CopiesOfOthersKept ==
  ASSUME TypeOK, Balanced, FramesInv,
         \A j \in 1 .. Len(stack)-1 : stack'[j] = stack[j], NEW o \in Cells,
         refs[o] = 0 \/ Fresh(o, Len(stack)) \/ \A i \in 2 .. Len(stack)-1 : ~Copies(stack[i]),
         \A x \in Objs \ {o}, n \in Names : val'[<<x, n, "user">>] = val[<<x, n, "user">>],
         \A a \in Arrays \ {o} : elems'[a] = elems[a]
  PROVE  CopiesBelowKept
<1>1. ASSUME NEW x \in Cells, NEW k \in 1 .. Len(stack)-1, Copies(stack[k]), HeldBelow(x, k)
      PROVE  HeldBelow(x, k)'
  <2>1. PICK i \in 1 .. k-1 : Holds(stack[i], x)
    BY <1>1 DEF HeldBelow
  <2>2. i \in 1 .. Len(stack) /\ stack'[i] = stack[i] /\ Copies(stack[i]) /\ Len(stack) \in Nat
    BY <2>1, StackTyped DEF Holds, Copies
  <2>3. stack[i].from \in Cells /\ refs[stack[i].from] >= 1 + Owed(stack[i].from)
    BY <2>2, SourceKept
  <2>4. stack[i].from # o
    <3>1. CASE refs[o] = 0
      BY <2>3, <3>1, Numbers
    <3>2. CASE Fresh(o, Len(stack))
      <4>1. Len(stack) \in 1 .. Len(stack) + 1
        BY <2>2
      <4>2. Owed(o) = 1 /\ refs[o] = 1
        BY <3>2, <4>1, FreshAlone
      <4>3. QED BY <2>3, <4>2
    <3>3. CASE \A j \in 2 .. Len(stack)-1 : ~Copies(stack[j])
      <4>1. k \in 2 .. Len(stack)-1
        BY <2>1, <2>2
      <4>2. QED BY <1>1, <3>3, <4>1
    <3>4. QED BY <3>1, <3>2, <3>3
  <2>5. FrameOK(stack[i])
    BY <2>2, StackTyped
  <2>6. (Holds(stack[i], x))'
    <3> DEFINE f == stack[i]
    <3>1. stack'[i] = f /\ f.from # o /\ Holds(f, x)
      BY <2>1, <2>2, <2>4
    <3>2. (f.op = "apply" => f.from \in Objs) /\ (f.op = "copy" => f.from \in Arrays)
      BY <2>5, FrameShapes
    <3>3. ASSUME f.op = "apply" PROVE \E n \in Names : val'[<<f.from, n, "user">>] = x
      <4>1. PICK n \in Names : val[<<f.from, n, "user">>] = x
        BY <3>1, <3>3 DEF Holds
      <4>2. QED BY <3>1, <3>2, <3>3, <4>1
    <3>4. ASSUME f.op = "copy" PROVE \E p \in DOMAIN elems'[f.from] : elems'[f.from][p] = x
      <4>1. elems'[f.from] = elems[f.from]
        BY <3>1, <3>2, <3>4
      <4>2. QED BY <3>1, <3>4, <4>1 DEF Holds
    <3>5. f.op = "apply" \/ f.op = "copy"
      BY <3>1 DEF Holds
    <3> HIDE DEF f
    <3>6. QED BY <3>1, <3>3, <3>4, <3>5 DEF Holds
  <2>7. QED BY <2>6 DEF HeldBelow
<1>2. QED BY <1>1 DEF CopiesBelowKept

(* A frame counts as a release of x when it is one.                        *)
LEMMA OneOfFrame ==
  /\ \A x, y : One(Releasing(y), Releasing(x)) = One(y, x)
  /\ \A f, x : f.op # "release" => One(f, Releasing(x)) = 0
  /\ \A x, y : One(y, x) \in {0, 1} /\ (One(y, x) = 1 <=> y = x)
BY ShapesApart DEF One

-----------------------------------------------------------------------------
(* What holds between any two steps.                                       *)

Sound == Balanced /\ FreeBlank /\ FramesInv

(* A function on top, about to take a step.                                *)
Running == /\ TypeOK /\ ~odd /\ Sound /\ stack # <<>>
           /\ app' = app /\ misused' = misused

HeapTyped ==
  /\ type \in [Items -> Types \cup {"none"}]
  /\ val \in [Slots -> Values \cup {"unset"}]
  /\ elems \in [Arrays -> Seq(Objs)] /\ \A a \in Arrays : Len(elems[a]) =< MaxLen
  /\ refs \in [Cells -> Nat] /\ odd \in BOOLEAN
  /\ (~odd => \A o \in Objs, n \in Names, l \in Layers :
                val[<<o, n, l>>] # "unset" => type[<<o, n>>] = Kind(val[<<o, n, l>>]))

(* Numbers, of the state after a step.                                     *)
LEMMA HoldersNext ==
  ASSUME TypeOK', NEW x
  PROVE  Holders(x)' \in Nat
<1>1. Count(val', x) \in Nat
  <2>1. DOMAIN val' = Slots
    BY DEF TypeOK
  <2>2. QED BY <2>1, SlotsFinite, CountNat
<1>2. Count(ElementsOf(elems'), x) \in Nat
  <2>1. elems' \in [Arrays -> Seq(Objs)]
    BY DEF TypeOK
  <2>2. QED BY <2>1, PlacesFinite, CountNat
<1>3. Holders(x)' = Count(val', x) + Count(ElementsOf(elems'), x)
  BY DEF Holders, Elements, ElementsOf, Places, Count
<1>4. QED BY <1>1, <1>2, <1>3

(* A step keeps the types if it keeps those of the heap.                   *)
LEMMA TypeOfStep ==
  ASSUME Running, NEW fs, FramesOK(fs), Replace(fs), HeapTyped'
  PROVE  TypeOK'
<1>1. FramesOK(stack')
  BY TopReplaced DEF Running
<1>2. QED BY <1>1 DEF Running, HeapTyped, TypeOK, FramesOK

(* A step is sound if the counts of cells change as their holders and      *)
(* owners do, what becomes free is blank, and the new frames fit.          *)
LEMMA SoundStep ==
  ASSUME Running, NEW fs, FramesOK(fs), Replace(fs), HeapTyped',
         RefsBelowKept, CopiesBelowKept,
         \A x \in Cells :
           refs'[x] - refs[x] = Holders(x)' - Holders(x)
                                - One(Top, Releasing(x)) + Count(fs, Releasing(x)),
         \A x \in Cells :
           \/ refs'[x] # 0
           \/ Blank(x)'
           \/ refs[x] = 0 /\ Top # Destroying(x) /\ (Blank(x) => Blank(x)')
           \/ \E i \in 1 .. Len(fs) : fs[i] = Destroying(x),
         \A f, k : \A i \in 1 .. Len(fs) : f = fs[i] /\ k = Len(stack) - 1 + i => Fits(f, k)'
  PROVE  TypeOK' /\ Sound'
<1>1. /\ FramesOK(stack')
      /\ \A x : Owed(x)' = Owed(x) - One(Top, Releasing(x)) + Count(fs, Releasing(x))
      /\ \A f \in ToSet(stack) : f = Top \/ f \in ToSet(stack')
      /\ \A i \in 1 .. Len(fs) : fs[i] \in ToSet(stack')
  BY TopReplaced DEF Running
<1>2. TypeOK'
  BY TypeOfStep
<1>3. Balanced'
  <2>1. ASSUME NEW x \in Cells PROVE refs'[x] = app'[x] + Holders(x)' + Owed(x)'
    <3>1. refs[x] = app[x] + Holders(x) + Owed(x)
      BY DEF Balanced, Running, Sound
    <3>2. refs[x] \in Nat /\ app[x] \in Nat /\ Holders(x) \in Nat /\ Owed(x) \in Nat
      BY Numbers DEF Running
    <3>3. refs'[x] \in Nat /\ Holders(x)' \in Nat
      BY <1>2, HoldersNext DEF TypeOK
    <3>4. One(Top, Releasing(x)) \in Nat
      BY OneOfFrame
    <3>5. Count(fs, Releasing(x)) \in Nat
      <4>1. IsFiniteSet(DOMAIN fs)
        BY SeqIsFinite DEF FramesOK
      <4>2. QED BY <4>1, CountNat
    <3>6. /\ refs'[x] - refs[x] = Holders(x)' - Holders(x)
                                  - One(Top, Releasing(x)) + Count(fs, Releasing(x))
          /\ Owed(x)' = Owed(x) - One(Top, Releasing(x)) + Count(fs, Releasing(x))
          /\ app' = app
      BY <1>1 DEF Running
    <3> DEFINE r == refs[x]
               h == Holders(x)
               w == Owed(x)
               n == One(Top, Releasing(x))
               c == Count(fs, Releasing(x))
               rr == refs'[x]
               hh == Holders(x)'
               ww == Owed(x)'
    <3>7. rr = app[x] + hh + ww
      <4>1. r = app[x] + h + w /\ rr - r = hh - h - n + c /\ ww = w - n + c
        BY <3>1, <3>6
      <4>2. /\ r \in Nat /\ app[x] \in Nat /\ h \in Nat /\ w \in Nat /\ n \in Nat /\ c \in Nat
            /\ rr \in Nat /\ hh \in Nat
        BY <3>2, <3>3, <3>4, <3>5
      <4> DEFINE a == app[x]
      <4>3. r = a + h + w /\ a \in Nat
        BY <4>1, <4>2
      <4> HIDE DEF r, h, w, n, c, rr, hh, ww, a
      <4>4. ww \in Int
        BY <4>1, <4>2
      <4>5. rr = a + hh + ww
        BY <4>1, <4>2, <4>3, <4>4
      <4>6. QED BY <4>5 DEF a
    <3>8. QED BY <3>6, <3>7
  <2>2. QED BY <2>1 DEF Balanced
<1>4. FreeBlank'
  <2>1. ASSUME NEW x \in Cells, refs'[x] = 0, Destroying(x) \notin ToSet(stack')
        PROVE  Blank(x)'
    <3>1. CASE refs[x] = 0 /\ Top # Destroying(x) /\ (Blank(x) => Blank(x)')
      <4>1. Destroying(x) \notin ToSet(stack)
        BY <1>1, <2>1, <3>1
      <4>2. Blank(x)
        BY <3>1, <4>1 DEF FreeBlank, Free, Running, Sound
      <4>3. QED BY <3>1, <4>2
    <3>2. CASE \E i \in 1 .. Len(fs) : fs[i] = Destroying(x)
      BY <1>1, <2>1, <3>2
    <3>3. QED BY <2>1, <3>1, <3>2
  <2>2. QED BY <2>1 DEF FreeBlank, Free
<1>5. FramesInv'
  BY FramesContinue DEF Running, Sound
<1>6. QED BY <1>2, <1>3, <1>4, <1>5 DEF Sound

(* What is destroyed has no reference.                                     *)
LEMMA DestroyedAreFree ==
  ASSUME TypeOK, FramesInv
  PROVE  \A x \in Cells, j \in 1 .. Len(stack) : stack[j] = Destroying(x) => refs[x] = 0
<1>1. ASSUME NEW x \in Cells, NEW j \in 1 .. Len(stack), stack[j] = Destroying(x)
      PROVE  refs[x] = 0
  <2>1. Fits(Destroying(x), j)
    BY <1>1 DEF FramesInv
  <2>2. QED BY <2>1, ShapesApart DEF Fits
<1>2. QED BY <1>1

(* A step that counts nothing.                                             *)
LEMMA RefsBelowSame ==
  ASSUME Running, refs' = refs
  PROVE  RefsBelowKept
<1>1. Len(stack) \in Nat
  BY StackTyped DEF Running
<1>2. QED BY <1>1, DestroyedAreFree DEF RefsBelowKept, Running, Sound

(* References are given up that are owned on top, taken to what another    *)
(* has, or those of a new cell.                                            *)
LEMMA RefsBelowChanged ==
  ASSUME Running, NEW z \in Cells, \A x \in Cells \ {z} : refs'[x] = refs[x],
         \/ refs[z] > 0 /\ (Top = Releasing(z) \/ Given(z, Len(stack)))
         \/ z \in Free(Cells)
  PROVE  RefsBelowKept
<1>1. /\ Len(stack) \in Nat \ {0} /\ Top = stack[Len(stack)]
      /\ ToSet(stack) = {stack[k] : k \in 1 .. Len(stack)}
  BY StackTyped DEF Running, Top, Last
<1>2. ASSUME NEW j \in 1 .. Len(stack) - 2, stack[j] = Releasing(z) PROVE refs[z] # 1
  <2>1. Owed(z) >= 1
    BY <1>1, <1>2, OwedByFrames DEF Running
  <2>2. refs[z] = app[z] + Holders(z) + Owed(z)
    BY DEF Running, Sound, Balanced
  <2>3. app[z] \in Nat /\ Holders(z) \in Nat /\ Owed(z) \in Nat
    BY Numbers DEF Running
  <2>4. ASSUME NEW i \in 1 .. Len(stack), i # j, stack[i] = Releasing(z) PROVE refs[z] # 1
    <3>1. Owed(z) >= 2
      BY <1>1, <1>2, <2>4, OwedByFrames DEF Running
    <3>2. QED BY <2>2, <2>3, <3>1
  <2>5. CASE Top = Releasing(z)
    <3>1. Len(stack) \in 1 .. Len(stack) /\ Len(stack) # j /\ stack[Len(stack)] = Releasing(z)
      BY <1>1, <2>5
    <3>2. QED BY <2>4, <3>1
  <2>6. CASE Given(z, Len(stack))
    <3>1. CASE app[z] > 0
      BY <2>1, <2>2, <2>3, <3>1
    <3>2. CASE stack[Len(stack) - 1] = Releasing(z)
      BY <1>1, <2>4, <3>2
    <3>3. QED BY <2>6, <3>1, <3>2 DEF Given
  <2>7. CASE z \in Free(Cells)
    BY <2>7 DEF Free
  <2>8. QED BY <2>5, <2>6, <2>7
<1>3. ASSUME NEW j \in 1 .. Len(stack) - 1 PROVE stack[j] # Destroying(z)
  <2>1. j \in 1 .. Len(stack)
    BY <1>1
  <2>2. CASE refs[z] > 0
    <3>1. stack[j] = Destroying(z) => refs[z] = 0
      BY <2>1, DestroyedAreFree DEF Running, Sound
    <3>2. QED BY <2>2, <3>1
  <2>3. CASE z \in Free(Cells)
    BY <1>1, <2>1, <2>3 DEF Free
  <2>4. QED BY <2>2, <2>3
<1>4. \A x \in Cells, j \in 1 .. Len(stack) - 1 : stack[j] = Destroying(x) => refs[x] = 0
  BY <1>1, DestroyedAreFree DEF Running, Sound
<1>5. QED BY <1>2, <1>3, <1>4 DEF RefsBelowKept

-----------------------------------------------------------------------------
(* The steps of the functions.                                             *)

(* The last reference begins the destruction; no one else can have one.    *)
LEMMA ReleaseStep ==
  ASSUME Running, NEW x \in Cells, Release(x), refs[x] > 0
  PROVE  TypeOK' /\ Sound'
<1> DEFINE fs == IF refs[x] = 1 THEN <<Destroying(x)>> ELSE <<>>
<1>1. /\ Replace(fs) /\ UNCHANGED <<type, val, elems, odd>> /\ Top = Releasing(x)
      /\ refs' = [refs EXCEPT ![x] = @ - 1]
  BY DEF Release
<1>2. FramesOK(fs)
  <2>1. FrameOK(Destroying(x))
    BY DEF FrameOK
  <2>2. QED BY <2>1, ShortStacks
<1>3. /\ refs[x] \in Nat /\ refs'[x] = refs[x] - 1
      /\ \A y \in Cells \ {x} : refs'[y] = refs[y]
      /\ refs' \in [Cells -> Nat]
  BY <1>1 DEF Running, TypeOK
<1>4. HeapTyped'
  BY <1>1, <1>3 DEF Running, TypeOK, HeapTyped
<1>5. RefsBelowKept
  BY <1>1, <1>3, RefsBelowChanged
<1>6. \A j \in 1 .. Len(stack) - 1 : stack'[j] = stack[j]
  BY <1>1, <1>2, TopReplaced DEF Running
<1>7. CopiesBelowKept
  BY <1>1, <1>6, CopiesKept DEF Running
<1>8. ASSUME NEW y \in Cells
      PROVE  refs'[y] - refs[y] = Holders(y)' - Holders(y)
                                  - One(Top, Releasing(y)) + Count(fs, Releasing(y))
  <2>1. Holders(y)' = Holders(y) /\ Holders(y) \in Nat
    BY <1>1, HoldersKept, Numbers DEF Running
  <2>2. One(Top, Releasing(y)) = One(x, y)
    BY <1>1, OneOfFrame
  <2>3. Count(fs, Releasing(y)) = 0
    BY CountSingle, OneOfFrame, ShapesApart
  <2>4. refs'[y] - refs[y] = 0 - One(x, y)
    BY <1>3 DEF One, Running, TypeOK
  <2>5. One(x, y) \in Nat
    BY DEF One
  <2> HIDE DEF fs
  <2>6. QED BY <2>1, <2>2, <2>3, <2>4, <2>5
<1>9. ASSUME NEW y \in Cells, refs'[y] = 0
      PROVE  \/ refs[y] = 0 /\ Top # Destroying(y) /\ (Blank(y) => Blank(y)')
             \/ \E i \in 1 .. Len(fs) : fs[i] = Destroying(y)
  <2>1. CASE y = x
    <3>1. refs[x] = 1
      BY <1>3, <1>9, <2>1
    <3>2. fs = <<Destroying(y)>>
      BY <2>1, <3>1
    <3>3. Len(fs) = 1 /\ fs[1] = Destroying(y)
      BY <3>2
    <3>4. QED BY <3>3
  <2>2. CASE y # x
    <3>1. Blank(y) => Blank(y)'
      BY <1>1 DEF Blank
    <3>2. QED BY <1>1, <1>3, <1>9, <2>2, <3>1, ShapesApart
  <2>3. QED BY <2>1, <2>2
<1>10. ASSUME NEW f, NEW k, NEW i \in 1 .. Len(fs), f = fs[i] PROVE Fits(f, k)'
  <2>1. f = Destroying(x) /\ refs'[x] = 0
    BY <1>3, <1>10
  <2>2. QED BY <2>1, ShapesApart DEF Fits
<1> HIDE DEF fs
<1>11. QED BY <1>1, <1>2, <1>4, <1>5, <1>7, <1>8, <1>9, <1>10, SoundStep

(* The heap stays as it is, and nothing is to be released.                 *)
LEMMA QuietStep ==
  ASSUME Running, NEW fs, FramesOK(fs), Replace(fs), UNCHANGED <<type, val, elems, refs, odd>>,
         Top.op # "release", \A i \in 1 .. Len(fs) : fs[i].op # "release",
         \A x \in Cells : \/ Top # Destroying(x)
                          \/ Blank(x)
                          \/ \E i \in 1 .. Len(fs) : fs[i] = Destroying(x),
         \A f, k : \A i \in 1 .. Len(fs) : f = fs[i] /\ k = Len(stack) - 1 + i => Fits(f, k)'
  PROVE  TypeOK' /\ Sound'
<1>1. HeapTyped'
  BY DEF Running, TypeOK, HeapTyped
<1>2. RefsBelowKept
  BY RefsBelowSame
<1>3. \A j \in 1 .. Len(stack) - 1 : stack'[j] = stack[j]
  BY TopReplaced DEF Running
<1>4. CopiesBelowKept
  BY <1>3, CopiesKept DEF Running
<1>5. ASSUME NEW x \in Cells
      PROVE  refs'[x] - refs[x] = Holders(x)' - Holders(x)
                                  - One(Top, Releasing(x)) + Count(fs, Releasing(x))
  <2>1. Holders(x)' = Holders(x) /\ Holders(x) \in Nat /\ refs'[x] = refs[x] /\ refs[x] \in Nat
    BY HoldersKept, Numbers DEF Running
  <2>2. One(Top, Releasing(x)) = 0
    BY OneOfFrame
  <2>3. Count(fs, Releasing(x)) = 0
    <3>1. DOMAIN fs = 1 .. Len(fs)
      BY SeqIsFinite DEF FramesOK
    <3>2. \A d \in DOMAIN fs : fs[d] # Releasing(x)
      BY <3>1, ShapesApart
    <3>3. QED BY <3>2, CountNone
  <2>4. QED BY <2>1, <2>2, <2>3
<1>6. \A x \in Cells : Blank(x) => Blank(x)'
  BY DEF Blank
<1>7. \A x \in Cells : \/ refs'[x] # 0
                       \/ Blank(x)'
                       \/ refs[x] = 0 /\ Top # Destroying(x) /\ (Blank(x) => Blank(x)')
                       \/ \E i \in 1 .. Len(fs) : fs[i] = Destroying(x)
  BY <1>6
<1>8. QED BY <1>1, <1>2, <1>4, <1>5, <1>7, SoundStep

(* A value is given up: what it is leaves the heap and is released.        *)
LEMMA GiveUpStep ==
  ASSUME Running, NEW o \in Objs, NEW n \in Names, NEW l \in Layers,
         val' = [val EXCEPT ![<<o, n, l>>] = "unset"], UNCHANGED <<type, elems, refs, odd>>,
         NEW f, FrameOK(f), Replace(Freeing(val[<<o, n, l>>], f)),
         f.op \in {"erase", "clear", "set"}, Top.op = f.op,
         \A k : k = Len(stack) => Fits(f, k),
         refs[o] = 0 \/ Fresh(o, Len(stack)) \/ \A i \in 2 .. Len(stack) - 1 : ~Copies(stack[i])
  PROVE  TypeOK' /\ Sound'
<1> DEFINE v == val[<<o, n, l>>]
           fs == Freeing(v, f)
<1>1. /\ <<o, n, l>> \in Slots /\ v \in Values \cup {"unset"} /\ val'[<<o, n, l>>] = "unset"
      /\ \A s \in Slots \ {<<o, n, l>>} : val'[s] = val[s]
      /\ val' \in [Slots -> Values \cup {"unset"}]
  BY DEF Running, TypeOK, Slots
<1>2. FramesOK(fs)
  <2>1. v \in Cells => FrameOK(Releasing(v))
    BY DEF FrameOK
  <2>2. QED BY <2>1, ShortStacks DEF Freeing
<1>3. HeapTyped'
  <2>1. \A p \in Objs, m \in Names, k \in Layers :
          val'[<<p, m, k>>] # "unset" => val[<<p, m, k>>] = val'[<<p, m, k>>]
    BY <1>1 DEF Slots
  <2>2. QED BY <1>1, <2>1 DEF Running, TypeOK, HeapTyped
<1>4. RefsBelowKept
  BY RefsBelowSame
<1>5. \A j \in 1 .. Len(stack) - 1 : stack'[j] = stack[j]
  BY <1>2, TopReplaced DEF Running
<1>6. CopiesBelowKept
  <2>1. \A x \in Objs \ {o}, m \in Names : val'[<<x, m, "user">>] = val[<<x, m, "user">>]
    BY <1>1, LayersAssumption DEF Slots
  <2>2. o \in Cells
    BY DEF Cells
  <2>3. QED BY <1>5, <2>1, <2>2, CopiesOfOthersKept DEF Running, Sound
<1>7. ASSUME NEW x \in Cells
      PROVE  refs'[x] - refs[x] = Holders(x)' - Holders(x)
                                  - One(Top, Releasing(x)) + Count(fs, Releasing(x))
  <2>1. TypeOK'
    BY <1>2, <1>3, TypeOfStep
  <2>2. Holders(x)' = Holders(x) - One(v, x) + One("unset", x)
    BY <1>1, <2>1, ValueChanged DEF Running
  <2>3. One("unset", x) = 0 /\ One(v, x) \in Nat
    BY CellsAssumption DEF One
  <2>4. One(Top, Releasing(x)) = 0 /\ One(f, Releasing(x)) = 0
    BY OneOfFrame
  <2>5. Count(fs, Releasing(x)) = One(v, x)
    <3>1. CASE v \in Cells
      <4>1. fs = <<f, Releasing(v)>>
        BY <3>1 DEF Freeing
      <4>2. Count(fs, Releasing(x)) = One(f, Releasing(x)) + One(Releasing(v), Releasing(x))
        BY <4>1, CountPair
      <4>3. QED BY <4>2, <2>3, <2>4, OneOfFrame
    <3>2. CASE v \notin Cells
      <4>1. fs = <<f>> /\ One(v, x) = 0
        BY <3>2 DEF Freeing, One
      <4>2. QED BY <4>1, <2>4, CountSingle
    <3>3. QED BY <3>1, <3>2
  <2>6. Holders(x) \in Nat /\ refs[x] \in Nat /\ refs'[x] = refs[x]
    BY Numbers DEF Running
  <2> HIDE DEF v, fs
  <2>7. QED BY <2>2, <2>3, <2>4, <2>5, <2>6
<1>8. \A x \in Cells : refs[x] = refs'[x] /\ Top # Destroying(x) /\ (Blank(x) => Blank(x)')
  <2>1. \A p \in Objs, m \in Names, k \in Layers :
          val[<<p, m, k>>] = "unset" => val'[<<p, m, k>>] = "unset"
    BY <1>1 DEF Slots
  <2>2. \A x \in Cells : Blank(x) => Blank(x)'
    BY <2>1 DEF Blank
  <2>3. QED BY <2>2, ShapesApart
<1>9. ASSUME NEW g, NEW k, NEW i \in 1 .. Len(fs), g = fs[i], k = Len(stack) - 1 + i
      PROVE  Fits(g, k)'
  <2>1. CASE g = f /\ k = Len(stack)
    <3>1. Fits(f, k) /\ k \in Nat \ {0} /\ \A j \in 1 .. k-1 : stack'[j] = stack[j]
      BY <1>5, <2>1, StackTyped DEF Running
    <3>2. \A x \in Cells : f # Destroying(x)
      BY ShapesApart
    <3>3. Fits(f, k)'
      BY <3>1, <3>2, LowerFits DEF Copies, Running
    <3>4. QED BY <2>1, <3>3
  <2>2. CASE v \in Cells /\ g = Releasing(v)
    BY <2>2, ShapesApart DEF Fits
  <2>3. QED
    <3>1. CASE v \in Cells
      <4>1. fs = <<f, Releasing(v)>> /\ i \in {1, 2}
        BY <3>1 DEF Freeing
      <4>2. Len(stack) \in Nat
        BY StackTyped DEF Running
      <4>3. QED BY <4>1, <4>2, <3>1, <2>1, <2>2, <1>9
    <3>2. CASE v \notin Cells
      <4>1. fs = <<f>> /\ i = 1
        BY <3>2 DEF Freeing
      <4>2. Len(stack) \in Nat
        BY StackTyped DEF Running
      <4>3. QED BY <4>1, <4>2, <2>1, <1>9
    <3>3. QED BY <3>1, <3>2
<1> HIDE DEF fs
<1>10. Replace(fs)
  BY DEF fs
<1>11. QED BY <1>2, <1>3, <1>4, <1>6, <1>7, <1>8, <1>9, <1>10, SoundStep

(* A frame on top, as the invariant has it.                                *)
LEMMA TopFits ==
  ASSUME Running
  PROVE  /\ FrameOK(Top) /\ Top = stack[Len(stack)] /\ Len(stack) \in Nat \ {0}
         /\ \A k : k = Len(stack) => Fits(Top, k)
<1>1. Top = stack[Len(stack)] /\ Len(stack) \in Nat \ {0} /\ FrameOK(stack[Len(stack)])
  BY StackTyped DEF Running, Top, Last
<1>2. \A k : k = Len(stack) => Fits(Top, k)
  BY <1>1 DEF Running, Sound, FramesInv
<1>3. QED BY <1>1, <1>2

(* An object under destruction, item by item; what is left is blank.       *)
LEMMA DestroyObjStep ==
  ASSUME Running, NEW x \in Objs, DestroyObj(x)
  PROVE  TypeOK' /\ Sound'
<1>1. Top = Destroying(x) /\ UNCHANGED <<type, val, elems, refs, odd>> /\ x \in Cells
  BY DEF DestroyObj, heapVars, Cells
<1>2. Top.op = "destroy" /\ \A y : Top = Destroying(y) => y = x
  BY <1>1, ShapesApart
<1>3. CASE \E n \in Names : Replace(<<Top, Erasing(x, n)>>)
  <2>1. PICK n \in Names : Replace(<<Top, Erasing(x, n)>>)
    BY <1>3
  <2> DEFINE fs == <<Top, Erasing(x, n)>>
  <2>2. FramesOK(fs)
    <3>1. FrameOK(Top) /\ FrameOK(Erasing(x, n))
      BY TopFits DEF FrameOK
    <3>2. QED BY <3>1, ShortStacks
  <2>3. Erasing(x, n).op = "erase" /\ Erasing(x, n).to = x
    BY DEF Erasing
  <2>4. Len(fs) = 2 /\ fs[1] = Destroying(x) /\ fs[2] = Erasing(x, n)
    BY <1>1
  <2>5. ASSUME NEW f, NEW k, NEW i \in 1 .. Len(fs), f = fs[i], k = Len(stack) - 1 + i
        PROVE  Fits(f, k)'
    <3>1. CASE i = 1
      <4>1. f = Destroying(x)
        BY <3>1, <2>4, <2>5
      <4>2. refs[x] = 0
        BY <1>1, TopFits, ShapesApart DEF Fits
      <4>3. QED BY <1>1, <4>1, <4>2, ShapesApart DEF Fits
    <3>2. CASE i = 2
      <4>1. f = Erasing(x, n) /\ k = Len(stack) + 1 /\ Len(stack) \in Nat \ {0}
        BY <3>2, <2>4, <2>5, TopFits
      <4>2. stack'[Len(stack) - 1 + 1] = fs[1]
        <5>1. Replace(fs) /\ 1 \in 1 .. Len(fs)
          BY <2>1, <2>4
        <5> HIDE DEF fs
        <5>2. QED BY <2>2, <5>1, TopReplaced DEF Running
      <4>3. k > 1 /\ stack'[k - 1] = Destroying(x)
        BY <4>1, <4>2, <2>4
      <4>4. QED BY <4>1, <4>3, <2>3 DEF Fits, Destroying
    <3>3. QED BY <2>4, <3>1, <3>2
  <2>6. Top.op # "release" /\ \A i \in 1 .. Len(fs) : fs[i].op # "release"
    BY <2>3, <2>4, <1>1, <1>2
  <2>7. \A y \in Cells : Top # Destroying(y) \/ \E i \in 1 .. Len(fs) : fs[i] = Destroying(y)
    BY <2>4, <1>2
  <2> HIDE DEF fs
  <2>8. Replace(fs)
    BY <2>1 DEF fs
  <2>9. QED BY <1>1, <2>2, <2>5, <2>6, <2>7, <2>8, QuietStep
<1>4. CASE (\A n \in Names : type[<<x, n>>] = "none") /\ Replace(<<>>)
  <2>1. Blank(x)
    <3>1. \A v \in Values : Kind(v) # "none"
      BY ScalarsAssumption DEF Kind, Values, Null, Cells
    <3>2. \A n \in Names, l \in Layers : val[<<x, n, l>>] \in Values \cup {"unset"}
      BY DEF Running, TypeOK, Slots
    <3>3. \A n \in Names, l \in Layers : val[<<x, n, l>>] = "unset"
      BY <1>4, <3>1, <3>2 DEF Running, TypeOK
    <3>4. QED BY <1>4, <3>3 DEF Blank
  <2>2. FramesOK(<<>>) /\ Len(<<>>) = 0
    BY ShortStacks
  <2>3. QED BY <1>1, <1>2, <1>4, <2>1, <2>2, QuietStep
<1>5. QED BY <1>3, <1>4 DEF DestroyObj

(* The reference of a value passes to the release that follows.            *)
LEMMA EraseItemStep ==
  ASSUME Running, NEW o \in Objs, NEW n \in Names, EraseItem(o, n)
  PROVE  TypeOK' /\ Sound'
<1>1. /\ Top = Erasing(o, n) /\ Top.op = "erase" /\ Top.to = o
      /\ UNCHANGED <<elems, refs, odd>>
  BY DEF EraseItem, Erasing
<1>2. ASSUME NEW l \in Layers, val' = [val EXCEPT ![<<o, n, l>>] = "unset"],
             Replace(Freeing(val[<<o, n, l>>], Top)), type' = type
      PROVE  TypeOK' /\ Sound'
  <2>1. refs[o] = 0 \/ \A i \in 2 .. Len(stack) - 1 : ~Copies(stack[i])
    <3>1. CASE Len(stack) = 1
      BY <3>1
    <3>2. CASE Len(stack) # 1
      <4>1. stack[Len(stack) - 1] = Destroying(o) /\ Len(stack) - 1 \in 1 .. Len(stack)
        <5>1. Fits(Top, Len(stack)) /\ Len(stack) \in Nat \ {0}
          BY TopFits
        <5>2. QED BY <1>1, <3>2, <5>1 DEF Fits
      <4>2. o \in Cells
        BY DEF Cells
      <4>3. QED BY <4>1, <4>2, DestroyedAreFree DEF Running, Sound
    <3>3. QED BY <3>1, <3>2
  <2>2. /\ FrameOK(Top) /\ (\A k : k = Len(stack) => Fits(Top, k))
        /\ Top.op \in {"erase", "clear", "set"}
    BY <1>1, TopFits
  <2> HIDE DEF Top
  <2>3. QED BY <1>1, <1>2, <2>1, <2>2, GiveUpStep
<1>3. ASSUME \A l \in Layers : val[<<o, n, l>>] = "unset",
             type' = [type EXCEPT ![<<o, n>>] = "none"], Replace(<<>>), val' = val
      PROVE  TypeOK' /\ Sound'
  <2>1. FramesOK(<<>>) /\ Len(<<>>) = 0
    BY ShortStacks
  <2>2. \A p \in Objs, m \in Names :
          type'[<<p, m>>] = type[<<p, m>>] \/ (p = o /\ m = n /\ type'[<<p, m>>] = "none")
    BY <1>3 DEF Running, TypeOK, Items
  <2>3. HeapTyped'
    <3>1. type' \in [Items -> Types \cup {"none"}]
      BY <1>3 DEF Running, TypeOK, Items
    <3>2. \A p \in Objs, m \in Names, l \in Layers :
            val[<<p, m, l>>] # "unset" => type'[<<p, m>>] = Kind(val[<<p, m, l>>])
      BY <1>3, <2>2 DEF Running, TypeOK
    <3>3. QED BY <1>1, <1>3, <3>1, <3>2 DEF Running, TypeOK, HeapTyped
  <2>4. RefsBelowKept
    BY <1>1, RefsBelowSame
  <2>5. \A j \in 1 .. Len(stack) - 1 : stack'[j] = stack[j]
    BY <1>3, <2>1, TopReplaced DEF Running
  <2>6. CopiesBelowKept
    BY <1>1, <1>3, <2>5, CopiesKept DEF Running
  <2>7. ASSUME NEW x \in Cells
        PROVE  refs'[x] - refs[x] = Holders(x)' - Holders(x)
                                    - One(Top, Releasing(x)) + Count(<<>>, Releasing(x))
    <3>1. Holders(x)' = Holders(x) /\ Holders(x) \in Nat /\ refs'[x] = refs[x] /\ refs[x] \in Nat
      BY <1>1, <1>3, HoldersKept, Numbers DEF Running
    <3>2. One(Top, Releasing(x)) = 0 /\ Count(<<>>, Releasing(x)) = 0
      BY <1>1, OneOfFrame, CountSingle
    <3>3. QED BY <3>1, <3>2
  <2>8. \A x \in Cells : refs'[x] = refs[x] /\ Top # Destroying(x) /\ (Blank(x) => Blank(x)')
    <3>1. \A x \in Cells : Blank(x) => Blank(x)'
      BY <1>1, <1>3, <2>2 DEF Blank
    <3>2. QED BY <1>1, <3>1, ShapesApart
  <2>9. QED BY <1>3, <2>1, <2>3, <2>4, <2>6, <2>7, <2>8, SoundStep
<1>4. QED BY <1>2, <1>3 DEF EraseItem

(* Likewise for the user value that is cleared.                            *)
LEMMA ClearItemStep ==
  ASSUME Running, ClearItem
  PROVE  TypeOK' /\ Sound'
<1> DEFINE o == Top.to
           ns == Top.names
<1>1. /\ o \in Objs /\ ns \subseteq Names /\ Len(stack) = 1 /\ app[o] > 0
      /\ UNCHANGED <<type, elems, refs, odd>> /\ Top.op = "clear"
  BY TopFits, FrameShapes DEF ClearItem, Fits
<1>2. ASSUME NEW n \in ns, val' = [val EXCEPT ![<<o, n, "user">>] = "unset"],
             Replace(Freeing(val[<<o, n, "user">>], Clearing(o, ns \ {n})))
      PROVE  TypeOK' /\ Sound'
  <2> DEFINE f == Clearing(o, ns \ {n})
  <2>1. f.op = "clear" /\ f.to = o /\ FrameOK(f)
    BY <1>1 DEF FrameOK, Clearing
  <2>2. \A k : k = Len(stack) => Fits(f, k)
    BY <1>1, <2>1 DEF Fits
  <2>3. \A i \in 2 .. Len(stack) - 1 : ~Copies(stack[i])
    BY <1>1
  <2> HIDE DEF f
  <2>4. Replace(Freeing(val[<<o, n, "user">>], f))
    BY <1>2 DEF f
  <2>5. n \in Names /\ "user" \in Layers /\ f.op \in {"erase", "clear", "set"} /\ Top.op = f.op
    BY <1>1, <2>1, LayersAssumption
  <2> HIDE DEF o, ns
  <2>6. QED BY <1>1, <1>2, <2>1, <2>2, <2>3, <2>4, <2>5, GiveUpStep
<1>3. ASSUME Replace(<<>>), val' = val PROVE TypeOK' /\ Sound'
  <2>1. FramesOK(<<>>) /\ Len(<<>>) = 0
    BY ShortStacks
  <2>2. \A x \in Cells : Top # Destroying(x)
    BY <1>1, ShapesApart
  <2>3. QED BY <1>1, <1>3, <2>1, <2>2, QuietStep
<1>4. QED BY <1>2, <1>3 DEF ClearItem

(* The head is counted, then the rest.                                     *)
LEMMA CountTail ==
  ASSUME NEW S, NEW s \in Seq(S), s # <<>>, NEW x
  PROVE  Count(s, x) = One(Head(s), x) + Count(Tail(s), x)
<1>1. Head(s) \in S /\ Tail(s) \in Seq(S) /\ <<Head(s)>> \in Seq(S) /\ s = <<Head(s)>> \o Tail(s)
  <2>1. /\ Head(s) \in S /\ Tail(s) \in Seq(S) /\ Len(Tail(s)) = Len(s) - 1
        /\ \A i \in 1 .. Len(Tail(s)) : Tail(s)[i] = s[i+1]
    BY HeadTailProperties
  <2>2. <<Head(s)>> \in Seq(S) /\ Len(<<Head(s)>>) = 1 /\ <<Head(s)>>[1] = s[1]
    BY <2>1
  <2>3. Len(s) \in Nat \ {0}
    BY EmptySeq, LenProperties
  <2> DEFINE h == <<Head(s)>>
             t == Tail(s)
  <2>4. h \in Seq(S) /\ t \in Seq(S) /\ Len(h) = 1 /\ h[1] = s[1] /\ Len(t) = Len(s) - 1
    BY <2>1, <2>2
  <2>5. \A i \in 1 .. Len(t) : t[i] = s[i+1]
    BY <2>1
  <2> HIDE DEF h, t
  <2>6. /\ h \o t \in Seq(S) /\ Len(h \o t) = Len(h) + Len(t)
        /\ \A i \in 1 .. Len(h) + Len(t) : (h \o t)[i] = IF i <= Len(h) THEN h[i] ELSE t[i - Len(h)]
    BY <2>4, ConcatProperties
  <2>7. Len(h \o t) = Len(s) /\ \A i \in 1 .. Len(s) : (h \o t)[i] = s[i]
    BY <2>3, <2>4, <2>5, <2>6
  <2>8. s = h \o t
    BY <2>6, <2>7, SeqEqual
  <2>9. QED BY <2>1, <2>2, <2>8 DEF h, t
<1>2. Count(<<Head(s)>> \o Tail(s), x) = Count(<<Head(s)>>, x) + Count(Tail(s), x)
  BY <1>1, CountConcat
<1>3. QED BY <1>1, <1>2, CountSingle

(* One element more.                                                       *)
LEMMA CountAppend ==
  ASSUME NEW S, NEW s \in Seq(S), NEW e \in S, NEW x
  PROVE  Count(Append(s, e), x) = Count(s, x) + One(e, x)
<1>1. Append(s, e) = s \o <<e>> /\ <<e>> \in Seq(S)
  BY AppendIsConcat
<1>2. Count(s \o <<e>>, x) = Count(s, x) + Count(<<e>>, x)
  BY <1>1, CountConcat
<1>3. QED BY <1>1, <1>2, CountSingle

(* An array under destruction, element by element.                         *)
LEMMA DestroyArrayStep ==
  ASSUME Running, NEW x \in Arrays, DestroyArray(x)
  PROVE  TypeOK' /\ Sound'
<1>1. Top = Destroying(x) /\ UNCHANGED <<type, val, refs, odd>> /\ x \in Cells
  BY DEF DestroyArray, Cells
<1>2. Top.op = "destroy" /\ (\A y : Top = Destroying(y) => y = x) /\ refs[x] = 0
  <2>1. Fits(Top, Len(stack))
    BY TopFits
  <2>2. QED BY <1>1, <2>1, ShapesApart DEF Fits
<1>3. elems[x] \in Seq(Objs)
  BY DEF Running, TypeOK
<1>4. ASSUME elems[x] # <<>>, elems' = [elems EXCEPT ![x] = Tail(@)],
             Replace(<<Top, Releasing(Head(elems[x]))>>)
      PROVE  TypeOK' /\ Sound'
  <2> DEFINE h == Head(elems[x])
             fs == <<Top, Releasing(h)>>
  <2>1. h \in Objs /\ h \in Cells /\ Tail(elems[x]) \in Seq(Objs)
        /\ Len(Tail(elems[x])) = Len(elems[x]) - 1
    BY <1>3, <1>4, HeadTailProperties DEF Cells
  <2>2. FramesOK(fs)
    <3>1. FrameOK(Top) /\ FrameOK(Releasing(h))
      BY <2>1, TopFits DEF FrameOK
    <3>2. QED BY <3>1, ShortStacks
  <2>3. Len(fs) = 2 /\ fs[1] = Destroying(x) /\ fs[2] = Releasing(h)
    BY <1>1
  <2>4. /\ elems' \in [Arrays -> Seq(Objs)] /\ elems'[x] = Tail(elems[x])
        /\ \A b \in Arrays \ {x} : elems'[b] = elems[b]
    BY <1>4, <2>1 DEF Running, TypeOK
  <2>5. HeapTyped'
    <3>1. \A a \in Arrays : Len(elems'[a]) =< MaxLen
      <4>1. Len(elems[x]) \in Nat /\ \A a \in Arrays : Len(elems[a]) =< MaxLen
        BY <1>3, LenProperties DEF Running, TypeOK
      <4>2. QED BY <4>1, <2>1, <2>4, BoundsAssumption
    <3>2. QED BY <1>1, <2>4, <3>1 DEF Running, TypeOK, HeapTyped
  <2>6. RefsBelowKept
    BY <1>1, RefsBelowSame
  <2>7. \A j \in 1 .. Len(stack) - 1 : stack'[j] = stack[j]
    BY <1>4, <2>2, TopReplaced DEF Running
  <2>8. CopiesBelowKept
    <3>1. \A a \in Arrays \ {x} : elems'[a] = elems[a]
      BY <2>4
    <3>2. \A y \in Objs \ {x}, n \in Names : val'[<<y, n, "user">>] = val[<<y, n, "user">>]
      BY <1>1
    <3>3. QED BY <1>1, <1>2, <2>7, <3>1, <3>2, CopiesOfOthersKept DEF Running, Sound
  <2>9. ASSUME NEW y \in Cells
        PROVE  refs'[y] - refs[y] = Holders(y)' - Holders(y)
                                    - One(Top, Releasing(y)) + Count(fs, Releasing(y))
    <3>1. TypeOK'
      BY <1>4, <2>2, <2>5, TypeOfStep
    <3>2. Holders(y)' = Holders(y) - Count(elems[x], y) + Count(elems'[x], y)
          /\ Count(elems[x], y) \in Nat /\ Count(elems'[x], y) \in Nat
      BY <1>1, <2>4, <3>1, ElementsChanged DEF Running
    <3>3. Count(elems[x], y) = One(h, y) + Count(elems'[x], y)
      BY <1>3, <1>4, <2>4, CountTail
    <3>4. Count(fs, Releasing(y)) = One(h, y) /\ One(h, y) \in Nat
      <4>1. Count(fs, Releasing(y)) = One(Top, Releasing(y)) + One(Releasing(h), Releasing(y))
        BY CountPair
      <4>2. One(h, y) \in Nat
        BY DEF One
      <4>3. QED BY <1>2, <4>1, <4>2, OneOfFrame
    <3>5. One(Top, Releasing(y)) = 0
      BY <1>2, OneOfFrame
    <3>6. Holders(y) \in Nat /\ refs[y] \in Nat /\ refs'[y] = refs[y]
      BY <1>1, Numbers DEF Running
    <3> HIDE DEF h, fs
    <3>7. QED BY <3>2, <3>3, <3>4, <3>5, <3>6
  <2>10. \A y \in Cells : \/ refs'[y] # 0
                          \/ Blank(y)'
                          \/ refs[y] = 0 /\ Top # Destroying(y) /\ (Blank(y) => Blank(y)')
                          \/ \E i \in 1 .. Len(fs) : fs[i] = Destroying(y)
    <3>1. ASSUME NEW y \in Cells, y # x PROVE Blank(y) => Blank(y)'
      BY <1>1, <2>4, <3>1 DEF Blank, Cells
    <3>2. QED BY <1>1, <1>2, <2>3, <3>1
  <2>11. ASSUME NEW f, NEW k, NEW i \in 1 .. Len(fs), f = fs[i], k = Len(stack) - 1 + i
         PROVE  Fits(f, k)'
    <3>1. (f = Destroying(x) /\ refs'[x] = 0) \/ f = Releasing(h)
      BY <1>1, <1>2, <2>3, <2>11
    <3>2. QED BY <3>1, ShapesApart DEF Fits
  <2> HIDE DEF fs
  <2>12. Replace(fs)
    BY <1>4 DEF fs
  <2>13. QED BY <2>2, <2>5, <2>6, <2>8, <2>9, <2>10, <2>11, <2>12, SoundStep
<1>5. ASSUME elems[x] = <<>>, Replace(<<>>), elems' = elems PROVE TypeOK' /\ Sound'
  <2>1. FramesOK(<<>>) /\ Len(<<>>) = 0
    BY ShortStacks
  <2>2. Blank(x)
    BY <1>5, CellsAssumption DEF Blank
  <2>3. QED BY <1>1, <1>2, <1>5, <2>1, <2>2, QuietStep
<1>6. QED BY <1>4, <1>5 DEF DestroyArray

(* What is set or pushed to is not being copied.                           *)
LEMMA TargetNotCopied ==
  ASSUME Running, Top.op \in {"set", "push"}
  PROVE  Fresh(Top.to, Len(stack)) \/ \A i \in 2 .. Len(stack) - 1 : ~Copies(stack[i])
<1>1. Fits(Top, Len(stack))
  BY TopFits
<1>2. QED BY <1>1 DEF Fits

(* The value that is replaced is given up before the new one is taken.     *)
LEMMA SetReleasesStep ==
  ASSUME Running, NEW o \in Objs, NEW n \in Names, NEW l \in Layers, NEW v,
         SetReleases(o, n, l, v)
  PROVE  TypeOK' /\ Sound'
<1>1. /\ Top = Setting(o, n, l, v) /\ Top.op = "set" /\ Top.to = o
      /\ val' = [val EXCEPT ![<<o, n, l>>] = "unset"] /\ UNCHANGED <<type, elems, refs, odd>>
      /\ Replace(Freeing(val[<<o, n, l>>], Top))
  BY DEF SetReleases, Setting
<1>2. /\ FrameOK(Top) /\ (\A k : k = Len(stack) => Fits(Top, k))
      /\ Top.op \in {"erase", "clear", "set"}
  BY <1>1, TopFits
<1>3. Fresh(o, Len(stack)) \/ \A i \in 2 .. Len(stack) - 1 : ~Copies(stack[i])
  BY <1>1, TargetNotCopied
<1> HIDE DEF Top
<1>4. QED BY <1>1, <1>2, <1>3, GiveUpStep

(* A value that is stored counts for what it is, unless the call is odd.   *)
LEMMA SetStoresStep ==
  ASSUME Running, NEW o \in Objs, NEW n \in Names, NEW l \in Layers, NEW v \in Values,
         SetStores(o, n, l, v), refs[o] > 0, v \in Cells => refs[v] > 0
  PROVE  TypeOK' /\ (~odd' => Sound')
<1>1. /\ Top = Setting(o, n, l, v) /\ val[<<o, n, l>>] \notin Cells
      /\ type' = [type EXCEPT ![<<o, n>>] = Kind(v)]
      /\ val' = [val EXCEPT ![<<o, n, l>>] = v]
      /\ refs' = IF Takes(o, n, l, v) THEN [refs EXCEPT ![v] = @ + 1] ELSE refs
      /\ odd' = OddSet(o, n, l, v) /\ Replace(<<>>) /\ elems' = elems
  BY DEF SetStores
<1>2. Top.op = "set" /\ Top.to = o /\ Top.value = v
  BY <1>1 DEF Setting
<1>3. FramesOK(<<>>) /\ Len(<<>>) = 0
  BY ShortStacks
<1>4. /\ <<o, n, l>> \in Slots /\ val'[<<o, n, l>>] = v
      /\ \A s \in Slots \ {<<o, n, l>>} : val'[s] = val[s]
      /\ val' \in [Slots -> Values \cup {"unset"}]
  BY <1>1 DEF Running, TypeOK, Slots
<1>5. /\ <<o, n>> \in Items /\ type'[<<o, n>>] = Kind(v)
      /\ \A s \in Items \ {<<o, n>>} : type'[s] = type[s]
      /\ type' \in [Items -> Types \cup {"none"}]
  <2>1. Kind(v) \in Types
    BY ScalarsAssumption DEF Kind, Values, Null, Cells, Types
  <2>2. QED BY <1>1, <2>1 DEF Running, TypeOK, Items
<1>6. /\ refs' \in [Cells -> Nat]
      /\ (v \notin Cells => refs' = refs)
      /\ (v \in Cells => \A x \in Cells \ {v} : refs'[x] = refs[x])
      /\ (Takes(o, n, l, v) => v \in Cells /\ refs'[v] = refs[v] + 1)
  BY <1>1 DEF Running, TypeOK, Takes
<1>7. odd' \in BOOLEAN /\ (~odd' => ~OddSet(o, n, l, v))
  BY <1>1 DEF OddSet, Retypes
<1>8. HeapTyped'
  <2>1. ASSUME ~odd', NEW p \in Objs, NEW m \in Names, NEW k \in Layers, val'[<<p, m, k>>] # "unset"
        PROVE  type'[<<p, m>>] = Kind(val'[<<p, m, k>>])
    <3>1. CASE p = o /\ m = n /\ k = l
      BY <1>4, <1>5, <3>1
    <3>2. CASE p = o /\ m = n /\ k # l
      <4>1. val'[<<p, m, k>>] = val[<<o, n, k>>]
        BY <1>4, <3>2 DEF Slots
      <4>2. Kind(val[<<o, n, k>>]) = Kind(v)
        BY <1>7, <2>1, <3>2, <4>1 DEF OddSet, Retypes
      <4>3. QED BY <1>5, <3>2, <4>1, <4>2
    <3>3. CASE ~(p = o /\ m = n)
      <4>1. val'[<<p, m, k>>] = val[<<p, m, k>>]
        BY <1>4, <3>3 DEF Slots
      <4>2. type'[<<p, m>>] = type[<<p, m>>]
        BY <1>5, <3>3 DEF Items
      <4>3. QED BY <2>1, <4>1, <4>2 DEF Running, TypeOK
    <3>4. QED BY <3>1, <3>2, <3>3
  <2>2. QED BY <1>1, <1>4, <1>5, <1>6, <1>7, <2>1 DEF Running, TypeOK, HeapTyped
<1>9. TypeOK'
  BY <1>1, <1>3, <1>8, TypeOfStep
<1>10. ASSUME ~odd' PROVE Sound'
  <2>1. v \in Cells => Takes(o, n, l, v)
    BY <1>7, <1>10 DEF OddSet, Takes
  <2>2. RefsBelowKept
    <3>1. CASE v \in Cells
      <4>1. Given(v, Len(stack))
        <5>1. Fits(Top, Len(stack))
          BY TopFits
        <5>2. QED BY <1>2, <5>1 DEF Fits
      <4>2. QED BY <3>1, <4>1, <1>6, RefsBelowChanged
    <3>2. CASE v \notin Cells
      BY <3>2, <1>6, RefsBelowSame
    <3>3. QED BY <3>1, <3>2
  <2>3. \A j \in 1 .. Len(stack) - 1 : stack'[j] = stack[j]
    BY <1>1, <1>3, TopReplaced DEF Running
  <2>4. CopiesBelowKept
    <3>1. Fresh(o, Len(stack)) \/ \A i \in 2 .. Len(stack) - 1 : ~Copies(stack[i])
      BY <1>2, TargetNotCopied
    <3>2. \A x \in Objs \ {o}, m \in Names : val'[<<x, m, "user">>] = val[<<x, m, "user">>]
      BY <1>4, LayersAssumption DEF Slots
    <3>3. o \in Cells
      BY DEF Cells
    <3>4. QED BY <1>1, <2>3, <3>1, <3>2, <3>3, CopiesOfOthersKept DEF Running, Sound
  <2>5. ASSUME NEW x \in Cells
        PROVE  refs'[x] - refs[x] = Holders(x)' - Holders(x)
                                    - One(Top, Releasing(x)) + Count(<<>>, Releasing(x))
    <3>1. Holders(x)' = Holders(x) - One(val[<<o, n, l>>], x) + One(v, x)
      BY <1>1, <1>4, <1>9, ValueChanged DEF Running
    <3>2. One(val[<<o, n, l>>], x) = 0 /\ One(v, x) \in Nat
      BY <1>1 DEF One
    <3>3. One(Top, Releasing(x)) = 0 /\ Count(<<>>, Releasing(x)) = 0
      BY <1>2, OneOfFrame, CountSingle
    <3>4. refs'[x] = refs[x] + One(v, x)
      <4>1. refs[x] \in Nat
        BY Numbers DEF Running
      <4>2. QED BY <1>6, <2>1, <4>1 DEF One
    <3>5. Holders(x) \in Nat /\ refs[x] \in Nat
      BY Numbers DEF Running
    <3>6. QED BY <3>1, <3>2, <3>3, <3>4, <3>5
  <2>6. \A x \in Cells : \/ refs'[x] # 0
                         \/ refs[x] = 0 /\ Top # Destroying(x) /\ (Blank(x) => Blank(x)')
    <3>1. ASSUME NEW x \in Cells, refs'[x] = 0
          PROVE  refs[x] = 0 /\ Top # Destroying(x) /\ (Blank(x) => Blank(x)')
      <4>1. refs[x] = 0 /\ x # o
        BY <1>6, <2>1, <3>1 DEF Running, TypeOK
      <4>2. \A m \in Names : type'[<<x, m>>] = type[<<x, m>>] \/ x \notin Objs
        BY <1>5, <4>1 DEF Items
      <4>3. \A m \in Names, k \in Layers : val'[<<x, m, k>>] = val[<<x, m, k>>] \/ x \notin Objs
        BY <1>4, <4>1 DEF Slots
      <4>4. Blank(x) => Blank(x)'
        BY <1>1, <4>2, <4>3 DEF Blank
      <4>5. QED BY <1>2, <4>1, <4>4, ShapesApart
    <3>2. QED BY <3>1
  <2>7. QED BY <1>1, <1>3, <1>8, <2>2, <2>4, <2>5, <2>6, SoundStep
<1>11. QED BY <1>9, <1>10

(* An element that is pushed counts.                                       *)
LEMMA PushStep ==
  ASSUME Running, NEW a \in Arrays, NEW o \in Objs, Push(a, o), refs[a] > 0, refs[o] > 0
  PROVE  TypeOK' /\ Sound'
<1>1. /\ Top = Pushing(a, o) /\ Len(elems[a]) < MaxLen
      /\ elems' = [elems EXCEPT ![a] = Append(@, o)]
      /\ refs' = [refs EXCEPT ![o] = @ + 1]
      /\ Replace(<<>>) /\ UNCHANGED <<type, val, odd>>
  BY DEF Push
<1>2. Top.op = "push" /\ Top.to = a /\ Top.value = o /\ a \in Cells /\ o \in Cells
  BY <1>1 DEF Pushing, Cells
<1>3. FramesOK(<<>>) /\ Len(<<>>) = 0
  BY ShortStacks
<1>4. /\ elems[a] \in Seq(Objs) /\ Len(elems[a]) \in Nat
      /\ Append(elems[a], o) \in Seq(Objs) /\ Len(Append(elems[a], o)) = Len(elems[a]) + 1
  <2>1. elems[a] \in Seq(Objs)
    BY DEF Running, TypeOK
  <2>2. QED BY <2>1, AppendProperties, LenProperties
<1>5. /\ elems' \in [Arrays -> Seq(Objs)] /\ elems'[a] = Append(elems[a], o)
      /\ \A b \in Arrays \ {a} : elems'[b] = elems[b]
  BY <1>1, <1>4 DEF Running, TypeOK
<1>6. /\ refs' \in [Cells -> Nat] /\ refs'[o] = refs[o] + 1 /\ refs[o] \in Nat
      /\ \A x \in Cells \ {o} : refs'[x] = refs[x]
  BY <1>1, <1>2 DEF Running, TypeOK
<1>7. HeapTyped'
  <2>1. \A b \in Arrays : Len(elems'[b]) =< MaxLen
    BY <1>1, <1>4, <1>5, BoundsAssumption DEF Running, TypeOK
  <2>2. QED BY <1>1, <1>5, <1>6, <2>1 DEF Running, TypeOK, HeapTyped
<1>8. RefsBelowKept
  <2>1. Given(o, Len(stack))
    <3>1. Fits(Top, Len(stack))
      BY TopFits
    <3>2. QED BY <1>2, <3>1 DEF Fits
  <2>2. QED BY <1>2, <1>6, <2>1, RefsBelowChanged
<1>9. \A j \in 1 .. Len(stack) - 1 : stack'[j] = stack[j]
  BY <1>1, <1>3, TopReplaced DEF Running
<1>10. CopiesBelowKept
  <2>1. Fresh(a, Len(stack)) \/ \A i \in 2 .. Len(stack) - 1 : ~Copies(stack[i])
    BY <1>2, TargetNotCopied
  <2>2. \A b \in Arrays \ {a} : elems'[b] = elems[b]
    BY <1>5
  <2>3. \A x \in Objs \ {a}, m \in Names : val'[<<x, m, "user">>] = val[<<x, m, "user">>]
    BY <1>1
  <2>4. QED BY <1>2, <1>9, <2>1, <2>2, <2>3, CopiesOfOthersKept DEF Running, Sound
<1>11. ASSUME NEW x \in Cells
       PROVE  refs'[x] - refs[x] = Holders(x)' - Holders(x)
                                   - One(Top, Releasing(x)) + Count(<<>>, Releasing(x))
  <2>1. TypeOK'
    BY <1>1, <1>3, <1>7, TypeOfStep
  <2>2. Holders(x)' = Holders(x) - Count(elems[a], x) + Count(elems'[a], x)
        /\ Count(elems[a], x) \in Nat /\ Count(elems'[a], x) \in Nat
    BY <1>1, <1>5, <2>1, ElementsChanged DEF Running
  <2>3. Count(elems'[a], x) = Count(elems[a], x) + One(o, x)
    BY <1>4, <1>5, CountAppend
  <2>4. One(Top, Releasing(x)) = 0 /\ Count(<<>>, Releasing(x)) = 0
    BY <1>2, OneOfFrame, CountSingle
  <2>5. refs'[x] = refs[x] + One(o, x) /\ One(o, x) \in Nat
    BY <1>6 DEF One, Running, TypeOK
  <2>6. Holders(x) \in Nat /\ refs[x] \in Nat
    BY Numbers DEF Running
  <2>7. QED BY <2>2, <2>3, <2>4, <2>5, <2>6
<1>12. \A x \in Cells : \/ refs'[x] # 0
                        \/ refs[x] = 0 /\ Top # Destroying(x) /\ (Blank(x) => Blank(x)')
  <2>1. ASSUME NEW x \in Cells, refs'[x] = 0
        PROVE  refs[x] = 0 /\ Top # Destroying(x) /\ (Blank(x) => Blank(x)')
    <3>1. refs[x] = 0 /\ x # a
      BY <1>6, <2>1
    <3>2. Blank(x) => Blank(x)'
      BY <1>1, <1>5, <3>1 DEF Blank, Cells
    <3>3. QED BY <1>2, <3>1, <3>2, ShapesApart
  <2>2. QED BY <2>1
<1>13. QED BY <1>1, <1>3, <1>7, <1>8, <1>10, <1>11, <1>12, SoundStep

-----------------------------------------------------------------------------
(* Copying and reading go on, perhaps with a new object or array.          *)

Building(f) == f.op \in {"apply", "copy", "members", "elements"}

(* What a function under way goes on with, f with some work done.          *)
GoesOn(g, f) == FrameOK(g) /\ g.op = f.op /\ g.to = f.to /\ (Copies(f) => g.from = f.from)

(* What a function that copies or reads is filling is new, or the          *)
(* application's.                                                          *)
LEMMA BuilderFits ==
  ASSUME Running, Building(Top), \A j \in 1 .. Len(stack) - 1 : stack'[j] = stack[j],
         val' = val, elems' = elems, \A x \in Cells : refs[x] = 1 => refs'[x] = 1
  PROVE  /\ \A g, k : GoesOn(g, Top) /\ k = Len(stack) => Fits(g, k)'
         /\ \A t, k : t = Top.to /\ k \in Nat /\ k > Len(stack) =>
              \/ (Fresh(t, k))'
              \/ Len(stack) = 1 /\ app'[t] > 0 /\ Top.op \in {"apply", "members"}
<1>1. FrameOK(Top) /\ Len(stack) \in Nat \ {0} /\ \A k : k = Len(stack) => Fits(Top, k)
  BY TopFits
<1>2. Top.to \in Cells
  BY <1>1, FrameShapes DEF Building, Cells
<1>3. ASSUME NEW g, NEW k, GoesOn(g, Top), k = Len(stack) PROVE Fits(g, k)'
  <2>1. Fits(Top, k) /\ k \in Nat \ {0} /\ FrameOK(g) /\ g.op = Top.op /\ g.to = Top.to
        /\ (Copies(Top) => g.from = Top.from)
    BY <1>1, <1>3 DEF GoesOn
  <2> HIDE DEF Top
  <2>2. Fits(g, k)
    BY <2>1 DEF Fits, Copies, Building
  <2>3. \A j \in 1 .. k-1 : stack'[j] = stack[j]
    BY <1>3
  <2>4. \A x \in Cells, j \in 1 .. k-1 : stack[j] = Releasing(x) /\ refs[x] = 1 => refs'[x] = 1
    OBVIOUS
  <2>5. \A x \in Cells : g # Destroying(x)
    BY <2>1, ShapesApart DEF Building
  <2>6. \A x \in Cells : HeldBelow(x, k) => HeldBelow(x, k)'
    <3>1. ASSUME NEW x \in Cells, HeldBelow(x, k) PROVE HeldBelow(x, k)'
      <4>1. PICK i \in 1 .. k-1 : Holds(stack[i], x)
        BY <3>1 DEF HeldBelow
      <4>2. stack'[i] = stack[i]
        BY <2>3
      <4>3. (Holds(stack[i], x))'
        BY <4>1, <4>2 DEF Holds
      <4>4. QED BY <4>3 DEF HeldBelow
    <3>2. QED BY <3>1
  <2>7. QED BY <2>1, <2>2, <2>3, <2>4, <2>5, <2>6, LowerFits DEF Running
<1>4. ASSUME NEW t, NEW k \in Nat, t = Top.to, k > Len(stack)
      PROVE  \/ (Fresh(t, k))'
             \/ Len(stack) = 1 /\ app'[t] > 0 /\ Top.op \in {"apply", "members"}
  <2>1. Fits(Top, Len(stack))
    BY <1>1
  <2>2. \/ Fresh(t, Len(stack))
        \/ Len(stack) = 1 /\ app[t] > 0 /\ Top.op \in {"apply", "members"}
    BY <1>4, <2>1 DEF Fits, Building
  <2>3. ASSUME Fresh(t, Len(stack)) PROVE (Fresh(t, k))'
    <3>1. PICK j \in 1 .. Len(stack) - 1 : stack[j] = Releasing(t)
      BY <2>3 DEF Fresh
    <3>2. j \in 1 .. k-1 /\ stack'[j] = Releasing(t)
      BY <1>1, <1>4, <3>1
    <3>3. refs'[t] = 1
      BY <1>2, <1>4, <2>3 DEF Fresh
    <3>4. QED BY <3>2, <3>3 DEF Fresh, Releasing
  <2>4. QED BY <2>2, <2>3 DEF Running
<1>5. QED BY <1>3, <1>4

(* The function returns, skips something, or sets a scalar.                *)
LEMMA QuietBuildStep ==
  ASSUME Running, Building(Top), UNCHANGED <<type, val, elems, refs, odd>>,
         NEW rest, GoesOn(rest, Top), NEW g, FrameOK(g),
         \/ Replace(<<>>)
         \/ Replace(<<rest>>)
         \/ /\ Replace(<<rest, g>>) /\ Top.op \in {"apply", "members"}
            /\ g.op = "set" /\ g.to = Top.to /\ g.value \notin Cells
  PROVE  TypeOK' /\ Sound'
<1>1. Top.op # "release" /\ Top.op # "destroy" /\ \A x \in Cells : Top # Destroying(x)
  BY ShapesApart DEF Building
<1>2. rest.op # "release" /\ FrameOK(rest)
  BY <1>1 DEF GoesOn
<1>3. \A x \in Cells : refs[x] = 1 => refs'[x] = 1
  OBVIOUS
<1>4. CASE Replace(<<>>)
  <2>1. FramesOK(<<>>) /\ Len(<<>>) = 0
    BY ShortStacks
  <2>2. QED BY <1>1, <1>4, <2>1, QuietStep
<1>5. CASE Replace(<<rest>>)
  <2> DEFINE fs == <<rest>>
  <2>1. FramesOK(fs)
    BY <1>2, ShortStacks
  <2>2. Len(fs) = 1 /\ fs[1] = rest
    OBVIOUS
  <2>3. Replace(fs)
    BY <1>5
  <2> HIDE DEF fs
  <2>4. \A j \in 1 .. Len(stack) - 1 : stack'[j] = stack[j]
    BY <2>1, <2>3, TopReplaced DEF Running
  <2>5. ASSUME NEW f, NEW k, NEW i \in 1 .. Len(fs), f = fs[i], k = Len(stack) - 1 + i
        PROVE  Fits(f, k)'
    <3>1. f = rest /\ k = Len(stack)
      BY <2>2, <2>5, TopFits
    <3>2. QED BY <1>3, <2>4, <3>1, BuilderFits
  <2>6. QED BY <1>1, <1>2, <2>1, <2>2, <2>3, <2>5, QuietStep
<1>6. ASSUME Replace(<<rest, g>>), Top.op \in {"apply", "members"},
             g.op = "set", g.to = Top.to, g.value \notin Cells
      PROVE  TypeOK' /\ Sound'
  <2> DEFINE fs == <<rest, g>>
  <2>1. FramesOK(fs)
    BY <1>2, ShortStacks
  <2>2. Len(fs) = 2 /\ fs[1] = rest /\ fs[2] = g
    OBVIOUS
  <2>3. Replace(fs)
    BY <1>6
  <2> HIDE DEF fs
  <2>4. \A j \in 1 .. Len(stack) - 1 : stack'[j] = stack[j]
    BY <2>1, <2>3, TopReplaced DEF Running
  <2>5. ASSUME NEW f, NEW k, NEW i \in 1 .. Len(fs), f = fs[i], k = Len(stack) - 1 + i
        PROVE  Fits(f, k)'
    <3>1. CASE i = 1
      <4>1. f = rest /\ k = Len(stack)
        BY <2>2, <2>5, <3>1, TopFits
      <4>2. QED BY <1>3, <2>4, <4>1, BuilderFits
    <3>2. CASE i = 2
      <4>1. f = g /\ k \in Nat /\ k = Len(stack) + 1 /\ k > Len(stack)
        BY <2>2, <2>5, <3>2, TopFits
      <4>2. (Fresh(f.to, k))' \/ (Len(stack) = 1 /\ app'[f.to] > 0)
        BY <1>3, <1>6, <2>4, <4>1, BuilderFits
      <4>3. (Given(f.value, k))'
        BY <1>6, <4>1 DEF Given
      <4>4. Len(stack) = 1 => \A i_1 \in 2 .. k-1 : FALSE
        BY <4>1
      <4>5. QED BY <1>6, <4>1, <4>2, <4>3, <4>4 DEF Fits
    <3>3. QED BY <2>2, <3>1, <3>2
  <2>6. \A i \in 1 .. Len(fs) : fs[i].op # "release"
    BY <1>2, <1>6, <2>2
  <2>7. QED BY <1>1, <2>1, <2>3, <2>5, <2>6, QuietStep
<1>7. QED BY <1>4, <1>5, <1>6

(* A new object or array c is made, to be filled by h, stored by g, and    *)
(* released.                                                               *)
LEMMA CreateStep ==
  ASSUME Running, Building(Top), NEW c \in Free(Cells), refs' = [refs EXCEPT ![c] = 1],
         UNCHANGED <<type, val, elems, odd>>,
         NEW rest, GoesOn(rest, Top), NEW g, FrameOK(g), NEW h, FrameOK(h),
         Replace(<<rest, Releasing(c), g, h>>), g.to = Top.to, g.value = c,
         \/ g.op = "set" /\ Top.op \in {"apply", "members"}
         \/ g.op = "push" /\ Top.op \in {"copy", "elements"},
         Building(h), h.to = c, Copies(h) => Holds(Top, h.from)
  PROVE  TypeOK' /\ Sound'
<1> DEFINE fs == <<rest, Releasing(c), g, h>>
<1>1. /\ c \in Cells /\ refs[c] = 0 /\ refs'[c] = 1
      /\ \A x \in Cells \ {c} : refs'[x] = refs[x]
      /\ refs' \in [Cells -> Nat]
  BY DEF Free, Running, TypeOK
<1>2. /\ Top.op # "release" /\ \A x \in Cells : Top # Destroying(x)
      /\ rest.op # "release" /\ FrameOK(rest) /\ g.op # "release" /\ h.op # "release"
  BY ShapesApart DEF Building, GoesOn
<1>3. FramesOK(fs) /\ Len(fs) = 4 /\ fs[1] = rest /\ fs[2] = Releasing(c) /\ fs[3] = g /\ fs[4] = h
  <2>1. FrameOK(Releasing(c))
    BY <1>1 DEF FrameOK
  <2>2. FramesOK(fs)
    BY <1>2, <2>1, ShortStacks
  <2>3. Len(fs) = 4 /\ fs[1] = rest /\ fs[2] = Releasing(c) /\ fs[3] = g /\ fs[4] = h
    OBVIOUS
  <2>4. QED BY <2>2, <2>3
<1>4. ASSUME NEW y \in Cells
      PROVE  refs'[y] - refs[y] = Holders(y)' - Holders(y)
                                  - One(Top, Releasing(y)) + Count(fs, Releasing(y))
  <2>1. Holders(y)' = Holders(y) /\ Holders(y) \in Nat
    BY HoldersKept, Numbers DEF Running
  <2>2. One(Top, Releasing(y)) = 0
    BY <1>2, OneOfFrame
  <2>3. Count(fs, Releasing(y)) = One(rest, Releasing(y)) + One(Releasing(c), Releasing(y))
                                  + One(g, Releasing(y)) + One(h, Releasing(y))
    BY CountFour
  <2>4. /\ One(rest, Releasing(y)) = 0 /\ One(g, Releasing(y)) = 0 /\ One(h, Releasing(y)) = 0
        /\ One(Releasing(c), Releasing(y)) = One(c, y)
    BY <1>2, OneOfFrame
  <2>5. refs'[y] = refs[y] + One(c, y) /\ One(c, y) \in Nat /\ refs[y] \in Nat
    BY <1>1 DEF One, Running, TypeOK
  <2> HIDE DEF fs
  <2>6. QED BY <2>1, <2>2, <2>3, <2>4, <2>5
<1>5. Replace(fs)
  OBVIOUS
<1> HIDE DEF fs
<1>6. HeapTyped'
  BY <1>1 DEF Running, TypeOK, HeapTyped
<1>7. RefsBelowKept
  BY <1>1, RefsBelowChanged
<1>8. /\ \A j \in 1 .. Len(stack) - 1 : stack'[j] = stack[j]
      /\ \A i \in 1 .. 4 : stack'[Len(stack) - 1 + i] = fs[i]
  BY <1>3, <1>5, TopReplaced DEF Running
<1>9. CopiesBelowKept
  BY <1>8, CopiesKept DEF Running
<1>10. \A x \in Cells : refs[x] = 1 => refs'[x] = 1
  BY <1>1
<1>11. ASSUME NEW x \in Cells
       PROVE  \/ refs'[x] # 0
              \/ refs[x] = 0 /\ Top # Destroying(x) /\ (Blank(x) => Blank(x)')
  <2>1. Blank(x) => Blank(x)'
    BY DEF Blank
  <2>2. QED BY <1>1, <1>2, <2>1
<1>12. ASSUME NEW f, NEW k, NEW i \in 1 .. Len(fs), f = fs[i], k = Len(stack) - 1 + i
       PROVE  Fits(f, k)'
  <2>1. i \in 1 .. 4 /\ Len(stack) \in Nat \ {0}
    BY <1>3, TopFits
  <2>2. CASE i = 1
    <3>1. f = rest /\ k = Len(stack)
      BY <1>3, <1>12, <2>1, <2>2
    <3>2. QED BY <1>8, <1>10, <3>1, BuilderFits
  <2>3. CASE i = 2
    <3>1. f = Releasing(c)
      BY <1>3, <1>12, <2>3
    <3>2. QED BY <3>1, ShapesApart DEF Fits
  <2>4. CASE i = 3
    <3>1. f = g /\ k \in Nat /\ k = Len(stack) + 2 /\ k > Len(stack)
      BY <1>3, <1>12, <2>1, <2>4
    <3>2. /\ stack'[k - 1] = Releasing(c) /\ k > 1
      <4>1. stack'[Len(stack) - 1 + 2] = fs[2]
        BY <1>8
      <4>2. QED BY <1>3, <2>1, <3>1, <4>1
    <3>3. (Given(f.value, k))'
      BY <3>1, <3>2 DEF Given, Releasing
    <3>4. \/ (Fresh(f.to, k))'
          \/ Len(stack) = 1 /\ app'[f.to] > 0 /\ Top.op \in {"apply", "members"}
      BY <1>8, <1>10, <3>1, BuilderFits
    <3>5. ASSUME Len(stack) = 1 PROVE \A j \in 2 .. k-1 : ~Copies(stack'[j])
      <4>1. \A j \in 2 .. k-1 : j = k-1
        BY <3>1, <3>5
      <4>2. QED BY <3>2, <4>1, ShapesApart DEF Copies
    <3>6. QED BY <3>1, <3>3, <3>4, <3>5 DEF Fits, Copies
  <2>5. CASE i = 4
    <3>1. f = h /\ k \in Nat /\ k = Len(stack) + 3
      BY <1>3, <1>12, <2>1, <2>5
    <3>2. (Fresh(h.to, k))'
      <4>1. stack'[Len(stack) - 1 + 2] = fs[2] /\ Len(stack) - 1 + 2 \in 1 .. k-1
        BY <1>8, <2>1, <3>1
      <4>2. QED BY <1>1, <1>3, <4>1 DEF Fresh, Releasing
    <3>3. ASSUME Copies(h) PROVE (HeldBelow(h.from, k))'
      <4>1. Holds(Top, h.from)
        BY <3>3
      <4>2. rest.op = Top.op /\ rest.from = Top.from
        BY <4>1 DEF GoesOn, Holds, Copies
      <4>3. (Holds(rest, h.from))'
        BY <4>1, <4>2 DEF Holds
      <4>4. stack'[Len(stack) - 1 + 1] = rest /\ Len(stack) - 1 + 1 \in 1 .. k-1
        BY <1>3, <1>8, <2>1, <3>1
      <4>5. QED BY <4>3, <4>4 DEF HeldBelow, Holds
    <3>4. QED BY <3>1, <3>2, <3>3 DEF Fits, Copies, Building
  <2>6. QED BY <2>1, <2>2, <2>3, <2>4, <2>5
<1>13. QED BY <1>3, <1>4, <1>5, <1>6, <1>7, <1>9, <1>11, <1>12, SoundStep

(* What is created was free.                                               *)
LEMMA NewCell ==
  ASSUME NEW S \in {Objs, Arrays}, Created(S)
  PROVE  New(S) \in S /\ New(S) \in Free(Cells) /\ refs' = [refs EXCEPT ![New(S)] = 1]
<1>1. New(S) \in Free(S)
  BY DEF Created, New
<1>2. QED BY <1>1 DEF Free, Created, Cells

(* Values are scalars, null, objects or arrays.                            *)
LEMMA ValuesApart ==
  /\ \A v \in Scalars : v \in Values /\ v \notin Cells
  /\ \A v \in Cells : v \in Values
  /\ \A v \in Values : v \in Null \/ v \in Scalars \/ v \in Objs \/ v \in Arrays
BY CellsAssumption DEF Values, Cells

(* wsc_data_apply: one item, whose nested value is copied by frames of its *)
(* own.                                                                    *)
LEMMA ApplyItemStep ==
  ASSUME Running, ApplyItem
  PROVE  TypeOK' /\ Sound'
<1>1. PICK t, s, ns : t = Top.to /\ s = Top.from /\ ns = Top.names
  OBVIOUS
<1>2. /\ Top.op = "apply" /\ Building(Top) /\ FrameOK(Top)
      /\ t \in Objs /\ s \in Objs /\ ns \in SUBSET Names
  BY <1>1, TopFits, FrameShapes DEF ApplyItem, Building
<1>3. UNCHANGED <<type, val, elems, odd>>
  BY DEF ApplyItem
<1>4. GoesOn(Top, Top)
  BY <1>2 DEF GoesOn
<1>5. ASSUME NEW n \in ns, CopyItem(t, n, val[<<s, n, "user">>], Applying(t, s, ns \ {n}))
      PROVE  TypeOK' /\ Sound'
  <2>1. PICK v : v = val[<<s, n, "user">>]
    OBVIOUS
  <2>2. PICK rest : rest = Applying(t, s, ns \ {n})
    OBVIOUS
  <2>3. FrameOK(rest) /\ rest.op = "apply" /\ rest.to = t /\ rest.from = s
    BY <1>2, <2>2 DEF Applying, FrameOK
  <2>4. GoesOn(rest, Top)
    BY <1>1, <1>2, <2>3 DEF GoesOn
  <2>5. n \in Names /\ Holds(Top, v) /\ CopyItem(t, n, v, rest)
    BY <1>1, <1>2, <1>5, <2>1, <2>2 DEF Holds
  <2>6. CASE v \in Null \cup {"unset"} /\ Replace(<<rest>>) /\ UNCHANGED refs
    BY <1>2, <1>3, <2>4, <2>6, QuietBuildStep
  <2>7. CASE v \in Scalars /\ Replace(<<rest, Setting(t, n, "user", v)>>) /\ UNCHANGED refs
    <3>1. PICK g : g = Setting(t, n, "user", v)
      OBVIOUS
    <3>2. FrameOK(g) /\ g.op = "set" /\ g.to = Top.to /\ g.value \notin Cells
      <4>1. v \in Values /\ v \notin Cells
        BY <2>7, ValuesApart
      <4>2. QED BY <1>1, <1>2, <2>5, <3>1, <4>1, LayersAssumption DEF Setting, FrameOK
    <3>3. Replace(<<rest, g>>)
      BY <2>7, <3>1
    <3>4. QED BY <1>2, <1>3, <2>4, <2>7, <3>2, <3>3, QuietBuildStep
  <2>8. ASSUME NEW c \in Cells, c \in Free(Cells), refs' = [refs EXCEPT ![c] = 1], NEW h,
               FrameOK(h), Building(h), h.to = c, Copies(h) => h.from = v,
               Replace(Nested(rest, t, n, c, h))
        PROVE  TypeOK' /\ Sound'
    <3>1. PICK g : g = Setting(t, n, "user", c)
      OBVIOUS
    <3>2. FrameOK(g) /\ g.op = "set" /\ g.to = Top.to /\ g.value = c
      <4>1. c \in Values
        BY ValuesApart
      <4>2. QED BY <1>1, <1>2, <2>5, <3>1, <4>1, LayersAssumption DEF Setting, FrameOK
    <3>3. Replace(<<rest, Releasing(c), g, h>>)
      BY <2>8, <3>1 DEF Nested
    <3>4. Copies(h) => Holds(Top, h.from)
      BY <2>5, <2>8
    <3>5. QED BY <1>2, <1>3, <2>4, <2>8, <3>2, <3>3, <3>4, CreateStep
  <2>9. CASE /\ v \in Objs /\ Created(Objs)
             /\ LET c == New(Objs) IN Replace(Nested(rest, t, n, c, Applying(c, v, Names)))
    <3>1. PICK c : c = New(Objs)
      OBVIOUS
    <3>2. c \in Objs /\ c \in Cells /\ c \in Free(Cells) /\ refs' = [refs EXCEPT ![c] = 1]
      BY <2>9, <3>1, NewCell DEF Cells
    <3>3. PICK h : h = Applying(c, v, Names)
      OBVIOUS
    <3>4. FrameOK(h) /\ Building(h) /\ h.to = c /\ (Copies(h) => h.from = v)
      BY <2>9, <3>2, <3>3 DEF Applying, FrameOK, Building
    <3>5. Replace(Nested(rest, t, n, c, h))
      BY <2>9, <3>1, <3>3
    <3>6. QED BY <2>8, <3>2, <3>4, <3>5
  <2>10. CASE /\ v \in Arrays /\ Created(Arrays)
              /\ LET c == New(Arrays) IN Replace(Nested(rest, t, n, c, CopyingArray(c, v, 1)))
    <3>1. PICK c : c = New(Arrays)
      OBVIOUS
    <3>2. c \in Arrays /\ c \in Cells /\ c \in Free(Cells) /\ refs' = [refs EXCEPT ![c] = 1]
      BY <2>10, <3>1, NewCell DEF Cells
    <3>3. PICK h : h = CopyingArray(c, v, 1)
      OBVIOUS
    <3>4. FrameOK(h) /\ Building(h) /\ h.to = c /\ (Copies(h) => h.from = v)
      BY <2>10, <3>2, <3>3 DEF CopyingArray, FrameOK, Building
    <3>5. Replace(Nested(rest, t, n, c, h))
      BY <2>10, <3>1, <3>3
    <3>6. QED BY <2>8, <3>2, <3>4, <3>5
  <2>11. QED BY <2>5, <2>6, <2>7, <2>9, <2>10 DEF CopyItem
<1>6. CASE Replace(<<>>) /\ UNCHANGED refs
  BY <1>2, <1>3, <1>4, <1>6, QuietBuildStep
<1>7. QED BY <1>1, <1>5, <1>6 DEF ApplyItem

(* copy_array: one element.                                                *)
LEMMA CopyElementStep ==
  ASSUME Running, CopyElement
  PROVE  TypeOK' /\ Sound'
<1>1. PICK b, a, k : b = Top.to /\ a = Top.from /\ k = Top.at
  OBVIOUS
<1>2. /\ Top.op = "copy" /\ Building(Top) /\ FrameOK(Top)
      /\ b \in Arrays /\ a \in Arrays /\ k \in Nat \ {0}
  BY <1>1, TopFits, FrameShapes DEF CopyElement, Building
<1>3. UNCHANGED <<type, val, elems, odd>>
  BY DEF CopyElement
<1>4. GoesOn(Top, Top)
  BY <1>2 DEF GoesOn
<1>5. CASE /\ k \in DOMAIN elems[a] /\ Created(Objs)
           /\ Replace(Element(CopyingArray(b, a, k + 1), b, New(Objs),
                              Applying(New(Objs), elems[a][k], Names)))
  <2>1. PICK c : c = New(Objs)
    OBVIOUS
  <2>2. c \in Objs /\ c \in Cells /\ c \in Free(Cells) /\ refs' = [refs EXCEPT ![c] = 1]
    BY <1>5, <2>1, NewCell DEF Cells
  <2>3. PICK v : v = elems[a][k]
    OBVIOUS
  <2>4. v \in Objs /\ Holds(Top, v)
    <3>1. elems[a] \in Seq(Objs)
      BY <1>2 DEF Running, TypeOK
    <3>2. v \in Objs
      BY <1>5, <2>3, <3>1, SeqIsFinite, ElementOfSeq
    <3>3. QED BY <1>1, <1>2, <1>5, <2>3, <3>2 DEF Holds
  <2>5. PICK rest : rest = CopyingArray(b, a, k + 1)
    OBVIOUS
  <2>6. GoesOn(rest, Top)
    <3>1. FrameOK(rest) /\ rest.op = "copy" /\ rest.to = b /\ rest.from = a
      BY <1>2, <2>5 DEF CopyingArray, FrameOK
    <3>2. QED BY <1>1, <1>2, <3>1 DEF GoesOn
  <2>7. PICK g : g = Pushing(b, c)
    OBVIOUS
  <2>8. FrameOK(g) /\ g.op = "push" /\ g.to = Top.to /\ g.value = c
    BY <1>1, <1>2, <2>2, <2>7 DEF Pushing, FrameOK
  <2>9. PICK h : h = Applying(c, v, Names)
    OBVIOUS
  <2>10. FrameOK(h) /\ Building(h) /\ h.to = c /\ h.from = v
    BY <2>2, <2>4, <2>9 DEF Applying, FrameOK, Building
  <2>11. Replace(<<rest, Releasing(c), g, h>>)
    BY <1>5, <2>1, <2>3, <2>5, <2>7, <2>9 DEF Element
  <2>12. QED BY <1>2, <1>3, <2>2, <2>4, <2>6, <2>8, <2>10, <2>11, CreateStep
<1>6. CASE Replace(<<>>) /\ UNCHANGED refs
  BY <1>2, <1>3, <1>4, <1>6, QuietBuildStep
<1>7. QED BY <1>1, <1>5, <1>6 DEF CopyElement

(* wsc_data_add_json_object_data: one member.                              *)
LEMMA AddMemberStep ==
  ASSUME Running, AddMember
  PROVE  TypeOK' /\ Sound'
<1>1. PICK o, j, ns : o = Top.to /\ j = Top.doc /\ ns = Top.names
  OBVIOUS
<1>2. Top.op = "members" /\ Building(Top) /\ FrameOK(Top) /\ o \in Objs /\ ns \in SUBSET Names
  BY <1>1, TopFits, FrameShapes DEF AddMember, Building
<1>3. UNCHANGED <<type, val, elems, odd>>
  BY DEF AddMember
<1>4. GoesOn(Top, Top)
  BY <1>2 DEF GoesOn
<1>5. ASSUME NEW n \in ns, AddItem(o, n, j[2][n], AddingMembers(o, j, ns \ {n}))
      PROVE  TypeOK' /\ Sound'
  <2>1. PICK m : m = j[2][n]
    OBVIOUS
  <2>2. PICK rest : rest = AddingMembers(o, j, ns \ {n})
    OBVIOUS
  <2>3. GoesOn(rest, Top)
    <3>1. FrameOK(rest) /\ rest.op = "members" /\ rest.to = o
      BY <1>2, <2>2 DEF AddingMembers, FrameOK
    <3>2. QED BY <1>1, <1>2, <3>1 DEF GoesOn, Copies
  <2>4. n \in Names /\ AddItem(o, n, m, rest)
    BY <1>2, <1>5, <2>1, <2>2
  <2>5. CASE Replace(<<rest>>) /\ UNCHANGED refs
    BY <1>2, <1>3, <2>3, <2>5, QuietBuildStep
  <2>6. CASE m[1] \in Scalars /\ Replace(<<rest, Setting(o, n, "user", m[1])>>) /\ UNCHANGED refs
    <3>1. PICK g : g = Setting(o, n, "user", m[1])
      OBVIOUS
    <3>2. FrameOK(g) /\ g.op = "set" /\ g.to = Top.to /\ g.value \notin Cells
      <4>1. m[1] \in Values /\ m[1] \notin Cells
        BY <2>6, ValuesApart
      <4>2. QED BY <1>1, <1>2, <2>4, <3>1, <4>1, LayersAssumption DEF Setting, FrameOK
    <3>3. Replace(<<rest, g>>)
      BY <2>6, <3>1
    <3>4. QED BY <1>2, <1>3, <2>3, <2>6, <3>2, <3>3, QuietBuildStep
  <2>7. ASSUME NEW c \in Cells, c \in Free(Cells), refs' = [refs EXCEPT ![c] = 1], NEW h,
               FrameOK(h), Building(h), h.to = c, ~Copies(h),
               Replace(Nested(rest, o, n, c, h))
        PROVE  TypeOK' /\ Sound'
    <3>1. PICK g : g = Setting(o, n, "user", c)
      OBVIOUS
    <3>2. FrameOK(g) /\ g.op = "set" /\ g.to = Top.to /\ g.value = c
      <4>1. c \in Values
        BY ValuesApart
      <4>2. QED BY <1>1, <1>2, <2>4, <3>1, <4>1, LayersAssumption DEF Setting, FrameOK
    <3>3. Replace(<<rest, Releasing(c), g, h>>)
      BY <2>7, <3>1 DEF Nested
    <3>4. QED BY <1>2, <1>3, <2>3, <2>7, <3>2, <3>3, CreateStep
  <2>8. CASE /\ m[1] = "object" /\ Created(Objs)
             /\ LET c == New(Objs)
                IN Replace(Nested(rest, o, n, c, AddingMembers(c, m, Members(m))))
    <3>1. PICK c : c = New(Objs)
      OBVIOUS
    <3>2. c \in Objs /\ c \in Cells /\ c \in Free(Cells) /\ refs' = [refs EXCEPT ![c] = 1]
      BY <2>8, <3>1, NewCell DEF Cells
    <3>3. PICK h : h = AddingMembers(c, m, Members(m))
      OBVIOUS
    <3>4. FrameOK(h) /\ Building(h) /\ h.to = c /\ ~Copies(h)
      BY <3>2, <3>3 DEF AddingMembers, FrameOK, Building, Copies, Members
    <3>5. Replace(Nested(rest, o, n, c, h))
      BY <2>8, <3>1, <3>3
    <3>6. QED BY <2>7, <3>2, <3>4, <3>5
  <2>9. CASE /\ m[1] = "array" /\ Created(Arrays)
             /\ LET c == New(Arrays) IN Replace(Nested(rest, o, n, c, AddingElements(c, m[2])))
    <3>1. PICK c : c = New(Arrays)
      OBVIOUS
    <3>2. c \in Arrays /\ c \in Cells /\ c \in Free(Cells) /\ refs' = [refs EXCEPT ![c] = 1]
      BY <2>9, <3>1, NewCell DEF Cells
    <3>3. PICK h : h = AddingElements(c, m[2])
      OBVIOUS
    <3>4. FrameOK(h) /\ Building(h) /\ h.to = c /\ ~Copies(h)
      BY <3>2, <3>3 DEF AddingElements, FrameOK, Building, Copies
    <3>5. Replace(Nested(rest, o, n, c, h))
      BY <2>9, <3>1, <3>3
    <3>6. QED BY <2>7, <3>2, <3>4, <3>5
  <2>10. QED BY <2>4, <2>5, <2>6, <2>8, <2>9 DEF AddItem
<1>6. CASE Replace(<<>>) /\ UNCHANGED refs
  BY <1>2, <1>3, <1>4, <1>6, QuietBuildStep
<1>7. QED BY <1>1, <1>5, <1>6 DEF AddMember

(* wsc_data_add_json_array: one element.                                   *)
LEMMA AddElementStep ==
  ASSUME Running, AddElement
  PROVE  TypeOK' /\ Sound'
<1>1. PICK a, js : a = Top.to /\ js = Top.docs
  OBVIOUS
<1>2. Top.op = "elements" /\ Building(Top) /\ FrameOK(Top) /\ a \in Arrays
  BY <1>1, TopFits, FrameShapes DEF AddElement, Building
<1>3. UNCHANGED <<type, val, elems, odd>>
  BY DEF AddElement
<1>4. GoesOn(Top, Top)
  BY <1>2 DEF GoesOn
<1>5. PICK rest : rest = AddingElements(a, Tail(js))
  OBVIOUS
<1>6. GoesOn(rest, Top)
  <2>1. FrameOK(rest) /\ rest.op = "elements" /\ rest.to = a
    BY <1>2, <1>5 DEF AddingElements, FrameOK
  <2>2. QED BY <1>1, <1>2, <2>1 DEF GoesOn, Copies
<1>7. CASE Replace(<<>>) /\ UNCHANGED refs
  BY <1>2, <1>3, <1>4, <1>7, QuietBuildStep
<1>8. CASE Replace(<<AddingElements(a, Tail(js))>>) /\ UNCHANGED refs
  <2>1. Replace(<<rest>>)
    BY <1>5, <1>8
  <2>2. QED BY <1>2, <1>3, <1>6, <1>8, <2>1, QuietBuildStep
<1>9. CASE /\ Created(Objs)
           /\ Replace(Element(AddingElements(a, Tail(js)), a, New(Objs),
                              AddingMembers(New(Objs), Head(js), Members(Head(js)))))
  <2>1. PICK c : c = New(Objs)
    OBVIOUS
  <2>2. c \in Objs /\ c \in Cells /\ c \in Free(Cells) /\ refs' = [refs EXCEPT ![c] = 1]
    BY <1>9, <2>1, NewCell DEF Cells
  <2>3. PICK g : g = Pushing(a, c)
    OBVIOUS
  <2>4. FrameOK(g) /\ g.op = "push" /\ g.to = Top.to /\ g.value = c
    BY <1>1, <1>2, <2>2, <2>3 DEF Pushing, FrameOK
  <2>5. PICK h : h = AddingMembers(c, Head(js), Members(Head(js)))
    OBVIOUS
  <2>6. FrameOK(h) /\ Building(h) /\ h.to = c /\ ~Copies(h)
    BY <2>2, <2>5 DEF AddingMembers, FrameOK, Building, Copies, Members
  <2>7. Replace(<<rest, Releasing(c), g, h>>)
    BY <1>5, <1>9, <2>1, <2>3, <2>5 DEF Element
  <2>8. QED BY <1>2, <1>3, <1>6, <2>2, <2>4, <2>6, <2>7, CreateStep
<1>10. QED BY <1>1, <1>7, <1>8, <1>9 DEF AddElement

(* What the function on top uses has a reference.                          *)
LEMMA UsedIsAlive ==
  ASSUME TypeOK, Sound, stack # <<>>
  PROVE  \A x \in Uses(Top) : refs[x] > 0
<1> DEFINE L == Len(stack)
<1>1. Top = stack[L] /\ L \in Nat \ {0} /\ FrameOK(Top) /\ Fits(Top, L)
  BY StackTyped DEF Top, Last, Sound, FramesInv
<1>2. ASSUME NEW x \in Cells
      PROVE  /\ refs[x] = app[x] + Holders(x) + Owed(x)
             /\ app[x] \in Nat /\ Holders(x) \in Nat /\ Owed(x) \in Nat
  BY Numbers DEF Sound, Balanced
<1>3. ASSUME NEW x \in Cells, app[x] > 0 \/ Holders(x) >= 1 \/ Owed(x) >= 1 PROVE refs[x] > 0
  <2> DEFINE a == app[x]
             h == Holders(x)
             w == Owed(x)
  <2>1. refs[x] = a + h + w /\ a \in Nat /\ h \in Nat /\ w \in Nat
    BY <1>2
  <2>2. a > 0 \/ h >= 1 \/ w >= 1
    BY <1>3
  <2> HIDE DEF a, h, w
  <2>3. QED BY <2>1, <2>2
<1>4. ASSUME NEW x \in Cells, NEW j \in 1 .. L, stack[j] = Releasing(x) PROVE refs[x] > 0
  BY <1>3, <1>4, OwedByFrames
<1>5. ASSUME NEW x \in Cells, Fresh(x, L) PROVE refs[x] > 0
  BY <1>5 DEF Fresh
<1>6. ASSUME NEW x \in Cells, Given(x, L) PROVE refs[x] > 0
  <2>1. CASE app[x] > 0
    BY <1>3, <2>1
  <2>2. CASE L > 1 /\ stack[L-1] = Releasing(x)
    <3>1. L - 1 \in 1 .. L
      BY <1>1, <2>2
    <3>2. QED BY <1>4, <2>2, <3>1
  <2>3. QED BY <1>6, <2>1, <2>2 DEF Given
<1>7. ASSUME NEW x \in Cells, Copies(Top), x = Top.from PROVE refs[x] > 0
  <2>1. L \in 1 .. Len(stack) /\ Copies(stack[L])
    BY <1>1, <1>7
  <2>2. app[stack[L].from] + Holders(stack[L].from) >= 1
    BY <2>1, SourceKept DEF Sound
  <2>3. app[x] + Holders(x) >= 1
    BY <1>1, <1>7, <2>2
  <2>4. QED BY <1>2, <2>3
<1>8. ASSUME NEW x \in Uses(Top) PROVE refs[x] > 0
  <2>1. x \in Cells
    BY DEF Uses
  <2>2. CASE Top.op = "release"
    <3>1. x = Top.cell /\ Top = Releasing(x)
      BY <1>1, <2>2, FrameShapes DEF Uses
    <3>2. L \in 1 .. L /\ stack[L] = Releasing(x)
      BY <1>1, <3>1
    <3> HIDE DEF L
    <3>3. QED BY <1>4, <2>1, <3>2
  <2>3. CASE Top.op = "clear"
    <3>1. x = Top.to
      BY <2>3 DEF Uses
    <3>2. QED BY <1>1, <1>3, <2>1, <2>3, <3>1 DEF Fits
  <2>4. CASE Top.op \in {"set", "push"}
    <3>1. x = Top.to \/ x = Top.value
      BY <2>4 DEF Uses
    <3>2. Given(Top.value, L) /\ (Fresh(Top.to, L) \/ app[Top.to] > 0)
      BY <1>1, <2>4 DEF Fits
    <3>3. QED BY <1>3, <1>5, <1>6, <2>1, <3>1, <3>2
  <2>5. CASE Copies(Top)
    <3>1. x = Top.to \/ x = Top.from
      BY <2>5 DEF Uses, Copies
    <3>2. Fresh(Top.to, L) \/ app[Top.to] > 0
      BY <1>1, <2>5 DEF Fits, Copies
    <3>3. QED BY <1>3, <1>5, <1>7, <2>1, <2>5, <3>1, <3>2
  <2>6. CASE Top.op \in {"members", "elements"}
    <3>1. x = Top.to
      BY <2>6 DEF Uses
    <3>2. Fresh(Top.to, L) \/ app[Top.to] > 0
      BY <1>1, <2>6 DEF Fits
    <3>3. QED BY <1>3, <1>5, <2>1, <3>1, <3>2
  <2>7. Top.op \notin {"destroy", "erase"}
    BY DEF Uses
  <2>8. QED BY <1>1, <2>2, <2>3, <2>4, <2>5, <2>6, <2>7, FrameShapes DEF Copies
<1>9. QED BY <1>8

(* Every step uses what is alive, and is sound.                            *)
LEMMA RunStep ==
  ASSUME TypeOK, ~odd, ~misused, Sound, stack # <<>>, Run
  PROVE  TypeOK' /\ ~misused' /\ (~odd' => Sound')
<1>0. Step /\ ~misused' /\ \A x \in Uses(Top) : refs[x] > 0
  BY UsedIsAlive DEF Run
<1>1. Running
  <2>1. misused' = misused
    <3>1. misused \in BOOLEAN /\ misused' \in BOOLEAN
      BY DEF TypeOK, Run
    <3>2. QED BY <1>0, <3>1
  <2>2. QED BY <2>1 DEF Running, Run
<1>2. ASSUME NEW x \in Cells, Release(x) PROVE TypeOK' /\ Sound'
  <2>1. x \in Uses(Top)
    BY <1>2 DEF Release, Releasing, Uses
  <2>2. refs[x] > 0
    BY <1>0, <2>1
  <2>3. QED BY <1>1, <1>2, <2>2, ReleaseStep
<1>3. ASSUME NEW o \in Objs, NEW n \in Names, NEW l \in Layers, NEW v \in Values,
             SetStores(o, n, l, v)
      PROVE  TypeOK' /\ (~odd' => Sound')
  <2>1. Top = Setting(o, n, l, v) /\ o \in Cells
    BY <1>3 DEF SetStores, Cells
  <2>2. o \in Uses(Top) /\ (v \in Cells => v \in Uses(Top))
    BY <2>1 DEF Setting, Uses
  <2>3. refs[o] > 0 /\ (v \in Cells => refs[v] > 0)
    BY <1>0, <2>2
  <2>4. QED BY <1>1, <1>3, <2>3, SetStoresStep
<1>4. ASSUME NEW a \in Arrays, NEW o \in Objs, Push(a, o) PROVE TypeOK' /\ Sound'
  <2>1. Top = Pushing(a, o) /\ a \in Cells /\ o \in Cells
    BY <1>4 DEF Push, Cells
  <2>2. a \in Uses(Top) /\ o \in Uses(Top)
    BY <2>1 DEF Pushing, Uses
  <2>3. refs[a] > 0 /\ refs[o] > 0
    BY <1>0, <2>2
  <2>4. QED BY <1>1, <1>4, <2>3, PushStep
<1>5. ASSUME NEW o \in Objs, DestroyObj(o) PROVE TypeOK' /\ Sound'
  BY <1>1, <1>5, DestroyObjStep
<1>6. ASSUME NEW o \in Objs, NEW n \in Names, EraseItem(o, n) PROVE TypeOK' /\ Sound'
  BY <1>1, <1>6, EraseItemStep
<1>7. ASSUME NEW o \in Objs, NEW n \in Names, NEW l \in Layers, NEW v \in Values,
             SetReleases(o, n, l, v)
      PROVE  TypeOK' /\ Sound'
  BY <1>1, <1>7, SetReleasesStep
<1>8. ASSUME NEW a \in Arrays, DestroyArray(a) PROVE TypeOK' /\ Sound'
  BY <1>1, <1>8, DestroyArrayStep
<1>9. ASSUME ClearItem \/ ApplyItem \/ CopyElement \/ AddMember \/ AddElement
      PROVE  TypeOK' /\ Sound'
  BY <1>1, <1>9, ClearItemStep, ApplyItemStep, CopyElementStep, AddMemberStep, AddElementStep
<1>10. QED BY <1>0, <1>2, <1>3, <1>4, <1>5, <1>6, <1>7, <1>8, <1>9 DEF Step

-----------------------------------------------------------------------------
(* The calls of the application.                                           *)

(* No function is under way.                                               *)
Idle == TypeOK /\ ~odd /\ Sound /\ stack = <<>>

(* Between calls the application and the holders are all that count.       *)
LEMMA NothingOwed ==
  ASSUME Idle
  PROVE  /\ \A x \in Cells : Owed(x) = 0 /\ refs[x] = app[x] + Holders(x)
         /\ \A x \in Cells : refs[x] \in Nat /\ app[x] \in Nat /\ Holders(x) \in Nat
         /\ \A x \in Cells : refs[x] = 0 => Blank(x) /\ app[x] = 0 /\ Holders(x) = 0
<1>1. ASSUME NEW x \in Cells
      PROVE  /\ Owed(x) = 0 /\ refs[x] = app[x] + Holders(x)
             /\ refs[x] \in Nat /\ app[x] \in Nat /\ Holders(x) \in Nat
  <2>1. Owed(x) = 0
    BY CountSingle DEF Idle, Owed
  <2>2. refs[x] = app[x] + Holders(x) + Owed(x)
    BY DEF Idle, Sound, Balanced
  <2>3. refs[x] \in Nat /\ app[x] \in Nat /\ Holders(x) \in Nat
    BY Numbers DEF Idle
  <2>4. QED BY <2>1, <2>2, <2>3
<1>2. ASSUME NEW x \in Cells, refs[x] = 0 PROVE Blank(x)
  <2>1. ToSet(stack) = {}
    BY DEF Idle, ToSet
  <2>2. x \in Free(Cells)
    BY <1>2, <2>1 DEF Free
  <2>3. QED BY <2>2 DEF Idle, Sound, FreeBlank
<1>3. ASSUME NEW x \in Cells, refs[x] = 0 PROVE app[x] = 0 /\ Holders(x) = 0
  BY <1>1, <1>3
<1>4. QED BY <1>1, <1>2, <1>3

(* A call is sound if the counts change as the application and holders do, *)
(* what becomes free is blank, and the function called fits.               *)
LEMMA CallStep ==
  ASSUME Idle, NEW fs, FramesOK(fs), stack' = fs, HeapTyped',
         app' \in [Cells -> Nat], misused' \in BOOLEAN,
         \A x \in Cells :
           refs'[x] - refs[x] = (app'[x] - app[x]) + (Holders(x)' - Holders(x))
                                + Count(fs, Releasing(x)),
         \A x \in Cells : refs'[x] = 0 => refs[x] = 0 /\ (Blank(x) => Blank(x)'),
         \A f, k : k \in 1 .. Len(fs) /\ f = fs[k] => Fits(f, k)'
  PROVE  TypeOK' /\ Sound'
<1>1. TypeOK'
  BY DEF HeapTyped, TypeOK, FramesOK
<1>2. ASSUME NEW x \in Cells PROVE refs'[x] = app'[x] + Holders(x)' + Owed(x)'
  <2>1. refs[x] = app[x] + Holders(x) /\ refs[x] \in Nat /\ app[x] \in Nat /\ Holders(x) \in Nat
    BY NothingOwed
  <2>2. refs'[x] \in Nat /\ app'[x] \in Nat /\ Holders(x)' \in Nat
    BY <1>1, HoldersNext DEF HeapTyped
  <2>3. Owed(x)' = Count(fs, Releasing(x))
    BY DEF Owed, Count
  <2>4. Count(fs, Releasing(x)) \in Nat
    <3>1. IsFiniteSet(DOMAIN fs)
      BY SeqIsFinite DEF FramesOK
    <3>2. QED BY <3>1, CountNat
  <2> DEFINE r == refs[x]
             a == app[x]
             h == Holders(x)
             c == Count(fs, Releasing(x))
             rr == refs'[x]
             aa == app'[x]
             hh == Holders(x)'
  <2>5. rr - r = (aa - a) + (hh - h) + c
    OBVIOUS
  <2>6. /\ r = a + h /\ r \in Nat /\ a \in Nat /\ h \in Nat /\ c \in Nat
        /\ rr \in Nat /\ aa \in Nat /\ hh \in Nat
    BY <2>1, <2>2, <2>4
  <2>7. rr = aa + hh + c
    <3> HIDE DEF r, a, h, c, rr, aa, hh
    <3>1. QED BY <2>5, <2>6
  <2>8. QED BY <2>3, <2>7
<1>3. Balanced'
  BY <1>2 DEF Balanced
<1>4. FreeBlank'
  <2>1. ASSUME NEW x \in Cells, refs'[x] = 0 PROVE Blank(x)'
    BY <2>1, NothingOwed
  <2>2. QED BY <2>1 DEF FreeBlank, Free
<1>5. FramesInv'
  BY DEF FramesInv
<1>6. QED BY <1>1, <1>3, <1>4, <1>5 DEF Sound

(* A function is called before anything has changed.                       *)
LEMMA FunctionCalled ==
  ASSUME Idle, UNCHANGED <<heapVars, app, odd, misused>>,
         NEW f, FrameOK(f), stack' = <<f>>, f.op # "release", Fits(f, 1)'
  PROVE  TypeOK' /\ Sound'
<1>1. HeapTyped'
  BY DEF heapVars, Idle, TypeOK, HeapTyped
<1>2. app' \in [Cells -> Nat] /\ misused' \in BOOLEAN
  BY DEF Idle, TypeOK
<1>3. FramesOK(<<f>>) /\ Len(<<f>>) = 1 /\ <<f>>[1] = f
  BY ShortStacks
<1>4. ASSUME NEW x \in Cells
      PROVE  refs'[x] - refs[x] = (app'[x] - app[x]) + (Holders(x)' - Holders(x))
                                  + Count(<<f>>, Releasing(x))
  <2>1. Holders(x)' = Holders(x) /\ refs' = refs /\ app' = app
    BY HoldersKept DEF heapVars
  <2>2. Count(<<f>>, Releasing(x)) = 0
    BY CountSingle, OneOfFrame
  <2>3. refs[x] \in Nat /\ app[x] \in Nat /\ Holders(x) \in Nat
    BY NothingOwed
  <2>4. QED BY <2>1, <2>2, <2>3
<1>5. \A x \in Cells : refs'[x] = 0 => refs[x] = 0 /\ (Blank(x) => Blank(x)')
  BY DEF heapVars, Blank
<1>6. \A g, k : k \in 1 .. Len(<<f>>) /\ g = <<f>>[k] => Fits(g, k)'
  <2>1. \A k : k \in 1 .. 1 => k = 1
    OBVIOUS
  <2>2. QED BY <1>3, <2>1
<1> DEFINE fs == <<f>>
<1>7. stack' = fs
  OBVIOUS
<1> HIDE DEF fs
<1>8. QED BY <1>1, <1>2, <1>3, <1>4, <1>5, <1>6, <1>7, CallStep DEF fs

(* A function that releases x is called, or none (x is no cell).           *)
LEMMA ReleaseFits ==
  ASSUME NEW x
  PROVE  \A f, k : k \in 1 .. Len(<<Releasing(x)>>) /\ f = <<Releasing(x)>>[k] => Fits(f, k)'
<1>1. \A f, k : k \in 1 .. Len(<<Releasing(x)>>) /\ f = <<Releasing(x)>>[k] => f = Releasing(x)
  OBVIOUS
<1>2. Releasing(x).op = "release"
  BY ShapesApart
<1>3. QED BY <1>1, <1>2 DEF Fits

(* The setters.                                                            *)
LEMMA SetCall ==
  ASSUME Idle, NEW o \in Objs, NEW n \in Names, NEW l \in Layers, NEW v \in Values, Set(o, n, l, v)
  PROVE  TypeOK' /\ Sound'
<1>1. /\ app[o] > 0 /\ (v \in Cells => app[v] > 0)
      /\ UNCHANGED <<heapVars, app, odd, misused>>
  BY DEF Set, Owned
<1>2. PICK f : f = Setting(o, n, l, v)
  OBVIOUS
<1>3. FrameOK(f) /\ stack' = <<f>> /\ f.op = "set" /\ f.to = o /\ f.value = v
  BY <1>2 DEF Set, Calls, Setting, FrameOK
<1>4. Fits(f, 1)'
  <2>1. Given(v, 1)' /\ app'[o] > 0 /\ \A i \in 2 .. 1-1 : FALSE
    BY <1>1 DEF Given
  <2>2. QED BY <1>3, <2>1 DEF Fits
<1>5. QED BY <1>1, <1>3, <1>4, FunctionCalled

(* wsc_data_erase.                                                         *)
LEMMA EraseCall ==
  ASSUME Idle, NEW o \in Objs, NEW n \in Names, Erase(o, n)
  PROVE  TypeOK' /\ Sound'
<1>1. app[o] > 0 /\ UNCHANGED <<heapVars, app, odd, misused>>
  BY DEF Erase, Owned
<1>2. PICK f : f = Erasing(o, n)
  OBVIOUS
<1>3. FrameOK(f) /\ stack' = <<f>> /\ f.op = "erase" /\ f.to = o
  BY <1>2 DEF Erase, Calls, Erasing, FrameOK
<1>4. Fits(f, 1)'
  BY <1>1, <1>3 DEF Fits
<1>5. QED BY <1>1, <1>3, <1>4, FunctionCalled

(* wsc_data_clear.                                                         *)
LEMMA ClearCall ==
  ASSUME Idle, NEW o \in Objs, Clear(o)
  PROVE  TypeOK' /\ Sound'
<1>1. app[o] > 0 /\ UNCHANGED <<heapVars, app, odd, misused>>
  BY DEF Clear, Owned
<1>2. PICK f : f = Clearing(o, Names)
  OBVIOUS
<1>3. FrameOK(f) /\ stack' = <<f>> /\ f.op = "clear" /\ f.to = o
  BY <1>2 DEF Clear, Calls, Clearing, FrameOK
<1>4. Fits(f, 1)'
  BY <1>1, <1>3 DEF Fits
<1>5. QED BY <1>1, <1>3, <1>4, FunctionCalled

(* wsc_data_apply: both arguments are the application's.                   *)
LEMMA ApplyCall ==
  ASSUME Idle, NEW t \in Objs, NEW s \in Objs, Apply(t, s)
  PROVE  TypeOK' /\ Sound'
<1>1. app[t] > 0 /\ app[s] > 0 /\ UNCHANGED <<heapVars, app, odd, misused>>
  BY DEF Apply, Owned
<1>2. PICK f : f = Applying(t, s, Names)
  OBVIOUS
<1>3. FrameOK(f) /\ stack' = <<f>> /\ f.op = "apply" /\ f.to = t /\ f.from = s
  BY <1>2 DEF Apply, Applying, FrameOK
<1>4. Fits(f, 1)'
  BY <1>1, <1>3 DEF Fits
<1>5. QED BY <1>1, <1>3, <1>4, FunctionCalled

(* The application's reference passes to the release it calls.             *)
LEMMA AppReleaseCall ==
  ASSUME Idle, NEW x \in Cells, AppRelease(x)
  PROVE  TypeOK' /\ Sound'
<1>1. /\ app[x] > 0 /\ app' = [app EXCEPT ![x] = @ - 1] /\ stack' = <<Releasing(x)>>
      /\ UNCHANGED <<heapVars, odd, misused>>
  BY DEF AppRelease, Owned, Calls
<1>2. HeapTyped'
  BY <1>1 DEF heapVars, Idle, TypeOK, HeapTyped
<1>3. /\ app' \in [Cells -> Nat] /\ app'[x] = app[x] - 1 /\ app[x] \in Nat
      /\ \A y \in Cells \ {x} : app'[y] = app[y]
  BY <1>1 DEF Idle, TypeOK
<1>4. misused' \in BOOLEAN
  BY <1>1 DEF Idle, TypeOK
<1> DEFINE fs == <<Releasing(x)>>
<1>5. FramesOK(fs)
  BY ShortStacks DEF FrameOK
<1>6. ASSUME NEW y \in Cells
      PROVE  refs'[y] - refs[y] = (app'[y] - app[y]) + (Holders(y)' - Holders(y))
                                  + Count(fs, Releasing(y))
  <2>1. Holders(y)' = Holders(y) /\ refs' = refs
    BY <1>1, HoldersKept DEF heapVars
  <2>2. Count(fs, Releasing(y)) = One(x, y)
    BY CountSingle, OneOfFrame
  <2>3. refs[y] \in Nat /\ app[y] \in Nat /\ Holders(y) \in Nat
    BY NothingOwed
  <2>4. app'[y] = app[y] - One(x, y) /\ One(x, y) \in Nat
    BY <1>3, <2>3 DEF One
  <2>5. QED BY <2>1, <2>2, <2>3, <2>4
<1>7. \A y \in Cells : refs'[y] = 0 => refs[y] = 0 /\ (Blank(y) => Blank(y)')
  BY <1>1 DEF heapVars, Blank
<1>8. \A f, k : k \in 1 .. Len(fs) /\ f = fs[k] => Fits(f, k)'
  BY ReleaseFits
<1>9. stack' = fs
  BY <1>1
<1> HIDE DEF fs
<1>10. QED BY <1>2, <1>3, <1>4, <1>5, <1>6, <1>7, <1>8, <1>9, CallStep

(* One value is taken out of its item.                                     *)
LEMMA UnsetCall ==
  ASSUME Idle, NEW o \in Objs, NEW n \in Names, NEW l \in Layers, Unset(o, n, l)
  PROVE  TypeOK' /\ Sound'
<1> DEFINE v == val[<<o, n, l>>]
           fs == IF v \in Cells THEN <<Releasing(v)>> ELSE <<>>
<1>1. /\ app[o] > 0 /\ v # "unset" /\ val' = [val EXCEPT ![<<o, n, l>>] = "unset"]
      /\ stack' = fs /\ UNCHANGED <<type, elems, refs, app, odd, misused>>
  BY DEF Unset, Owned, Calls
<1>2. /\ val' \in [Slots -> Values \cup {"unset"}] /\ val'[<<o, n, l>>] = "unset"
      /\ \A s \in Slots \ {<<o, n, l>>} : val'[s] = val[s]
      /\ <<o, n, l>> \in Slots
  BY <1>1 DEF Idle, TypeOK, Slots
<1>3. HeapTyped'
  <2>1. \A p \in Objs, m \in Names, k \in Layers :
          val'[<<p, m, k>>] # "unset" => type[<<p, m>>] = Kind(val'[<<p, m, k>>])
    <3>1. ASSUME NEW p \in Objs, NEW m \in Names, NEW k \in Layers, val'[<<p, m, k>>] # "unset"
          PROVE  type[<<p, m>>] = Kind(val'[<<p, m, k>>])
      <4>1. val'[<<p, m, k>>] = val[<<p, m, k>>]
        BY <1>2, <3>1 DEF Slots
      <4>2. QED BY <3>1, <4>1 DEF Idle, TypeOK
    <3>2. QED BY <3>1
  <2>2. QED BY <1>1, <1>2, <2>1 DEF Idle, TypeOK, HeapTyped
<1>4. app' \in [Cells -> Nat] /\ misused' \in BOOLEAN
  BY <1>1 DEF Idle, TypeOK
<1>5. FramesOK(fs)
  <2>1. v \in Cells => FrameOK(Releasing(v))
    BY DEF FrameOK
  <2>2. QED BY <2>1, ShortStacks
<1>6. TypeOK'
  BY <1>1, <1>3, <1>4, <1>5 DEF HeapTyped, TypeOK, FramesOK
<1>7. ASSUME NEW y \in Cells
      PROVE  refs'[y] - refs[y] = (app'[y] - app[y]) + (Holders(y)' - Holders(y))
                                  + Count(fs, Releasing(y))
  <2>1. Holders(y)' = Holders(y) - One(v, y) + One("unset", y)
    BY <1>1, <1>2, <1>6, ValueChanged DEF Idle
  <2>2. One("unset", y) = 0
    BY CellsAssumption DEF One
  <2>3. Count(fs, Releasing(y)) = One(v, y)
    BY CountSingle, OneOfFrame DEF One
  <2>4. refs[y] \in Nat /\ app[y] \in Nat /\ Holders(y) \in Nat /\ One(v, y) \in Nat
    BY NothingOwed DEF One
  <2>5. refs' = refs /\ app' = app
    BY <1>1
  <2> HIDE DEF v, fs
  <2>6. QED BY <2>1, <2>2, <2>3, <2>4, <2>5
<1>8. \A y \in Cells : refs'[y] = 0 => refs[y] = 0 /\ (Blank(y) => Blank(y)')
  <2>1. ASSUME NEW y \in Cells, refs'[y] = 0, Blank(y) PROVE refs[y] = 0 /\ Blank(y)'
    <3>1. refs[y] = 0 /\ refs[o] > 0
      <4>1. o \in Cells
        BY DEF Cells
      <4>2. refs[o] # 0
        BY <1>1, <4>1, NothingOwed
      <4>3. QED BY <1>1, <2>1, <4>1, <4>2, NothingOwed
    <3>2. y # o
      BY <3>1
    <3>3. \A m \in Names, k \in Layers : y \in Objs => val'[<<y, m, k>>] = val[<<y, m, k>>]
      BY <1>2, <3>2 DEF Slots
    <3>4. QED BY <1>1, <2>1, <3>1, <3>3 DEF Blank
  <2>2. QED BY <1>1, <2>1
<1>9. \A f, k : k \in 1 .. Len(fs) /\ f = fs[k] => Fits(f, k)'
  <2>1. CASE v \in Cells
    <3>1. fs = <<Releasing(v)>>
      BY <2>1
    <3> HIDE DEF fs
    <3>2. PICK x : x = v
      OBVIOUS
    <3>3. \A f, k : k \in 1 .. Len(<<Releasing(x)>>) /\ f = <<Releasing(x)>>[k] => Fits(f, k)'
      BY ReleaseFits
    <3>4. fs = <<Releasing(x)>>
      BY <3>1, <3>2
    <3>5. QED BY <3>3, <3>4
  <2>2. CASE v \notin Cells
    BY <2>2
  <2>3. QED BY <2>1, <2>2
<1>10. PICK gs : gs = fs
  OBVIOUS
<1> HIDE DEF fs
<1>11. /\ FramesOK(gs) /\ stack' = gs
       /\ \A f, k : k \in 1 .. Len(gs) /\ f = gs[k] => Fits(f, k)'
       /\ \A y \in Cells :
            refs'[y] - refs[y] = (app'[y] - app[y]) + (Holders(y)' - Holders(y))
                                 + Count(gs, Releasing(y))
  BY <1>1, <1>5, <1>7, <1>9, <1>10
<1>12. QED BY <1>3, <1>4, <1>8, <1>11, CallStep

(* A new object or array that the application owns, and may have filled.   *)
LEMMA NewCall ==
  ASSUME Idle, NEW c \in Free(Cells), refs' = [refs EXCEPT ![c] = 1],
         app' = [app EXCEPT ![c] = @ + 1], UNCHANGED <<type, val, elems, odd, misused>>,
         NEW fs, stack' = fs, FramesOK(fs), \A x : Count(fs, Releasing(x)) = 0,
         \A f, k : k \in 1 .. Len(fs) /\ f = fs[k] => Fits(f, k)'
  PROVE  TypeOK' /\ Sound'
<1>1. /\ c \in Cells /\ refs[c] = 0 /\ app[c] = 0
      /\ refs' \in [Cells -> Nat] /\ refs'[c] = 1 /\ \A x \in Cells \ {c} : refs'[x] = refs[x]
      /\ app' \in [Cells -> Nat] /\ app'[c] = 1 /\ \A x \in Cells \ {c} : app'[x] = app[x]
  <2>1. c \in Cells /\ refs[c] = 0
    BY DEF Free
  <2>2. app[c] = 0
    BY <2>1, NothingOwed
  <2>3. QED BY <2>1, <2>2 DEF Idle, TypeOK
<1>2. HeapTyped'
  BY <1>1 DEF Idle, TypeOK, HeapTyped
<1>3. misused' \in BOOLEAN
  BY DEF Idle, TypeOK
<1>4. ASSUME NEW x \in Cells
      PROVE  refs'[x] - refs[x] = (app'[x] - app[x]) + (Holders(x)' - Holders(x))
                                  + Count(fs, Releasing(x))
  <2>1. Holders(x)' = Holders(x) /\ Count(fs, Releasing(x)) = 0
    BY HoldersKept
  <2>2. refs[x] \in Nat /\ app[x] \in Nat /\ Holders(x) \in Nat
    BY NothingOwed
  <2>3. CASE x = c
    BY <1>1, <2>1, <2>2, <2>3
  <2>4. CASE x # c
    BY <1>1, <2>1, <2>2, <2>4
  <2>5. QED BY <2>3, <2>4
<1>5. \A x \in Cells : refs'[x] = 0 => refs[x] = 0 /\ (Blank(x) => Blank(x)')
  BY <1>1 DEF Blank
<1>6. QED BY <1>1, <1>2, <1>3, <1>4, <1>5, CallStep

(* wsc_data_create, wsc_data_array_create.                                 *)
LEMMA CreateCall ==
  ASSUME Idle, NEW S \in {Objs, Arrays}, Create(S)
  PROVE  TypeOK' /\ Sound'
<1>1. PICK c : c = New(S)
  OBVIOUS
<1>2. c \in Free(Cells) /\ refs' = [refs EXCEPT ![c] = 1]
  BY <1>1, NewCell DEF Create
<1>3. /\ app' = [app EXCEPT ![c] = @ + 1] /\ stack' = <<>>
      /\ UNCHANGED <<type, val, elems, odd, misused>>
  BY <1>1 DEF Create, Hold, Calls
<1>4. FramesOK(<<>>) /\ Len(<<>>) = 0 /\ \A x : Count(<<>>, Releasing(x)) = 0
  BY ShortStacks, CountSingle
<1>5. \A f, k : k \in 1 .. Len(<<>>) /\ f = <<>>[k] => Fits(f, k)'
  BY <1>4
<1>6. QED BY <1>2, <1>3, <1>4, <1>5, NewCall

(* A new object is filled from a document.                                 *)
LEMMA FillCall ==
  ASSUME Idle, Created(Objs), Hold(New(Objs)), UNCHANGED <<type, val, elems, odd, misused>>,
         NEW j, stack' = <<AddingMembers(New(Objs), j, Members(j))>>
  PROVE  TypeOK' /\ Sound'
<1>1. PICK c : c = New(Objs)
  OBVIOUS
<1>2. c \in Objs /\ c \in Free(Cells) /\ refs' = [refs EXCEPT ![c] = 1]
  BY <1>1, NewCell
<1>3. app' = [app EXCEPT ![c] = @ + 1]
  BY <1>1 DEF Hold
<1>4. PICK f : f = AddingMembers(c, j, Members(j))
  OBVIOUS
<1>5. FrameOK(f) /\ f.op = "members" /\ f.to = c /\ stack' = <<f>>
  BY <1>1, <1>2, <1>4 DEF AddingMembers, Members, FrameOK
<1>6. FramesOK(<<f>>) /\ \A x : Count(<<f>>, Releasing(x)) = 0
  BY <1>5, ShortStacks, CountSingle, OneOfFrame
<1>7. Fits(f, 1)'
  <2>1. app'[c] > 0
    <3>1. c \in Cells /\ app[c] \in Nat /\ DOMAIN app = Cells
      BY <1>2 DEF Cells, Idle, TypeOK
    <3>2. QED BY <1>3, <3>1
  <2>2. QED BY <1>5, <2>1 DEF Fits
<1>8. \A g, k : k \in 1 .. Len(<<f>>) /\ g = <<f>>[k] => Fits(g, k)'
  <2>1. \A k : k \in 1 .. Len(<<f>>) => k = 1
    OBVIOUS
  <2>2. <<f>>[1] = f
    OBVIOUS
  <2>3. QED BY <1>7, <2>1, <2>2
<1>9. PICK fs : fs = <<f>>
  OBVIOUS
<1>10. /\ stack' = fs /\ FramesOK(fs) /\ \A x : Count(fs, Releasing(x)) = 0
       /\ \A g, k : k \in 1 .. Len(fs) /\ g = fs[k] => Fits(g, k)'
  BY <1>5, <1>6, <1>8, <1>9
<1>11. QED BY <1>2, <1>3, <1>10, NewCall

(* wsc_data_create_from_json: the object is the application's, or          *)
(* released.                                                               *)
LEMMA FromJsonCall ==
  ASSUME Idle, NEW j, FromJson(j)
  PROVE  TypeOK' /\ Sound'
<1>1. Created(Objs) /\ UNCHANGED <<type, val, elems, odd, misused>>
  BY DEF FromJson
<1>2. CASE j[1] # "invalid"
  <2>1. /\ Hold(New(Objs))
        /\ stack' = <<AddingMembers(New(Objs), j, Members(j))>>
    BY <1>2 DEF FromJson, Calls
  <2>2. QED BY <1>1, <2>1, FillCall
<1>3. CASE j[1] = "invalid"
  <2>1. PICK c : c = New(Objs)
    OBVIOUS
  <2>2. c \in Free(Cells) /\ refs' = [refs EXCEPT ![c] = 1]
    BY <1>1, <2>1, NewCell
  <2>3. stack' = <<Releasing(c)>> /\ app' = app
    BY <1>3, <2>1 DEF FromJson, Calls
  <2>4. /\ c \in Cells /\ refs[c] = 0
        /\ refs' \in [Cells -> Nat] /\ refs'[c] = 1 /\ \A x \in Cells \ {c} : refs'[x] = refs[x]
    BY <2>2 DEF Free, Idle, TypeOK
  <2>5. HeapTyped' /\ app' \in [Cells -> Nat] /\ misused' \in BOOLEAN
    BY <1>1, <2>3, <2>4 DEF Idle, TypeOK, HeapTyped
  <2> DEFINE fs == <<Releasing(c)>>
  <2>6. FramesOK(fs)
    BY <2>4, ShortStacks DEF FrameOK
  <2>7. ASSUME NEW x \in Cells
        PROVE  refs'[x] - refs[x] = (app'[x] - app[x]) + (Holders(x)' - Holders(x))
                                    + Count(fs, Releasing(x))
    <3>1. Holders(x)' = Holders(x)
      BY <1>1, HoldersKept
    <3>2. Count(fs, Releasing(x)) = One(c, x)
      BY CountSingle, OneOfFrame
    <3>3. refs[x] \in Nat /\ app[x] \in Nat /\ Holders(x) \in Nat
      BY NothingOwed
    <3>4. refs'[x] = refs[x] + One(c, x) /\ One(c, x) \in Nat
      BY <2>4, <3>3 DEF One
    <3>5. QED BY <2>3, <3>1, <3>2, <3>3, <3>4
  <2>8. \A x \in Cells : refs'[x] = 0 => refs[x] = 0 /\ (Blank(x) => Blank(x)')
    BY <1>1, <2>4 DEF Blank
  <2>9. \A f, k : k \in 1 .. Len(fs) /\ f = fs[k] => Fits(f, k)'
    BY ReleaseFits
  <2>10. stack' = fs
    BY <2>3
  <2> HIDE DEF fs
  <2>11. QED BY <2>5, <2>6, <2>7, <2>8, <2>9, <2>10, CallStep
<1>4. QED BY <1>2, <1>3

(* What has been written as JSON is read as a new object.                  *)
LEMMA ReloadCall ==
  ASSUME Idle, NEW o \in Objs, Reload(o)
  PROVE  TypeOK' /\ Sound'
<1>1. PICK j : j = Json(Heap, o)
  OBVIOUS
<1>2. /\ Created(Objs) /\ Hold(New(Objs)) /\ UNCHANGED <<type, val, elems, odd, misused>>
      /\ stack' = <<AddingMembers(New(Objs), j, Members(j))>>
  BY <1>1 DEF Reload
<1>3. QED BY <1>2, FillCall

(* The application gets a reference to what is held.                       *)
LEMMA TakenCall ==
  ASSUME Idle, NEW v \in Cells, Holders(v) >= 1, app' = [app EXCEPT ![v] = @ + 1], Addref(v),
         stack' = <<>>, UNCHANGED <<type, val, elems, odd>>
  PROVE  TypeOK' /\ Sound' /\ ~misused'
<1>1. /\ refs' \in [Cells -> Nat] /\ refs'[v] = refs[v] + 1
      /\ \A x \in Cells \ {v} : refs'[x] = refs[x]
      /\ app' \in [Cells -> Nat] /\ app'[v] = app[v] + 1
      /\ \A x \in Cells \ {v} : app'[x] = app[x]
  BY DEF Addref, Idle, TypeOK
<1>2. ~misused'
  <2>1. refs[v] # 0
    BY NothingOwed
  <2>2. QED BY <2>1 DEF Addref
<1>3. HeapTyped' /\ misused' \in BOOLEAN
  <2>1. misused' \in BOOLEAN
    BY DEF Addref
  <2>2. QED BY <1>1, <2>1 DEF Idle, TypeOK, HeapTyped
<1>4. ASSUME NEW x \in Cells
      PROVE  refs'[x] - refs[x] = (app'[x] - app[x]) + (Holders(x)' - Holders(x))
                                  + Count(<<>>, Releasing(x))
  <2>1. Holders(x)' = Holders(x) /\ Count(<<>>, Releasing(x)) = 0
    BY HoldersKept, CountSingle
  <2>2. refs[x] \in Nat /\ app[x] \in Nat /\ Holders(x) \in Nat
    BY NothingOwed
  <2>3. CASE x = v
    BY <1>1, <2>1, <2>2, <2>3
  <2>4. CASE x # v
    BY <1>1, <2>1, <2>2, <2>4
  <2>5. QED BY <2>3, <2>4
<1>5. \A x \in Cells : refs'[x] = 0 => refs[x] = 0 /\ (Blank(x) => Blank(x)')
  <2>1. ASSUME NEW x \in Cells, refs'[x] = 0 PROVE refs[x] = 0
    <3>1. refs[v] \in Nat
      BY NothingOwed
    <3>2. QED BY <1>1, <2>1, <3>1
  <2>2. QED BY <2>1 DEF Blank
<1>6. FramesOK(<<>>) /\ \A f, k : k \in 1 .. Len(<<>>) /\ f = <<>>[k] => Fits(f, k)'
  BY ShortStacks
<1>7. TypeOK' /\ Sound'
  BY <1>1, <1>3, <1>4, <1>5, <1>6, CallStep
<1>8. QED BY <1>2, <1>7

(* A getter finds what it returns alive, because the item holds it.        *)
LEMMA GetCall ==
  ASSUME Idle, NEW o \in Objs, NEW n \in Names, NEW v \in Cells, Get(o, n, v)
  PROVE  TypeOK' /\ Sound' /\ ~misused'
<1>1. v # "unset"
  BY CellsAssumption
<1>2. \E l \in Layers : val[<<o, n, l>>] = v
  <2>1. CASE v = Current(o, n)
    <3> DEFINE Value(l) == IF l \in Layers THEN val[<<o, n, l>>] ELSE "unset"
    <3>1. v \in {Value("user"), Value("default"), Value("autoselect")}
      BY <2>1 DEF Current
    <3>2. QED BY <1>1, <3>1
  <2>2. CASE "autoselect" \in Layers /\ v = val[<<o, n, "autoselect">>]
    BY <2>2
  <2>3. QED BY <2>1, <2>2 DEF Get
<1>3. Holders(v) >= 1
  BY <1>2, HeldByPlaces DEF Idle
<1>4. /\ app' = [app EXCEPT ![v] = @ + 1] /\ Addref(v) /\ stack' = <<>>
      /\ UNCHANGED <<type, val, elems, odd>>
  BY DEF Get, Hold, Calls
<1>5. QED BY <1>3, <1>4, TakenCall

(* So does wsc_data_array_item.                                            *)
LEMMA GetElementCall ==
  ASSUME Idle, NEW a \in Arrays, NEW v \in Objs, GetElement(a, v)
  PROVE  TypeOK' /\ Sound' /\ ~misused'
<1>1. v \in Cells /\ \E p \in DOMAIN elems[a] : elems[a][p] = v
  BY DEF GetElement, ToSet, Cells
<1>2. Holders(v) >= 1
  BY <1>1, HeldByPlaces DEF Idle
<1>3. /\ app' = [app EXCEPT ![v] = @ + 1] /\ Addref(v) /\ stack' = <<>>
      /\ UNCHANGED <<type, val, elems, odd>>
  BY DEF GetElement, Hold, Calls
<1>4. QED BY <1>1, <1>2, <1>3, TakenCall

(* An element is inserted.                                                 *)
LEMMA InsertOne ==
  ASSUME NEW S, NEW s \in Seq(S), NEW k \in 1 .. Len(s) + 1, NEW e \in S
  PROVE  /\ InsertAt(s, k, e) \in Seq(S) /\ Len(InsertAt(s, k, e)) = Len(s) + 1
         /\ \A x : Count(InsertAt(s, k, e), x) = Count(s, x) + One(e, x)
<1> DEFINE l == SubSeq(s, 1, k - 1)
           r == SubSeq(s, k, Len(s))
           m == <<e>>
<1>1. Len(s) \in Nat /\ k \in Nat \ {0} /\ k - 1 \in 0 .. Len(s)
  BY LenProperties
<1>2. l \in Seq(S) /\ r \in Seq(S) /\ m \in Seq(S) /\ Len(m) = 1
  <2>1. \A i \in 1 .. Len(s) : s[i] \in S
    BY ElementOfSeq
  <2>2. (\A i \in 1 .. k - 1 : s[i] \in S) /\ (\A i \in k .. Len(s) : s[i] \in S)
    BY <1>1, <2>1
  <2>3. QED BY <1>1, <2>2, SubSeqProperties
<1>3. l \o r = s
  <2>1. SubSeq(s, 1, k-1) \o SubSeq(s, (k-1)+1, Len(s)) = SubSeq(s, 1, Len(s))
    <3>1. 1 \in 1 .. Len(s) + 1 /\ k - 1 \in 1 - 1 .. Len(s) /\ Len(s) \in k - 1 .. Len(s)
      BY <1>1
    <3>2. QED BY <3>1, ConcatAdjacentSubSeq
  <2>2. (k - 1) + 1 = k
    BY <1>1
  <2>3. QED BY <2>1, <2>2, SubSeqFull
<1>4. InsertAt(s, k, e) = l \o m \o r
  BY DEF InsertAt
<1> HIDE DEF l, r, m
<1>5. l \o m \in Seq(S) /\ l \o m \o r \in Seq(S)
  BY <1>2, ConcatProperties
<1>6. Len(l \o m \o r) = Len(s) + 1
  <2>1. Len(l \o m) = Len(l) + Len(m) /\ Len(l \o r) = Len(l) + Len(r)
    BY <1>2, ConcatProperties
  <2>2. Len(l \o m \o r) = Len(l \o m) + Len(r)
    BY <1>2, <1>5, ConcatProperties
  <2>3. Len(l) \in Nat /\ Len(r) \in Nat
    BY <1>2, LenProperties
  <2>4. QED BY <1>2, <1>3, <2>1, <2>2, <2>3
<1>7. ASSUME NEW x PROVE Count(l \o m \o r, x) = Count(s, x) + One(e, x)
  <2>1. Count(l \o m, x) = Count(l, x) + Count(m, x) /\ Count(l \o r, x) = Count(l, x) + Count(r, x)
    BY <1>2, CountConcat
  <2>2. Count(l \o m \o r, x) = Count(l \o m, x) + Count(r, x)
    BY <1>2, <1>5, CountConcat
  <2>3. Count(m, x) = One(e, x) /\ One(e, x) \in Nat
    BY CountSingle DEF m, One
  <2>4. Count(l, x) \in Nat /\ Count(r, x) \in Nat
    BY <1>2, SeqIsFinite, CountNat
  <2>5. QED BY <1>3, <2>1, <2>2, <2>3, <2>4
<1>8. QED BY <1>4, <1>5, <1>6, <1>7

(* An element is removed.                                                  *)
LEMMA RemoveOne ==
  ASSUME NEW S, NEW s \in Seq(S), NEW k \in 1 .. Len(s)
  PROVE  /\ RemoveAt(s, k) \in Seq(S) /\ Len(RemoveAt(s, k)) = Len(s) - 1
         /\ \A x : Count(s, x) = Count(RemoveAt(s, k), x) + One(s[k], x)
<1> DEFINE l == SubSeq(s, 1, k - 1)
           r == SubSeq(s, k + 1, Len(s))
           m == <<s[k]>>
<1>1. Len(s) \in Nat /\ k \in Nat \ {0} /\ k - 1 \in 0 .. Len(s) /\ k =< Len(s)
  BY LenProperties
<1>2. l \in Seq(S) /\ r \in Seq(S) /\ m \in Seq(S) /\ Len(m) = 1
  <2>1. \A i \in 1 .. Len(s) : s[i] \in S
    BY ElementOfSeq
  <2>2. /\ s[k] \in S /\ (\A i \in 1 .. k - 1 : s[i] \in S)
        /\ (\A i \in k + 1 .. Len(s) : s[i] \in S)
    BY <1>1, <2>1
  <2>3. QED BY <1>1, <2>2, SubSeqProperties
<1>3. s = l \o (m \o r)
  <2>1. SubSeq(s, 1, k-1) \o SubSeq(s, (k-1)+1, Len(s)) = SubSeq(s, 1, Len(s))
    <3>1. 1 \in 1 .. Len(s) + 1 /\ k - 1 \in 1 - 1 .. Len(s) /\ Len(s) \in k - 1 .. Len(s)
      BY <1>1
    <3>2. QED BY <3>1, ConcatAdjacentSubSeq
  <2>2. (k - 1) + 1 = k
    BY <1>1
  <2>3. SubSeq(s, k, Len(s)) = m \o r
    <3>1. k \in 1 .. Len(s) /\ Len(s) \in k .. Len(s)
      BY <1>1
    <3>2. QED BY <3>1, SubSeqRecursiveFirst
  <2>4. QED BY <2>1, <2>2, <2>3, SubSeqFull
<1>4. RemoveAt(s, k) = l \o r
  BY DEF RemoveAt
<1>5. \A x : One(s[k], x) \in Nat /\ Count(m, x) = One(s[k], x)
  BY CountSingle DEF One
<1> HIDE DEF l, r, m
<1>6. m \o r \in Seq(S) /\ l \o r \in Seq(S)
  BY <1>2, ConcatProperties
<1>7. Len(l \o r) = Len(s) - 1
  <2>1. Len(l \o r) = Len(l) + Len(r) /\ Len(m \o r) = Len(m) + Len(r)
    BY <1>2, ConcatProperties
  <2>2. Len(l \o (m \o r)) = Len(l) + Len(m \o r)
    BY <1>2, <1>6, ConcatProperties
  <2>3. Len(l) \in Nat /\ Len(r) \in Nat
    BY <1>2, LenProperties
  <2>4. QED BY <1>2, <1>3, <2>1, <2>2, <2>3
<1>8. ASSUME NEW x PROVE Count(s, x) = Count(l \o r, x) + One(s[k], x)
  <2>1. Count(l \o r, x) = Count(l, x) + Count(r, x) /\ Count(m \o r, x) = Count(m, x) + Count(r, x)
    BY <1>2, CountConcat
  <2>2. Count(l \o (m \o r), x) = Count(l, x) + Count(m \o r, x)
    BY <1>2, <1>6, CountConcat
  <2>3. Count(l, x) \in Nat /\ Count(r, x) \in Nat
    BY <1>2, SeqIsFinite, CountNat
  <2>4. QED BY <1>3, <1>5, <2>1, <2>2, <2>3
<1>9. QED BY <1>4, <1>6, <1>7, <1>8

(* The elements of one array change, and their counts with them.           *)
LEMMA ArrayCall ==
  ASSUME Idle, NEW a \in Arrays, app[a] > 0, NEW t \in Seq(Objs), Len(t) =< MaxLen,
         elems' = [elems EXCEPT ![a] = t], UNCHANGED <<type, val, app, odd>>, misused' \in BOOLEAN,
         NEW fs, stack' = fs, FramesOK(fs),
         \A f, k : k \in 1 .. Len(fs) /\ f = fs[k] => Fits(f, k)',
         refs' \in [Cells -> Nat], \A x \in Cells : refs'[x] >= refs[x],
         \A x \in Cells :
           refs'[x] - refs[x] = Count(t, x) - Count(elems[a], x) + Count(fs, Releasing(x))
  PROVE  TypeOK' /\ Sound'
<1>1. /\ elems' \in [Arrays -> Seq(Objs)] /\ elems'[a] = t
      /\ \A b \in Arrays \ {a} : elems'[b] = elems[b]
      /\ \A b \in Arrays : Len(elems'[b]) =< MaxLen
  BY DEF Idle, TypeOK
<1>2. HeapTyped' /\ app' \in [Cells -> Nat]
  BY <1>1 DEF Idle, TypeOK, HeapTyped
<1>3. TypeOK'
  BY <1>2 DEF HeapTyped, TypeOK, FramesOK
<1>4. ASSUME NEW x \in Cells
      PROVE  refs'[x] - refs[x] = (app'[x] - app[x]) + (Holders(x)' - Holders(x))
                                  + Count(fs, Releasing(x))
  <2>1. /\ Holders(x)' = Holders(x) - Count(elems[a], x) + Count(t, x)
        /\ Count(elems[a], x) \in Nat /\ Count(t, x) \in Nat
    BY <1>1, <1>3, ElementsChanged DEF Idle
  <2>2. /\ app[x] \in Nat /\ Holders(x) \in Nat /\ refs[x] \in Nat /\ app' = app
        /\ Count(fs, Releasing(x)) \in Nat
    <3>1. IsFiniteSet(DOMAIN fs)
      BY SeqIsFinite DEF FramesOK
    <3>2. QED BY <3>1, NothingOwed, CountNat
  <2>3. refs'[x] \in Nat
    OBVIOUS
  <2>4. QED BY <2>1, <2>2, <2>3
<1>5. \A x \in Cells : refs'[x] = 0 => refs[x] = 0 /\ (Blank(x) => Blank(x)')
  <2>1. ASSUME NEW x \in Cells, refs'[x] = 0 PROVE refs[x] = 0 /\ (Blank(x) => Blank(x)')
    <3>1. refs[x] = 0
      <4>1. refs[x] \in Nat /\ refs'[x] >= refs[x]
        BY NothingOwed
      <4>2. QED BY <2>1, <4>1
    <3>2. x # a
      BY <3>1, NothingOwed
    <3>3. x \in Objs \/ elems'[x] = elems[x]
      BY <1>1, <3>2 DEF Cells
    <3>4. QED BY <3>1, <3>3 DEF Blank
  <2>2. QED BY <2>1
<1>6. QED BY <1>2, <1>4, <1>5, CallStep

(* wsc_data_array_push_back and wsc_data_array_insert.                     *)
LEMMA InsertCall ==
  ASSUME Idle, NEW a \in Arrays, NEW k \in 1 .. MaxLen, NEW o \in Objs, Insert(a, k, o)
  PROVE  TypeOK' /\ Sound' /\ ~misused'
<1>1. /\ app[a] > 0 /\ app[o] > 0 /\ k \in 1 .. Len(elems[a]) + 1 /\ Len(elems[a]) < MaxLen
      /\ elems' = [elems EXCEPT ![a] = InsertAt(@, k, o)]
      /\ refs' = [refs EXCEPT ![o] = @ + 1] /\ misused' = (refs[o] = 0)
      /\ stack' = <<>> /\ UNCHANGED <<type, val, app, odd>>
  BY DEF Insert, Owned, Addref, Calls
<1>2. elems[a] \in Seq(Objs) /\ o \in Cells /\ a \in DOMAIN elems
  BY DEF Idle, TypeOK, Cells
<1>3. PICK t : t = InsertAt(elems[a], k, o)
  OBVIOUS
<1>4. /\ t \in Seq(Objs) /\ Len(t) = Len(elems[a]) + 1
      /\ \A x : Count(t, x) = Count(elems[a], x) + One(o, x)
  BY <1>1, <1>2, <1>3, InsertOne
<1>5. Len(t) =< MaxLen /\ elems' = [elems EXCEPT ![a] = t]
  <2>1. Len(elems[a]) \in Nat
    BY <1>2, LenProperties
  <2>2. QED BY <1>1, <1>3, <1>4, <2>1, BoundsAssumption
<1>6. misused' \in BOOLEAN /\ ~misused'
  <2>1. refs[o] # 0
    BY <1>1, <1>2, NothingOwed
  <2>2. QED BY <1>1, <2>1
<1>7. FramesOK(<<>>) /\ \A f, i : i \in 1 .. Len(<<>>) /\ f = <<>>[i] => Fits(f, i)'
  BY ShortStacks
<1>8. /\ refs' \in [Cells -> Nat] /\ refs'[o] = refs[o] + 1
      /\ \A x \in Cells \ {o} : refs'[x] = refs[x]
  BY <1>1, <1>2 DEF Idle, TypeOK
<1>9. ASSUME NEW x \in Cells
      PROVE  /\ refs'[x] >= refs[x]
             /\ refs'[x] - refs[x] = Count(t, x) - Count(elems[a], x) + Count(<<>>, Releasing(x))
  <2>1. refs[x] \in Nat /\ refs'[x] = refs[x] + One(o, x) /\ One(o, x) \in Nat
    <3>1. refs[x] \in Nat
      BY NothingOwed
    <3>2. QED BY <1>8, <3>1 DEF One
  <2>2. Count(t, x) = Count(elems[a], x) + One(o, x) /\ Count(<<>>, Releasing(x)) = 0
    BY <1>4, CountSingle
  <2>3. Count(elems[a], x) \in Nat
    BY <1>2, SeqIsFinite, CountNat
  <2>4. QED BY <2>1, <2>2, <2>3
<1>10. QED BY <1>1, <1>4, <1>5, <1>6, <1>7, <1>8, <1>9, ArrayCall

(* wsc_data_array_erase: the element's reference passes to its release.    *)
LEMMA EraseAtCall ==
  ASSUME Idle, NEW a \in Arrays, NEW k, EraseAt(a, k)
  PROVE  TypeOK' /\ Sound'
<1>1. /\ app[a] > 0 /\ k \in DOMAIN elems[a]
      /\ elems' = [elems EXCEPT ![a] = RemoveAt(@, k)]
      /\ stack' = <<Releasing(elems[a][k])>> /\ UNCHANGED <<type, val, refs, app, odd, misused>>
  BY DEF EraseAt, Owned, Calls
<1>2. elems[a] \in Seq(Objs) /\ Len(elems[a]) =< MaxLen /\ a \in DOMAIN elems
  BY DEF Idle, TypeOK
<1>3. k \in 1 .. Len(elems[a]) /\ Len(elems[a]) \in Nat
  BY <1>1, <1>2, LenProperties
<1>4. PICK t : t = RemoveAt(elems[a], k)
  OBVIOUS
<1>5. PICK e : e = elems[a][k]
  OBVIOUS
<1>6. /\ t \in Seq(Objs) /\ Len(t) = Len(elems[a]) - 1
      /\ \A x : Count(elems[a], x) = Count(t, x) + One(e, x)
  BY <1>2, <1>3, <1>4, <1>5, RemoveOne
<1>7. Len(t) =< MaxLen /\ elems' = [elems EXCEPT ![a] = t]
  BY <1>1, <1>2, <1>3, <1>4, <1>6, BoundsAssumption
<1>8. e \in Cells
  BY <1>2, <1>3, <1>5, ElementOfSeq DEF Cells
<1> DEFINE fs == <<Releasing(e)>>
<1>9. /\ FramesOK(fs) /\ stack' = fs
      /\ \A f, i : i \in 1 .. Len(fs) /\ f = fs[i] => Fits(f, i)'
  <2>1. FramesOK(fs)
    BY <1>8, ShortStacks DEF FrameOK
  <2>2. QED BY <1>1, <1>5, <2>1, ReleaseFits
<1>10. ASSUME NEW x \in Cells
       PROVE  /\ refs'[x] >= refs[x]
              /\ refs'[x] - refs[x] = Count(t, x) - Count(elems[a], x) + Count(fs, Releasing(x))
  <2>1. refs[x] \in Nat /\ refs' = refs
    BY <1>1, NothingOwed
  <2>2. Count(elems[a], x) = Count(t, x) + One(e, x) /\ Count(fs, Releasing(x)) = One(e, x)
    BY <1>6, CountSingle, OneOfFrame
  <2>3. Count(t, x) \in Nat /\ One(e, x) \in Nat
    BY <1>6, SeqIsFinite, CountNat DEF One
  <2> HIDE DEF fs
  <2>4. QED BY <2>1, <2>2, <2>3
<1>11. refs' \in [Cells -> Nat] /\ misused' \in BOOLEAN
  BY <1>1 DEF Idle, TypeOK
<1> HIDE DEF fs
<1>12. QED BY <1>1, <1>6, <1>7, <1>9, <1>10, <1>11, ArrayCall

(* wsc_data_array_push_back_array counts every element once more.          *)
LEMMA PushBackArrayCall ==
  ASSUME Idle, NEW a \in Arrays, NEW b \in Arrays, PushBackArray(a, b)
  PROVE  TypeOK' /\ (~odd' => Sound') /\ ~misused'
<1>1. /\ app[a] > 0 /\ Len(elems[a]) + Len(elems[b]) =< MaxLen
      /\ refs' = [x \in Cells |-> refs[x] + Count(elems[b], x)]
      /\ misused' = \E o \in ToSet(elems[b]) : refs[o] = 0
      /\ stack' = <<>> /\ UNCHANGED <<type, val, app>>
  BY DEF PushBackArray, Owned, Calls
<1>2. elems[a] \in Seq(Objs) /\ elems[b] \in Seq(Objs) /\ a \in DOMAIN elems
  BY DEF Idle, TypeOK
<1>3. ~misused' /\ misused' \in BOOLEAN
  <2>1. ASSUME NEW o \in ToSet(elems[b]) PROVE refs[o] # 0
    <3>1. PICK p \in DOMAIN elems[b] : elems[b][p] = o
      BY DEF ToSet
    <3>2. p \in 1 .. Len(elems[b])
      BY <1>2, LenProperties
    <3>3. o \in Cells
      BY <1>2, <3>1, <3>2, ElementOfSeq DEF Cells
    <3>4. Holders(o) >= 1
      BY <3>1, <3>3, HeldByPlaces DEF Idle
    <3>5. QED BY <3>3, <3>4, NothingOwed
  <2>2. QED BY <1>1, <2>1
<1>4. ASSUME NEW x \in Cells
      PROVE  /\ refs'[x] = refs[x] + Count(elems[b], x) /\ refs[x] \in Nat
             /\ Count(elems[a], x) \in Nat /\ Count(elems[b], x) \in Nat
  BY <1>1, <1>2, NothingOwed, SeqIsFinite, CountNat
<1>5. refs' \in [Cells -> Nat]
  <2>1. \A x \in Cells : refs[x] + Count(elems[b], x) \in Nat
    BY <1>4
  <2>2. QED BY <1>1, <2>1
<1>6. FramesOK(<<>>) /\ \A f, k : k \in 1 .. Len(<<>>) /\ f = <<>>[k] => Fits(f, k)'
  BY ShortStacks
<1>7. CASE elems' = [elems EXCEPT ![a] = @ \o elems[b]] /\ UNCHANGED odd
  <2>1. PICK t : t = elems[a] \o elems[b]
    OBVIOUS
  <2>2. t \in Seq(Objs) /\ Len(t) =< MaxLen
    BY <1>1, <1>2, <2>1, ConcatProperties
  <2>3. elems' = [elems EXCEPT ![a] = t]
    BY <1>7, <2>1
  <2>4. ASSUME NEW x \in Cells
        PROVE  /\ refs'[x] >= refs[x]
               /\ refs'[x] - refs[x] = Count(t, x) - Count(elems[a], x) + Count(<<>>, Releasing(x))
    <3>1. Count(t, x) = Count(elems[a], x) + Count(elems[b], x)
      BY <1>2, <2>1, CountConcat
    <3>2. Count(<<>>, Releasing(x)) = 0
      BY CountSingle
    <3>3. QED BY <1>4, <3>1, <3>2
  <2>5. TypeOK' /\ Sound'
    BY <1>1, <1>3, <1>5, <1>6, <1>7, <2>2, <2>3, <2>4, ArrayCall
  <2>6. QED BY <1>3, <2>5
<1>8. CASE odd' = TRUE /\ UNCHANGED elems
  <2>1. TypeOK'
    BY <1>1, <1>3, <1>5, <1>6, <1>8 DEF Idle, TypeOK, FramesOK
  <2>2. QED BY <1>3, <1>8, <2>1
<1>9. QED BY <1>7, <1>8 DEF PushBackArray

(* Whatever the application calls, it passes what is alive, and what it    *)
(* gets is alive.                                                          *)
LEMMA CallSound ==
  ASSUME Idle, ~misused, Call
  PROVE  TypeOK' /\ ~misused' /\ (~odd' => Sound')
<1>1. ASSUME NEW S \in {Objs, Arrays}, Create(S) PROVE TypeOK' /\ Sound' /\ ~misused'
  BY <1>1, CreateCall DEF Create
<1>2. ASSUME NEW j \in Docs, FromJson(j) PROVE TypeOK' /\ Sound' /\ ~misused'
  BY <1>2, FromJsonCall DEF FromJson
<1>3. ASSUME NEW x \in Cells, AppRelease(x) PROVE TypeOK' /\ Sound' /\ ~misused'
  BY <1>3, AppReleaseCall DEF AppRelease
<1>4. ASSUME NEW o \in Objs, Reload(o) PROVE TypeOK' /\ Sound' /\ ~misused'
  BY <1>4, ReloadCall DEF Reload
<1>5. ASSUME NEW o \in Objs, Clear(o) PROVE TypeOK' /\ Sound' /\ ~misused'
  BY <1>5, ClearCall DEF Clear
<1>6. ASSUME NEW o \in Objs, NEW s \in Objs, Apply(o, s) PROVE TypeOK' /\ Sound' /\ ~misused'
  BY <1>6, ApplyCall DEF Apply
<1>7. ASSUME NEW o \in Objs, NEW n \in Names, Erase(o, n) PROVE TypeOK' /\ Sound' /\ ~misused'
  BY <1>7, EraseCall DEF Erase
<1>8. ASSUME NEW o \in Objs, NEW n \in Names, NEW v \in Cells, Get(o, n, v)
      PROVE  TypeOK' /\ Sound' /\ ~misused'
  BY <1>8, GetCall
<1>9. ASSUME NEW o \in Objs, NEW n \in Names, NEW l \in Layers, Unset(o, n, l)
      PROVE  TypeOK' /\ Sound' /\ ~misused'
  BY <1>9, UnsetCall DEF Unset
<1>10. ASSUME NEW o \in Objs, NEW n \in Names, NEW l \in Layers, NEW v \in Values, Set(o, n, l, v)
       PROVE  TypeOK' /\ Sound' /\ ~misused'
  BY <1>10, SetCall DEF Set
<1>11. ASSUME NEW a \in Arrays, NEW k, EraseAt(a, k) PROVE TypeOK' /\ Sound' /\ ~misused'
  BY <1>11, EraseAtCall DEF EraseAt
<1>12. ASSUME NEW a \in Arrays, NEW k \in 1 .. MaxLen, NEW o \in Objs, Insert(a, k, o)
       PROVE  TypeOK' /\ Sound' /\ ~misused'
  BY <1>12, InsertCall
<1>13. ASSUME NEW a \in Arrays, NEW o \in Objs, GetElement(a, o)
       PROVE  TypeOK' /\ Sound' /\ ~misused'
  BY <1>13, GetElementCall
<1>14. ASSUME NEW a \in Arrays, NEW b \in Arrays, PushBackArray(a, b)
       PROVE  TypeOK' /\ (~odd' => Sound') /\ ~misused'
  BY <1>14, PushBackArrayCall
<1>15. QED BY <1>1, <1>2, <1>3, <1>4, <1>5, <1>6, <1>7, <1>8, <1>9, <1>10, <1>11, <1>12,
              <1>13, <1>14 DEF Call

-----------------------------------------------------------------------------
(* The theorems.                                                           *)

(* Nothing exists, nothing counts.                                         *)
LEMMA Initially ==
  ASSUME Init
  PROVE  IInv
<1>1. TypeOK
  <2>1. FramesOK(<<>>)
    BY ShortStacks
  <2>2. \A a \in Arrays : elems[a] \in Seq(Objs) /\ Len(elems[a]) =< MaxLen
    BY BoundsAssumption DEF Init
  <2>3. \A s \in Slots : val[s] = "unset"
    BY DEF Init
  <2>4. \A o \in Objs, n \in Names, l \in Layers : val[<<o, n, l>>] = "unset"
    BY <2>3 DEF Slots
  <2>5. stack = <<>> /\ FramesOK(stack)
    BY <2>1 DEF Init
  <2>6. QED BY <2>2, <2>4, <2>5 DEF Init, TypeOK
<1>2. Balanced
  <2>1. ASSUME NEW x \in Cells PROVE refs[x] = app[x] + Holders(x) + Owed(x)
    <3>1. refs[x] = 0 /\ app[x] = 0
      BY DEF Init
    <3>2. Owed(x) = 0
      BY CountSingle DEF Owed, Init
    <3>3. Count(val, x) = 0
      <4>1. \A s \in DOMAIN val : val[s] # x
        BY CellsAssumption DEF Init
      <4>2. QED BY <4>1, CountNone
    <3>4. Count(ElementsOf(elems), x) = 0
      <4>1. Places(elems) = {}
        BY DEF Init, Places
      <4>2. \A p \in DOMAIN ElementsOf(elems) : ElementsOf(elems)[p] # x
        BY <4>1 DEF ElementsOf
      <4>3. QED BY <4>2, CountNone
    <3>5. Holders(x) = 0
      BY <1>1, <3>3, <3>4, Numbers
    <3>6. QED BY <3>1, <3>2, <3>5
  <2>2. QED BY <2>1 DEF Balanced
<1>3. FreeBlank
  BY DEF Init, FreeBlank, Blank, Free, Items, Slots, Cells
<1>4. FramesInv
  BY DEF Init, FramesInv
<1>5. QED BY <1>1, <1>2, <1>3, <1>4 DEF Init, IInv

(* The invariant is inductive.                                             *)
LEMMA Preserved ==
  ASSUME IInv, [Next]_vars
  PROVE  IInv'
<1>1. CASE UNCHANGED vars
  <2>1. UNCHANGED <<type, val, elems, refs, app, odd, misused, stack>>
    BY <1>1 DEF vars, heapVars
  <2>2. TypeOK' /\ ~misused' /\ odd' = odd
    BY <2>1 DEF IInv, TypeOK
  <2>3. \A x : Holders(x)' = Holders(x) /\ Owed(x)' = Owed(x)
    BY <2>1 DEF Holders, Elements, Count, Owed
  <2>4. Balanced => Balanced'
    BY <2>1, <2>3 DEF Balanced
  <2>5. FreeBlank => FreeBlank'
    BY <2>1 DEF FreeBlank, Free, Blank
  <2>6. FramesInv => FramesInv'
    <3>1. ASSUME NEW f, NEW k, Fits(f, k) PROVE Fits(f, k)'
      <4>1. \A x : (Fresh(x, k) <=> Fresh(x, k)') /\ (Given(x, k) <=> Given(x, k)')
        BY <2>1 DEF Fresh, Given
      <4>2. \A x : HeldBelow(x, k) <=> HeldBelow(x, k)'
        BY <2>1 DEF HeldBelow, Holds
      <4>3. QED BY <2>1, <3>1, <4>1, <4>2 DEF Fits, Copies
    <3>2. QED BY <2>1, <3>1 DEF FramesInv
  <2>7. QED BY <2>2, <2>4, <2>5, <2>6 DEF IInv
<1>2. CASE Next
  <2>1. TypeOK /\ ~odd /\ ~misused /\ Sound
    BY <1>2 DEF Next, Defined, IInv, Sound
  <2>2. CASE stack = <<>>
    <3>1. Idle /\ Call
      BY <1>2, <2>1, <2>2 DEF Next, Idle
    <3>2. QED BY <2>1, <3>1, CallSound DEF IInv, Sound
  <2>3. CASE stack # <<>>
    <3>1. Run
      BY <1>2, <2>3 DEF Next
    <3>2. QED BY <2>1, <2>3, <3>1, RunStep DEF IInv, Sound
  <2>4. QED BY <2>2, <2>3
<1>3. QED BY <1>1, <1>2

(* So it holds at every step of every execution.                           *)
LEMMA Always == Spec => []IInv
<1>1. Init => IInv
  BY Initially
<1>2. IInv /\ [Next]_vars => IInv'
  BY Preserved
<1>3. QED BY <1>1, <1>2, PTL DEF Spec

(* An item has the type of its values, the elements of arrays are objects, *)
(* reference counts are never negative: wsc_data_release and               *)
(* wsc_data_array_release count down what is above zero only.              *)
THEOREM TypeCorrect == Spec => []TypeOK
<1>1. IInv => TypeOK
  BY DEF IInv
<1>2. QED BY <1>1, Always, PTL

(* At every step of every function of data.c the count of every object and *)
(* array is the number of its holders, and what is free holds nothing, so  *)
(* that nothing is lost and nothing that can be reached has been freed:    *)
(* whatever the tree of settings and the documents that are read.          *)
THEOREM CountsAreExact == Spec => []RefsExact
<1>1. IInv => RefsExact
  BY DEF IInv, RefsExact, Balanced, FreeBlank, Owed
<1>2. QED BY <1>1, Always, PTL

(* No function uses a freed object or array, be it in the middle of a tree *)
(* that wsc_data_apply copies, that is read from JSON, replaced or         *)
(* destroyed.                                                              *)
THEOREM NothingFreed == Spec => []NothingFreedIsUsed
<1>1. IInv => NothingFreedIsUsed
  BY DEF IInv, NothingFreedIsUsed
<1>2. QED BY <1>1, Always, PTL
=============================================================================
