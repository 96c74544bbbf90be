--------------------------- MODULE MCWscDataTree ---------------------------
(* One setting per object, so that nesting goes as deep as the objects     *)
(* last, and user values only: the ones that are copied and written.       *)
EXTENDS WscDataTree, TLC
CONSTANTS o1, o2, o3, o4, a1, a2, n1
MCObjs == {o1, o2, o3, o4}
MCArrays == {a1, a2}
MCNames == {n1}
MCScalars == {"double", "NaN"}
MCLayers == {"user"}
Obj(j) == <<"object", [n \in MCNames |-> j]>>
Empty == <<"object", <<>> >>
MCDocs == {
  <<"invalid">>, <<"array", <<Empty>> >>,
  Obj(<<"null">>), Obj(Obj(<<"double">>)),
  Obj(<<"array", << <<"double">>, Obj(<<"double">>), Empty>> >>)}
Two == 2
(* Sound although New chooses an address: free addresses are all alike, so *)
(* another choice leads to a state that is the same up to a permutation.   *)
SymCells == Permutations(MCObjs) \cup Permutations(MCArrays)
=============================================================================
