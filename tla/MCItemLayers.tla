--------------------------- MODULE MCItemLayers ---------------------------
(* Two objects and an array in the three values of one setting each: every *)
(* order of setting, replacing, reading, unsetting and releasing.          *)
EXTENDS WscDataTree, TLC
CONSTANTS o1, o2, a1, n1
MCObjs == {o1, o2}
MCArrays == {a1}
MCNames == {n1}
MCScalars == {"int"}
MCLayers == {"user", "default", "autoselect"}
NoDocs == {}
MCMaxApp == 3
One == 1
(* Sound although New chooses an address: free addresses are all alike, so *)
(* another choice leads to a state that is the same up to a permutation.   *)
SymCells == Permutations(MCObjs)
=============================================================================
