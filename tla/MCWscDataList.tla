--------------------------- MODULE MCWscDataList ---------------------------
(* Three names, a spare cell to move to and one for a removed item, and    *)
(* two handles.                                                            *)
EXTENDS WscDataList, TLC
CONSTANTS a1, a2, a3, a4, h1, h2
ThreeNames == 1..3
FourCells == {a1, a2, a3, a4}
TwoHandles == {h1, h2}
SymCells == Permutations(FourCells) \cup Permutations(TwoHandles)
=============================================================================
