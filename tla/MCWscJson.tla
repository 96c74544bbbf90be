----------------------------- MODULE MCWscJson -----------------------------
(* A caller and the poll threads of three connections, with every kind of  *)
(* request function and callback: two handlers may overlap and the third   *)
(* run alone before or after them, or overlap with one of them only.       *)
EXTENDS WscJson, TLC
CONSTANTS a1, c1, c2, c3
OneCaller == {a1}
ThreeConns == {c1, c2, c3}
SymConns == Permutations(ThreeConns)
EveryWrapper == WrapperKinds
EveryCallback == CallbackKinds
=============================================================================
