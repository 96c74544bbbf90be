--------------------------- MODULE MCWscRequests ---------------------------
(* Small instances of WscRequests for TLC. *)
EXTENDS WscRequests, TLC

CONSTANTS c1, c2, a1, a2, a3, i1, i2, i3

OneCaller  == {c1}
OneAddr    == {a1}
TwoCallers == {c1, c2}
TwoAddrs   == {a1, a2}
TwoIds     == {i1, i2}
ThreeIds   == {i1, i2, i3}

(* The default of 2000 ms is scaled to two rounds of the 2 ms wait loop;   *)
(* -1 is the documented "no timeout".                                      *)
ShortTimeout == 2
MinusOne == {-1}
NoTimeouts == {}

SymThree == Permutations(TwoCallers) \cup Permutations(TwoAddrs)
            \cup Permutations(ThreeIds)
=============================================================================
