--------------------------- MODULE MCWscDataItem ---------------------------
(* Values below, at and above the alignment.                               *)
EXTENDS WscDataItem
ThreeSizes == 1..3
=============================================================================
