---------------------------- MODULE LayeredValue ----------------------------
(***************************************************************************)
(* What a setting of a wsc_data_t promises (src/src/data.h): three values  *)
(* that are set and unset independently of each other.  Which of them a    *)
(* plain get returns is a function of the three.                           *)
(***************************************************************************)
CONSTANTS
  UserValues, DefaultValues, AutoselectValues,  \* what each may be set to
  None                                          \* not set

VARIABLES user, default, autoselect

layers == <<user, default, autoselect>>

Init == user = None /\ default = None /\ autoselect = None

SetUser ==
  user' \in UserValues \cup {None} /\ UNCHANGED <<default, autoselect>>

SetDefault ==
  default' \in DefaultValues \cup {None} /\ UNCHANGED <<user, autoselect>>

SetAutoselect ==
  autoselect' \in AutoselectValues \cup {None} /\ UNCHANGED <<user, default>>

Erase == user' = None /\ default' = None /\ autoselect' = None

Next == SetUser \/ SetDefault \/ SetAutoselect \/ Erase

Spec == Init /\ [][Next]_layers
=============================================================================
