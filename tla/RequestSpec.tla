---------------------------- MODULE RequestSpec ----------------------------
(***************************************************************************)
(* What the request layer promises each thread that calls send_request,    *)
(* with no list, mutex, id or clock in sight: the callback accepts replies *)
(* only while the request is active, the call decides its result once,     *)
(* while the request is still active, and it says true only if the         *)
(* callback has accepted a reply to this very request.                     *)
(***************************************************************************)
CONSTANT Callers

VARIABLES
  phase,     \* is the caller's request registered for replies?
  accepted,  \* the callback has accepted a reply to the current request
  result     \* what the caller's latest call has reported

vars == <<phase, accepted, result>>

Init ==
  /\ phase = [c \in Callers |-> "inactive"]
  /\ accepted = [c \in Callers |-> FALSE]
  /\ result = [c \in Callers |-> FALSE]

(* A call begins; what the previous one found is forgotten.                *)
Begin(c) ==
  /\ phase[c] = "inactive"
  /\ accepted' = [accepted EXCEPT ![c] = FALSE]
  /\ result' = [result EXCEPT ![c] = FALSE]
  /\ UNCHANGED phase

Activate(c) ==
  /\ phase[c] = "inactive"
  /\ ~accepted[c] /\ ~result[c]
  /\ phase' = [phase EXCEPT ![c] = "active"]
  /\ UNCHANGED <<accepted, result>>

Accept(c) ==
  /\ phase[c] = "active"
  /\ accepted' = [accepted EXCEPT ![c] = TRUE]
  /\ UNCHANGED <<phase, result>>

Decide(c) ==
  /\ phase[c] = "active"
  /\ ~result[c]
  /\ accepted[c]
  /\ result' = [result EXCEPT ![c] = TRUE]
  /\ UNCHANGED <<phase, accepted>>

Retire(c) ==
  /\ phase[c] = "active"
  /\ phase' = [phase EXCEPT ![c] = "inactive"]
  /\ UNCHANGED <<accepted, result>>

Next == \E c \in Callers :
  Begin(c) \/ Activate(c) \/ Accept(c) \/ Decide(c) \/ Retire(c)

Spec == Init /\ [][Next]_vars
=============================================================================
