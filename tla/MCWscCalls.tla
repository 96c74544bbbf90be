----------------------------- MODULE MCWscCalls -----------------------------
(* Every request function of src/messages/requests, each in behaviours of  *)
(* its own.                                                                *)
EXTENDS WscCalls
AllRequests == DOMAIN Requests
=============================================================================
