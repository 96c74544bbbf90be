----------------------------- MODULE MCWscAuth -----------------------------
(* A right and a wrong password, and a challenge that changes once or      *)
(* twice.                                                                  *)
EXTENDS WscAuth
CONSTANTS right, wrong
TwoPasswords == {right, wrong}
=============================================================================
