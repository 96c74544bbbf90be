------------------------------ MODULE WscAuth ------------------------------
(***************************************************************************)
(* Authentication: wsc_auth_required asks the server for a challenge and a *)
(* salt, wsc_prepare_auth turns them and the password into a response, and *)
(* wsc_authenticate sends it (src/obs_wsc.c, src/messages/requests/        *)
(* general.c).  One thread calls these functions in any order, with one    *)
(* wsc_auth_data_t; between send_request and its return RequestSpec holds. *)
(* The hash is a function that tells apart whatever it is applied to.      *)
(***************************************************************************)
EXTENDS Naturals

CONSTANTS
  Passwords,   \* what the application may take for the password
  Password,    \* the server's
  MaxSessions  \* bound: challenges the server uses, one after the other

ASSUME PasswordAssumption == Password \in Passwords
ASSUME SessionsAssumption == MaxSessions \in Nat \ {0}

App == "app"
Sessions == 1..MaxSessions

(* A challenge and a salt are named by the session they were made for, a   *)
(* response by what it was computed from.                                  *)
None == <<>>
Strings == {<<s>> : s \in Sessions}
Responses == Passwords \X Strings \X Strings

VARIABLES
  required, salt, challenge, response,  \* the wsc_auth_data_t
  op,      \* the request of the current call
  offer,   \* the response it carries
  pc,      \* where the application is
  wire,    \* the request or the reply under way
  about,   \* the session that reply speaks of
  needs,   \* does the server ask for a password?
  session, \* its current one
  authed,  \* it has accepted a response
  lost,    \* history: strings overwritten and not freed
  again,   \* history: wsc_auth_required was given data still in use
  phase, accepted, result  \* of RequestSpec

auth == <<required, salt, challenge, response>>
call == <<op, offer>>
server == <<needs, session, authed>>
promise == <<phase, accepted, result>>
vars == <<auth, call, pc, wire, about, server, lost, again, promise>>

R == INSTANCE RequestSpec WITH Callers <- {App}

Replies == {"error", "accepted", "open", "protected", "half", "bare"}

TypeOK ==
  /\ required \in BOOLEAN
  /\ salt \in Strings \cup {None} /\ challenge \in Strings \cup {None}
  /\ response \in Responses \cup {None}
  /\ op \in {"GetAuthRequired", "Authenticate"}
  /\ offer \in Responses \cup {None}
  /\ pc \in {"idle", "calling", "waiting", "decided"}
  /\ wire \in {"nothing", "request"} \cup Replies
  /\ about \in Sessions /\ session \in Sessions
  /\ needs \in BOOLEAN /\ authed \in BOOLEAN
  /\ lost \subseteq {"strings", "response"} /\ again \in BOOLEAN
  /\ phase \in [{App} -> {"inactive", "active"}]
  /\ accepted \in [{App} -> BOOLEAN] /\ result \in [{App} -> BOOLEAN]

Init ==
  /\ required = FALSE /\ salt = None /\ challenge = None /\ response = None
  /\ op = "GetAuthRequired" /\ offer = None /\ pc = "idle"
  /\ wire = "nothing" /\ about = 1
  /\ needs \in BOOLEAN /\ session = 1 /\ authed = FALSE
  /\ lost = {} /\ again = FALSE
  /\ R!Init

-----------------------------------------------------------------------------
(* The application.                                                        *)

(* wsc_auth_required, up to send_request.                                  *)
AskRequired ==
  /\ pc = "idle" /\ pc' = "calling"
  /\ R!Begin(App)
  /\ op' = "GetAuthRequired" /\ offer' = None /\ wire' = "nothing"
  /\ again' = (again \/ salt # None)
  /\ UNCHANGED <<auth, about, server, lost>>

Ready == required /\ salt # None /\ challenge # None

Prepare_KeepsStrings(p) ==
  /\ pc = "idle" /\ Ready
  /\ response' = <<p, salt, challenge>>
  /\ lost' = IF response = None THEN lost ELSE lost \cup {"response"}
  /\ UNCHANGED <<required, salt, challenge, call, pc, wire, about, server,
                 again, promise>>

(* wsc_prepare_auth: base64 of a hash is never empty, so that it succeeds. *)
Prepare(p) ==
  /\ pc = "idle" /\ Ready
  /\ response' = <<p, salt, challenge>>
  /\ lost' = IF response = None THEN lost ELSE lost \cup {"response"}
  /\ salt' = None /\ challenge' = None
  /\ UNCHANGED <<required, call, pc, wire, about, server, again, promise>>

(* wsc_authenticate, up to send_request_no_cb; packing base64 never fails. *)
Authenticate ==
  /\ pc = "idle" /\ response # None /\ pc' = "calling"
  /\ R!Begin(App)
  /\ op' = "Authenticate" /\ offer' = response /\ wire' = "nothing"
  /\ UNCHANGED <<auth, about, server, lost, again>>

(* wsc_free_auth_data.                                                     *)
FreeData ==
  /\ pc = "idle"
  /\ salt' = None /\ challenge' = None /\ response' = None
  /\ UNCHANGED <<required, call, pc, wire, about, server, lost, again, promise>>

(* wsc_authenticate frees the response, whatever the result.               *)
Spent ==
  /\ response' = IF op = "Authenticate" THEN None ELSE response
  /\ UNCHANGED <<required, salt, challenge>>

(* send_request without a connection.                                      *)
Refuse ==
  /\ pc = "calling" /\ pc' = "idle"
  /\ Spent
  /\ UNCHANGED <<call, wire, about, server, lost, again, promise>>

Send ==
  /\ pc = "calling" /\ pc' = "waiting"
  /\ wire' = "request"
  /\ R!Activate(App)
  /\ UNCHANGED <<auth, call, about, server, lost, again>>

(* wait_timeout has seen the answer, or gives up.                          *)
Notice ==
  /\ pc = "waiting" /\ pc' = "decided"
  /\ R!Decide(App)
  /\ UNCHANGED <<auth, call, wire, about, server, lost, again>>

GiveUp ==
  /\ pc = "waiting" /\ pc' = "decided"
  /\ UNCHANGED <<auth, call, wire, about, server, lost, again, promise>>

Return ==
  /\ pc = "decided" /\ pc' = "idle"
  /\ Spent
  /\ R!Retire(App)
  /\ UNCHANGED <<call, wire, about, server, lost, again>>

-----------------------------------------------------------------------------
(* The server.  It may also send less than it should: "half" says that a   *)
(* password is needed and gives the challenge alone, "bare" does not even  *)
(* say whether one is needed.                                              *)

Answer ==
  /\ wire = "request" /\ op = "GetAuthRequired"
  /\ wire' \in (IF needs THEN {"protected", "half", "bare", "error"}
                         ELSE {"open", "bare", "error"})
  /\ about' = session
  /\ UNCHANGED <<auth, call, pc, server, lost, again, promise>>

Fits == offer = <<Password, <<session>>, <<session>> >>

CheckAuth ==
  /\ wire = "request" /\ op = "Authenticate"
  /\ authed' = (authed \/ Fits)
  /\ wire' = IF Fits THEN "accepted" ELSE "error"
  /\ UNCHANGED <<auth, call, pc, about, needs, session, lost, again, promise>>

(* The challenge is replaced, for instance after another client has used   *)
(* it.                                                                     *)
NewSession ==
  /\ session < MaxSessions /\ session' = session + 1
  /\ UNCHANGED <<auth, call, pc, wire, about, needs, authed, lost, again,
                 promise>>

-----------------------------------------------------------------------------
(* The callbacks, while the request is registered.                         *)

Active(form) == wire = form /\ phase[App] = "active"

(* No reply, or one that comes too late, or that says "error": neither     *)
(* callback does anything.                                                 *)
Dropped ==
  /\ wire \in Replies
  /\ phase[App] = "inactive" \/ wire = "error"
  /\ wire' = "nothing"
  /\ UNCHANGED <<auth, call, pc, about, server, lost, again, promise>>

Heard(form) ==
  /\ Active(form) /\ wire' = "nothing"
  /\ UNCHANGED <<call, pc, about, server, again>>

(* default_callback.                                                       *)
Accepted ==
  /\ Heard("accepted") /\ R!Accept(App)
  /\ UNCHANGED <<auth, lost>>

(* auth_required_callback: any reply that is no error frees the response.  *)
Open ==
  /\ Heard("open") /\ R!Accept(App)
  /\ required' = FALSE /\ response' = None
  /\ UNCHANGED <<salt, challenge, lost>>

Protected_KeepsFirst ==
  /\ Heard("protected") /\ R!Accept(App)
  /\ required' = TRUE /\ response' = None
  /\ challenge' = IF challenge = None THEN <<about>> ELSE challenge
  /\ salt' = IF salt = None THEN <<about>> ELSE salt
  /\ UNCHANGED lost

Protected ==
  /\ Heard("protected") /\ R!Accept(App)
  /\ required' = TRUE /\ response' = None
  /\ challenge' = <<about>> /\ salt' = <<about>>
  /\ lost' = IF salt = None THEN lost ELSE lost \cup {"strings"}

Half_Accepted ==
  /\ Heard("half") /\ R!Accept(App)
  /\ required' = TRUE /\ response' = None
  /\ UNCHANGED <<salt, challenge, lost>>

Half_KeepsChallenge ==
  /\ Heard("half") /\ required' = TRUE /\ response' = None
  /\ challenge' = <<about>>
  /\ UNCHANGED <<salt, lost, promise>>

(* Both strings are unpacked before either is copied.                      *)
Half ==
  /\ Heard("half") /\ required' = TRUE /\ response' = None
  /\ UNCHANGED <<salt, challenge, lost, promise>>

Bare ==
  /\ Heard("bare") /\ response' = None
  /\ UNCHANGED <<required, salt, challenge, lost, promise>>

-----------------------------------------------------------------------------
Next ==
  \/ AskRequired \/ (\E p \in Passwords : Prepare(p)) \/ Authenticate \/ FreeData
  \/ Refuse \/ Send \/ Notice \/ GiveUp \/ Return
  \/ Answer \/ CheckAuth \/ NewSession
  \/ Dropped \/ Accepted \/ Open \/ Protected \/ Half \/ Bare

Spec == Init /\ [][Next]_vars

(* Calls come to an end.  The application goes through the three functions *)
(* again and again, sometimes with the right password; the connection is   *)
(* not always down, and the server answers in time again and again.        *)
Fairness ==
  /\ WF_vars(Refuse \/ Send) /\ WF_vars(Notice \/ GiveUp) /\ WF_vars(Return)
  /\ SF_vars(AskRequired) /\ SF_vars(op = "GetAuthRequired" /\ Send)
  /\ SF_vars(pc = "waiting" /\ Answer /\ wire' = "protected")
  /\ SF_vars(pc = "waiting" /\ about = session /\ Protected)
  /\ SF_vars(salt = <<session>> /\ challenge = <<session>> /\ Prepare(Password))
  /\ SF_vars(response = <<Password, <<session>>, <<session>> >> /\ Authenticate)
  /\ SF_vars(Fits /\ Send) /\ SF_vars(Fits /\ CheckAuth)

FairSpec == Spec /\ Fairness

-----------------------------------------------------------------------------
(* Correctness.                                                            *)

(* auth_required_callback and wsc_prepare_auth overwrite strings without   *)
(* looking at them: no response is ever lost that way, and a challenge     *)
(* only if wsc_auth_required is called again before the last one was used  *)
(* or freed - which an application does that repeats a call after a late   *)
(* answer.                                                                 *)
NothingLost ==
  /\ "response" \notin lost
  /\ "strings" \in lost => again

(* A response is made of a challenge and a salt from the same reply,       *)
(* whatever incomplete replies come before, between or after.              *)
OneReply ==
  \A r \in {response, offer} : r # None => r[2] = r[3]

(* When wsc_auth_required returns true, the data is what its documentation *)
(* says: ready for wsc_prepare_auth if a password is required.             *)
AskedMeansReady ==
  pc = "decided" /\ op = "GetAuthRequired" /\ result[App] =>
    required = needs /\ (required => Ready)

(* wsc_authenticate returns true only if the server has accepted the       *)
(* response.                                                               *)
TrueMeansAuthed ==
  pc = "decided" /\ op = "Authenticate" /\ result[App] => authed

(* Both functions that talk to the server can be believed.                 *)
TrueIsReliable == AskedMeansReady /\ TrueMeansAuthed

(* An application that knows the password and goes on trying gets in, also *)
(* if answers come late or incomplete or the challenge changes under it.   *)
RetryAuthenticates == needs => <>authed
=============================================================================
