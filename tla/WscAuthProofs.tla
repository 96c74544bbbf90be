--------------------------- MODULE WscAuthProofs ---------------------------
(***************************************************************************)
(* Proofs about WscAuth for any passwords and any number of sessions.      *)
(***************************************************************************)
EXTENDS WscAuth, TLAPS

(* The strings in the data come and go together, and a response takes      *)
(* their place.                                                            *)
DataInv ==
  /\ salt = challenge
  /\ response # None => salt = None
  /\ OneReply

(* The request is registered from send_request's frame to its return, and  *)
(* a reply is a reply to the current call.                                 *)
CallInv ==
  /\ phase[App] = "active" <=> pc \in {"waiting", "decided"}
  /\ wire \in {"protected", "half"} => needs
  /\ wire = "open" => ~needs
  /\ wire \in {"protected", "half", "open", "bare"} => op = "GetAuthRequired"
  /\ wire = "accepted" => op = "Authenticate" /\ authed

(* What an accepted reply has left behind; no other reply to the call can  *)
(* follow it.                                                              *)
ReplyInv ==
  phase[App] = "active" =>
    /\ result[App] => accepted[App]
    /\ accepted[App] =>
         /\ wire = "nothing"
         /\ op = "Authenticate" => authed
         /\ op = "GetAuthRequired" => required = needs /\ (required => salt # None)

(* wsc_auth_required has noted if it was given strings still in use.       *)
LossInv ==
  /\ NothingLost
  /\ op = "GetAuthRequired" /\ salt # None =>
       /\ pc = "calling" => again
       /\ phase[App] = "active" /\ wire # "nothing" => again

IInv == TypeOK /\ DataInv /\ CallInv /\ ReplyInv /\ LossInv

-----------------------------------------------------------------------------
(* TypeOK in three parts: flags, the program's data, and the promise.      *)
FlagsTyped ==
  required \in BOOLEAN /\ needs \in BOOLEAN /\ authed \in BOOLEAN
  /\ again \in BOOLEAN

DataTyped ==
  /\ salt \in Strings \cup {None} /\ challenge \in Strings \cup {None}
  /\ response \in Responses \cup {None} /\ offer \in Responses \cup {None}
  /\ op \in {"GetAuthRequired", "Authenticate"}
  /\ pc \in {"idle", "calling", "waiting", "decided"}
  /\ wire \in {"nothing", "request"} \cup Replies
  /\ about \in Sessions /\ session \in Sessions
  /\ lost \subseteq {"strings", "response"}

PromiseTyped ==
  /\ phase \in [{App} -> {"inactive", "active"}]
  /\ accepted \in [{App} -> BOOLEAN] /\ result \in [{App} -> BOOLEAN]

LEMMA TypeParts == TypeOK <=> FlagsTyped /\ DataTyped /\ PromiseTyped
  BY DEF TypeOK, FlagsTyped, DataTyped, PromiseTyped

(* No string is None, and no response.                                     *)
LEMMA NoneIsNothing ==
  /\ None \notin Strings /\ None \notin Responses
  /\ \A p \in Passwords, x, y \in Strings : <<p, x, y>> \in Responses
  /\ \A x \in Sessions : <<x>> \in Strings
  BY DEF None, Strings, Responses

LEMMA InitIInv == Init => IInv
  <1> SUFFICES ASSUME Init PROVE IInv
    OBVIOUS
  <1>1. FlagsTyped
    BY DEF Init, FlagsTyped
  <1>2. DataTyped
    BY SessionsAssumption DEF Init, DataTyped, Sessions, SessionsAssumption
  <1>3. PromiseTyped
    BY DEF Init, PromiseTyped, R!Init
  <1>4. DataInv /\ CallInv /\ ReplyInv /\ LossInv
    BY DEF Init, DataInv, OneReply, CallInv, ReplyInv, LossInv, NothingLost, R!Init
  <1>5. QED BY <1>1, <1>2, <1>3, <1>4, TypeParts DEF IInv

(* One step per action, and under it one per part of the invariant.        *)
LEMMA StepIInv == IInv /\ [Next]_vars => IInv'
  <1> SUFFICES ASSUME IInv, [Next]_vars PROVE IInv'
    OBVIOUS
  <1>0. FlagsTyped /\ DataTyped /\ PromiseTyped
    BY TypeParts DEF IInv
  <1> USE <1>0, NoneIsNothing
      DEF DataInv, OneReply, CallInv, ReplyInv, LossInv, NothingLost, auth, call,
          server, promise, R!Begin, R!Activate, R!Accept, R!Decide, R!Retire
  <1>1. CASE AskRequired
    <2>1. FlagsTyped' BY <1>1 DEF AskRequired, FlagsTyped
    <2>2. DataTyped' BY <1>1 DEF AskRequired, DataTyped
    <2>3. PromiseTyped' BY <1>1 DEF AskRequired, PromiseTyped
    <2>4. DataInv' BY <1>1 DEF AskRequired, IInv, DataTyped
    <2>5. CallInv' BY <1>1 DEF AskRequired, IInv, DataTyped, PromiseTyped
    <2>6. ReplyInv' BY <1>1 DEF AskRequired, IInv, DataTyped, PromiseTyped
    <2>7. LossInv' BY <1>1 DEF AskRequired, IInv, DataTyped, PromiseTyped
    <2>8. TypeOK' BY <2>1, <2>2, <2>3 DEF TypeOK, FlagsTyped, DataTyped, PromiseTyped
    <2>9. QED BY <2>4, <2>5, <2>6, <2>7, <2>8 DEF IInv
  <1>2. CASE \E p \in Passwords : Prepare(p)
    <2> PICK p \in Passwords : Prepare(p)
      BY <1>2
    <2>1. FlagsTyped' BY <1>2 DEF Prepare, Ready, FlagsTyped
    <2>2. DataTyped' BY <1>2 DEF Prepare, Ready, DataTyped
    <2>3. PromiseTyped' BY <1>2 DEF Prepare, Ready, PromiseTyped
    <2>4. DataInv' BY <1>2 DEF Prepare, Ready, IInv, DataTyped
    <2>5. CallInv' BY <1>2 DEF Prepare, Ready, IInv, DataTyped, PromiseTyped
    <2>6. ReplyInv' BY <1>2 DEF Prepare, Ready, IInv, DataTyped, PromiseTyped
    <2>7. LossInv' BY <1>2 DEF Prepare, Ready, IInv, DataTyped, PromiseTyped
    <2>8. TypeOK' BY <2>1, <2>2, <2>3 DEF TypeOK, FlagsTyped, DataTyped, PromiseTyped
    <2>9. QED BY <2>4, <2>5, <2>6, <2>7, <2>8 DEF IInv
  <1>3. CASE Authenticate
    <2>1. FlagsTyped' BY <1>3 DEF Authenticate, FlagsTyped
    <2>2. DataTyped' BY <1>3 DEF Authenticate, DataTyped
    <2>3. PromiseTyped' BY <1>3 DEF Authenticate, PromiseTyped
    <2>4. DataInv' BY <1>3 DEF Authenticate, IInv, DataTyped
    <2>5. CallInv' BY <1>3 DEF Authenticate, IInv, DataTyped, PromiseTyped
    <2>6. ReplyInv' BY <1>3 DEF Authenticate, IInv, DataTyped, PromiseTyped
    <2>7. LossInv' BY <1>3 DEF Authenticate, IInv, DataTyped, PromiseTyped
    <2>8. TypeOK' BY <2>1, <2>2, <2>3 DEF TypeOK, FlagsTyped, DataTyped, PromiseTyped
    <2>9. QED BY <2>4, <2>5, <2>6, <2>7, <2>8 DEF IInv
  <1>4. CASE FreeData
    <2>1. FlagsTyped' BY <1>4 DEF FreeData, FlagsTyped
    <2>2. DataTyped' BY <1>4 DEF FreeData, DataTyped
    <2>3. PromiseTyped' BY <1>4 DEF FreeData, PromiseTyped
    <2>4. DataInv' BY <1>4 DEF FreeData, IInv, DataTyped
    <2>5. CallInv' BY <1>4 DEF FreeData, IInv, DataTyped, PromiseTyped
    <2>6. ReplyInv' BY <1>4 DEF FreeData, IInv, DataTyped, PromiseTyped
    <2>7. LossInv' BY <1>4 DEF FreeData, IInv, DataTyped, PromiseTyped
    <2>8. TypeOK' BY <2>1, <2>2, <2>3 DEF TypeOK, FlagsTyped, DataTyped, PromiseTyped
    <2>9. QED BY <2>4, <2>5, <2>6, <2>7, <2>8 DEF IInv
  <1>5. CASE Refuse
    <2>1. FlagsTyped' BY <1>5 DEF Refuse, Spent, FlagsTyped
    <2>2. DataTyped' BY <1>5 DEF Refuse, Spent, DataTyped
    <2>3. PromiseTyped' BY <1>5 DEF Refuse, Spent, PromiseTyped
    <2>4. DataInv' BY <1>5 DEF Refuse, Spent, IInv, DataTyped
    <2>5. CallInv' BY <1>5 DEF Refuse, Spent, IInv, DataTyped, PromiseTyped
    <2>6. ReplyInv' BY <1>5 DEF Refuse, Spent, IInv, DataTyped, PromiseTyped
    <2>7. LossInv' BY <1>5 DEF Refuse, Spent, IInv, DataTyped, PromiseTyped
    <2>8. TypeOK' BY <2>1, <2>2, <2>3 DEF TypeOK, FlagsTyped, DataTyped, PromiseTyped
    <2>9. QED BY <2>4, <2>5, <2>6, <2>7, <2>8 DEF IInv
  <1>6. CASE Send
    <2>1. FlagsTyped' BY <1>6 DEF Send, FlagsTyped
    <2>2. DataTyped' BY <1>6 DEF Send, DataTyped
    <2>3. PromiseTyped' BY <1>6 DEF Send, PromiseTyped
    <2>4. DataInv' BY <1>6 DEF Send, IInv, DataTyped
    <2>5. CallInv' BY <1>6 DEF Send, IInv, DataTyped, PromiseTyped
    <2>6. ReplyInv' BY <1>6 DEF Send, IInv, DataTyped, PromiseTyped
    <2>7. LossInv' BY <1>6 DEF Send, IInv, DataTyped, PromiseTyped
    <2>8. TypeOK' BY <2>1, <2>2, <2>3 DEF TypeOK, FlagsTyped, DataTyped, PromiseTyped
    <2>9. QED BY <2>4, <2>5, <2>6, <2>7, <2>8 DEF IInv
  <1>7. CASE Notice
    <2>1. FlagsTyped' BY <1>7 DEF Notice, FlagsTyped
    <2>2. DataTyped' BY <1>7 DEF Notice, DataTyped
    <2>3. PromiseTyped' BY <1>7 DEF Notice, PromiseTyped
    <2>4. DataInv' BY <1>7 DEF Notice, IInv, DataTyped
    <2>5. CallInv' BY <1>7 DEF Notice, IInv, DataTyped, PromiseTyped
    <2>6. ReplyInv' BY <1>7 DEF Notice, IInv, DataTyped, PromiseTyped
    <2>7. LossInv' BY <1>7 DEF Notice, IInv, DataTyped, PromiseTyped
    <2>8. TypeOK' BY <2>1, <2>2, <2>3 DEF TypeOK, FlagsTyped, DataTyped, PromiseTyped
    <2>9. QED BY <2>4, <2>5, <2>6, <2>7, <2>8 DEF IInv
  <1>8. CASE GiveUp
    <2>1. FlagsTyped' BY <1>8 DEF GiveUp, FlagsTyped
    <2>2. DataTyped' BY <1>8 DEF GiveUp, DataTyped
    <2>3. PromiseTyped' BY <1>8 DEF GiveUp, PromiseTyped
    <2>4. DataInv' BY <1>8 DEF GiveUp, IInv, DataTyped
    <2>5. CallInv' BY <1>8 DEF GiveUp, IInv, DataTyped, PromiseTyped
    <2>6. ReplyInv' BY <1>8 DEF GiveUp, IInv, DataTyped, PromiseTyped
    <2>7. LossInv' BY <1>8 DEF GiveUp, IInv, DataTyped, PromiseTyped
    <2>8. TypeOK' BY <2>1, <2>2, <2>3 DEF TypeOK, FlagsTyped, DataTyped, PromiseTyped
    <2>9. QED BY <2>4, <2>5, <2>6, <2>7, <2>8 DEF IInv
  <1>9. CASE Return
    <2>1. FlagsTyped' BY <1>9 DEF Return, Spent, FlagsTyped
    <2>2. DataTyped' BY <1>9 DEF Return, Spent, DataTyped
    <2>3. PromiseTyped' BY <1>9 DEF Return, Spent, PromiseTyped
    <2>4. DataInv' BY <1>9 DEF Return, Spent, IInv, DataTyped
    <2>5. CallInv' BY <1>9 DEF Return, Spent, IInv, DataTyped, PromiseTyped
    <2>6. ReplyInv' BY <1>9 DEF Return, Spent, IInv, DataTyped, PromiseTyped
    <2>7. LossInv' BY <1>9 DEF Return, Spent, IInv, DataTyped, PromiseTyped
    <2>8. TypeOK' BY <2>1, <2>2, <2>3 DEF TypeOK, FlagsTyped, DataTyped, PromiseTyped
    <2>9. QED BY <2>4, <2>5, <2>6, <2>7, <2>8 DEF IInv
  <1>10. CASE Answer
    <2>1. FlagsTyped' BY <1>10 DEF Answer, Replies, FlagsTyped
    <2>2. DataTyped' BY <1>10 DEF Answer, Replies, DataTyped
    <2>3. PromiseTyped' BY <1>10 DEF Answer, Replies, PromiseTyped
    <2>4. DataInv' BY <1>10 DEF Answer, Replies, IInv, DataTyped
    <2>5. CallInv' BY <1>10 DEF Answer, Replies, IInv, DataTyped, PromiseTyped
    <2>6. ReplyInv' BY <1>10 DEF Answer, Replies, IInv, DataTyped, PromiseTyped
    <2>7. LossInv' BY <1>10 DEF Answer, Replies, IInv, DataTyped, PromiseTyped
    <2>8. TypeOK' BY <2>1, <2>2, <2>3 DEF TypeOK, FlagsTyped, DataTyped, PromiseTyped
    <2>9. QED BY <2>4, <2>5, <2>6, <2>7, <2>8 DEF IInv
  <1>11. CASE CheckAuth
    <2>1. FlagsTyped' BY <1>11 DEF CheckAuth, Replies, FlagsTyped
    <2>2. DataTyped' BY <1>11 DEF CheckAuth, Replies, DataTyped
    <2>3. PromiseTyped' BY <1>11 DEF CheckAuth, Replies, PromiseTyped
    <2>4. DataInv' BY <1>11 DEF CheckAuth, Replies, IInv, DataTyped
    <2>5. CallInv' BY <1>11 DEF CheckAuth, Replies, IInv, DataTyped, PromiseTyped
    <2>6. ReplyInv' BY <1>11 DEF CheckAuth, Replies, IInv, DataTyped, PromiseTyped
    <2>7. LossInv' BY <1>11 DEF CheckAuth, Replies, IInv, DataTyped, PromiseTyped
    <2>8. TypeOK' BY <2>1, <2>2, <2>3 DEF TypeOK, FlagsTyped, DataTyped, PromiseTyped
    <2>9. QED BY <2>4, <2>5, <2>6, <2>7, <2>8 DEF IInv
  <1>12. CASE NewSession
    <2>1. FlagsTyped' BY <1>12 DEF NewSession, FlagsTyped
    <2>0. session' \in Sessions
      BY <1>12, SessionsAssumption DEF NewSession, DataTyped, Sessions
    <2>2. DataTyped' BY <1>12, <2>0 DEF NewSession, DataTyped
    <2>3. PromiseTyped' BY <1>12 DEF NewSession, PromiseTyped
    <2>4. DataInv' BY <1>12 DEF NewSession, IInv, DataTyped
    <2>5. CallInv' BY <1>12 DEF NewSession, IInv, DataTyped, PromiseTyped
    <2>6. ReplyInv' BY <1>12 DEF NewSession, IInv, DataTyped, PromiseTyped
    <2>7. LossInv' BY <1>12 DEF NewSession, IInv, DataTyped, PromiseTyped
    <2>8. TypeOK' BY <2>1, <2>2, <2>3 DEF TypeOK, FlagsTyped, DataTyped, PromiseTyped
    <2>9. QED BY <2>4, <2>5, <2>6, <2>7, <2>8 DEF IInv
  <1>13. CASE Dropped
    <2>1. FlagsTyped' BY <1>13 DEF Dropped, FlagsTyped
    <2>2. DataTyped' BY <1>13 DEF Dropped, DataTyped
    <2>3. PromiseTyped' BY <1>13 DEF Dropped, PromiseTyped
    <2>4. DataInv' BY <1>13 DEF Dropped, IInv, DataTyped
    <2>5. CallInv' BY <1>13 DEF Dropped, IInv, DataTyped, PromiseTyped
    <2>6. ReplyInv' BY <1>13 DEF Dropped, IInv, DataTyped, PromiseTyped
    <2>7. LossInv' BY <1>13 DEF Dropped, IInv, DataTyped, PromiseTyped
    <2>8. TypeOK' BY <2>1, <2>2, <2>3 DEF TypeOK, FlagsTyped, DataTyped, PromiseTyped
    <2>9. QED BY <2>4, <2>5, <2>6, <2>7, <2>8 DEF IInv
  <1>14. CASE Accepted
    <2>1. FlagsTyped' BY <1>14 DEF Accepted, Heard, Active, FlagsTyped
    <2>2. DataTyped' BY <1>14 DEF Accepted, Heard, Active, DataTyped
    <2>3. PromiseTyped' BY <1>14 DEF Accepted, Heard, Active, PromiseTyped
    <2>4. DataInv' BY <1>14 DEF Accepted, Heard, Active, IInv, DataTyped
    <2>5. CallInv' BY <1>14 DEF Accepted, Heard, Active, IInv, DataTyped, PromiseTyped
    <2>6. ReplyInv' BY <1>14 DEF Accepted, Heard, Active, IInv, DataTyped, PromiseTyped
    <2>7. LossInv' BY <1>14 DEF Accepted, Heard, Active, IInv, DataTyped, PromiseTyped
    <2>8. TypeOK' BY <2>1, <2>2, <2>3 DEF TypeOK, FlagsTyped, DataTyped, PromiseTyped
    <2>9. QED BY <2>4, <2>5, <2>6, <2>7, <2>8 DEF IInv
  <1>15. CASE Open
    <2>1. FlagsTyped' BY <1>15 DEF Open, Heard, Active, FlagsTyped
    <2>2. DataTyped' BY <1>15 DEF Open, Heard, Active, DataTyped
    <2>3. PromiseTyped' BY <1>15 DEF Open, Heard, Active, PromiseTyped
    <2>4. DataInv' BY <1>15 DEF Open, Heard, Active, IInv, DataTyped
    <2>5. CallInv' BY <1>15 DEF Open, Heard, Active, IInv, DataTyped, PromiseTyped
    <2>a. ~needs /\ op = "GetAuthRequired" BY <1>15 DEF Open, Heard, Active, IInv
    <2>b. ~needs' /\ ~required' /\ op' = "GetAuthRequired" /\ wire' = "nothing"
      BY <1>15, <2>a DEF Open, Heard, FlagsTyped
    <2>c. result' = result /\ accepted' = [accepted EXCEPT ![App] = TRUE]
      BY <1>15 DEF Open
    <2>d. accepted'[App] BY <2>c DEF PromiseTyped
    <2>e. (required = needs)'
      BY <1>15, <2>b DEF Open, Heard, FlagsTyped
    <2>6. ReplyInv' BY <2>b, <2>d, <2>e
    <2>7. LossInv' BY <1>15 DEF Open, Heard, Active, IInv, DataTyped, PromiseTyped
    <2>8. TypeOK' BY <2>1, <2>2, <2>3 DEF TypeOK, FlagsTyped, DataTyped, PromiseTyped
    <2>9. QED BY <2>4, <2>5, <2>6, <2>7, <2>8 DEF IInv
  <1>16. CASE Protected
    <2>1. FlagsTyped' BY <1>16 DEF Protected, Heard, Active, FlagsTyped
    <2>2. DataTyped' BY <1>16 DEF Protected, Heard, Active, DataTyped
    <2>3. PromiseTyped' BY <1>16 DEF Protected, Heard, Active, PromiseTyped
    <2>4. DataInv' BY <1>16 DEF Protected, Heard, Active, IInv, DataTyped
    <2>5. CallInv' BY <1>16 DEF Protected, Heard, Active, IInv, DataTyped, PromiseTyped
    <2>6. ReplyInv' BY <1>16 DEF Protected, Heard, Active, IInv, DataTyped, PromiseTyped
    <2>7. LossInv' BY <1>16 DEF Protected, Heard, Active, IInv, DataTyped, PromiseTyped
    <2>8. TypeOK' BY <2>1, <2>2, <2>3 DEF TypeOK, FlagsTyped, DataTyped, PromiseTyped
    <2>9. QED BY <2>4, <2>5, <2>6, <2>7, <2>8 DEF IInv
  <1>17. CASE Half
    <2>1. FlagsTyped' BY <1>17 DEF Half, Heard, Active, FlagsTyped
    <2>2. DataTyped' BY <1>17 DEF Half, Heard, Active, DataTyped
    <2>3. PromiseTyped' BY <1>17 DEF Half, Heard, Active, PromiseTyped
    <2>4. DataInv' BY <1>17 DEF Half, Heard, Active, IInv, DataTyped
    <2>5. CallInv' BY <1>17 DEF Half, Heard, Active, IInv, DataTyped, PromiseTyped
    <2>6. ReplyInv' BY <1>17 DEF Half, Heard, Active, IInv, DataTyped, PromiseTyped
    <2>7. LossInv' BY <1>17 DEF Half, Heard, Active, IInv, DataTyped, PromiseTyped
    <2>8. TypeOK' BY <2>1, <2>2, <2>3 DEF TypeOK, FlagsTyped, DataTyped, PromiseTyped
    <2>9. QED BY <2>4, <2>5, <2>6, <2>7, <2>8 DEF IInv
  <1>18. CASE Bare
    <2>1. FlagsTyped' BY <1>18 DEF Bare, Heard, Active, FlagsTyped
    <2>2. DataTyped' BY <1>18 DEF Bare, Heard, Active, DataTyped
    <2>3. PromiseTyped' BY <1>18 DEF Bare, Heard, Active, PromiseTyped
    <2>4. DataInv' BY <1>18 DEF Bare, Heard, Active, IInv, DataTyped
    <2>5. CallInv' BY <1>18 DEF Bare, Heard, Active, IInv, DataTyped, PromiseTyped
    <2>6. ReplyInv' BY <1>18 DEF Bare, Heard, Active, IInv, DataTyped, PromiseTyped
    <2>7. LossInv' BY <1>18 DEF Bare, Heard, Active, IInv, DataTyped, PromiseTyped
    <2>8. TypeOK' BY <2>1, <2>2, <2>3 DEF TypeOK, FlagsTyped, DataTyped, PromiseTyped
    <2>9. QED BY <2>4, <2>5, <2>6, <2>7, <2>8 DEF IInv
  <1>19. CASE UNCHANGED vars
    BY <1>19 DEF vars, IInv, TypeOK
  <1>20. QED
    BY <1>1, <1>2, <1>3, <1>4, <1>5, <1>6, <1>7, <1>8, <1>9, <1>10, <1>11, <1>12, <1>13, <1>14, <1>15, <1>16, <1>17, <1>18, <1>19 DEF Next

LEMMA Invariance == Spec => []IInv
  BY InitIInv, StepIInv, PTL DEF Spec

-----------------------------------------------------------------------------
(* Every variable keeps its type: wsc_prepare_auth only ever hashes        *)
(* strings that are there.                                                 *)
THEOREM TypeCorrect == Spec => []TypeOK
  <1>1. IInv => TypeOK BY DEF IInv
  <1>2. QED BY <1>1, Invariance, PTL

(* No response is overwritten, and a challenge only if wsc_auth_required   *)
(* is called with one still in use.                                        *)
THEOREM NothingIsLost == Spec => []NothingLost
  <1>1. IInv => NothingLost BY DEF IInv, LossInv
  <1>2. QED BY <1>1, Invariance, PTL

(* A response is computed from the two strings of one reply.               *)
THEOREM ResponseOfOneReply == Spec => []OneReply
  <1>1. IInv => OneReply BY DEF IInv, DataInv
  <1>2. QED BY <1>1, Invariance, PTL

(* A wsc_auth_required that returns true leaves what wsc_prepare_auth      *)
(* needs.                                                                  *)
THEOREM AskedIsReady == Spec => []AskedMeansReady
  <1>1. IInv => AskedMeansReady
    BY DEF IInv, DataInv, CallInv, ReplyInv, AskedMeansReady, Ready
  <1>2. QED BY <1>1, Invariance, PTL

(* A wsc_authenticate that returns true has been accepted by the server.   *)
THEOREM TrueIsAuthed == Spec => []TrueMeansAuthed
  <1>1. IInv => TrueMeansAuthed
    BY DEF IInv, CallInv, ReplyInv, TrueMeansAuthed
  <1>2. QED BY <1>1, Invariance, PTL

(* An application can rely on both functions' true.                        *)
THEOREM ResultsAreReliable == Spec => []TrueIsReliable
  <1>1. AskedMeansReady /\ TrueMeansAuthed => TrueIsReliable
    BY DEF TrueIsReliable
  <1>2. QED BY <1>1, AskedIsReady, TrueIsAuthed, PTL
=============================================================================
