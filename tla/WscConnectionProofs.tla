------------------------ MODULE WscConnectionProofs ------------------------
(***************************************************************************)
(* Proofs about WscConnection for any number of rounds in the wait loop.   *)
(***************************************************************************)
EXTENDS WscConnection, TLAPS

(* Where the application thread can be for each state of the poll thread,  *)
(* and what the handler needs there.                                       *)
ThreadInv ==
  /\ thread = "none" => app \in {"none", "mutex", "prepare", "create"} \cup Closing
  /\ thread \in {"running", "ended"} =>
       /\ HandlerReady
       /\ app \in {"wait", "waitFlag", "decide", "up", "stop", "join"}
  /\ thread = "joined" =>
       /\ app \in {"lastPoll", "closeAll", "release", "none"}
       /\ app # "none" => HandlerReady
  /\ tpc # "top" => thread = "running"

(* What wsc_connect has set up before it creates the thread.               *)
SetupInv ==
  /\ app # "none" => allocated
  /\ app \in {"prepare", "create"} => mutex = "live"
  /\ app = "create" => user_data
  /\ app \in {"mutex", "prepare"} => nc = "connecting"

(* What wsc_disconnect has given up.                                       *)
ReleaseInv ==
  /\ app = "none" => ~allocated /\ ~domain
  /\ app \in {"none", "release"} => nc \in {"none", "freed"}

(* The flags agree with the phase of the mg_connection.                    *)
FlagInv ==
  /\ connected => handshook
  /\ app = "waitFlag" => wait < MaxWait
  /\ app = "decide" => handshook \/ wait >= MaxWait \/ ~thread_flag
  /\ app # "none" /\ nc \in {"closed", "freed"} => ~connected /\ ~thread_flag

IInv == TypeOK /\ ThreadInv /\ SetupInv /\ ReleaseInv /\ FlagInv

-----------------------------------------------------------------------------
(* TypeOK in two parts: flags, and the rest.                               *)
FlagsTyped ==
  /\ failing \in BOOLEAN /\ allocated \in BOOLEAN /\ domain \in BOOLEAN
  /\ user_data \in BOOLEAN /\ thread_flag \in BOOLEAN /\ connected \in BOOLEAN
  /\ handshook \in BOOLEAN /\ crashed \in BOOLEAN

RestTyped ==
  /\ app \in {"none", "up"} \cup Connecting \cup Closing
  /\ mutex \in {"zero", "live", "destroyed"}
  /\ nc \in {"none", "closed", "freed"} \cup AliveNc
  /\ wait \in 0..MaxWait
  /\ thread \in {"none", "running", "ended", "joined"}
  /\ tpc \in {"top", "poll", "sleep"}

LEMMA TypeParts == TypeOK <=> FlagsTyped /\ RestTyped
  BY DEF TypeOK, FlagsTyped, RestTyped

LEMMA InitIInv == Init => IInv
  <1> SUFFICES ASSUME Init PROVE IInv
    OBVIOUS
  <1>1. FlagsTyped
    BY DEF Init, FlagsTyped
  <1>2. RestTyped
    BY MaxWaitAssumption
       DEF Init, RestTyped, Connecting, Closing, AliveNc, MaxWaitAssumption
  <1>3. ThreadInv /\ SetupInv /\ ReleaseInv /\ FlagInv
    BY DEF Init, ThreadInv, SetupInv, ReleaseInv, FlagInv
  <1>4. QED BY <1>1, <1>2, <1>3, TypeParts DEF IInv

(* One step per action; the definitions of the invariant and of the helpers *)
(* are common to all of them.                                              *)
LEMMA StepIInv == IInv /\ [Next]_vars => IInv'
  <1> SUFFICES ASSUME IInv, [Next]_vars PROVE IInv'
    OBVIOUS
  <1> USE MaxWaitAssumption
      DEF IInv, TypeOK, ThreadInv, SetupInv, ReleaseInv, FlagInv, HandlerReady,
          Connecting, Closing, AliveNc, At, Goto, InPoll,
          setupVars, eventVars, threadVars, MaxWaitAssumption
  <1>1. CASE Connect
    <2>1. TypeOK'
      <3>1. FlagsTyped' BY <1>1 DEF Connect, FlagsTyped
      <3>2. RestTyped' BY <1>1 DEF Connect, RestTyped
      <3>3. QED BY <3>1, <3>2 DEF FlagsTyped, RestTyped
    <2>2. ThreadInv' BY <1>1 DEF Connect
    <2>3. SetupInv' BY <1>1 DEF Connect
    <2>4. ReleaseInv' BY <1>1 DEF Connect
    <2>5. FlagInv' BY <1>1 DEF Connect
    <2>6. QED BY <2>1, <2>2, <2>3, <2>4, <2>5
  <1>2. CASE Disconnect BY <1>2 DEF Disconnect
  <1>3. CASE InitMutex BY <1>3 DEF InitMutex
  <1>4. CASE Prepare BY <1>4 DEF Prepare
  <1>5. CASE CreateThread BY <1>5 DEF CreateThread
  <1>6. CASE WaitConnected BY <1>6 DEF WaitConnected
  <1>7. CASE WaitFlag
    <2>1. TypeOK'
      <3>1. FlagsTyped' BY <1>7 DEF WaitFlag, FlagsTyped
      <3>2. RestTyped' BY <1>7 DEF WaitFlag, RestTyped
      <3>3. QED BY <3>1, <3>2 DEF FlagsTyped, RestTyped
    <2>2. ThreadInv' BY <1>7 DEF WaitFlag
    <2>3. SetupInv' BY <1>7 DEF WaitFlag
    <2>4. ReleaseInv' BY <1>7 DEF WaitFlag
    <2>5. FlagInv' BY <1>7 DEF WaitFlag
    <2>6. QED BY <2>1, <2>2, <2>3, <2>4, <2>5
  <1>8. CASE Decide BY <1>8 DEF Decide, GaveUp
  <1>9. CASE Stop
    <2>1. TypeOK' BY <1>9 DEF Stop
    <2>2. ThreadInv' BY <1>9 DEF Stop
    <2>3. SetupInv' BY <1>9 DEF Stop
    <2>4. ReleaseInv' BY <1>9 DEF Stop
    <2>5. FlagInv' BY <1>9 DEF Stop
    <2>6. QED BY <2>1, <2>2, <2>3, <2>4, <2>5
  <1>10. CASE Join BY <1>10 DEF Join
  <1>11. CASE JoinNoThread
    <2>1. TypeOK'
      <3>1. FlagsTyped' BY <1>11 DEF JoinNoThread, FlagsTyped
      <3>2. RestTyped' BY <1>11 DEF JoinNoThread, RestTyped
      <3>3. QED BY <3>1, <3>2 DEF FlagsTyped, RestTyped
    <2>2. ThreadInv' BY <1>11 DEF JoinNoThread
    <2>3. SetupInv' BY <1>11 DEF JoinNoThread
    <2>4. ReleaseInv' BY <1>11 DEF JoinNoThread
    <2>5. FlagInv' BY <1>11 DEF JoinNoThread
    <2>6. QED BY <2>1, <2>2, <2>3, <2>4, <2>5
  <1>12. CASE LastPoll BY <1>12 DEF LastPoll
  <1>13. CASE CloseAll BY <1>13 DEF CloseAll
  <1>14. CASE Release BY <1>14 DEF Release
  <1>15. CASE EvConnect BY <1>15 DEF EvConnect
  <1>16. CASE EvHandshake
    <2>1. TypeOK' BY <1>16 DEF EvHandshake
    <2>2. ThreadInv' BY <1>16 DEF EvHandshake
    <2>3. SetupInv' BY <1>16 DEF EvHandshake
    <2>4. ReleaseInv' BY <1>16 DEF EvHandshake
    <2>5. FlagInv' BY <1>16 DEF EvHandshake
    <2>6. QED BY <2>1, <2>2, <2>3, <2>4, <2>5
  <1>17. CASE EvClose BY <1>17 DEF EvClose
  <1>18. CASE NcFree BY <1>18 DEF NcFree
  <1>19. CASE EvFault BY <1>19 DEF EvFault
  <1>20. CASE ThreadTop BY <1>20 DEF ThreadTop
  <1>21. CASE PollReturns BY <1>21 DEF PollReturns
  <1>22. CASE ThreadSleep BY <1>22 DEF ThreadSleep
  <1>23. CASE UNCHANGED vars BY <1>23 DEF vars
  <1>24. QED
    BY <1>1, <1>2, <1>3, <1>4, <1>5, <1>6, <1>7, <1>8, <1>9, <1>10, <1>11, <1>12, <1>13, <1>14, <1>15, <1>16, <1>17, <1>18, <1>19, <1>20, <1>21, <1>22, <1>23
       DEF Next, AppStep, Event, ThreadStep

LEMMA IInvHolds == Spec => []IInv
  BY InitIInv, StepIInv, PTL DEF Spec

-----------------------------------------------------------------------------
(* Every variable keeps its type; the wait loop counts no further than     *)
(* MaxWait (wsc_connect).                                                  *)
THEOREM TypeCorrect == Spec => []TypeOK
  <1>1. IInv => TypeOK
    BY DEF IInv
  <1>2. QED BY <1>1, IInvHolds, PTL

(* ev_handler finds user_data and the mutex whenever mongoose may call it  *)
(* for a connection whose thread was created (wsc_connect, wsc_disconnect). *)
THEOREM HandlerIsReady == Spec => []EventsAreHandled
  <1>1. IInv => EventsAreHandled
    BY DEF IInv, ThreadInv, EventsAreHandled
  <1>2. QED BY <1>1, IInvHolds, PTL

(* The poll thread lives inside the life of its connection (wsc_thread,    *)
(* wsc_disconnect).                                                        *)
THEOREM ThreadStaysInside == Spec => []ThreadInsideLifetime
  <1>1. IInv => ThreadInsideLifetime
    BY DEF IInv, ThreadInv, SetupInv, HandlerReady, ThreadInsideLifetime
  <1>2. QED BY <1>1, IInvHolds, PTL

(* Events and the poll thread stay inside the life of the connection       *)
(* (wsc_connect, wsc_disconnect).                                          *)
THEOREM StaysInsideLifetime == Spec => []InsideLifetime
  <1>1. EventsAreHandled /\ ThreadInsideLifetime => InsideLifetime
    BY DEF InsideLifetime
  <1>2. QED BY <1>1, HandlerIsReady, ThreadStaysInside, PTL

(* wsc_disconnect and wsc_connect's fail path leave nothing behind.        *)
THEOREM NothingIsLeft == Spec => []NothingLeft
  <1>1. IInv => NothingLeft
    BY DEF IInv, TypeOK, ThreadInv, ReleaseInv, NothingLeft
  <1>2. QED BY <1>1, IInvHolds, PTL

(* wsc_connect returns a connection only after a 101 answer, for any       *)
(* length of the wait loop.                                                *)
THEOREM ConnectedAfterHandshake == Spec => UpAfterHandshake
  <1>1. IInv /\ [Next]_vars => [app = "decide" /\ app' = "up" => handshook]_vars
    <2> SUFFICES ASSUME IInv, Next, app = "decide", app' = "up"
                 PROVE  handshook
      BY DEF vars
    <2>1. CASE Decide
      BY <2>1 DEF Decide, Goto, At, GaveUp, IInv, FlagInv
    <2>2. ~Decide => FALSE
      BY DEF Next, AppStep, Event, ThreadStep, Connect, Disconnect, InitMutex,
             Prepare, CreateThread, WaitConnected, WaitFlag, Stop, Join,
             JoinNoThread, LastPoll, CloseAll, Release, EvConnect, EvHandshake,
             EvClose, NcFree, EvFault, ThreadTop, PollReturns, ThreadSleep,
             Goto, At, setupVars, eventVars, threadVars
    <2>3. QED BY <2>1, <2>2
  <1>2. QED BY <1>1, IInvHolds, PTL DEF Spec, UpAfterHandshake

(* Once mongoose has closed the connection, neither flag is ever set again *)
(* while the wsc_connection_t exists (ev_handler, wsc_connect).            *)
THEOREM ClosedStaysClosed == Spec => ClosedForGood
  <1>1. IInv /\ IInv' /\ [Next]_vars =>
          [app # "none" /\ nc \in {"closed", "freed"}
             => ~(connected \/ thread_flag)']_vars
    <2> SUFFICES ASSUME IInv, IInv', Next, app # "none", nc \in {"closed", "freed"}
                 PROVE  ~(connected \/ thread_flag)'
      BY DEF vars
    <2>1. ~connected /\ ~thread_flag
      BY DEF IInv, FlagInv
    <2>2. nc # "connecting" /\ app # "prepare"
      BY DEF IInv, SetupInv
    <2>3. QED
      BY <2>1, <2>2
      DEF Next, AppStep, Event, ThreadStep, Connect, Disconnect, InitMutex,
          Prepare, CreateThread, WaitConnected, WaitFlag, Decide, Stop, Join,
          JoinNoThread, LastPoll, CloseAll, Release, EvConnect, EvHandshake,
          EvClose, NcFree, EvFault, ThreadTop, PollReturns, ThreadSleep,
          Goto, At, setupVars, eventVars, threadVars
  <1>2. QED BY <1>1, IInvHolds, PTL DEF Spec, ClosedForGood
=============================================================================
