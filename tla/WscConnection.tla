--------------------------- MODULE WscConnection ---------------------------
(***************************************************************************)
(* The life of a connection (src/obs_wsc.c): an application thread runs    *)
(* wsc_connect and wsc_disconnect, the poll thread runs wsc_thread, and    *)
(* mongoose calls ev_handler from whichever of them is inside its poll     *)
(* function.  Requests over the open connection are in WscRequests.        *)
(***************************************************************************)
EXTENDS Naturals

CONSTANT MaxWait  \* rounds wsc_connect waits for the handshake (1000 ms / 10)

ASSUME MaxWaitAssumption == MaxWait \in Nat \ {0}

VARIABLES
  app,          \* where the application thread is
  failing,      \* wsc_disconnect runs on the fail path of wsc_connect
  allocated,    \* the wsc_connection_t exists
  domain,       \* conn->domain is allocated
  mutex,        \* conn->poll_mutex: "zero", "live" or "destroyed"
  user_data,    \* conn->connection->user_data is set
  thread_flag, connected,
  nc,           \* "none" or the phase of the mg_connection
  handshook,    \* history: a 101 answer has been handled
  wait,         \* rounds waited in wsc_connect
  thread,       \* conn->poll_thread
  tpc,          \* where the poll thread is
  crashed

setupVars == <<allocated, domain, mutex, user_data>>
eventVars == <<connected, nc, handshook>>
threadVars == <<thread, tpc>>
vars == <<app, failing, setupVars, thread_flag, eventVars, wait, threadVars,
          crashed>>

Connecting == {"mutex", "prepare", "create", "wait", "waitFlag", "decide"}
Closing    == {"stop", "join", "lastPoll", "closeAll", "release"}
AliveNc    == {"connecting", "handshake", "open", "doomed"}

TypeOK ==
  /\ app \in {"none", "up"} \cup Connecting \cup Closing
  /\ failing \in BOOLEAN /\ allocated \in BOOLEAN /\ domain \in BOOLEAN
  /\ mutex \in {"zero", "live", "destroyed"}
  /\ user_data \in BOOLEAN /\ thread_flag \in BOOLEAN /\ connected \in BOOLEAN
  /\ nc \in {"none", "closed", "freed"} \cup AliveNc
  /\ handshook \in BOOLEAN
  /\ wait \in 0..MaxWait
  /\ thread \in {"none", "running", "ended", "joined"}
  /\ tpc \in {"top", "poll", "sleep"}
  /\ crashed \in BOOLEAN

Init ==
  /\ app = "none" /\ failing = FALSE
  /\ allocated = FALSE /\ domain = FALSE /\ mutex = "zero" /\ user_data = FALSE
  /\ thread_flag = FALSE /\ connected = FALSE /\ nc = "none"
  /\ handshook = FALSE /\ wait = 0
  /\ thread = "none" /\ tpc = "top" /\ crashed = FALSE

At(from) == ~crashed /\ app = from
Goto(from, to) == At(from) /\ app' = to

-----------------------------------------------------------------------------
(* wsc_connect.                                                            *)

(* A zeroed wsc_connection_t; mg_connect_ws fails for a bad address.       *)
Connect ==
  /\ At("none")
  /\ \/ app' = "mutex" /\ nc' = "connecting" /\ failing' = FALSE
     \/ app' = "stop" /\ nc' = "none" /\ failing' = TRUE
  /\ allocated' = TRUE /\ domain' = FALSE /\ mutex' = "zero"
  /\ user_data' = FALSE /\ thread_flag' = FALSE
  /\ connected' = FALSE /\ handshook' = FALSE
  /\ wait' = 0 /\ thread' = "none" /\ tpc' = "top"
  /\ UNCHANGED crashed

InitMutex ==
  /\ At("mutex")
  /\ \/ app' = "prepare" /\ mutex' = "live" /\ UNCHANGED failing
     \/ app' = "stop" /\ failing' = TRUE /\ UNCHANGED mutex
  /\ UNCHANGED <<allocated, domain, user_data, thread_flag, eventVars, wait,
                 threadVars, crashed>>

Prepare ==
  /\ Goto("prepare", "create")
  /\ thread_flag' = TRUE /\ user_data' = TRUE /\ domain' = TRUE
  /\ UNCHANGED <<failing, allocated, mutex, eventVars, wait, threadVars,
                 crashed>>

CreateThread ==
  /\ At("create")
  /\ \/ app' = "wait" /\ thread' = "running" /\ UNCHANGED failing
     \/ app' = "stop" /\ failing' = TRUE /\ UNCHANGED thread
  /\ UNCHANGED <<setupVars, thread_flag, eventVars, wait, tpc, crashed>>

(* The wait loop reads connected, then thread_flag, both without the       *)
(* mutex, while the poll thread sets them.                                 *)
WaitConnected ==
  /\ Goto("wait", IF ~connected /\ wait < MaxWait THEN "waitFlag" ELSE "decide")
  /\ UNCHANGED <<failing, setupVars, thread_flag, eventVars, wait, threadVars,
                 crashed>>

WaitFlag_Uncounted ==
  /\ Goto("waitFlag", IF thread_flag THEN "wait" ELSE "decide")
  /\ UNCHANGED <<failing, setupVars, thread_flag, eventVars, wait, threadVars,
                 crashed>>

WaitFlag ==
  /\ Goto("waitFlag", IF thread_flag THEN "wait" ELSE "decide")
  /\ wait' = IF thread_flag THEN wait + 1 ELSE wait
  /\ UNCHANGED <<failing, setupVars, thread_flag, eventVars, threadVars,
                 crashed>>

GaveUp_FlagOnly == ~thread_flag
GaveUp == wait >= MaxWait \/ ~thread_flag

Decide ==
  /\ Goto("decide", IF GaveUp THEN "stop" ELSE "up")
  /\ failing' = GaveUp
  /\ UNCHANGED <<setupVars, thread_flag, eventVars, wait, threadVars, crashed>>

-----------------------------------------------------------------------------
(* ev_handler, called by mongoose from the poll thread (tpc = "poll") or   *)
(* from wsc_disconnect (mg_mgr_free).  It uses nc->user_data and locks     *)
(* poll_mutex for every event, even those it ignores.                      *)

InPoll == ~crashed /\ (tpc = "poll" \/ app \in {"lastPoll", "closeAll"})
HandlerReady == user_data /\ mutex = "live"

(* The TCP connection is made or refused (MG_EV_CONNECT).                  *)
EvConnect ==
  /\ InPoll /\ HandlerReady
  /\ nc = "connecting"
  /\ nc' \in {"handshake", "doomed"}
  /\ UNCHANGED <<app, failing, setupVars, thread_flag, connected, handshook,
                 wait, threadVars, crashed>>

(* MG_EV_WEBSOCKET_HANDSHAKE_DONE; only 101 counts, and after any other    *)
(* answer mongoose closes the connection.                                  *)
EvHandshake ==
  /\ InPoll /\ HandlerReady
  /\ nc = "handshake"
  /\ \/ nc' = "open" /\ connected' = TRUE /\ handshook' = TRUE
     \/ nc' = "doomed" /\ UNCHANGED <<connected, handshook>>
  /\ UNCHANGED <<app, failing, setupVars, thread_flag, wait, threadVars,
                 crashed>>

(* MG_EV_CLOSE, whatever phase the connection is in.                       *)
EvClose_FlagKept ==
  /\ InPoll /\ HandlerReady
  /\ nc \in AliveNc
  /\ nc' = "closed"
  /\ connected' = FALSE
  /\ UNCHANGED <<app, failing, setupVars, thread_flag, handshook, wait,
                 threadVars, crashed>>

EvClose ==
  /\ InPoll /\ HandlerReady
  /\ nc \in AliveNc
  /\ nc' = "closed"
  /\ connected' = FALSE /\ thread_flag' = FALSE
  /\ UNCHANGED <<app, failing, setupVars, handshook, wait, threadVars, crashed>>

(* mg_destroy_conn, after the handler has returned.                        *)
NcFree ==
  /\ InPoll
  /\ nc = "closed" /\ nc' = "freed"
  /\ UNCHANGED <<app, failing, setupVars, thread_flag, connected, handshook,
                 wait, threadVars, crashed>>

(* An event for a connection whose handler cannot run: NULL user_data.     *)
EvFault ==
  /\ InPoll /\ ~HandlerReady
  /\ nc \in AliveNc
  /\ crashed' = TRUE
  /\ UNCHANGED <<app, failing, setupVars, thread_flag, eventVars, wait,
                 threadVars>>

-----------------------------------------------------------------------------
(* wsc_thread.  mg_mgr_poll is not left between EvClose and NcFree.        *)

ThreadTop ==
  /\ ~crashed /\ thread = "running" /\ tpc = "top"
  /\ IF thread_flag THEN tpc' = "poll" /\ UNCHANGED thread
                    ELSE thread' = "ended" /\ UNCHANGED tpc
  /\ UNCHANGED <<app, failing, setupVars, thread_flag, eventVars, wait, crashed>>

PollReturns ==
  /\ ~crashed /\ tpc = "poll" /\ nc # "closed"
  /\ tpc' = "sleep"
  /\ UNCHANGED <<app, failing, setupVars, thread_flag, eventVars, wait, thread,
                 crashed>>

ThreadSleep ==
  /\ ~crashed /\ tpc = "sleep" /\ tpc' = "top"
  /\ UNCHANGED <<app, failing, setupVars, thread_flag, eventVars, wait, thread,
                 crashed>>

-----------------------------------------------------------------------------
(* wsc_disconnect, called by the application or by the fail path.          *)

Disconnect ==
  /\ Goto("up", "stop")
  /\ UNCHANGED <<failing, setupVars, thread_flag, eventVars, wait, threadVars,
                 crashed>>

Stop ==
  /\ Goto("stop", "join")
  /\ thread_flag' = FALSE
  /\ UNCHANGED <<failing, setupVars, eventVars, wait, threadVars, crashed>>

Join_NoWait ==
  /\ Goto("join", "lastPoll")
  /\ UNCHANGED <<failing, setupVars, thread_flag, eventVars, wait, threadVars,
                 crashed>>

Join ==
  /\ Goto("join", "lastPoll")
  /\ thread = "ended" /\ thread' = "joined"
  /\ UNCHANGED <<failing, setupVars, thread_flag, eventVars, wait, tpc, crashed>>

(* pthread_join on the zeroed pthread_t of a thread that was never created *)
(* dereferences it, or reports an error.                                   *)
JoinNoThread ==
  /\ At("join")
  /\ thread = "none"
  /\ \/ app' = "lastPoll" /\ UNCHANGED crashed
     \/ crashed' = TRUE /\ UNCHANGED app
  /\ UNCHANGED <<failing, setupVars, thread_flag, eventVars, wait, threadVars>>

(* mg_mgr_free: one more poll, then every connection still there is        *)
(* closed, MG_EV_CLOSE included.                                           *)
LastPoll ==
  /\ Goto("lastPoll", "closeAll")
  /\ nc # "closed"
  /\ UNCHANGED <<failing, setupVars, thread_flag, eventVars, wait, threadVars,
                 crashed>>

CloseAll ==
  /\ Goto("closeAll", "release")
  /\ nc \in {"none", "freed"}
  /\ UNCHANGED <<failing, setupVars, thread_flag, eventVars, wait, threadVars,
                 crashed>>

Release_KeepDomain ==
  /\ Goto("release", "none")
  /\ mutex' = "destroyed"
  /\ allocated' = FALSE
  /\ UNCHANGED <<failing, domain, user_data, thread_flag, eventVars, wait,
                 threadVars, crashed>>

Release ==
  /\ Goto("release", "none")
  /\ mutex' = "destroyed"
  /\ domain' = FALSE /\ allocated' = FALSE
  /\ UNCHANGED <<failing, user_data, thread_flag, eventVars, wait, threadVars,
                 crashed>>

-----------------------------------------------------------------------------
AppStep ==
  \/ InitMutex \/ Prepare \/ CreateThread \/ WaitConnected \/ WaitFlag \/ Decide
  \/ Stop \/ Join \/ JoinNoThread \/ LastPoll \/ CloseAll \/ Release

Event == EvConnect \/ EvHandshake \/ EvClose \/ NcFree \/ EvFault

ThreadStep == ThreadTop \/ PollReturns \/ ThreadSleep

Next == Connect \/ Disconnect \/ AppStep \/ Event \/ ThreadStep

Spec == Init /\ [][Next]_vars

(* Both threads keep running, mg_mgr_poll returns after its timeout, and   *)
(* the last poll of mg_mgr_free closes what is left.  The server owes      *)
(* nothing.                                                                *)
Fairness ==
  /\ WF_vars(AppStep)
  /\ WF_vars(ThreadTop) /\ WF_vars(PollReturns) /\ WF_vars(ThreadSleep)
  /\ WF_vars(NcFree)
  /\ WF_vars(app = "closeAll" /\ (EvClose \/ EvFault))

FairSpec == Spec /\ Fairness

-----------------------------------------------------------------------------
(* Correctness.                                                            *)

(* An event is only handled while nc->user_data and poll_mutex are usable: *)
(* wsc_connect sets both before the poll thread can run, wsc_disconnect    *)
(* destroys the mutex after the last event.                                *)
EventsAreHandled ==
  thread = "running" \/ (app \in {"lastPoll", "closeAll"} /\ thread = "joined")
    => HandlerReady

(* wsc_connect returns a connection only if the handshake was answered     *)
(* with 101, however the wait loop and the poll thread interleave.         *)
UpAfterHandshake == [][app = "decide" /\ app' = "up" => handshook]_vars

(* The poll thread never outlives the connection it polls (wsc_disconnect  *)
(* joins it before it frees anything).                                     *)
ThreadInsideLifetime ==
  thread = "running" =>
    /\ allocated /\ mutex = "live"
    /\ app \notin {"lastPoll", "closeAll", "release", "none"}

(* Events and the poll thread stay inside the life of what they use.       *)
InsideLifetime == EventsAreHandled /\ ThreadInsideLifetime

(* After wsc_disconnect, also on wsc_connect's fail path, nothing of the   *)
(* connection is left: no thread, no mg_connection, no domain.             *)
NothingLeft ==
  app = "none" /\ ~crashed =>
    /\ ~allocated /\ ~domain
    /\ thread \in {"none", "joined"}
    /\ nc \in {"none", "freed"}

(* A closed connection is never reported as connected, and stays closed.   *)
ClosedForGood ==
  [][app # "none" /\ nc \in {"closed", "freed"}
       => ~(connected \/ thread_flag)']_vars

(* wsc_connect comes back, with a connection or with NULL, and so does      *)
(* wsc_disconnect: the poll thread sees the flag and ends.                 *)
CallsReturn ==
  /\ app \in Connecting ~> (app \in {"up", "none"} \/ crashed)
  /\ app \in Closing ~> (app = "none" \/ crashed)

(* When the server closes the connection the poll thread ends.             *)
ThreadEndsAfterClose == nc = "closed" ~> (thread # "running" \/ crashed)
=============================================================================
