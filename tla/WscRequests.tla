---------------------------- MODULE WscRequests ----------------------------
(***************************************************************************)
(* send_request and its helpers (src/send.c) run by application threads    *)
(* over one open connection, against the poll thread that delivers replies *)
(* (notify_request and ev_handler, src/obs_wsc.c).                         *)
(*                                                                         *)
(* Each critical section of conn->poll_mutex in which nobody can be        *)
(* observed is one step guarded by mutex = NULL; the two list walks        *)
(* (remove_request, notify_request) hold the mutex over several steps, one *)
(* per node visited.  What the code reads without the mutex                *)
(* (conn->connected, rq->status after the wait loop) is read in a step of  *)
(* its own.                                                                *)
(*                                                                         *)
(* Use of freed memory is undefined in C.  A freed request_t keeps id,     *)
(* next and prev until the allocator hands the cell out again, so an       *)
(* access to it either sees those stale fields or faults (action Fault);   *)
(* calling the callback of a freed request, and freeing it again, only     *)
(* fault.                                                                  *)
(***************************************************************************)
EXTENDS Integers, FiniteSets

CONSTANTS
  Callers,         \* threads that call send_request on this connection
  Poll,            \* the poll thread
  Addrs,           \* heap cells a request_t can be allocated in
  Ids,             \* message ids util_random_id can produce
  NULL,            \* the null pointer, and "no owner" of the mutex
  Timeouts,        \* values the application passes to wsc_set_timeout
  DefaultTimeout,  \* conn->timeout as wsc_connect leaves it (2000)
  Collide          \* may rand() repeat an id that is still allocated?

ASSUME ConstantsAssumption ==
  /\ Poll \notin Callers
  /\ NULL \notin Callers \cup {Poll} \cup Addrs \cup Ids
  /\ Timeouts \subseteq Int
  /\ DefaultTimeout \in Int
  /\ Collide \in BOOLEAN

VARIABLES
  connected,   \* conn->connected
  nc,          \* the mg_connection that conn->connection points to
  timeout,     \* conn->timeout
  first,       \* conn->first_active_request
  count,       \* conn->request_count
  strs,        \* message id strings allocated and not freed
  ids,         \* conn->ids: the strings wsc_disconnect will free
  live,        \* request_t cells allocated and not freed
  id, status, next, prev,          \* fields of the request_t cells
  mutex,       \* owner of conn->poll_mutex
  cur,         \* each thread's cursor into the list
  pc,          \* where each caller is in send_request
  msg_id, rq,                      \* locals of send_request
  elapsed, max_timeout, keep,      \* locals of wait_timeout
  result,      \* what the caller's last send_request returned
  okSeen,      \* history: the callback of this call has returned REQUEST_OK
  ppc, reply,  \* where the poll thread is, and the reply it delivers
  sent,        \* ids of the requests the server has received
  crashed      \* an access to freed memory has faulted

connVars == <<connected, nc>>
heapVars == <<first, count, live, id, status, next, prev>>
strVars  == <<strs, ids>>
waitVars == <<rq, elapsed, max_timeout, keep>>
pollVars == <<ppc, reply>>
vars == <<connVars, timeout, heapVars, strVars, mutex, cur, pc, msg_id,
          waitVars, result, okSeen, pollVars, sent, crashed>>

Threads == Callers \cup {Poll}
Status  == {"PENDING", "OK", "ERROR"}

Ptr == Addrs \cup {NULL}
Freed(a) == a \in Addrs \ live

TypeOK ==
  /\ connected \in BOOLEAN /\ nc \in {"open", "freed"}
  /\ timeout \in Int
  /\ first \in Ptr /\ count \in Nat
  /\ strs \subseteq Ids /\ ids \subseteq Ids
  /\ live \subseteq Addrs
  /\ id \in [Addrs -> Ids \cup {NULL}] /\ status \in [Addrs -> Status]
  /\ next \in [Addrs -> Ptr] /\ prev \in [Addrs -> Ptr]
  /\ mutex \in Threads \cup {NULL}
  /\ cur \in [Threads -> Ptr]
  /\ pc \in [Callers -> {"idle", "gen", "pack", "check", "send", "add",
                         "start", "loop", "remove", "unlink"}]
  /\ msg_id \in [Callers -> Ids \cup {NULL}] /\ rq \in [Callers -> Ptr]
  /\ elapsed \in [Callers -> Int] /\ max_timeout \in [Callers -> Int]
  /\ keep \in [Callers -> BOOLEAN] /\ result \in [Callers -> BOOLEAN]
  /\ okSeen \in [Callers -> BOOLEAN]
  /\ ppc \in {"idle", "walk", "closing", "exit"}
  /\ reply \in Ids \cup {NULL}
  /\ sent \subseteq Ids
  /\ crashed \in BOOLEAN

(* wsc_connect has returned the connection: the handshake is done, the     *)
(* poll thread runs and there are no requests.                             *)
Init ==
  /\ connected = TRUE /\ nc = "open" /\ timeout = DefaultTimeout
  /\ first = NULL /\ count = 0 /\ live = {}
  /\ strs = {} /\ ids = {}
  /\ id = [a \in Addrs |-> NULL] /\ status = [a \in Addrs |-> "PENDING"]
  /\ next = [a \in Addrs |-> NULL] /\ prev = [a \in Addrs |-> NULL]
  /\ mutex = NULL /\ cur = [t \in Threads |-> NULL]
  /\ pc = [c \in Callers |-> "idle"]
  /\ msg_id = [c \in Callers |-> NULL] /\ rq = [c \in Callers |-> NULL]
  /\ elapsed = [c \in Callers |-> 0]
  /\ max_timeout = [c \in Callers |-> DefaultTimeout]
  /\ keep = [c \in Callers |-> TRUE]
  /\ result = [c \in Callers |-> FALSE] /\ okSeen = [c \in Callers |-> FALSE]
  /\ ppc = "idle" /\ reply = NULL
  /\ sent = {} /\ crashed = FALSE

Goto(c, from, to) ==
  ~crashed /\ pc[c] = from /\ pc' = [pc EXCEPT ![c] = to]

(* pthread_mutex_lock(&conn->poll_mutex) goes through.                     *)
Unlocked_Always == TRUE
Unlocked == mutex = NULL

PollGoto(from, to) == ~crashed /\ ppc = from /\ ppc' = to

-----------------------------------------------------------------------------
(* send_request, up to the registration of the request.                    *)

(* Bound: without collisions every call needs an id of its own.            *)
IdLeft ==
  Collide \/ Cardinality(strs) + Cardinality({d \in Callers : pc[d] = "gen"})
               < Cardinality(Ids)

(* The argument check reads conn->connected without the mutex; a caller it *)
(* refuses returns false at once.                                          *)
Call(c) ==
  /\ IdLeft
  /\ Goto(c, "idle", IF connected THEN "gen" ELSE "idle")
  /\ result' = [result EXCEPT ![c] = FALSE]
  /\ okSeen' = [okSeen EXCEPT ![c] = FALSE]
  /\ UNCHANGED <<connVars, timeout, heapVars, strVars, mutex, cur, msg_id,
                 waitVars, pollVars, sent, crashed>>

(* The id is copied while nobody else can draw one; a copy that repeats an *)
(* id in use is what util_random_id is meant to prevent.                   *)
GenId_Repeats(c) ==
  /\ Goto(c, "gen", "pack")
  /\ Unlocked
  /\ \E i \in Ids : msg_id' = [msg_id EXCEPT ![c] = i] /\ strs' = strs \cup {i}
  /\ UNCHANGED <<connVars, timeout, heapVars, ids, mutex, cur, waitVars,
                 result, okSeen, pollVars, sent, crashed>>

(* util_random_id compares the new id with the darray's cells and not with *)
(* the strings they point to, so any id can be drawn again.                *)
GenId(c) ==
  /\ Goto(c, "gen", "pack")
  /\ Unlocked
  /\ \E i \in Ids :
       /\ Collide \/ i \notin strs
       /\ msg_id' = [msg_id EXCEPT ![c] = i]
       /\ strs' = strs \cup {i}
  /\ UNCHANGED <<connVars, timeout, heapVars, ids, mutex, cur, waitVars,
                 result, okSeen, pollVars, sent, crashed>>

Pack_KeepsId(c) ==
  /\ \/ Goto(c, "pack", "check")
     \/ Goto(c, "pack", "idle")
  /\ UNCHANGED <<connVars, timeout, heapVars, strVars, mutex, cur, msg_id,
                 waitVars, result, okSeen, pollVars, sent, crashed>>

(* json_pack_ex builds the request, or fails: the id is freed then.        *)
Pack(c) ==
  /\ \/ Goto(c, "pack", "check") /\ UNCHANGED strs
     \/ Goto(c, "pack", "idle") /\ strs' = strs \ {msg_id[c]}
  /\ UNCHANGED <<connVars, timeout, heapVars, ids, mutex, cur, msg_id,
                 waitVars, result, okSeen, pollVars, sent, crashed>>

SendCheck_Unchecked(c) ==
  /\ Goto(c, "check", "send")
  /\ UNCHANGED <<connVars, timeout, heapVars, strVars, mutex, cur, msg_id,
                 waitVars, result, okSeen, pollVars, sent, crashed>>

(* send_str reads conn->connected before it takes the mutex.               *)
SendCheck(c) ==
  /\ Goto(c, "check", IF connected THEN "send" ELSE "remove")
  /\ UNCHANGED <<connVars, timeout, heapVars, strVars, mutex, cur, msg_id,
                 waitVars, result, okSeen, pollVars, sent, crashed>>

(* mg_send_websocket_frame; on a freed mg_connection the frame is lost.    *)
SendFrame(c) ==
  /\ Goto(c, "send", "add")
  /\ Unlocked
  /\ sent' = IF nc = "open" THEN sent \cup {msg_id[c]} ELSE sent
  /\ UNCHANGED <<connVars, timeout, heapVars, strVars, mutex, cur, msg_id,
                 waitVars, result, okSeen, pollVars, crashed>>

CountAfterAdd == count + 1

AddRequest(c) ==
  /\ Goto(c, "add", "start")
  /\ Unlocked
  /\ ids' = ids \cup {msg_id[c]}
  /\ \E a \in Addrs \ live :
       /\ live' = live \cup {a}
       /\ id' = [id EXCEPT ![a] = msg_id[c]]
       /\ status' = [status EXCEPT ![a] = "PENDING"]
       /\ next' = [next EXCEPT ![a] = first]
       /\ prev' = [x \in Addrs |-> IF x = first THEN a
                                   ELSE IF x = a THEN NULL ELSE prev[x]]
       /\ first' = a
       /\ rq' = [rq EXCEPT ![c] = a]
  /\ count' = CountAfterAdd
  /\ UNCHANGED <<connVars, timeout, strs, mutex, cur, msg_id, elapsed,
                 max_timeout, keep, result, okSeen, pollVars, sent, crashed>>

-----------------------------------------------------------------------------
(* wait_timeout.  A round of the loop sleeps 2 ms.                         *)

WaitStart(c) ==
  /\ Goto(c, "start", "loop")
  /\ Unlocked
  /\ max_timeout' = [max_timeout EXCEPT ![c] = timeout]
  /\ elapsed' = [elapsed EXCEPT ![c] = 0]
  /\ keep' = [keep EXCEPT ![c] = TRUE]
  /\ UNCHANGED <<connVars, timeout, heapVars, strVars, mutex, cur, msg_id, rq,
                 result, okSeen, pollVars, sent, crashed>>

Tick_Missing == 0
Tick == 2

KeepWaiting(c) == elapsed[c] <= max_timeout[c] /\ keep[c]

WaitPoll(c) ==
  /\ Goto(c, "loop", "loop")
  /\ KeepWaiting(c)
  /\ Unlocked
  /\ keep' = [keep EXCEPT ![c] = status[rq[c]] = "PENDING"]
  /\ elapsed' = [elapsed EXCEPT ![c] = @ + Tick]
  /\ UNCHANGED <<connVars, timeout, heapVars, strVars, mutex, cur, msg_id, rq,
                 max_timeout, result, okSeen, pollVars, sent, crashed>>

(* The final test reads rq->status without the mutex.                      *)
Outcome(c) == elapsed[c] <= max_timeout[c] /\ status[rq[c]] = "OK"

(* Answered or timed out, the request is removed before the call returns.  *)
AfterWait_TimedOutStays(c) == IF keep[c] THEN "idle" ELSE "remove"
AfterWait(c) == "remove"

WaitEnd(c) ==
  /\ Goto(c, "loop", AfterWait(c))
  /\ ~KeepWaiting(c)
  /\ result' = [result EXCEPT ![c] = Outcome(c)]
  /\ UNCHANGED <<connVars, timeout, heapVars, strVars, mutex, cur, msg_id,
                 waitVars, okSeen, pollVars, sent, crashed>>

-----------------------------------------------------------------------------
(* remove_request, under the mutex from RemoveLock to RemoveMiss or        *)
(* RemoveUnlink; send_request returns right after it.                      *)

RemoveLock(c) ==
  /\ Goto(c, "remove", "unlink")
  /\ Unlocked
  /\ mutex' = c
  /\ cur' = [cur EXCEPT ![c] = first]
  /\ UNCHANGED <<connVars, timeout, heapVars, strVars, msg_id, waitVars,
                 result, okSeen, pollVars, sent, crashed>>

RemoveNext(c) ==
  /\ Goto(c, "unlink", "unlink")
  /\ cur[c] # NULL /\ id[cur[c]] # msg_id[c]
  /\ cur' = [cur EXCEPT ![c] = next[cur[c]]]
  /\ UNCHANGED <<connVars, timeout, heapVars, strVars, mutex, msg_id,
                 waitVars, result, okSeen, pollVars, sent, crashed>>

RemoveMiss(c) ==
  /\ Goto(c, "unlink", "idle")
  /\ cur[c] = NULL
  /\ mutex' = NULL
  /\ rq' = [rq EXCEPT ![c] = NULL]
  /\ UNCHANGED <<connVars, timeout, heapVars, strVars, cur, msg_id, elapsed,
                 max_timeout, keep, result, okSeen, pollVars, sent, crashed>>

CountAfterRemove_Kept == count
CountAfterRemove == count - 1

HeadAfterRemove_Kept == first
HeadAfterRemove == IF CountAfterRemove < 1 THEN NULL ELSE first

RemoveUnlink(c) ==
  LET r == cur[c] IN
  /\ Goto(c, "unlink", "idle")
  /\ r \in live /\ id[r] = msg_id[c]
  /\ next' = [x \in Addrs |-> IF x = prev[r] THEN next[r] ELSE next[x]]
  /\ prev' = [x \in Addrs |-> IF x = next[r] THEN prev[r] ELSE prev[x]]
  /\ live' = live \ {r}
  /\ count' = CountAfterRemove
  /\ first' = HeadAfterRemove
  /\ cur' = [cur EXCEPT ![c] = NULL]
  /\ mutex' = NULL
  /\ rq' = [rq EXCEPT ![c] = NULL]
  /\ UNCHANGED <<connVars, timeout, id, status, strVars, msg_id, elapsed,
                 max_timeout, keep, result, okSeen, pollVars, sent, crashed>>

-----------------------------------------------------------------------------
(* The poll thread: ev_handler and notify_request.                         *)

(* A reply for any request the server has received: late, repeated and     *)
(* reordered replies are all instances of this.  A frame that is not JSON  *)
(* or has no message-id changes nothing.                                   *)
FrameArrives(i) ==
  /\ PollGoto("idle", "walk")
  /\ nc = "open"
  /\ i \in sent
  /\ Unlocked /\ mutex' = Poll
  /\ reply' = i
  /\ cur' = [cur EXCEPT ![Poll] = first]
  /\ UNCHANGED <<connVars, timeout, heapVars, strVars, pc, msg_id, waitVars,
                 result, okSeen, sent, crashed>>

NotifyNext ==
  /\ PollGoto("walk", "walk")
  /\ cur[Poll] # NULL /\ id[cur[Poll]] # reply
  /\ cur' = [cur EXCEPT ![Poll] = next[cur[Poll]]]
  /\ UNCHANGED <<connVars, timeout, heapVars, strVars, mutex, pc, msg_id,
                 waitVars, result, okSeen, reply, sent, crashed>>

NotifyMiss ==
  /\ PollGoto("walk", "idle")
  /\ cur[Poll] = NULL
  /\ mutex' = NULL
  /\ UNCHANGED <<connVars, timeout, heapVars, strVars, cur, pc, msg_id,
                 waitVars, result, okSeen, reply, sent, crashed>>

(* f->status = f->cb(j, f->cb_data): the callback accepts or rejects.      *)
NotifyCallback(r) ==
  /\ PollGoto("walk", "idle")
  /\ cur[Poll] \in live /\ id[cur[Poll]] = reply
  /\ status' = [status EXCEPT ![cur[Poll]] = r]
  /\ okSeen' = [c \in Callers |-> okSeen[c] \/ (r = "OK" /\ rq[c] = cur[Poll])]
  /\ cur' = [cur EXCEPT ![Poll] = NULL]
  /\ mutex' = NULL
  /\ UNCHANGED <<connVars, timeout, first, count, live, id, next, prev,
                 strVars, pc, msg_id, waitVars, result, reply, sent, crashed>>

(* mg_close_conn delivers MG_EV_CLOSE first and frees the mg_connection    *)
(* afterwards, without the mutex; the thread flag ends the poll loop.      *)
CloseEvent ==
  /\ PollGoto("idle", "closing")
  /\ Unlocked
  /\ connected' = FALSE
  /\ UNCHANGED <<nc, timeout, heapVars, strVars, mutex, cur, pc, msg_id,
                 waitVars, result, okSeen, reply, sent, crashed>>

CloseFree ==
  /\ PollGoto("closing", "exit")
  /\ nc' = "freed"
  /\ UNCHANGED <<connected, timeout, heapVars, strVars, mutex, cur, pc, msg_id,
                 waitVars, result, okSeen, reply, sent, crashed>>

-----------------------------------------------------------------------------
SetTimeout(ms) ==
  /\ ~crashed
  /\ Unlocked
  /\ timeout' = ms
  /\ UNCHANGED <<connVars, heapVars, strVars, mutex, cur, pc, msg_id,
                 waitVars, result, okSeen, pollVars, sent, crashed>>

(* The places where a thread may touch freed memory.                       *)
CallerTouchesFreed(c) ==
  \/ pc[c] = "send" /\ Unlocked /\ nc = "freed"
  \/ pc[c] = "add" /\ Unlocked /\ Freed(first)
  \/ pc[c] \in {"start", "loop"} /\ Freed(rq[c])
  \/ pc[c] = "unlink" /\ Freed(cur[c])
  \/ pc[c] = "unlink" /\ cur[c] # NULL /\ id[cur[c]] = msg_id[c]
                      /\ (Freed(next[cur[c]]) \/ Freed(prev[cur[c]]))

PollTouchesFreed == ppc = "walk" /\ Freed(cur[Poll])

Fault ==
  /\ ~crashed
  /\ PollTouchesFreed \/ \E c \in Callers : CallerTouchesFreed(c)
  /\ crashed' = TRUE
  /\ UNCHANGED <<connVars, timeout, heapVars, strVars, mutex, cur, pc, msg_id,
                 waitVars, result, okSeen, pollVars, sent>>

Send(c) == Call(c) \/ GenId(c) \/ Pack(c) \/ SendCheck(c) \/ SendFrame(c)
Wait(c) == AddRequest(c) \/ WaitStart(c) \/ WaitPoll(c) \/ WaitEnd(c)
Remove(c) == RemoveLock(c) \/ RemoveNext(c) \/ RemoveMiss(c) \/ RemoveUnlink(c)

Notify ==
  NotifyNext \/ NotifyMiss \/ \E r \in {"OK", "ERROR"} : NotifyCallback(r)

Next ==
  \/ \E c \in Callers : Send(c) \/ Wait(c) \/ Remove(c)
  \/ \E i \in Ids : FrameArrives(i)
  \/ Notify
  \/ CloseEvent \/ CloseFree
  \/ \E ms \in Timeouts : SetTimeout(ms)
  \/ Fault

Spec == Init /\ [][Next]_vars

(* A thread that can run does.  The mutex is taken by whoever asks for it  *)
(* often enough: the poll thread leaves it alone for the 10 ms it sleeps   *)
(* in each round (wsc_thread) and callers sleep 2 ms, hence SF for the     *)
(* steps that wait for the mutex.  Neither an answer of the server nor a   *)
(* new call is ever owed.                                                  *)
Locking(c) ==
  GenId(c) \/ SendFrame(c) \/ AddRequest(c) \/ WaitStart(c) \/ WaitPoll(c)
  \/ RemoveLock(c)

Running(c) ==
  Pack(c) \/ SendCheck(c) \/ WaitEnd(c) \/ RemoveNext(c) \/ RemoveMiss(c)
  \/ RemoveUnlink(c)

Fairness ==
  /\ \A c \in Callers : /\ SF_vars(Locking(c))
                        /\ WF_vars(Running(c))
  /\ WF_vars(Notify)
  /\ WF_vars(CloseFree)

FairSpec == Spec /\ Fairness

-----------------------------------------------------------------------------
(* Correctness.                                                            *)

InCall(c) == pc[c] # "idle"

(* The request a caller waits for is never freed under it: only its own    *)
(* remove_request takes it off the list, because ids tell requests apart.  *)
OwnRequestKept ==
  \A c \in Callers : pc[c] \in {"start", "loop"} =>
    rq[c] \in live /\ id[rq[c]] = msg_id[c]

(* send_request returns true only if, during that very call, its callback  *)
(* was run on a reply and returned REQUEST_OK (wait_timeout).              *)
ResultSound == \A c \in Callers : result[c] => okSeen[c]

(* request_count is the number of requests that are registered and not     *)
(* yet removed, however add_request and remove_request interleave: it      *)
(* decides when the list head is reset.                                    *)
CountExact == ~crashed => count = Cardinality(live)

(* No pointer of the list leads to a freed request: the head, the links of *)
(* live requests and the cursors of both walks.                            *)
ListSafe ==
  /\ ~Freed(first)
  /\ \A a \in live : ~Freed(next[a]) /\ ~Freed(prev[a])
  /\ \A t \in Threads : ~Freed(cur[t])

(* A frame goes to a freed mg_connection only if the connection was closed *)
(* between send_str's check and its mutex; a call that starts after the    *)
(* connection was freed writes nothing.                                    *)
LateCallSendsNothing ==
  [][\A c \in Callers : nc = "freed" /\ pc'[c] = "send" => pc[c] = "send"]_vars

(* While notify_request or remove_request walks the list, no other thread  *)
(* changes the list (poll_mutex).                                          *)
WalkSeesFrozenList ==
  [][ppc = "walk" \/ (\E c \in Callers : pc[c] = "unlink" /\ pc'[c] = "unlink")
       => UNCHANGED <<first, live, next, prev>>]_vars

(* While the connection is up every message id is either in conn->ids,     *)
(* where wsc_disconnect frees it, or belongs to a call that has not        *)
(* returned.  Only a close that falls between the two connected checks of  *)
(* send_request and send_str makes a call lose its id.                     *)
IdsKept ==
  connected => strs \ ids \subseteq {msg_id[c] : c \in {d \in Callers : InCall(d)}}

(* The walk of notify_request visits only registered requests: the comment *)
(* of parse_basic_json relies on callbacks being called on requests.       *)
WalkOnRequests == ppc = "walk" => ~Freed(cur[Poll])

(* A request with a timeout >= 0 comes back: send_request always returns   *)
(* (wait_timeout, remove_request).                                         *)
CallReturns == \A c \in Callers : InCall(c) ~> (~InCall(c) \/ crashed)

(* A reply to a message id reaches the callback of the request: it is not  *)
(* dropped while the call that sent the id is still in progress.           *)
ReplyReachesCallback ==
  [][ppc = "walk" /\ ppc' = "idle" /\ cur[Poll] = NULL
       => ~\E c \in Callers : pc[c] \in {"add", "start", "loop"} /\ msg_id[c] = reply]_vars

(* What send_request promises its caller.                                  *)
Phase(c) ==
  IF pc[c] \in {"start", "loop", "remove", "unlink"} /\ rq[c] \in live
    THEN "active" ELSE "inactive"

Promise == INSTANCE RequestSpec WITH
  phase    <- [c \in Callers |-> Phase(c)],
  accepted <- okSeen

ImplementsPromise == Promise!Spec

=============================================================================
