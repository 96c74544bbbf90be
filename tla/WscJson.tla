------------------------------ MODULE WscJson ------------------------------
(***************************************************************************)
(* Who owns which reference to a JSON value.  Application threads build    *)
(* the data of a request (src/messages/requests) and hand it to            *)
(* send_request (src/send.c); the poll thread of every connection parses a *)
(* reply into the one static variable of ev_handler (src/obs_wsc.c) and    *)
(* runs the callback of the request.  Values are counted as jansson counts *)
(* them; a value whose count is 0 has been freed.                          *)
(***************************************************************************)
EXTENDS Naturals, FiniteSets

CONSTANTS
  Callers,    \* application threads
  Conns,      \* connections, one poll thread each
  Wrappers,   \* which request functions are called: subset of WrapperKinds
  Callbacks,  \* which callbacks run: subset of CallbackKinds
  NULL

(* "plain": wsc_set_current_profile, wsc_start_output and most others;     *)
(* "stolen": wsc_broadcast_message and wsc_set_scene_item_properties, which *)
(* pack a value they hold with "o"; "inverted": wsc_set_recording_folder,  *)
(* which takes a successful pack for a failure.                            *)
WrapperKinds == {"plain", "stolen", "inverted"}

(* "copies": the callback copies what it unpacks; "releases": it also      *)
(* gives up the array or object it unpacked with "o" (ListProfiles,        *)
(* ListSceneCollections, ListOutputs, GetOutputInfo).                      *)
CallbackKinds == {"copies", "releases"}

ASSUME KindsAssumption ==
  Wrappers \subseteq WrapperKinds /\ Callbacks \subseteq CallbackKinds

ASSUME ThreadsAssumption == Callers \cap Conns = {} /\ NULL \notin Conns

VARIABLES
  refs,     \* the reference count of every value
  misused,  \* the kind of code that has used a freed value, or "no"
  app,      \* where a caller is in its request function
  kind,     \* which request function that is
  data,     \* ev_handler's static variable: whose reply it points to
  pc,       \* where a poll thread is in ev_handler
  cb,       \* the callback of its frame
  got,      \* the reply that poll thread has parsed
  handled,  \* history: the reply it has given to notify_request
  crossed   \* history: its handler has overlapped with another connection's

appVars == <<app, kind>>
pollVars == <<data, pc, cb, got, handled, crossed>>
vars == <<refs, misused, appVars, pollVars>>

(* Of a caller: top is the packed data, part a value in it, copy the       *)
(* request object of send_request.  Of a poll thread: top is the reply,    *)
(* part a value in it.                                                     *)
Cells == (Callers \cup Conns) \X {"top", "part", "copy"}

TypeOK ==
  /\ refs \in [Cells -> 0..2]
  /\ misused \in {"no", "race"} \cup WrapperKinds \cup CallbackKinds
  /\ app \in [Callers -> {"idle", "packed", "sending", "wrap"}]
  /\ kind \in [Callers -> WrapperKinds]
  /\ data \in Conns \cup {NULL}
  /\ pc \in [Conns -> {"idle", "parsed", "notified"}]
  /\ cb \in [Conns -> CallbackKinds]
  /\ got \in [Conns -> Conns \cup {NULL}]
  /\ handled \in [Conns -> Conns \cup {NULL}]
  /\ crossed \in [Conns -> BOOLEAN]

Init ==
  /\ refs = [x \in Cells |-> 0]
  /\ misused = "no"
  /\ app = [a \in Callers |-> "idle"]
  /\ kind \in [Callers -> Wrappers]
  /\ data = NULL
  /\ pc = [c \in Conns |-> "idle"]
  /\ cb \in [Conns -> Callbacks]
  /\ got = [c \in Conns |-> NULL]
  /\ handled = [c \in Conns |-> NULL]
  /\ crossed = [c \in Conns |-> FALSE]

-----------------------------------------------------------------------------
(* jansson.                                                                *)

(* json_decref on a sequence of cells of one owner t: the container that   *)
(* reaches 0 gives up its part.  bad: a freed value was touched.           *)
Unref(h, t, role) ==
  LET x == <<t, role>>
      left == h.refs[x] - 1
      part == h.refs[<<t, "part">>]
      deep == role # "part" /\ left = 0
  IN IF h.bad \/ h.refs[x] = 0 \/ (deep /\ part = 0)
     THEN [refs |-> h.refs, bad |-> TRUE]
     ELSE [refs |-> [h.refs EXCEPT
                       ![x] = left,
                       ![<<t, "part">>] = IF role = "part" THEN left
                                          ELSE IF deep THEN part - 1 ELSE part],
           bad |-> FALSE]

Heap == [refs |-> refs, bad |-> FALSE]

(* Code of kind who leaves heap h.                                         *)
Becomes(h, who) ==
  refs' = h.refs /\ misused' = IF h.bad THEN who ELSE misused

Defined == misused = "no"

(* n objects with one value in each, 0 or 1 of them.  What a handler that  *)
(* overlapped with another may have left behind is nobody's any more.      *)
Made(t, n) == [refs EXCEPT ![<<t, "top">>] = n, ![<<t, "part">>] = n]

-----------------------------------------------------------------------------
(* A request function and send_request.                                    *)

Step(a, from, to) ==
  /\ Defined /\ app[a] = from
  /\ app' = [app EXCEPT ![a] = to]

(* json_pack_ex; in a "stolen" function the caller keeps a pointer to the  *)
(* part whose reference the object has taken.                              *)
Pack(a) ==
  /\ Step(a, "idle", "packed")
  /\ kind' \in {[kind EXCEPT ![a] = k] : k \in Wrappers}
  /\ refs' = Made(a, 1)
  /\ UNCHANGED <<misused, pollVars>>

Sends(a) == kind[a] # "inverted"

(* send_request takes a reference and sets every value in its own object.  *)
Begin_NoIncref(a) ==
  /\ Step(a, "packed", "sending") /\ Sends(a)
  /\ refs' = [refs EXCEPT ![<<a, "part">>] = @ + 1, ![<<a, "copy">>] = 1]
  /\ UNCHANGED <<misused, kind, pollVars>>

Begin_TwiceIncref(a) ==
  /\ Step(a, "packed", "sending") /\ Sends(a)
  /\ refs' = [refs EXCEPT ![<<a, "top">>] = @ + 2, ![<<a, "part">>] = @ + 1,
                          ![<<a, "copy">>] = 1]
  /\ UNCHANGED <<misused, kind, pollVars>>

Begin(a) ==
  /\ Step(a, "packed", "sending") /\ Sends(a)
  /\ refs' = [refs EXCEPT ![<<a, "top">>] = @ + 1, ![<<a, "part">>] = @ + 1,
                          ![<<a, "copy">>] = 1]
  /\ UNCHANGED <<misused, kind, pollVars>>

(* send_request refuses (not connected), or the inverted function thinks   *)
(* that packing failed.                                                    *)
Refuse(a) ==
  /\ Step(a, "packed", "wrap")
  /\ UNCHANGED <<refs, misused, kind, pollVars>>

(* The end of send_request, whatever the outcome of the wait.              *)
Sent(a) ==
  /\ Step(a, "sending", "wrap")
  /\ Becomes(Unref(Unref(Heap, a, "top"), a, "copy"), kind[a])
  /\ UNCHANGED <<kind, pollVars>>

WrapUp_Forgets(a) ==
  /\ Step(a, "wrap", "idle")
  /\ UNCHANGED <<refs, misused, kind, pollVars>>

WrapUp(a) ==
  /\ Step(a, "wrap", "idle")
  /\ CASE kind[a] = "plain" -> Becomes(Unref(Heap, a, "top"), "plain")
       [] kind[a] = "stolen" ->
            Becomes(Unref(Unref(Heap, a, "part"), a, "top"), "stolen")
       [] OTHER -> UNCHANGED <<refs, misused>>
  /\ UNCHANGED <<kind, pollVars>>

-----------------------------------------------------------------------------
(* ev_handler on MG_EV_WEBSOCKET_FRAME.  poll_mutex is per connection,     *)
(* data is not: a build may reload it after each call or keep what it      *)
(* stored.                                                                 *)

(* Poll threads that are in ev_handler.                                    *)
Inside == {c \in Conns : pc[c] # "idle"}

(* The handler of c begins: beside which others?                           *)
Enter(c) ==
  /\ Defined /\ pc[c] = "idle"
  /\ pc' = [pc EXCEPT ![c] = "parsed"]
  /\ crossed' = [d \in Conns |-> IF d = c THEN Inside # {} ELSE crossed[d] \/ d \in Inside]

Parse_KeepsLast(c) ==
  /\ Enter(c)
  /\ \/ /\ got' = [got EXCEPT ![c] = c] /\ data' = c
        /\ refs' = Made(c, 1)
     \/ /\ got' = [got EXCEPT ![c] = NULL]
        /\ refs' = Made(c, 0) /\ UNCHANGED data
  /\ UNCHANGED <<misused, appVars, cb, handled>>

(* recv_json: NULL for a frame that is not JSON.                           *)
Parse(c) ==
  /\ Enter(c)
  /\ \/ /\ got' = [got EXCEPT ![c] = c] /\ data' = c
        /\ refs' = Made(c, 1)
     \/ /\ got' = [got EXCEPT ![c] = NULL] /\ data' = NULL
        /\ refs' = Made(c, 0)
  /\ UNCHANGED <<misused, appVars, cb, handled>>

Reload(c) == {got[c], data}

(* Whom a misuse in the handler of c is put down to.                       *)
Culprit(c, k) == IF crossed[c] THEN "race" ELSE k

(* The heap after a callback of kind k has read reply j.                   *)
Called(k, j) ==
  IF refs[<<j, "top">>] = 0 THEN [Heap EXCEPT !.bad = TRUE]
  ELSE IF k = "releases" THEN Unref(Heap, j, "part")
  ELSE Heap

(* notify_request: the callback of the request runs; a reply without a     *)
(* message id or without a request is only read, as by one that copies.    *)
Notify(c) ==
  /\ Defined /\ pc[c] = "parsed"
  /\ pc' = [pc EXCEPT ![c] = "notified"]
  /\ \E j \in Reload(c), k \in Callbacks :
       /\ handled' = [handled EXCEPT ![c] = j]
       /\ cb' = [cb EXCEPT ![c] = k]
       /\ IF j = NULL THEN UNCHANGED <<refs, misused>>
          ELSE Becomes(Called(k, j), Culprit(c, k))
  /\ UNCHANGED <<appVars, data, got, crossed>>

(* json_decref(data).                                                      *)
Release(c) ==
  /\ Defined /\ pc[c] = "notified"
  /\ pc' = [pc EXCEPT ![c] = "idle"]
  /\ \E j \in Reload(c) :
       IF j = NULL THEN UNCHANGED <<refs, misused>>
                   ELSE Becomes(Unref(Heap, j, "top"), Culprit(c, cb[c]))
  /\ UNCHANGED <<appVars, data, cb, got, handled, crossed>>

-----------------------------------------------------------------------------
Next ==
  \/ \E a \in Callers : Pack(a) \/ Begin(a) \/ Refuse(a) \/ Sent(a) \/ WrapUp(a)
  \/ \E c \in Conns : Parse(c) \/ Notify(c) \/ Release(c)

Spec == Init /\ [][Next]_vars

-----------------------------------------------------------------------------
(* Correctness.                                                            *)

(* What send_request, the ordinary request functions and the copying       *)
(* callbacks do is right, however many connections there are: only the     *)
(* functions that release what json_pack has taken, the callbacks that     *)
(* release what they borrowed, and a handler that has overlapped with that *)
(* of another connection can misuse a value.                               *)
OrdinaryCodeIsSafe == misused \in {"no", "stolen", "releases", "race"}

(* Data that is being sent is alive with the values in it whatever other   *)
(* threads release, also those that race for the static variable; so is    *)
(* the reply a handler gives to a callback if it runs beside no other.     *)
InUseIsAlive ==
  Defined =>
    /\ \A a \in Callers : app[a] # "idle" =>
         refs[<<a, "top">>] > 0 /\ refs[<<a, "part">>] > 0
    /\ \A c \in Conns : pc[c] = "parsed" /\ got[c] = c /\ ~crossed[c] =>
         refs[<<c, "top">>] > 0 /\ refs[<<c, "part">>] > 0

(* A call or a handler that has returned leaves no JSON value behind       *)
(* (except wsc_set_recording_folder and wsc_set_current_scene_collection,  *)
(* which drop what they packed, and a handler that has overlapped with     *)
(* another, whose reply the other may have released in place of its own).  *)
NothingLeaks ==
  Defined => \A x \in Cells : refs[x] > 0 =>
    \/ x[1] \in Callers /\ (app[x[1]] # "idle" \/ kind[x[1]] = "inverted")
    \/ x[1] \in Conns /\ (pc[x[1]] # "idle" \/ crossed[x[1]])

(* ev_handler keeps its reply in a static variable and locks a mutex of    *)
(* its own connection only.  So two connections can mix up their replies,  *)
(* but only while both are in ev_handler: notify_request is given the      *)
(* reply that came over its own connection unless another handler ran at   *)
(* the same time, and then one that came while a handler ran beside it.    *)
OwnReplyHandled ==
  \A c \in Conns : pc[c] = "notified" =>
    \/ handled[c] = got[c]
    \/ crossed[c] /\ (handled[c] = NULL \/ crossed[handled[c]])
=============================================================================
