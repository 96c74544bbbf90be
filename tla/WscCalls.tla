------------------------------ MODULE WscCalls ------------------------------
(***************************************************************************)
(* The request functions of src/messages/requests: what each refuses, what *)
(* data it sends, which replies its callback accepts and what becomes of   *)
(* the memory of the result.  One thread calls one function again and      *)
(* again with one result structure; what happens between send_request and  *)
(* its return is what RequestSpec promises, which WscRequests implements.  *)
(* The functions for authentication are in WscAuth.                        *)
(***************************************************************************)
CONSTANT Used  \* the requests the application makes

App == "app"

VARIABLES
  req,     \* the request whose function is called
  pc,      \* where that function is
  arg,     \* what it has been given
  sent,    \* which of that the request carries
  wire,    \* the request or the reply under way
  done,    \* history: what the server has carried out for this call
  out,     \* the pointer in the result structure
  reused,  \* history: a structure was passed that still held a result
  lost,    \* history: memory of a result is not reachable any more
  owed,    \* history: a call has reported a result not freed since
  fault,   \* what undefined behaviour the program has run into
  phase, accepted, result  \* of RequestSpec

promise == <<phase, accepted, result>>
memory == <<out, lost, owed>>
vars == <<req, pc, arg, sent, wire, done, memory, reused, fault, promise>>

R == INSTANCE RequestSpec WITH Callers <- {App}

-----------------------------------------------------------------------------
(* The request functions.  args says for every kind of argument what the   *)
(* request may carry: "all" the caller has given, "less", or "stop" if     *)
(* nothing is sent and false returned; "wild" if json_pack reads arguments *)
(* that were not passed.  "bad" is text that is not UTF-8, for which       *)
(* packing fails.  needs: the server refuses the request without its data. *)
(* entry: the function takes "any" structure, an "empty" one, or "frees"   *)
(* what it holds.  release: the function that frees the result resets the  *)
(* structure or keeps the pointer.                                         *)

Action(args) == [args |-> args, needs |-> TRUE, result |-> "none",
                 entry |-> "any", release |-> "none"]

Simple == [Action([ok |-> {"all"}]) EXCEPT !.needs = FALSE]

Named == Action([ok |-> {"all"}, null |-> {"stop"}, empty |-> {"stop"},
                 bad |-> {"stop"}])

(* The result of json_pack_ex is taken the wrong way round.                *)
Inverted == [Named EXCEPT !.args.ok = {"stop"}, !.args.bad = {"less"}]

Query(kind, entry, release) ==
  [args |-> [ok |-> {"all"}, null |-> {"stop"}], needs |-> FALSE,
   result |-> kind, entry |-> entry, release |-> release]

(* A structure of numbers and arrays of char.                              *)
Fields == Query("fields", "any", "none")

(* A char ** that must point to NULL; wsc_free releases the string.        *)
Text == Query("text", "empty", "resets")

Info == [GetVersion |-> Fields, GetVideoInfo |-> Fields]

Formatting_Unguarded ==
  [SetHeartbeat |-> Action([ok |-> {"all"}, null |-> {"stop"}]),
   SetFilenameFormatting |->
     Action([ok |-> {"all"}, null |-> {"less"}, bad |-> {"less"}]),
   GetFilenameFormatting |-> [Text EXCEPT !.entry = "any"]]

(* SetFilenameFormatting does not look at what json_pack has returned.     *)
Formatting ==
  [SetHeartbeat |-> Action([ok |-> {"all"}, null |-> {"stop"}]),
   SetFilenameFormatting |->
     Action([ok |-> {"all"}, null |-> {"less"}, bad |-> {"less"}]),
   GetFilenameFormatting |-> Text]

Stats == [GetStats |-> Fields]

(* bad: the realm is not UTF-8, invalid: the message is not JSON.          *)
Broadcast == [BroadcastCustomMessage |->
  Action([ok |-> {"all"}, null |-> {"stop"}, bad |-> {"stop"},
          invalid |-> {"stop"}])]

(* wsc_open_projector gives neither a monitor nor a geometry.  Without a   *)
(* geometry the format asks for two strings that are not passed.           *)
Projector == [OpenProjector |->
  [Action([nowhere |-> {"stop"}, unnamed |-> {"stop"},
           monitor |-> {"less", "stop", "wild"}, geometry |-> {"all"},
           ok |-> {"all"}, bad |-> {"stop"}])
   EXCEPT !.needs = FALSE]]

Profiles_Inverted ==
  [SetCurrentProfile |-> Inverted,
   GetCurrentProfile |-> Text,
   ListProfiles |-> Query("list", "any", "keeps")]

(* wsc_free_profiles and list_profiles_callback do not look at what the    *)
(* structure holds, get_profile_callback not at the status.                *)
Profiles ==
  [SetCurrentProfile |-> Named,
   GetCurrentProfile |-> Text,
   ListProfiles |-> Query("list", "any", "keeps")]

Scenes ==
  [SetCurrentSceneCollection |-> Inverted,
   GetCurrentSceneCollection |-> Text,
   ListSceneCollections |-> Query("list", "empty", "resets")]

Recording ==
  [StartStopRecording |-> Simple, StartRecording |-> Simple,
   StopRecording |-> Simple, PauseRecording |-> Simple,
   ResumeRecording |-> Simple,
   SetRecordingFolder |-> Inverted,
   GetRecordingFolder |-> Text]

Replay ==
  [StartStopReplayBuffer |-> Simple, StartReplayBuffer |-> Simple,
   StopReplayBuffer |-> Simple, SaveReplayBuffer |-> Simple]

(* wsc_free_outputs resets the count and keeps the pointer; an output      *)
(* whose settings are empty or that cannot be read allocates nothing.      *)
OutputQueries ==
  [ListOutputs |-> Query("list", "any", "keeps"),
   GetOutputInfo |->
     [Query("list", "any", "keeps") EXCEPT !.args = Named.args]]

OutputActions == [StartOutput |-> Named, StopOutput |-> Named]

(* The format for the settings lacks a brace: packing fails, and the       *)
(* request is sent without them.                                           *)
Streaming ==
  [StartStopStreaming |-> Simple,
   StartStreaming |->
     [Simple EXCEPT !.args = [ok |-> {"all"}, settings |-> {"less"}]],
   StopStreaming |-> Simple]

StreamingStatus == [GetStreamingStatus |-> Query("list", "frees", "resets")]

(* The formats lack a brace here too: nothing is sent, or no reply read.   *)
StreamSettings ==
  [SetStreamSettings |-> Action([ok |-> {"stop"}, null |-> {"stop"}]),
   GetStreamSettings |-> Query("never", "any", "resets"),
   SaveStreamSettings |-> Simple]

Captions == [SendCaptions |-> Named]

(* bounds_type is NULL, so that packing fails for every item.              *)
SceneItems == [SetSceneItemProperties |->
  Action([ok |-> {"stop"}, null |-> {"stop"}, empty |-> {"stop"}])]

Tables ==
  {Info, Formatting, Stats, Broadcast, Projector, Profiles, Scenes, Recording,
   Replay, OutputQueries, OutputActions, Streaming, StreamingStatus,
   StreamSettings, Captions, SceneItems}

Requests ==
  [r \in UNION {DOMAIN table : table \in Tables} |->
     (CHOOSE table \in Tables : r \in DOMAIN table)[r]]

ASSUME UsedAssumption == Used \subseteq DOMAIN Requests

-----------------------------------------------------------------------------
F == Requests[req]

TypeOK ==
  /\ req \in Used
  /\ pc \in {"idle", "calling", "waiting", "decided"}
  /\ arg \in DOMAIN F.args
  /\ sent \in {"all", "less", "stop", "wild"}
  /\ wire \in {"nothing", "request", "full", "bare", "short", "error"}
  /\ done \in {"nothing", "all", "less"}
  /\ out \in {"null", "live", "freed"}
  /\ reused \in BOOLEAN /\ lost \in BOOLEAN /\ owed \in BOOLEAN
  /\ fault \in {"none", "arguments", "double free"}
  /\ phase \in [{App} -> {"inactive", "active"}]
  /\ accepted \in [{App} -> BOOLEAN] /\ result \in [{App} -> BOOLEAN]

Init ==
  /\ req \in Used
  /\ pc = "idle" /\ arg = "ok" /\ sent = "stop"
  /\ wire = "nothing" /\ done = "nothing"
  /\ out = "null" /\ reused = FALSE /\ lost = FALSE /\ owed = FALSE
  /\ fault = "none"
  /\ R!Init

At(where) == fault = "none" /\ pc = where

(* The tests a getter makes of the structure it is given.                  *)
TakesStructure == F.entry # "empty" \/ out = "null"

Proceeds_Always(w) == TakesStructure

Proceeds(w) == w \in {"all", "less"} /\ TakesStructure

(* A request function, up to its call of send_request or its return of     *)
(* false; w is what packing comes to.                                      *)
Call(a, w) ==
  /\ At("idle")
  /\ R!Begin(App)
  /\ arg' = a /\ sent' = w
  /\ wire' = "nothing" /\ done' = "nothing"
  /\ out' = IF F.entry = "frees" /\ a # "null" THEN "null" ELSE out
  /\ reused' = (reused \/ out = "live")
  /\ fault' = IF w = "wild" THEN "arguments" ELSE fault
  /\ pc' = IF Proceeds(w) THEN "calling" ELSE "idle"
  /\ UNCHANGED <<req, lost, owed>>

(* send_request without a connection.                                      *)
Refuse ==
  /\ At("calling") /\ pc' = "idle"
  /\ UNCHANGED <<req, arg, sent, wire, done, memory, reused, fault, promise>>

(* The frame is sent and the request registered; a reply that overtakes    *)
(* the registration counts as one that never comes.                        *)
Send ==
  /\ At("calling") /\ pc' = "waiting"
  /\ wire' = "request"
  /\ R!Activate(App)
  /\ UNCHANGED <<req, arg, sent, done, memory, reused, fault>>

(* The complete replies to the request, and those that lack a field.       *)
Answers == IF F.result = "none" THEN {"full"}
           ELSE IF F.result = "list" THEN {"full", "bare", "short"}
           ELSE {"full", "short"}

(* The server carries the request out or refuses it.                       *)
CarryOut(form) ==
  /\ fault = "none" /\ wire = "request"
  /\ sent = "all" \/ ~F.needs
  /\ wire' = form
  /\ done' = sent
  /\ UNCHANGED <<req, pc, arg, sent, memory, reused, fault, promise>>

Reject ==
  /\ fault = "none" /\ wire = "request"
  /\ wire' = "error"
  /\ UNCHANGED <<req, pc, arg, sent, done, memory, reused, fault, promise>>

Accepts_Error(form) == F.result # "never" /\ form # "short"

(* Replies for which the callback returns REQUEST_OK; an error has none of *)
(* the fields a getter unpacks.                                            *)
Accepts(form) == F.result # "never" /\ form \in {"full", "bare"}

Allocates == F.result \in {"text", "list"}

(* A reply arrives; it finds the request if that is still registered, even *)
(* if the wait for it is over.  What a callback has not unpacked it does   *)
(* not copy, but it overwrites the pointer.                                *)
Deliver_KeepsPointer ==
  /\ fault = "none" /\ wire \notin {"nothing", "request"}
  /\ wire' = "nothing"
  /\ IF phase[App] = "active" /\ Accepts(wire)
     THEN /\ R!Accept(App)
          /\ out' = IF Allocates /\ wire = "full" THEN "live" ELSE out
          /\ lost' = (lost \/ (Allocates /\ wire = "full" /\ out = "live"))
          /\ UNCHANGED owed
     ELSE UNCHANGED <<memory, promise>>
  /\ UNCHANGED <<req, pc, arg, sent, done, reused, fault>>

Deliver ==
  /\ fault = "none" /\ wire \notin {"nothing", "request"}
  /\ wire' = "nothing"
  /\ IF phase[App] = "active" /\ Accepts(wire)
     THEN /\ R!Accept(App)
          /\ out' = IF Allocates /\ wire = "full" THEN "live"
                    ELSE IF Allocates THEN "null" ELSE out
          /\ lost' = (lost \/ (Allocates /\ out = "live"))
          /\ UNCHANGED owed
     ELSE UNCHANGED <<memory, promise>>
  /\ UNCHANGED <<req, pc, arg, sent, done, reused, fault>>

(* wait_timeout has seen the answer, or gives up.                          *)
Notice ==
  /\ At("waiting") /\ pc' = "decided"
  /\ R!Decide(App)
  /\ UNCHANGED <<req, arg, sent, wire, done, memory, reused, fault>>

GiveUp ==
  /\ At("waiting") /\ pc' = "decided"
  /\ UNCHANGED <<req, arg, sent, wire, done, memory, reused, fault, promise>>

Return ==
  /\ At("decided") /\ pc' = "idle"
  /\ R!Retire(App)
  /\ owed' = (owed \/ result[App])
  /\ UNCHANGED <<req, arg, sent, wire, done, out, lost, reused, fault>>

(* The application frees the result, with the function for its structure   *)
(* or with wsc_free and a NULL of its own, or zeroes what it has freed.    *)
Free ==
  /\ At("idle") /\ F.release # "none"
  /\ out' = IF F.release = "keeps" /\ out = "live" THEN "freed"
            ELSE IF F.release = "keeps" THEN out ELSE "null"
  /\ fault' = IF out = "freed" THEN "double free" ELSE fault
  /\ owed' = FALSE
  /\ UNCHANGED <<req, pc, arg, sent, wire, done, reused, lost, promise>>

Clear ==
  /\ At("idle") /\ out = "freed"
  /\ out' = "null"
  /\ UNCHANGED <<req, pc, arg, sent, wire, done, reused, lost, owed, fault,
                 promise>>

Next ==
  \/ \E a \in DOMAIN F.args : \E w \in F.args[a] : Call(a, w)
  \/ Refuse \/ Send \/ Notice \/ GiveUp \/ Return
  \/ (\E form \in Answers : CarryOut(form)) \/ Reject \/ Deliver
  \/ Free \/ Clear

Spec == Init /\ [][Next]_vars

(* A call comes to an end.  The application repeats it with usable         *)
(* arguments, the connection is not always down, and the server answers in *)
(* time again and again.                                                   *)
Fairness ==
  /\ WF_vars(Refuse \/ Send) /\ WF_vars(Notice \/ GiveUp) /\ WF_vars(Return)
  /\ SF_vars(\E w \in F.args.ok : Call("ok", w))
  /\ SF_vars(arg = "ok" /\ Send)
  /\ SF_vars(arg = "ok" /\ pc = "waiting" /\ CarryOut("full"))
  /\ SF_vars(arg = "ok" /\ pc = "waiting" /\ wire = "full" /\ Deliver)
  /\ SF_vars(arg = "ok" /\ Notice)

FairSpec == Spec /\ Fairness

-----------------------------------------------------------------------------
(* Correctness.                                                            *)

(* A request function reports true only if the server has carried out this *)
(* very request, with all the caller has given.  The exceptions are        *)
(* wsc_start_streaming, whose settings are never packed, and               *)
(* wsc_open_projector2 without a geometry, which drops the name.           *)
TrueMeansDone ==
  result[App] => \/ done = "all"
                 \/ /\ done = "less"
                    /\ <<req, arg>> \in {<<"StartStreaming", "settings">>,
                                        <<"OpenProjector", "monitor">>}

(* The memory of a result stays reachable from the structure until it is   *)
(* freed, also when the answer came after the call had given up, unless a  *)
(* function that does not look at the structure is given one that is       *)
(* still filled.                                                           *)
NothingLost ==
  lost => reused /\ req \in {"ListProfiles", "ListOutputs", "GetOutputInfo"}

(* wsc_free_profiles, wsc_free_outputs and wsc_free_output keep the pointer *)
(* they free.  An application that frees once for every time a call has    *)
(* reported true never frees the same memory twice all the same, whatever  *)
(* calls fail or time out in between and however late or incomplete the    *)
(* answers are: true means that a callback has overwritten the pointer.    *)
FreedOnce == [][owed /\ fault = "none" => fault' # "double free"]_vars

(* The functions that can never report true, whatever the server does.     *)
Hopeless == {"SetCurrentSceneCollection", "SetRecordingFolder",
             "SetStreamSettings", "GetStreamSettings",
             "SetSceneItemProperties"}

(* An application that repeats its call gets its answer: true, or from a   *)
(* guarded getter a structure that a late answer has already filled (which *)
(* makes the getter refuse every repetition).                              *)
RetrySucceeds ==
  \/ req \in Hopeless
  \/ []<>(result[App] \/ (~TakesStructure /\ out = "live") \/ fault # "none")
=============================================================================
