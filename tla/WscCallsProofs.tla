--------------------------- MODULE WscCallsProofs ---------------------------
(***************************************************************************)
(* Proofs about WscCalls for any choice of request functions and any       *)
(* number of calls.                                                        *)
(***************************************************************************)
EXTENDS WscCalls, TLAPS

Unguarded == {"ListProfiles", "ListOutputs", "GetOutputInfo"}
Partial == {<<"StartStreaming", "settings">>, <<"OpenProjector", "monitor">>}

(* What the proofs use of the entry q for request r.                       *)
ArgsSound(r, q) ==
  /\ "ok" \in DOMAIN q.args
  /\ \A a \in DOMAIN q.args :
       /\ q.args[a] \subseteq {"all", "less", "stop", "wild"}
       /\ "less" \in q.args[a] /\ ~q.needs => <<r, a>> \in Partial
       /\ q.entry = "frees" /\ a = "null" => q.args[a] = {"stop"}

MemorySound(r, q) ==
  /\ q.result \in {"text", "list"} => q.entry \in {"empty", "frees"} \/ r \in Unguarded
  /\ q.release = "keeps" => q.result \in {"text", "list"}

Sound(r, q) == ArgsSound(r, q) /\ MemorySound(r, q)

-----------------------------------------------------------------------------
(* Every table of request functions is sound, and so is their union.       *)
AllSound(table) == \A r \in DOMAIN table : Sound(r, table[r])

LEMMA InvertedSound == \A r : Sound(r, Inverted)
  <1>1. Inverted.args = [Named.args EXCEPT !.ok = {"stop"}, !.bad = {"less"}]
    BY DEF Inverted, Named, Action
  <1>2. DOMAIN Inverted.args = DOMAIN Named.args /\ Inverted.args.ok = {"stop"}
        /\ Inverted.args.bad = {"less"} /\ Inverted.args.null = {"stop"}
        /\ Inverted.args.empty = {"stop"}
    BY <1>1 DEF Named, Action
  <1>3. Inverted.needs = TRUE /\ Inverted.result = "none" /\ Inverted.entry = "any"
        /\ Inverted.release = "none"
    BY DEF Inverted, Named, Action
  <1>4. DOMAIN Named.args = {"ok", "null", "empty", "bad"}
    BY DEF Named, Action
  <1>5. QED BY <1>2, <1>3, <1>4 DEF Sound, ArgsSound, MemorySound

LEMMA KindsSound ==
  \A r : Sound(r, Simple) /\ Sound(r, Named) /\ Sound(r, Fields) /\ Sound(r, Text)
  BY DEF Sound, ArgsSound, MemorySound, Action, Simple, Named, Query, Fields, Text

LEMMA StartStreamingSound == Sound("StartStreaming", Streaming.StartStreaming)
  <1> DEFINE q == Streaming.StartStreaming
  <1>1. /\ q.args = [ok |-> {"all"}, settings |-> {"less"}]
        /\ q.result = "none" /\ q.entry = "any" /\ q.release = "none"
    BY DEF Streaming, Simple, Action
  <1> HIDE DEF q
  <1>2. Sound("StartStreaming", q)
    BY <1>1 DEF Sound, ArgsSound, MemorySound, Partial
  <1>3. QED BY <1>2 DEF q

LEMMA TablesSound == \A table \in Tables : AllSound(table)
  <1> USE KindsSound DEF AllSound
  <1>1. AllSound(Info)
    BY DEF Info
  <1>2. AllSound(Formatting)
    BY DEF Formatting, Sound, ArgsSound, MemorySound, Unguarded, Partial, Action, Simple,
           Named, Query, Text
  <1>3. AllSound(Stats)
    BY DEF Stats
  <1>4. AllSound(Broadcast)
    BY DEF Broadcast, Sound, ArgsSound, MemorySound, Unguarded, Partial, Action, Simple,
           Named, Query, Text
  <1>5. AllSound(Projector)
    BY DEF Projector, Sound, ArgsSound, MemorySound, Unguarded, Partial, Action, Simple,
           Named, Query, Text
  <1>6. AllSound(Profiles)
    BY DEF Profiles, Sound, ArgsSound, MemorySound, Unguarded, Partial, Action, Simple,
           Named, Query, Text
  <1>7. AllSound(Scenes)
    <2>1. Sound("ListSceneCollections", Scenes.ListSceneCollections)
      BY DEF Scenes, Query, Sound, ArgsSound, MemorySound
    <2>2. QED BY <2>1, InvertedSound DEF Scenes
  <1>8. AllSound(Recording)
    BY InvertedSound DEF Recording
  <1>9. AllSound(Replay)
    BY DEF Replay
  <1>10. AllSound(OutputQueries)
    BY DEF OutputQueries, Sound, ArgsSound, MemorySound, Unguarded, Partial, Action, Simple,
           Named, Query, Text
  <1>11. AllSound(OutputActions)
    BY DEF OutputActions
  <1>12. AllSound(Streaming)
    BY StartStreamingSound DEF Streaming
  <1>13. AllSound(StreamingStatus)
    BY DEF StreamingStatus, Sound, ArgsSound, MemorySound, Unguarded, Partial, Action, Simple,
           Named, Query, Text
  <1>14. AllSound(StreamSettings)
    BY DEF StreamSettings, Sound, ArgsSound, MemorySound, Unguarded, Partial, Action, Simple,
           Named, Query, Text
  <1>15. AllSound(Captions)
    BY DEF Captions
  <1>16. AllSound(SceneItems)
    BY DEF SceneItems, Sound, ArgsSound, MemorySound, Unguarded, Partial, Action, Simple,
           Named, Query, Text
  <1>17. QED
    BY <1>1, <1>2, <1>3, <1>4, <1>5, <1>6, <1>7, <1>8, <1>9, <1>10, <1>11, <1>12,
       <1>13, <1>14, <1>15, <1>16 DEF Tables

LEMMA RequestsSound == \A r \in DOMAIN Requests : Sound(r, Requests[r])
  <1> SUFFICES ASSUME NEW r \in DOMAIN Requests PROVE Sound(r, Requests[r])
    OBVIOUS
  <1> DEFINE Has(table) == r \in DOMAIN table
             chosen == CHOOSE table \in Tables : Has(table)
  <1>1. \E table \in Tables : Has(table)
    BY DEF Requests
  <1>2. chosen \in Tables /\ Has(chosen)
    BY <1>1
  <1>3. Requests[r] = chosen[r]
    BY DEF Requests
  <1> HIDE DEF chosen
  <1>4. QED BY <1>2, <1>3, TablesSound DEF AllSound

-----------------------------------------------------------------------------
(* The history of a call.                                                  *)

(* What is under way or being waited for carries something.                *)
Carried == sent \in F.args[arg] /\ sent \in {"all", "less"}

(* The server has carried out what was sent.                               *)
CarriedOut == Carried /\ done = sent /\ (sent = "all" \/ ~F.needs)

CallInv ==
  /\ phase[App] = "active" <=> pc \in {"waiting", "decided"}
  /\ pc # "idle" \/ wire # "nothing" => Carried
  /\ pc = "calling" => wire = "nothing" /\ ~accepted[App] /\ ~result[App]
  /\ pc = "waiting" => ~result[App]
  /\ wire \in {"full", "bare", "short"} \/ accepted[App] => CarriedOut
  /\ result[App] => accepted[App]

(* A call that may still store a result has a structure without one, unless *)
(* an unguarded function was given a structure in use.                      *)
Odd == reused /\ req \in Unguarded

MayStore == pc = "calling" \/ (phase[App] = "active" /\ wire # "nothing")

MemoryInv ==
  /\ Allocates /\ MayStore /\ out = "live" => Odd
  /\ lost => Odd
  /\ out = "freed" => Allocates

(* The callback that has accepted the reply of a call has also overwritten *)
(* the pointer, and nobody frees while the call lasts.                     *)
OwedInv ==
  /\ owed => out # "freed"
  /\ phase[App] = "active" /\ accepted[App] => out # "freed"

IInv == TypeOK /\ CallInv /\ MemoryInv /\ OwedInv

-----------------------------------------------------------------------------
LEMMA FSound == ASSUME TypeOK PROVE Sound(req, F)
  BY UsedAssumption, RequestsSound DEF TypeOK, F, UsedAssumption

(* What packing arguments of kind a may come to.                           *)
LEMMA PackedSound ==
  ASSUME ArgsSound(req, F), NEW a \in DOMAIN F.args, NEW w \in F.args[a]
  PROVE  F.entry = "frees" /\ a = "null" => w = "stop"
  BY DEF ArgsSound

LEMMA InitIInv == Init => IInv
  <1> SUFFICES ASSUME Init PROVE IInv
    OBVIOUS
  <1>1. Sound(req, F)
    BY UsedAssumption, RequestsSound DEF Init, F, UsedAssumption
  <1>2. TypeOK
    BY <1>1 DEF Init, R!Init, TypeOK, Sound, ArgsSound
  <1>3. CallInv /\ MemoryInv /\ OwedInv
    BY DEF Init, R!Init, CallInv, MemoryInv, OwedInv, MayStore
  <1>4. QED BY <1>2, <1>3 DEF IInv

LEMMA StepIInv == IInv /\ [Next]_vars => IInv'
  <1> SUFFICES ASSUME IInv, [Next]_vars PROVE IInv'
    OBVIOUS
  <1>1. /\ TypeOK /\ CallInv /\ MemoryInv /\ OwedInv
        /\ ArgsSound(req, F) /\ MemorySound(req, F)
    BY FSound DEF IInv, Sound
  <1>2. App \in {App}
    OBVIOUS
  <1>3. req' = req => F' = F
    BY DEF F
  <1> USE <1>1, <1>2, <1>3 DEF IInv, TypeOK, CallInv, MemoryInv, OwedInv, MayStore, Odd, Allocates,
          Carried, CarriedOut, At, promise, memory
  <1>4. ASSUME NEW a \in DOMAIN F.args, NEW w \in F.args[a], Call(a, w) PROVE IInv'
    <2>1. /\ phase' = phase /\ phase[App] = "inactive"
          /\ accepted' = [accepted EXCEPT ![App] = FALSE]
          /\ result' = [result EXCEPT ![App] = FALSE]
          /\ ~accepted'[App] /\ ~result'[App]
      BY <1>4 DEF Call, R!Begin
    <2>2. w \in {"all", "less", "stop", "wild"}
      BY DEF ArgsSound
    <2>3. TypeOK'
      BY <1>4, <2>1, <2>2 DEF Call
    <2>4. CallInv'
      BY <1>4, <2>1, <2>2 DEF Call, Proceeds
    <2>5. MemoryInv'
      <3>1. /\ out' = IF F.entry = "frees" /\ a # "null" THEN "null" ELSE out
            /\ reused' = (reused \/ out = "live")
            /\ req' = req /\ lost' = lost /\ wire' = "nothing"
            /\ pc' = "calling" => w \in {"all", "less"} /\ TakesStructure
        BY <1>4 DEF Call, Proceeds
      <3>2. ASSUME Allocates, pc' = "calling", out' = "live" PROVE reused' /\ req \in Unguarded
        <4>1. F.entry = "frees" => a # "null"
          BY PackedSound, <3>1, <3>2
        <4>2. F.entry # "frees" /\ F.entry # "empty" /\ out = "live"
          BY <3>1, <3>2, <4>1 DEF TakesStructure
        <4>3. QED BY <3>1, <3>2, <4>2 DEF MemorySound
      <3>3. QED BY <2>1, <3>1, <3>2
    <2>6. OwedInv'
      BY <1>4, <2>1 DEF Call
    <2>7. QED BY <2>3, <2>4, <2>5, <2>6
  <1>5. CASE Refuse
    BY <1>5 DEF Refuse
  <1>6. CASE Send
    BY <1>6 DEF Send, R!Activate
  <1>7. CASE Notice
    BY <1>7 DEF Notice, R!Decide
  <1>8. CASE GiveUp
    BY <1>8 DEF GiveUp
  <1>9. CASE Return
    BY <1>9 DEF Return, R!Retire
  <1>10. ASSUME NEW form \in Answers, CarryOut(form) PROVE IInv'
    BY <1>10 DEF CarryOut, Answers
  <1>11. CASE Reject
    BY <1>11 DEF Reject
  <1>12. CASE Deliver
    <2>1. CASE phase[App] = "active" /\ Accepts(wire)
      BY <1>12, <2>1 DEF Deliver, R!Accept, Accepts
    <2>2. CASE ~(phase[App] = "active" /\ Accepts(wire))
      BY <1>12, <2>2 DEF Deliver
    <2>3. QED BY <2>1, <2>2
  <1>13. CASE Free
    <2>1. /\ pc = "idle" /\ owed' = FALSE
          /\ UNCHANGED <<req, pc, arg, sent, wire, done, reused, lost, phase, accepted, result>>
          /\ out' = IF F.release = "keeps" /\ out = "live" THEN "freed"
                    ELSE IF F.release = "keeps" THEN out ELSE "null"
          /\ fault' = IF out = "freed" THEN "double free" ELSE fault
      BY <1>13 DEF Free
    <2>2. TypeOK' /\ CallInv'
      BY <2>1
    <2>3. MemoryInv'
      <3>1. out' = "freed" => Allocates
        BY <2>1 DEF MemorySound
      <3>2. QED BY <2>1, <3>1
    <2>4. OwedInv'
      BY <2>1
    <2>5. QED BY <2>2, <2>3, <2>4
  <1>14. CASE Clear
    BY <1>14 DEF Clear
  <1>15. CASE UNCHANGED vars
    <2>1. UNCHANGED <<req, pc, arg, sent, wire, done, out, lost, owed, reused, fault,
                      phase, accepted, result>>
      BY <1>15 DEF vars
    <2>2. TypeOK'
      <3>1. phase' = phase /\ accepted' = accepted /\ result' = result /\ F' = F
        BY <2>1
      <3>2. owed' \in BOOLEAN /\ reused' \in BOOLEAN /\ lost' \in BOOLEAN
        BY <2>1
      <3>3. QED BY <2>1, <3>1, <3>2
    <2>3. MemoryInv'
      BY <2>1
    <2>4. OwedInv'
      <3>1. phase'[App] = phase[App] /\ accepted'[App] = accepted[App]
        BY <2>1
      <3>2. QED BY <2>1, <3>1
    <2>5. CallInv'
      BY <2>1
    <2>6. QED BY <2>2, <2>3, <2>4, <2>5
  <1>16. QED
    BY <1>4, <1>5, <1>6, <1>7, <1>8, <1>9, <1>10, <1>11, <1>12, <1>13, <1>14, <1>15
       DEF Next

LEMMA IInvHolds == Spec => []IInv
  BY InitIInv, StepIInv, PTL DEF Spec

-----------------------------------------------------------------------------
(* The call, the request under way and the result keep their types, and    *)
(* nothing but usable data is ever sent.                                   *)
THEOREM TypeCorrect == Spec => []TypeOK
  <1>1. IInv => TypeOK
    BY DEF IInv
  <1>2. QED BY <1>1, IInvHolds, PTL

(* Whatever functions the application uses and however answers and         *)
(* timeouts race, true means that the server has carried the request out.  *)
THEOREM TrueIsDone == Spec => []TrueMeansDone
  <1>1. IInv => TrueMeansDone
    <2> SUFFICES ASSUME IInv, result[App] PROVE TrueMeansDone
      BY DEF TrueMeansDone
    <2>1. CarriedOut /\ ArgsSound(req, F)
      BY FSound DEF IInv, CallInv, Sound
    <2>2. arg \in DOMAIN F.args
      BY DEF IInv, TypeOK
    <2>3. QED BY <2>1, <2>2 DEF CarriedOut, Carried, ArgsSound, Partial, TrueMeansDone
  <1>2. QED BY <1>1, IInvHolds, PTL

(* No result is lost unless a function that does not look at its structure *)
(* is given one in use.                                                    *)
THEOREM NoResultIsLost == Spec => []NothingLost
  <1>1. IInv => NothingLost
    BY DEF IInv, MemoryInv, Odd, Unguarded, NothingLost
  <1>2. QED BY <1>1, IInvHolds, PTL

(* Whatever functions the application uses: if it frees a result once for  *)
(* every true, no memory is freed twice, although some functions keep the  *)
(* pointer they free.                                                      *)
THEOREM ResultsAreFreedOnce == Spec => FreedOnce
  <1>1. IInv /\ [Next]_vars => [owed /\ fault = "none" => fault' # "double free"]_vars
    <2> SUFFICES ASSUME IInv, Next, owed, fault = "none" PROVE fault' # "double free"
      BY DEF vars
    <2>1. out # "freed"
      BY DEF IInv, OwedInv
    <2>2. CASE \E a \in DOMAIN F.args : \E w \in F.args[a] : Call(a, w)
      BY <2>2 DEF Call
    <2>3. CASE Free
      BY <2>1, <2>3 DEF Free
    <2>4. CASE \/ Refuse \/ Send \/ Notice \/ GiveUp \/ Return \/ Reject \/ Deliver \/ Clear
               \/ \E form \in Answers : CarryOut(form)
      BY <2>4 DEF Refuse, Send, Notice, GiveUp, Return, Reject, Deliver, Clear, CarryOut
    <2>5. QED BY <2>2, <2>3, <2>4 DEF Next
  <1>2. QED BY <1>1, IInvHolds, PTL DEF Spec, FreedOnce
=============================================================================
