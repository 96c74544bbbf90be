------------------------- MODULE WscRequestsProofs -------------------------
(***************************************************************************)
(* Proofs about WscRequests for any set of callers, any heap and any       *)
(* timeout.  Ids are taken not to repeat while they are allocated          *)
(* (Collide = FALSE) where a theorem says so.                              *)
(***************************************************************************)
EXTENDS WscRequests, FiniteSetTheorems, TLAPS

Waiting == {"start", "loop", "remove", "unlink"}
Before  == {"gen", "pack", "check", "send", "add"}

(* The counter follows the heap, so that it cannot go below zero.          *)
CountInv == IsFiniteSet(live) /\ count = Cardinality(live)

(* A caller past util_random_id holds an id.                               *)
HasId(c) == pc[c] \notin {"idle", "gen"}
HasIdInv == \A c \in Callers : HasId(c) => msg_id[c] \in Ids

(* Ids in use are allocated strings, and no two callers share one.         *)
IdsInv ==
  /\ \A c \in Callers : HasId(c) => msg_id[c] \in strs
  /\ \A c, d \in Callers : c # d /\ HasId(c) /\ HasId(d) => msg_id[c] # msg_id[d]

(* A caller's pointer to its request is good as long as it is set.         *)
KeptInv ==
  \A c \in Callers :
    /\ pc[c] \in {"start", "loop"} => rq[c] \in live
    /\ rq[c] # NULL => /\ pc[c] \in Waiting
                       /\ rq[c] \in live
                       /\ id[rq[c]] = msg_id[c]

(* A status of OK, a true result and okSeen tell the same story.           *)
OkInv ==
  \A c \in Callers :
    /\ rq[c] # NULL /\ status[rq[c]] = "OK" => okSeen[c]
    /\ result[c] => okSeen[c] /\ pc[c] \in {"remove", "unlink", "idle"}
    /\ pc[c] \in Before => ~okSeen[c]

TInv == TypeOK /\ CountInv /\ HasIdInv
IInv == TInv /\ IdsInv /\ KeptInv /\ OkInv

-----------------------------------------------------------------------------
(* Type correctness, with the counter.                                     *)

LEMMA InitTInv == Init => TInv
  <1> SUFFICES ASSUME Init PROVE TInv
    OBVIOUS
  <1>1. TypeOK
    <2> USE ConstantsAssumption
        DEF Init, Threads, Status, Ptr, ConstantsAssumption
    <2>1. /\ connected \in BOOLEAN /\ nc \in {"open", "freed"} /\ timeout \in Int
          /\ first \in Ptr /\ count \in Nat
          /\ strs \subseteq Ids /\ ids \subseteq Ids /\ live \subseteq Addrs
      OBVIOUS
    <2>2. /\ id \in [Addrs -> Ids \cup {NULL}] /\ status \in [Addrs -> Status]
          /\ next \in [Addrs -> Ptr] /\ prev \in [Addrs -> Ptr]
      OBVIOUS
    <2>3. /\ mutex \in Threads \cup {NULL} /\ cur \in [Threads -> Ptr]
          /\ pc \in [Callers -> {"idle", "gen", "pack", "check", "send", "add",
                                 "start", "loop", "remove", "unlink"}]
      OBVIOUS
    <2>4. /\ msg_id \in [Callers -> Ids \cup {NULL}] /\ rq \in [Callers -> Ptr]
          /\ elapsed \in [Callers -> Int] /\ max_timeout \in [Callers -> Int]
      OBVIOUS
    <2>5. /\ keep \in [Callers -> BOOLEAN] /\ result \in [Callers -> BOOLEAN]
          /\ okSeen \in [Callers -> BOOLEAN]
      OBVIOUS
    <2>6. /\ ppc \in {"idle", "walk", "closing", "exit"}
          /\ reply \in Ids \cup {NULL} /\ sent \subseteq Ids /\ crashed \in BOOLEAN
      OBVIOUS
    <2>7. QED BY <2>1, <2>2, <2>3, <2>4, <2>5, <2>6 DEF TypeOK
  <1>2. CountInv
    BY FS_EmptySet DEF Init, CountInv
  <1>3. HasIdInv
    BY DEF Init, HasIdInv, HasId
  <1>4. QED BY <1>1, <1>2, <1>3 DEF TInv

LEMMA StepTInv == TInv /\ [Next]_vars => TInv'
  <1> SUFFICES ASSUME TInv, [Next]_vars PROVE TInv'
    OBVIOUS
  <1> USE ConstantsAssumption
      DEF TInv, TypeOK, CountInv, HasIdInv, HasId, connVars, heapVars, strVars, waitVars,
          pollVars, Threads, Status, Ptr, Goto, PollGoto, ConstantsAssumption
  <1>1. ASSUME NEW c \in Callers, Send(c) PROVE TInv'
    <2>1. CASE Call(c)       BY <2>1 DEF Call
    <2>2. CASE GenId(c)
      <3>1. PICK i \in Ids : /\ msg_id' = [msg_id EXCEPT ![c] = i]
                             /\ strs' = strs \cup {i}
        BY <2>2 DEF GenId
      <3>2. QED BY <2>2, <3>1 DEF GenId
    <2>3. CASE Pack(c)       BY <2>3 DEF Pack
    <2>4. CASE SendCheck(c)  BY <2>4 DEF SendCheck
    <2>5. CASE SendFrame(c)  BY <2>5 DEF SendFrame
    <2>6. QED BY <1>1, <2>1, <2>2, <2>3, <2>4, <2>5 DEF Send
  <1>2. ASSUME NEW c \in Callers, Wait(c) PROVE TInv'
    <2>1. CASE AddRequest(c)
      <3>1. PICK a \in Addrs \ live : 
              /\ live' = live \cup {a}
              /\ id' = [id EXCEPT ![a] = msg_id[c]]
              /\ status' = [status EXCEPT ![a] = "PENDING"]
              /\ next' = [next EXCEPT ![a] = first]
              /\ prev' = [x \in Addrs |-> IF x = first THEN a
                                   ELSE IF x = a THEN NULL ELSE prev[x]]
              /\ first' = a
              /\ rq' = [rq EXCEPT ![c] = a]
        BY <2>1 DEF AddRequest
      <3>2. IsFiniteSet(live') /\ Cardinality(live') = Cardinality(live) + 1
        BY <3>1, FS_AddElement
      <3>3. CountInv'
        BY <2>1, <3>2 DEF AddRequest, CountAfterAdd
      <3>4. /\ live' \subseteq Addrs /\ first' \in Ptr /\ count' \in Nat
            /\ rq' \in [Callers -> Ptr]
        BY <2>1, <3>1 DEF AddRequest, CountAfterAdd
      <3>5. /\ id' \in [Addrs -> Ids \cup {NULL}] /\ status' \in [Addrs -> Status]
        BY <3>1
      <3>6. /\ next' \in [Addrs -> Ptr] /\ prev' \in [Addrs -> Ptr]
        BY <3>1
      <3>7. ids' \subseteq Ids
        BY <2>1 DEF AddRequest
      <3>8. TypeOK'
        BY <2>1, <3>4, <3>5, <3>6, <3>7 DEF AddRequest
      <3>9. HasIdInv'
        BY <2>1, <3>1 DEF AddRequest
      <3>10. QED BY <3>3, <3>8, <3>9
    <2>2. CASE WaitStart(c)  BY <2>2 DEF WaitStart
    <2>3. CASE WaitPoll(c)   BY <2>3 DEF WaitPoll, Tick
    <2>4. CASE WaitEnd(c)    BY <2>4 DEF WaitEnd, AfterWait, Outcome
    <2>5. QED BY <1>2, <2>1, <2>2, <2>3, <2>4 DEF Wait
  <1>3. ASSUME NEW c \in Callers, Remove(c) PROVE TInv'
    <2>1. CASE RemoveLock(c)  BY <2>1 DEF RemoveLock
    <2>2. CASE RemoveNext(c)  BY <2>2 DEF RemoveNext
    <2>3. CASE RemoveMiss(c)  BY <2>3 DEF RemoveMiss
    <2>4. CASE RemoveUnlink(c)
      <3>1. /\ cur[c] \in live
            /\ live' = live \ {cur[c]}
            /\ count' = count - 1
        BY <2>4 DEF RemoveUnlink, CountAfterRemove
      <3>2. IsFiniteSet(live') /\ Cardinality(live') = Cardinality(live) - 1
        BY <3>1, FS_RemoveElement
      <3>3. CountInv'
        BY <3>1, <3>2
      <3>4. count' \in Nat
        BY <3>3, FS_CardinalityType
      <3>5. TypeOK'
        BY <2>4, <3>4 DEF RemoveUnlink, HeadAfterRemove, CountAfterRemove
      <3>6. HasIdInv'
        BY <2>4 DEF RemoveUnlink
      <3>7. QED BY <3>3, <3>5, <3>6
    <2>5. QED BY <1>3, <2>1, <2>2, <2>3, <2>4 DEF Remove
  <1>4. ASSUME NEW i \in Ids, FrameArrives(i) PROVE TInv'
    BY <1>4 DEF FrameArrives
  <1>5. CASE Notify
    <2>1. CASE NotifyNext  BY <2>1 DEF NotifyNext
    <2>2. CASE NotifyMiss  BY <2>2 DEF NotifyMiss
    <2>3. ASSUME NEW r \in {"OK", "ERROR"}, NotifyCallback(r) PROVE TInv'
      BY <2>3 DEF NotifyCallback
    <2>4. QED BY <1>5, <2>1, <2>2, <2>3 DEF Notify
  <1>6. CASE CloseEvent  BY <1>6 DEF CloseEvent
  <1>7. CASE CloseFree   BY <1>7 DEF CloseFree
  <1>8. ASSUME NEW ms \in Timeouts, SetTimeout(ms) PROVE TInv'
    BY <1>8 DEF SetTimeout
  <1>9. CASE Fault  BY <1>9 DEF Fault
  <1>10. CASE UNCHANGED vars  BY <1>10 DEF vars
  <1>11. QED
    BY <1>1, <1>2, <1>3, <1>4, <1>5, <1>6, <1>7, <1>8, <1>9, <1>10 DEF Next

(* Every variable keeps its type, and request_count is exact, whatever the *)
(* callers, the poll thread and the application interleave.                *)
THEOREM TypeCorrect == Spec => []TypeOK
  <1>1. TInv => TypeOK
    BY DEF TInv
  <1>2. QED BY <1>1, InitTInv, StepTInv, PTL DEF Spec

(* request_count always equals the number of registered requests.          *)
THEOREM CountCorrect == Spec => []CountExact
  <1>1. TInv => CountExact
    BY DEF TInv, CountInv, CountExact
  <1>2. QED BY <1>1, InitTInv, StepTInv, PTL DEF Spec

-----------------------------------------------------------------------------
(* A caller's request is its own: ids that do not repeat keep the two list *)
(* walks away from other callers' requests, and keep what the callback     *)
(* said with the caller it said it to.                                     *)

LEMMA InitIInv == Init => IInv
  <1> SUFFICES ASSUME Init PROVE IInv
    OBVIOUS
  <1>1. IdsInv
    BY DEF Init, IdsInv, HasId
  <1>2. KeptInv /\ OkInv
    BY DEF Init, KeptInv, OkInv, Before
  <1>3. QED BY InitTInv, <1>1, <1>2 DEF IInv

LEMMA StepIInv == ASSUME ~Collide PROVE IInv /\ [Next]_vars => IInv'
  <1> SUFFICES ASSUME IInv, [Next]_vars PROVE (IdsInv /\ KeptInv /\ OkInv)'
    BY StepTInv DEF IInv
  <1> USE ConstantsAssumption
      DEF IInv, TInv, TypeOK, IdsInv, HasIdInv, HasId, KeptInv, OkInv, Waiting, Before,
          connVars, heapVars, strVars, waitVars, pollVars, Threads, Ptr,
          Goto, PollGoto, ConstantsAssumption
  <1> DEFINE Goal == (IdsInv /\ KeptInv /\ OkInv)'
  <1>1. ASSUME NEW c \in Callers, Send(c) PROVE Goal
    <2>1. CASE Call(c)       BY <2>1 DEF Call
    <2>2. CASE GenId(c)
      <3>1. PICK i \in Ids \ strs : /\ msg_id' = [msg_id EXCEPT ![c] = i]
                                    /\ strs' = strs \cup {i}
        BY <2>2 DEF GenId
      <3>2. IdsInv'  BY <2>2, <3>1 DEF GenId
      <3>3. KeptInv' BY <2>2, <3>1 DEF GenId
      <3>4. OkInv'   BY <2>2, <3>1 DEF GenId
      <3>5. QED BY <3>2, <3>3, <3>4
    <2>3. CASE Pack(c)       BY <2>3 DEF Pack
    <2>4. CASE SendCheck(c)  BY <2>4 DEF SendCheck
    <2>5. CASE SendFrame(c)  BY <2>5 DEF SendFrame
    <2>6. QED BY <1>1, <2>1, <2>2, <2>3, <2>4, <2>5 DEF Send
  <1>2. ASSUME NEW c \in Callers, Wait(c) PROVE Goal
    <2>1. CASE AddRequest(c)
      <3>1. PICK a \in Addrs \ live :
              /\ live' = live \cup {a}
              /\ id' = [id EXCEPT ![a] = msg_id[c]]
              /\ status' = [status EXCEPT ![a] = "PENDING"]
              /\ rq' = [rq EXCEPT ![c] = a]
        BY <2>1 DEF AddRequest
      <3>2. IdsInv'  BY <2>1 DEF AddRequest
      <3>3. KeptInv' BY <2>1, <3>1 DEF AddRequest
      <3>4. OkInv'   BY <2>1, <3>1 DEF AddRequest
      <3>5. QED BY <3>2, <3>3, <3>4
    <2>2. CASE WaitStart(c)  BY <2>2 DEF WaitStart
    <2>3. CASE WaitPoll(c)   BY <2>3 DEF WaitPoll
    <2>4. CASE WaitEnd(c)    BY <2>4 DEF WaitEnd, AfterWait, Outcome
    <2>5. QED BY <1>2, <2>1, <2>2, <2>3, <2>4 DEF Wait
  <1>3. ASSUME NEW c \in Callers, Remove(c) PROVE Goal
    <2>1. CASE RemoveLock(c)  BY <2>1 DEF RemoveLock
    <2>2. CASE RemoveNext(c)  BY <2>2 DEF RemoveNext
    <2>3. CASE RemoveMiss(c)  BY <2>3 DEF RemoveMiss
    <2>4. CASE RemoveUnlink(c)
      <3>1. /\ id[cur[c]] = msg_id[c]
            /\ live' = live \ {cur[c]}
            /\ rq' = [rq EXCEPT ![c] = NULL]
        BY <2>4 DEF RemoveUnlink
      <3>2. \A d \in Callers \ {c} : rq[d] # NULL => rq[d] # cur[c]
        <4> SUFFICES ASSUME NEW d \in Callers \ {c}, rq[d] # NULL
                     PROVE  rq[d] # cur[c]
          OBVIOUS
        <4>1. pc[c] = "unlink"
          BY <2>4 DEF RemoveUnlink
        <4>2. pc[d] \in Waiting /\ id[rq[d]] = msg_id[d]
          OBVIOUS
        <4>3. msg_id[d] # msg_id[c]
          BY <4>1, <4>2
        <4>4. QED BY <3>1, <4>2, <4>3
      <3>3. QED BY <2>4, <3>1, <3>2 DEF RemoveUnlink
    <2>5. QED BY <1>3, <2>1, <2>2, <2>3, <2>4 DEF Remove
  <1>4. ASSUME NEW i \in Ids, FrameArrives(i) PROVE Goal
    BY <1>4 DEF FrameArrives
  <1>5. CASE Notify
    <2>1. CASE NotifyNext  BY <2>1 DEF NotifyNext
    <2>2. CASE NotifyMiss  BY <2>2 DEF NotifyMiss
    <2>3. ASSUME NEW r \in {"OK", "ERROR"}, NotifyCallback(r) PROVE Goal
      <3>1. IdsInv' /\ KeptInv'
        BY <2>3 DEF NotifyCallback
      <3>2. /\ cur[Poll] \in live
            /\ status' = [status EXCEPT ![cur[Poll]] = r]
            /\ UNCHANGED <<pc, result, rq>>
        BY <2>3 DEF NotifyCallback
      <3>3. okSeen' = [c \in Callers |-> okSeen[c] \/ (r = "OK" /\ rq[c] = cur[Poll])]
        BY <2>3 DEF NotifyCallback
      <3>4. \A c \in Callers : okSeen'[c] <=> okSeen[c] \/ (r = "OK" /\ rq[c] = cur[Poll])
        BY <3>3, Zenon
      <3>5. \A c \in Callers : rq[c] # NULL =>
              status'[rq[c]] = IF rq[c] = cur[Poll] THEN r ELSE status[rq[c]]
        BY <3>2
      <3>6. \A c \in Callers : pc[c] \in Before => rq[c] # cur[Poll]
        BY <3>2
      <3>7. OkInv'
        BY <3>2, <3>4, <3>5, <3>6
      <3>8. QED BY <3>1, <3>7
    <2>4. QED BY <1>5, <2>1, <2>2, <2>3 DEF Notify
  <1>6. CASE CloseEvent  BY <1>6 DEF CloseEvent
  <1>7. CASE CloseFree   BY <1>7 DEF CloseFree
  <1>8. ASSUME NEW ms \in Timeouts, SetTimeout(ms) PROVE Goal
    BY <1>8 DEF SetTimeout
  <1>9. CASE Fault  BY <1>9 DEF Fault
  <1>10. CASE UNCHANGED vars  BY <1>10 DEF vars
  <1>11. QED
    BY <1>1, <1>2, <1>3, <1>4, <1>5, <1>6, <1>7, <1>8, <1>9, <1>10 DEF Next

LEMMA IInvHolds == ASSUME ~Collide PROVE Spec => []IInv
  BY InitIInv, StepIInv, PTL DEF Spec

(* A caller that waits never reads a request another caller has freed.     *)
THEOREM OwnRequestIsKept == ASSUME ~Collide PROVE Spec => []OwnRequestKept
  <1>1. IInv => OwnRequestKept
    BY ConstantsAssumption
       DEF IInv, TInv, CountInv, TypeOK, KeptInv, OwnRequestKept, ConstantsAssumption
  <1>2. QED BY <1>1, IInvHolds, PTL

(* send_request says true only if its callback accepted a reply.           *)
THEOREM ResultIsSound == ASSUME ~Collide PROVE Spec => []ResultSound
  <1>1. IInv => ResultSound
    BY DEF IInv, OkInv, ResultSound
  <1>2. QED BY <1>1, IInvHolds, PTL

-----------------------------------------------------------------------------
(* The protocol implements RequestSpec.  A request is active exactly while *)
(* its caller holds the pointer to it.                                     *)

LEMMA PhaseIsPointer ==
  IInv => \A c \in Callers : Phase(c) = IF rq[c] # NULL THEN "active" ELSE "inactive"
  BY ConstantsAssumption
     DEF IInv, TInv, TypeOK, KeptInv, Phase, Waiting, ConstantsAssumption

LEMMA InitPromise == Init => Promise!Init
  BY DEF Init, Promise!Init, Phase

LEMMA StepPromise == IInv /\ IInv' /\ [Next]_vars => [Promise!Next]_(Promise!vars)
  <1> SUFFICES ASSUME IInv, IInv', [Next]_vars
               PROVE  Promise!Next \/ UNCHANGED Promise!vars
    OBVIOUS
  <1> DEFINE ph == [c \in Callers |-> Phase(c)]
             Ph(c) == IF rq[c] # NULL THEN "active" ELSE "inactive"
  <1>1. /\ ph = [c \in Callers |-> Ph(c)]
        /\ ph' = [c \in Callers |-> Ph(c)']
    <2>1. (IInv => \A c \in Callers : Phase(c) = Ph(c))'
      BY PhaseIsPointer, PTL
    <2>2. QED BY PhaseIsPointer, <2>1
  <1> HIDE DEF ph
  <1>2. UNCHANGED <<rq, okSeen, result>> => UNCHANGED Promise!vars
    BY <1>1 DEF Promise!vars, ph
  <1> USE ConstantsAssumption
      DEF IInv, TInv, TypeOK, KeptInv, OkInv, Before, Goto, PollGoto,
          ConstantsAssumption, heapVars, waitVars, pollVars
  <1>3. ASSUME NEW c \in Callers, Send(c) PROVE Promise!Next \/ UNCHANGED Promise!vars
    <2>1. CASE Call(c)
      <3>1. UNCHANGED rq /\ rq[c] = NULL
        BY <2>1 DEF Call, Waiting
      <3>2. Promise!Begin(c)
        BY <1>1, <2>1, <3>1 DEF Call, Promise!Begin, ph
      <3>3. QED BY <3>2 DEF Promise!Next
    <2>2. CASE ~Call(c)
      BY <1>2, <1>3, <2>2 DEF Send, GenId, Pack, SendCheck, SendFrame
    <2>3. QED BY <2>1, <2>2
  <1>4. ASSUME NEW c \in Callers, Wait(c) PROVE Promise!Next \/ UNCHANGED Promise!vars
    <2>1. CASE AddRequest(c)
      <3>1. /\ \E a \in Addrs : rq' = [rq EXCEPT ![c] = a]
            /\ UNCHANGED <<okSeen, result>>
            /\ pc[c] = "add"
        BY <2>1 DEF AddRequest
      <3>2. rq[c] = NULL /\ ~okSeen[c] /\ ~result[c]
        BY <3>1 DEF Waiting
      <3>3. rq'[c] # NULL /\ \A d \in Callers \ {c} : rq'[d] = rq[d]
        BY <3>1
      <3>4. ph' = [ph EXCEPT ![c] = "active"] /\ ph[c] = "inactive"
        BY <1>1, <3>2, <3>3
      <3>5. Promise!Activate(c)
        BY <3>1, <3>2, <3>4 DEF Promise!Activate, ph
      <3>6. QED BY <3>5 DEF Promise!Next
    <2>2. CASE WaitEnd(c)
      <3>1. /\ UNCHANGED <<rq, okSeen>>
            /\ result' = [result EXCEPT ![c] = Outcome(c)]
            /\ pc[c] = "loop"
        BY <2>2 DEF WaitEnd
      <3>2. rq[c] # NULL /\ ~result[c]
        BY <3>1
      <3>3. CASE Outcome(c)
        <4>1. okSeen[c]
          BY <3>2, <3>3 DEF Outcome
        <4>2. result' = [result EXCEPT ![c] = TRUE]
          BY <3>1, <3>3
        <4>3. Promise!Decide(c)
          BY <1>1, <3>1, <3>2, <4>1, <4>2 DEF Promise!Decide, ph
        <4>4. QED BY <4>3 DEF Promise!Next
      <3>4. CASE ~Outcome(c)
        <4>1. UNCHANGED result
          BY <3>1, <3>2, <3>4
        <4>2. QED BY <1>2, <3>1, <4>1
      <3>5. QED BY <3>3, <3>4
    <2>3. CASE WaitStart(c) \/ WaitPoll(c)
      BY <1>2, <2>3 DEF WaitStart, WaitPoll
    <2>4. QED BY <1>4, <2>1, <2>2, <2>3 DEF Wait
  <1>5. ASSUME NEW c \in Callers, Remove(c) PROVE Promise!Next \/ UNCHANGED Promise!vars
    <2>1. CASE RemoveMiss(c) \/ RemoveUnlink(c)
      <3>1. rq' = [rq EXCEPT ![c] = NULL] /\ UNCHANGED <<okSeen, result>>
        BY <2>1 DEF RemoveMiss, RemoveUnlink
      <3>2. CASE rq[c] = NULL
        BY <1>2, <3>1, <3>2
      <3>3. CASE rq[c] # NULL
        <4>1. rq'[c] = NULL /\ \A d \in Callers \ {c} : rq'[d] = rq[d]
          BY <3>1
        <4>2. ph' = [ph EXCEPT ![c] = "inactive"] /\ ph[c] = "active"
          BY <1>1, <3>3, <4>1
        <4>3. Promise!Retire(c)
          BY <3>1, <4>2 DEF Promise!Retire, ph
        <4>4. QED BY <4>3 DEF Promise!Next
      <3>4. QED BY <3>2, <3>3
    <2>2. CASE RemoveLock(c) \/ RemoveNext(c)
      BY <1>2, <2>2 DEF RemoveLock, RemoveNext
    <2>3. QED BY <1>5, <2>1, <2>2 DEF Remove
  <1>6. ASSUME NEW i \in Ids, FrameArrives(i) PROVE UNCHANGED Promise!vars
    BY <1>2, <1>6 DEF FrameArrives
  <1>7. ASSUME Notify PROVE Promise!Next \/ UNCHANGED Promise!vars
    <2>1. CASE NotifyNext \/ NotifyMiss
      BY <1>2, <2>1 DEF NotifyNext, NotifyMiss
    <2>2. ASSUME NEW r \in {"OK", "ERROR"}, NotifyCallback(r)
          PROVE Promise!Next \/ UNCHANGED Promise!vars
      <3>1. /\ cur[Poll] \in live
            /\ UNCHANGED <<rq, result>>
        BY <2>2 DEF NotifyCallback
      <3>2. okSeen' = [c \in Callers |-> okSeen[c] \/ (r = "OK" /\ rq[c] = cur[Poll])]
        BY <2>2 DEF NotifyCallback
      <3>3. CASE r = "OK" /\ \E c \in Callers : rq[c] = cur[Poll]
        <4>1. PICK c \in Callers : rq[c] = cur[Poll]
          BY <3>3
        <4>2. rq[c] # NULL
          BY <3>1, <4>1
        <4>3. \A d \in Callers \ {c} : rq[d] # cur[Poll]
          BY <3>1, <4>1, <4>2 DEF IdsInv, HasId, Waiting
        <4>4. \A d \in Callers \ {c} : okSeen'[d] = okSeen[d]
          BY <3>2, <4>3
        <4>5. okSeen'[c] = TRUE
          BY <3>2, <3>3, <4>1
        <4>6. okSeen' = [okSeen EXCEPT ![c] = TRUE]
          BY <4>4, <4>5
        <4>7. Promise!Accept(c)
          BY <1>1, <3>1, <4>2, <4>6 DEF Promise!Accept, ph
        <4>8. QED BY <4>7 DEF Promise!Next
      <3>4. CASE ~(r = "OK" /\ \E c \in Callers : rq[c] = cur[Poll])
        <4>1. \A c \in Callers : okSeen'[c] = okSeen[c]
          BY <3>2, <3>4
        <4>2. UNCHANGED okSeen
          BY <4>1
        <4>3. QED BY <1>2, <3>1, <4>2
      <3>5. QED BY <3>3, <3>4
    <2>3. QED BY <1>7, <2>1, <2>2 DEF Notify
  <1>8. CASE CloseEvent \/ CloseFree \/ Fault \/ \E ms \in Timeouts : SetTimeout(ms)
    BY <1>2, <1>8 DEF CloseEvent, CloseFree, Fault, SetTimeout
  <1>9. CASE UNCHANGED vars
    BY <1>2, <1>9 DEF vars
  <1>10. QED
    BY <1>3, <1>4, <1>5, <1>6, <1>7, <1>8, <1>9 DEF Next

(* send_request, its helpers and the poll thread keep the promise of       *)
(* RequestSpec: a callback accepts replies only while its request is       *)
(* registered, and a call says true only after that.                       *)
THEOREM RequestsImplementPromise == ASSUME ~Collide PROVE Spec => ImplementsPromise
  <1>1. Spec => Promise!Init /\ [][Promise!Next]_(Promise!vars)
    BY InitPromise, StepPromise, IInvHolds, PTL DEF Spec
  <1>2. QED BY <1>1 DEF ImplementsPromise, Promise!Spec

-----------------------------------------------------------------------------
(* One caller.  The list then holds at most the request of the call in     *)
(* progress, so resetting the head with the last request is enough.        *)

(* Nothing is registered.                                                  *)
Empty(c) == rq[c] = NULL /\ live = {} /\ first = NULL

(* The caller's request, and only that, is registered.                     *)
Alone(c) ==
  /\ rq[c] # NULL /\ live = {rq[c]} /\ first = rq[c]
  /\ next[rq[c]] = NULL /\ prev[rq[c]] = NULL
  /\ id[rq[c]] = msg_id[c]
  /\ pc[c] \in Waiting

(* Both walks start at the head, under the mutex.                          *)
CursorInv(c) ==
  /\ pc[c] = "unlink" => mutex = c /\ cur[c] = first
  /\ pc[c] # "unlink" => cur[c] = NULL
  /\ ppc = "walk" => mutex = Poll /\ cur[Poll] \in {NULL, first}
  /\ ppc # "walk" => cur[Poll] = NULL

SingleInv(c) ==
  /\ TInv
  /\ Empty(c) \/ Alone(c)
  /\ pc[c] \in {"start", "loop"} => rq[c] # NULL
  /\ CursorInv(c)

LEMMA SingleInit ==
  ASSUME NEW c \in Callers
  PROVE  Init => SingleInv(c)
  BY InitTInv, ConstantsAssumption
     DEF Init, SingleInv, Empty, CursorInv, Threads, ConstantsAssumption

LEMMA SingleStep ==
  ASSUME NEW c, Callers = {c}
  PROVE  SingleInv(c) /\ [Next]_vars => SingleInv(c)'
  <1> SUFFICES ASSUME SingleInv(c), [Next]_vars PROVE SingleInv(c)'
    OBVIOUS
  <1>1. TInv'
    BY StepTInv DEF SingleInv
  <1>2. /\ TypeOK /\ CountInv /\ c \in Callers /\ c # Poll /\ c # NULL /\ Poll # NULL
        /\ NULL \notin Addrs /\ c \in Threads /\ Poll \in Threads
    BY ConstantsAssumption DEF SingleInv, TInv, Threads, ConstantsAssumption
  <1>3. c \in Callers /\ \A d \in Callers : d = c
    OBVIOUS
  <1> USE <1>1, <1>2
      DEF SingleInv, Empty, Alone, CursorInv, TypeOK, Waiting, connVars, heapVars,
          strVars, waitVars, pollVars, Ptr, Goto, PollGoto, Unlocked
  <1>4. ASSUME Send(c) PROVE SingleInv(c)'
    <2>1. CASE Call(c)       BY <2>1 DEF Call
    <2>2. CASE GenId(c)      BY <2>2 DEF GenId
    <2>3. CASE Pack(c)       BY <2>3 DEF Pack
    <2>4. CASE SendCheck(c)  BY <2>4 DEF SendCheck
    <2>5. CASE SendFrame(c)  BY <2>5 DEF SendFrame
    <2>6. QED BY <1>4, <2>1, <2>2, <2>3, <2>4, <2>5 DEF Send
  <1>5. ASSUME Wait(c) PROVE SingleInv(c)'
    <2>1. CASE AddRequest(c)
      <3>1. Empty(c) /\ ppc # "walk" /\ pc'[c] = "start" /\ cur' = cur /\ ppc' = ppc
            /\ msg_id' = msg_id
        BY <2>1 DEF AddRequest
      <3>2. PICK a \in Addrs \ live :
              /\ live' = live \cup {a}
              /\ id' = [id EXCEPT ![a] = msg_id[c]]
              /\ next' = [next EXCEPT ![a] = first]
              /\ prev' = [x \in Addrs |-> IF x = first THEN a
                                   ELSE IF x = a THEN NULL ELSE prev[x]]
              /\ first' = a
              /\ rq' = [rq EXCEPT ![c] = a]
        BY <2>1 DEF AddRequest
      <3>3. Alone(c)'
        BY <3>1, <3>2
      <3>4. CursorInv(c)'
        BY <2>1, <3>1 DEF AddRequest
      <3>5. QED BY <3>3, <3>4
    <2>2. CASE WaitStart(c)  BY <2>2 DEF WaitStart
    <2>3. CASE WaitPoll(c)   BY <2>3 DEF WaitPoll
    <2>4. CASE WaitEnd(c)    BY <2>4 DEF WaitEnd, AfterWait
    <2>5. QED BY <1>5, <2>1, <2>2, <2>3, <2>4 DEF Wait
  <1>6. ASSUME Remove(c) PROVE SingleInv(c)'
    <2>1. CASE RemoveLock(c)  BY <2>1 DEF RemoveLock
    <2>2. CASE RemoveNext(c)  BY <2>2 DEF RemoveNext
    <2>3. CASE RemoveMiss(c)  BY <2>3 DEF RemoveMiss
    <2>4. CASE RemoveUnlink(c)
      <3>1. /\ Alone(c) /\ cur[c] = rq[c] /\ ppc # "walk"
            /\ live' = live \ {cur[c]} /\ rq' = [rq EXCEPT ![c] = NULL]
            /\ cur' = [cur EXCEPT ![c] = NULL] /\ pc'[c] = "idle" /\ ppc' = ppc
            /\ first' = HeadAfterRemove
        BY <2>4 DEF RemoveUnlink
      <3>2. count = 1
        BY <3>1, FS_Singleton DEF CountInv
      <3>3. first' = NULL
        BY <3>1, <3>2 DEF HeadAfterRemove, CountAfterRemove
      <3>4. Empty(c)' /\ CursorInv(c)'
        BY <3>1, <3>3
      <3>5. QED BY <3>1, <3>4
    <2>5. QED BY <1>6, <2>1, <2>2, <2>3, <2>4 DEF Remove
  <1>7. ASSUME NEW i \in Ids, FrameArrives(i) PROVE SingleInv(c)'
    BY <1>7 DEF FrameArrives
  <1>8. CASE Notify
    <2>1. CASE NotifyNext  BY <2>1 DEF NotifyNext
    <2>2. CASE NotifyMiss  BY <2>2 DEF NotifyMiss
    <2>3. ASSUME NEW r \in {"OK", "ERROR"}, NotifyCallback(r) PROVE SingleInv(c)'
      BY <2>3 DEF NotifyCallback
    <2>4. QED BY <1>8, <2>1, <2>2, <2>3 DEF Notify
  <1>9. CASE CloseEvent \/ CloseFree \/ Fault
    BY <1>9 DEF CloseEvent, CloseFree, Fault
  <1>10. ASSUME NEW ms \in Timeouts, SetTimeout(ms) PROVE SingleInv(c)'
    BY <1>10 DEF SetTimeout
  <1>11. CASE UNCHANGED vars
    BY <1>11 DEF vars
  <1>12. QED
    BY <1>3, <1>4, <1>5, <1>6, <1>7, <1>8, <1>9, <1>10, <1>11 DEF Next

(* With a single caller no pointer of the request list ever leads to a     *)
(* freed request, whatever replies come and even if message ids repeat     *)
(* (add_request, remove_request, notify_request).                          *)
THEOREM SingleCallerListSafe ==
  ASSUME NEW c, Callers = {c}
  PROVE  Spec => []ListSafe
  <1>1. SingleInv(c) => ListSafe
    <2> SUFFICES ASSUME SingleInv(c) PROVE ListSafe
      OBVIOUS
    <2>1. NULL \notin Addrs /\ Threads = {c, Poll}
      BY ConstantsAssumption DEF ConstantsAssumption, Threads
    <2>2. ~Freed(first) /\ ~Freed(NULL)
      BY <2>1 DEF SingleInv, Empty, Alone, Freed
    <2>3. \A a \in live : ~Freed(next[a]) /\ ~Freed(prev[a])
      BY <2>2 DEF SingleInv, Empty, Alone
    <2>4. \A t \in Threads : cur[t] \in {NULL, first}
      BY <2>1 DEF SingleInv, CursorInv
    <2>5. QED BY <2>2, <2>3, <2>4 DEF ListSafe
  <1>2. c \in Callers
    OBVIOUS
  <1>3. QED BY <1>1, <1>2, SingleInit, SingleStep, PTL DEF Spec

-----------------------------------------------------------------------------
(* The mutex, the close of the connection and the message ids, for any     *)
(* callers and even if ids repeat.                                         *)

(* Whoever walks the list holds the mutex.                                 *)
MutexInv ==
  /\ ppc = "walk" => mutex = Poll
  /\ \A c \in Callers : pc[c] = "unlink" => mutex = c

(* The mg_connection is freed after the event that resets connected.       *)
ClosedInv == ppc = "closing" \/ nc = "freed" => ~connected

(* An id that is not in conn->ids yet belongs to a call on its way to      *)
(* add_request: the calls that skip add_request find connected reset.      *)
OnItsWay(c) == pc[c] \in {"pack", "check", "send", "add"}
StrsInv ==
  connected => \A i \in strs \ ids : \E c \in Callers : OnItsWay(c) /\ msg_id[c] = i

WalkInv == TInv /\ MutexInv /\ ClosedInv /\ StrsInv

LEMMA InitWalkInv == Init => WalkInv
  BY InitTInv DEF Init, WalkInv, MutexInv, ClosedInv, StrsInv

(* A step of caller c that leaves strs and ids alone keeps the ids on      *)
(* their way if c is not on its way, or still is.                          *)
LEMMA StrsKept ==
  ASSUME NEW c \in Callers, StrsInv, TypeOK, UNCHANGED <<connected, strVars, msg_id>>,
         \A d \in Callers \ {c} : pc'[d] = pc[d],
         connected /\ OnItsWay(c) => OnItsWay(c)'
  PROVE  StrsInv'
  <1> SUFFICES ASSUME connected, NEW i \in strs \ ids
               PROVE  \E d \in Callers : OnItsWay(d)' /\ msg_id[d] = i
    BY DEF StrsInv, strVars
  <1>1. PICK d \in Callers : OnItsWay(d) /\ msg_id[d] = i
    BY DEF StrsInv
  <1>2. OnItsWay(d)'
    BY <1>1 DEF OnItsWay
  <1>3. QED BY <1>1, <1>2

LEMMA StepWalkInv == WalkInv /\ [Next]_vars => WalkInv'
  <1> SUFFICES ASSUME WalkInv, [Next]_vars PROVE (MutexInv /\ ClosedInv /\ StrsInv)'
    BY StepTInv DEF WalkInv
  <1> USE ConstantsAssumption
      DEF WalkInv, TInv, TypeOK, MutexInv, ClosedInv, connVars, heapVars, strVars,
          waitVars, pollVars, Threads, Goto, PollGoto, Unlocked, ConstantsAssumption
  <1> DEFINE Goal == (MutexInv /\ ClosedInv /\ StrsInv)'
  <1>1. ASSUME NEW c \in Callers, Send(c) PROVE Goal
    <2>1. CASE Call(c)
      BY <2>1, StrsKept DEF Call, OnItsWay
    <2>2. CASE GenId(c)
      <3>1. PICK i \in Ids : /\ msg_id' = [msg_id EXCEPT ![c] = i]
                             /\ strs' = strs \cup {i}
        BY <2>2 DEF GenId
      <3>2. ASSUME connected, NEW j \in strs' \ ids
            PROVE  \E d \in Callers : OnItsWay(d)' /\ msg_id'[d] = j
        <4>1. CASE j = i
          BY <2>2, <3>1, <4>1 DEF GenId, OnItsWay
        <4>2. CASE j # i
          <5>1. PICK d \in Callers : OnItsWay(d) /\ msg_id[d] = j
            BY <3>1, <3>2, <4>2 DEF StrsInv
          <5>2. d # c
            BY <2>2, <5>1 DEF GenId, OnItsWay
          <5>3. QED BY <2>2, <3>1, <5>1, <5>2 DEF GenId, OnItsWay
        <4>3. QED BY <4>1, <4>2
      <3>3. QED BY <2>2, <3>2 DEF GenId, StrsInv
    <2>3. CASE Pack(c)
      <3>1. CASE pc'[c] = "check" /\ UNCHANGED strs
        BY <2>3, <3>1, StrsKept DEF Pack, OnItsWay
      <3>2. CASE strs' = strs \ {msg_id[c]}
        <4>1. ASSUME connected, NEW j \in strs' \ ids
              PROVE  \E d \in Callers : OnItsWay(d)' /\ msg_id[d] = j
          <5>1. PICK d \in Callers : OnItsWay(d) /\ msg_id[d] = j
            BY <3>2, <4>1 DEF StrsInv
          <5>2. d # c
            BY <3>2, <5>1
          <5>3. QED BY <2>3, <5>1, <5>2 DEF Pack, OnItsWay
        <4>2. QED BY <2>3, <4>1 DEF Pack, StrsInv
      <3>3. QED BY <2>3, <3>1, <3>2 DEF Pack
    <2>4. CASE SendCheck(c)
      BY <2>4, StrsKept DEF SendCheck, OnItsWay
    <2>5. CASE SendFrame(c)
      BY <2>5, StrsKept DEF SendFrame, OnItsWay
    <2>6. QED BY <1>1, <2>1, <2>2, <2>3, <2>4, <2>5 DEF Send
  <1>2. ASSUME NEW c \in Callers, Wait(c) PROVE Goal
    <2>1. CASE AddRequest(c)
      <3>1. ASSUME connected, NEW j \in strs \ ids'
            PROVE  \E d \in Callers : OnItsWay(d)' /\ msg_id[d] = j
        <4>1. PICK d \in Callers : OnItsWay(d) /\ msg_id[d] = j
          BY <2>1, <3>1 DEF AddRequest, StrsInv
        <4>2. d # c
          BY <2>1, <3>1, <4>1 DEF AddRequest
        <4>3. QED BY <2>1, <4>1, <4>2 DEF AddRequest, OnItsWay
      <3>2. QED BY <2>1, <3>1 DEF AddRequest, StrsInv
    <2>2. CASE WaitStart(c)  BY <2>2, StrsKept DEF WaitStart, OnItsWay
    <2>3. CASE WaitPoll(c)   BY <2>3, StrsKept DEF WaitPoll, OnItsWay
    <2>4. CASE WaitEnd(c)    BY <2>4, StrsKept DEF WaitEnd, AfterWait, OnItsWay
    <2>5. QED BY <1>2, <2>1, <2>2, <2>3, <2>4 DEF Wait
  <1>3. ASSUME NEW c \in Callers, Remove(c) PROVE Goal
    <2>1. CASE RemoveLock(c)    BY <2>1, StrsKept DEF RemoveLock, OnItsWay
    <2>2. CASE RemoveNext(c)    BY <2>2, StrsKept DEF RemoveNext, OnItsWay
    <2>3. CASE RemoveMiss(c)    BY <2>3, StrsKept DEF RemoveMiss, OnItsWay
    <2>4. CASE RemoveUnlink(c)  BY <2>4, StrsKept DEF RemoveUnlink, OnItsWay
    <2>5. QED BY <1>3, <2>1, <2>2, <2>3, <2>4 DEF Remove
  <1>4. ASSUME UNCHANGED <<strVars, pc, msg_id>>, connected' => connected PROVE StrsInv'
    BY <1>4 DEF StrsInv, OnItsWay
  <1>5. ASSUME NEW i \in Ids, FrameArrives(i) PROVE Goal
    BY <1>4, <1>5 DEF FrameArrives
  <1>6. CASE Notify
    <2>1. CASE NotifyNext  BY <1>4, <2>1 DEF NotifyNext
    <2>2. CASE NotifyMiss  BY <1>4, <2>2 DEF NotifyMiss
    <2>3. ASSUME NEW r \in {"OK", "ERROR"}, NotifyCallback(r) PROVE Goal
      BY <1>4, <2>3 DEF NotifyCallback
    <2>4. QED BY <1>6, <2>1, <2>2, <2>3 DEF Notify
  <1>7. CASE CloseEvent  BY <1>4, <1>7 DEF CloseEvent
  <1>8. CASE CloseFree   BY <1>4, <1>8 DEF CloseFree
  <1>9. ASSUME NEW ms \in Timeouts, SetTimeout(ms) PROVE Goal
    BY <1>4, <1>9 DEF SetTimeout
  <1>10. CASE Fault  BY <1>4, <1>10 DEF Fault
  <1>11. CASE UNCHANGED vars  BY <1>4, <1>11 DEF vars
  <1>12. QED
    BY <1>1, <1>2, <1>3, <1>5, <1>6, <1>7, <1>8, <1>9, <1>10, <1>11 DEF Next

LEMMA WalkInvHolds == Spec => []WalkInv
  BY InitWalkInv, StepWalkInv, PTL DEF Spec

(* While the connection is up no message id is lost: wsc_disconnect finds  *)
(* it in conn->ids, or the call that drew it has not returned.             *)
THEOREM IdsAreKept == Spec => []IdsKept
  <1>1. WalkInv => IdsKept
    BY DEF WalkInv, StrsInv, OnItsWay, IdsKept, InCall
  <1>2. QED BY <1>1, WalkInvHolds, PTL

(* Nobody changes the list while notify_request or remove_request walks    *)
(* it, whatever else the callers do: only the walk that has found its      *)
(* request unlinks it.                                                     *)
THEOREM WalksSeeFrozenList == Spec => WalkSeesFrozenList
  <1> DEFINE Walking == ppc = "walk" \/ \E c \in Callers : pc[c] = "unlink" /\ pc'[c] = "unlink"
             Frozen == UNCHANGED <<first, live, next, prev>>
  <1>1. WalkInv /\ [Next]_vars => [Walking => Frozen]_vars
    <2> SUFFICES ASSUME WalkInv, Next, Walking PROVE Frozen
      BY DEF vars
    <2>1. mutex # NULL
      BY ConstantsAssumption DEF WalkInv, MutexInv, ConstantsAssumption
    <2>2. ASSUME NEW c \in Callers, RemoveUnlink(c) PROVE FALSE
      <3>1. mutex = c /\ pc'[c] = "idle" /\ ppc # "walk"
        BY <2>2, ConstantsAssumption
           DEF WalkInv, MutexInv, TInv, TypeOK, RemoveUnlink, Goto, ConstantsAssumption
      <3>2. QED BY <3>1 DEF WalkInv, MutexInv
    <2>3. ASSUME NEW c \in Callers, Send(c) \/ Wait(c) \/ Remove(c) PROVE Frozen
      BY <2>1, <2>2, <2>3 DEF Send, Wait, Remove, Call, GenId, Pack, SendCheck, SendFrame,
           AddRequest, Unlocked, WaitStart, WaitPoll, WaitEnd, RemoveLock, RemoveNext,
           RemoveMiss, heapVars
    <2>4. ASSUME \/ \E i \in Ids : FrameArrives(i)
                 \/ Notify \/ CloseEvent \/ CloseFree \/ Fault
                 \/ \E ms \in Timeouts : SetTimeout(ms)
          PROVE  Frozen
      BY <2>4 DEF FrameArrives, Notify, NotifyNext, NotifyMiss, NotifyCallback, CloseEvent,
                  CloseFree, Fault, SetTimeout, heapVars
    <2>5. QED BY <2>3, <2>4 DEF Next
  <1>2. QED BY <1>1, WalkInvHolds, PTL DEF Spec, WalkSeesFrozenList

(* A call that has not passed send_str's check when the mg_connection is   *)
(* freed never gets to write to it.                                        *)
THEOREM LateCallsSendNothing == Spec => LateCallSendsNothing
  <1> DEFINE Quiet == \A c \in Callers : nc = "freed" /\ pc'[c] = "send" => pc[c] = "send"
  <1>1. WalkInv /\ [Next]_vars => [Quiet]_vars
    <2> SUFFICES ASSUME WalkInv, Next, nc = "freed", NEW c \in Callers, pc'[c] = "send",
                        pc[c] # "send"
                 PROVE  FALSE
      BY DEF vars
    <2>1. ~connected /\ pc \in [Callers -> {"idle", "gen", "pack", "check", "send", "add",
                                            "start", "loop", "remove", "unlink"}]
      BY DEF WalkInv, ClosedInv, TInv, TypeOK
    <2>2. ASSUME NEW d \in Callers, Send(d) \/ Wait(d) \/ Remove(d) PROVE FALSE
      BY <2>1, <2>2 DEF Send, Wait, Remove, Call, GenId, Pack, SendCheck, SendFrame,
           AddRequest, WaitStart, WaitPoll, WaitEnd, AfterWait, RemoveLock, RemoveNext,
           RemoveMiss, RemoveUnlink, Goto
    <2>3. ASSUME \/ \E i \in Ids : FrameArrives(i)
                 \/ Notify \/ CloseEvent \/ CloseFree \/ Fault
                 \/ \E ms \in Timeouts : SetTimeout(ms)
          PROVE  UNCHANGED pc
      BY <2>3 DEF FrameArrives, Notify, NotifyNext, NotifyMiss, NotifyCallback, CloseEvent,
                  CloseFree, Fault, SetTimeout
    <2>4. QED BY <2>2, <2>3 DEF Next
  <1>2. QED BY <1>1, WalkInvHolds, PTL DEF Spec, LateCallSendsNothing
-----------------------------------------------------------------------------
(* The list, for any callers and even if ids repeat: it only ever reaches  *)
(* freed memory by losing its head.                                        *)

(* remove_request frees the head while other requests are active; the head *)
(* is reset only when the counter reaches zero.                            *)
HeadLost == \E c \in Callers : RemoveUnlink(c) /\ cur[c] = first /\ live # {first}

(* The registered requests are doubly linked among themselves and the head *)
(* is the one without a predecessor.                                       *)
LinksInv ==
  /\ first \in live \cup {NULL}
  /\ first = NULL => live = {}
  /\ \A a \in live : /\ next[a] \in live \cup {NULL}
                     /\ prev[a] \in live \cup {NULL}
                     /\ prev[a] = NULL <=> a = first
  /\ \A a, b \in live : next[a] = b <=> prev[b] = a

(* Only a walk that is under way has a cursor in the list.                 *)
CursorsInv ==
  /\ \A t \in Threads : cur[t] \in live \cup {NULL}
  /\ ppc # "walk" => cur[Poll] = NULL
  /\ \A c \in Callers : pc[c] # "unlink" => cur[c] = NULL

ListInv == WalkInv /\ LinksInv /\ CursorsInv

LEMMA AddKeepsLinks ==
  ASSUME ConstantsAssumption, TypeOK, LinksInv, CursorsInv, NEW c \in Callers, AddRequest(c)
  PROVE  LinksInv' /\ CursorsInv'
  <1>1. PICK a \in Addrs \ live :
          /\ live' = live \cup {a}
          /\ next' = [next EXCEPT ![a] = first]
          /\ prev' = [x \in Addrs |-> IF x = first THEN a
                                      ELSE IF x = a THEN NULL ELSE prev[x]]
          /\ first' = a
    BY DEF AddRequest
  <1>2. NULL \notin Addrs /\ live \subseteq Addrs /\ next \in [Addrs -> Ptr]
    BY DEF ConstantsAssumption, TypeOK
  <1>3. /\ next'[a] = first /\ prev'[a] = NULL
        /\ \A x \in live : next'[x] = next[x] /\ prev'[x] = IF x = first THEN a ELSE prev[x]
    BY <1>1, <1>2 DEF LinksInv
  <1>4. \A x \in live : next[x] # a /\ prev[x] # a
    BY <1>1, <1>2 DEF LinksInv
  <1>5. \A x \in live' : /\ next'[x] \in live' \cup {NULL}
                         /\ prev'[x] \in live' \cup {NULL}
                         /\ prev'[x] = NULL <=> x = first'
    BY <1>1, <1>2, <1>3 DEF LinksInv
  <1>6. \A x, y \in live' : next'[x] = y <=> prev'[y] = x
    BY <1>1, <1>2, <1>3, <1>4 DEF LinksInv
  <1>7. LinksInv'
    BY <1>1, <1>2, <1>5, <1>6 DEF LinksInv
  <1>8. CursorsInv'
    BY <1>1 DEF AddRequest, Goto, TypeOK, CursorsInv, Threads, pollVars
  <1>9. QED BY <1>7, <1>8

(* The holder of the mutex unlinks its request: nobody else has a cursor,  *)
(* and a counter of one means that the request is the head and the last.   *)
LEMMA UnlinkKeepsLinks ==
  ASSUME ConstantsAssumption, ListInv, NEW c \in Callers, RemoveUnlink(c), ~HeadLost
  PROVE  LinksInv' /\ CursorsInv'
  <1> DEFINE r == cur[c]
             p == prev[r]
             n == next[r]
  <1>1. /\ r \in live /\ live' = live \ {r} /\ live \subseteq Addrs /\ NULL \notin Addrs
        /\ \A x \in live : next'[x] = IF x = p THEN n ELSE next[x]
        /\ \A x \in live : prev'[x] = IF x = n THEN p ELSE prev[x]
    BY DEF RemoveUnlink, ListInv, WalkInv, TInv, TypeOK, ConstantsAssumption
  <1>2. r # first \/ live = {first}
    BY DEF HeadLost
  <1>3. first \in live
    BY <1>1 DEF ListInv, LinksInv
  <1>4. IsFiniteSet(live) /\ Cardinality(live') = count - 1
    BY <1>1, FS_RemoveElement DEF ListInv, WalkInv, TInv, CountInv
  <1>5. ASSUME r = first PROVE LinksInv'
    <2>1. live' = {}
      BY <1>1, <1>2, <1>5
    <2>2. CountAfterRemove = 0
      BY <1>4, <2>1, FS_EmptySet DEF CountAfterRemove
    <2>3. first' = NULL
      BY <2>2 DEF RemoveUnlink, HeadAfterRemove
    <2>4. QED BY <2>1, <2>3 DEF LinksInv
  <1>6. ASSUME r # first PROVE LinksInv'
    <2>1. first \in live' /\ IsFiniteSet(live')
      BY <1>1, <1>3, <1>4, <1>6, FS_RemoveElement
    <2>2. CountAfterRemove \in Nat /\ CountAfterRemove # 0
      BY <1>4, <2>1, FS_EmptySet, FS_CardinalityType DEF CountAfterRemove
    <2>3. first' = first
      BY <2>2 DEF RemoveUnlink, HeadAfterRemove
    <2>4. /\ p \in live /\ n \in live \cup {NULL}
          /\ \A x \in live : (next[x] = r <=> x = p) /\ (prev[x] = r <=> x = n)
      BY <1>1, <1>6 DEF ListInv, LinksInv
    <2>5. \A x \in live' : /\ next'[x] \in live' \cup {NULL}
                           /\ prev'[x] \in live' \cup {NULL}
                           /\ prev'[x] = NULL <=> x = first
      BY <1>1, <1>6, <2>4 DEF ListInv, LinksInv
    <2>6. \A x, y \in live' : next'[x] = y <=> prev'[y] = x
      BY <1>1, <1>6, <2>4 DEF ListInv, LinksInv
    <2>7. QED BY <1>1, <2>1, <2>3, <2>5, <2>6 DEF LinksInv
  <1>7. mutex = c /\ ppc # "walk" /\ \A d \in Callers \ {c} : pc[d] # "unlink"
    BY DEF RemoveUnlink, Goto, ListInv, WalkInv, MutexInv, ConstantsAssumption
  <1>8. \A t \in Threads : cur'[t] = NULL
    BY <1>7 DEF RemoveUnlink, ListInv, WalkInv, TInv, TypeOK, CursorsInv, Threads
  <1>9. CursorsInv'
    BY <1>8 DEF CursorsInv, Threads
  <1>10. QED BY <1>5, <1>6, <1>9

LEMMA StepListInv == ListInv /\ [Next /\ ~HeadLost]_vars => ListInv'
  <1> SUFFICES ASSUME ListInv, [Next /\ ~HeadLost]_vars PROVE (LinksInv /\ CursorsInv)'
    BY StepWalkInv DEF ListInv
  <1> USE ConstantsAssumption
  <1> DEFINE Goal == (LinksInv /\ CursorsInv)'
  <1>1. TypeOK /\ LinksInv /\ CursorsInv
    BY DEF ListInv, WalkInv, TInv
  <1>2. ASSUME UNCHANGED <<first, live, next, prev>> PROVE LinksInv'
    BY <1>1, <1>2 DEF LinksInv
  <1>3. ASSUME UNCHANGED <<first, live, next, prev, cur, pc>>, ppc' # "walk" => ppc # "walk"
        PROVE  Goal
    <2>1. CursorsInv'
      BY <1>1, <1>3 DEF CursorsInv
    <2>2. QED BY <1>2, <1>3, <2>1
  <1>4. ASSUME NEW c \in Callers, Send(c) PROVE Goal
    <2> USE <1>1 DEF CursorsInv, Goto, TypeOK, heapVars, strVars, pollVars
    <2>1. CASE Call(c)       BY <1>2, <2>1 DEF Call
    <2>2. CASE GenId(c)      BY <1>2, <2>2 DEF GenId
    <2>3. CASE Pack(c)       BY <1>2, <2>3 DEF Pack
    <2>4. CASE SendCheck(c)  BY <1>2, <2>4 DEF SendCheck
    <2>5. CASE SendFrame(c)  BY <1>2, <2>5 DEF SendFrame
    <2>6. QED BY <1>4, <2>1, <2>2, <2>3, <2>4, <2>5 DEF Send
  <1>5. ASSUME NEW c \in Callers, Wait(c) PROVE Goal
    <2> USE <1>1 DEF CursorsInv, Goto, TypeOK, heapVars, strVars, pollVars
    <2>1. CASE AddRequest(c)
      BY <2>1, AddKeepsLinks
    <2>2. CASE WaitStart(c)  BY <1>2, <2>2 DEF WaitStart
    <2>3. CASE WaitPoll(c)   BY <1>2, <2>3 DEF WaitPoll
    <2>4. CASE WaitEnd(c)    BY <1>2, <2>4 DEF WaitEnd, AfterWait
    <2>5. QED BY <1>5, <2>1, <2>2, <2>3, <2>4 DEF Wait
  <1>6. ASSUME NEW c \in Callers, Remove(c), ~HeadLost PROVE Goal
    <2> USE <1>1 DEF CursorsInv, Goto, TypeOK, Threads, heapVars, strVars, pollVars
    <2>1. CASE RemoveLock(c)
      BY <1>2, <2>1 DEF RemoveLock, LinksInv, ConstantsAssumption
    <2>2. CASE RemoveNext(c)
      BY <1>2, <2>2 DEF RemoveNext, LinksInv, ConstantsAssumption
    <2>3. CASE RemoveMiss(c)
      BY <1>2, <2>3 DEF RemoveMiss
    <2>4. CASE RemoveUnlink(c)
      BY <1>6, <2>4, UnlinkKeepsLinks
    <2>5. QED BY <1>6, <2>1, <2>2, <2>3, <2>4 DEF Remove
  <1>7. ASSUME NEW i \in Ids, FrameArrives(i) PROVE Goal
    BY <1>1, <1>2, <1>7 DEF FrameArrives, PollGoto, CursorsInv, LinksInv, TypeOK, Threads,
                            heapVars, ConstantsAssumption
  <1>8. CASE Notify
    <2> USE <1>1 DEF CursorsInv, PollGoto, TypeOK, Threads, heapVars, ConstantsAssumption
    <2>1. CASE NotifyNext  BY <1>2, <2>1 DEF NotifyNext, LinksInv
    <2>2. CASE NotifyMiss  BY <1>2, <2>2 DEF NotifyMiss
    <2>3. ASSUME NEW r \in {"OK", "ERROR"}, NotifyCallback(r) PROVE Goal
      BY <1>2, <2>3 DEF NotifyCallback
    <2>4. QED BY <1>8, <2>1, <2>2, <2>3 DEF Notify
  <1>9. CASE CloseEvent
    BY <1>3, <1>9 DEF CloseEvent, PollGoto, heapVars
  <1>10. CASE CloseFree
    BY <1>3, <1>10 DEF CloseFree, PollGoto, heapVars
  <1>11. ASSUME NEW ms \in Timeouts, SetTimeout(ms) PROVE Goal
    BY <1>3, <1>11 DEF SetTimeout, heapVars, pollVars
  <1>12. CASE Fault           BY <1>3, <1>12 DEF Fault, heapVars, pollVars
  <1>13. CASE UNCHANGED vars  BY <1>3, <1>13 DEF vars, heapVars, pollVars
  <1>14. QED
    BY <1>4, <1>5, <1>6, <1>7, <1>8, <1>9, <1>10, <1>11, <1>12, <1>13 DEF Next

LEMMA InitListInv == Init => ListInv
  <1> SUFFICES ASSUME Init PROVE ListInv
    OBVIOUS
  <1>1. LinksInv
    BY DEF Init, LinksInv
  <1>2. CursorsInv
    BY DEF Init, CursorsInv, Threads
  <1>3. QED BY <1>1, <1>2, InitWalkInv DEF ListInv

(* However many threads send requests, time out and get late, repeated or  *)
(* unknown replies, and whatever ids are drawn: as long as remove_request  *)
(* has never freed the head while another request was active, no pointer   *)
(* of the list and no walk reaches a freed request.                        *)
THEOREM ListSafeUntilHeadLost == Init /\ [][Next /\ ~HeadLost]_vars => []ListSafe
  <1>1. ListInv => ListSafe
    BY ConstantsAssumption
       DEF ListInv, LinksInv, CursorsInv, ListSafe, Freed, ConstantsAssumption
  <1>2. QED BY <1>1, InitListInv, StepListInv, PTL
-----------------------------------------------------------------------------
(* Every request on the list is found.                                     *)

(* A set of requests that following the links does not leave.              *)
Closed(S) == \A a \in S : next[a] \in S \cup {NULL}

(* From the head every registered request can be reached.                  *)
CoversInv == \A S \in SUBSET live : first \in S /\ Closed(S) => S = live

(* From its cursor thread t still reaches all requests with id i.          *)
Ahead(t, i) ==
  \A S \in SUBSET live : cur[t] \in S \cup {NULL} /\ Closed(S) =>
    \A a \in live : id[a] = i => a \in S

Seeks(t, i) ==
  \/ t = Poll /\ ppc = "walk" /\ reply = i
  \/ t \in Callers /\ pc[t] = "unlink" /\ msg_id[t] = i

AheadInv == \A t \in Threads, i \in Ids : Seeks(t, i) => Ahead(t, i)

FoundInv == ListInv /\ CoversInv /\ AheadInv

LEMMA AddKeepsCover ==
  ASSUME ConstantsAssumption, ListInv, CoversInv, NEW c \in Callers, AddRequest(c)
  PROVE  CoversInv'
  <1>1. PICK a \in Addrs \ live :
          /\ live' = live \cup {a}
          /\ next' = [next EXCEPT ![a] = first]
          /\ first' = a
    BY DEF AddRequest
  <1>2. /\ NULL \notin Addrs /\ live \subseteq Addrs
        /\ first \in live \cup {NULL} /\ (first = NULL => live = {})
        /\ \A x \in live : next[x] \in live \cup {NULL}
        /\ next'[a] = first /\ \A x \in live : next'[x] = next[x]
    BY <1>1 DEF ConstantsAssumption, ListInv, WalkInv, TInv, TypeOK, LinksInv
  <1>3. SUFFICES ASSUME NEW S \in SUBSET live', a \in S,
                        \A x \in S : next'[x] \in S \cup {NULL}
                 PROVE  S = live'
    BY <1>1 DEF CoversInv, Closed
  <1>4. S \ {a} \in SUBSET live
    BY <1>1, <1>3
  <1>5. Closed(S \ {a})
    BY <1>1, <1>2, <1>3, <1>4 DEF Closed
  <1>6. S \ {a} = live
    <2>1. CASE first = NULL  BY <1>2, <1>4, <2>1
    <2>2. CASE first # NULL
      <3>1. first \in S \ {a}
        BY <1>1, <1>2, <1>3, <2>2
      <3>2. QED BY <1>4, <1>5, <3>1 DEF CoversInv
    <2>3. QED BY <2>1, <2>2
  <1>7. QED BY <1>1, <1>3, <1>6

LEMMA UnlinkKeepsCover ==
  ASSUME ConstantsAssumption, ListInv, CoversInv, NEW c \in Callers, RemoveUnlink(c), ~HeadLost
  PROVE  CoversInv'
  <1> DEFINE r == cur[c]
             p == prev[r]
             n == next[r]
  <1>1. /\ r \in live /\ live' = live \ {r} /\ live \subseteq Addrs /\ NULL \notin Addrs
        /\ \A x \in live : next'[x] = IF x = p THEN n ELSE next[x]
        /\ first' \in {NULL, first}
    BY DEF RemoveUnlink, HeadAfterRemove, ListInv, WalkInv, TInv, TypeOK, ConstantsAssumption
  <1>2. r # first \/ live = {first}
    BY DEF HeadLost
  <1>3. /\ first \in live
        /\ p \in live \cup {NULL} /\ n \in live \cup {NULL} /\ (p = NULL <=> r = first)
        /\ \A x \in live : next[x] = r <=> x = p
        /\ \A x \in live : next[x] \in live \cup {NULL}
    BY <1>1 DEF ListInv, LinksInv
  <1>4. SUFFICES ASSUME NEW S \in SUBSET live', first' \in S,
                        \A x \in S : next'[x] \in S \cup {NULL}
                 PROVE  S = live'
    BY DEF CoversInv, Closed
  <1>5. first \in S /\ r # first /\ p \in live
    BY <1>1, <1>2, <1>3, <1>4
  <1>6. CASE p \in S
    <2>1. S \cup {r} \in SUBSET live /\ first \in S \cup {r} /\ n \in S \cup {NULL}
      BY <1>1, <1>3, <1>4, <1>5, <1>6
    <2>2. Closed(S \cup {r})
      BY <1>1, <1>3, <1>4, <2>1 DEF Closed
    <2>3. S \cup {r} = live
      BY <2>1, <2>2 DEF CoversInv
    <2>4. QED BY <1>1, <1>4, <2>3
  <1>7. CASE p \notin S
    <2>1. Closed(S) /\ S \in SUBSET live
      BY <1>1, <1>4, <1>7 DEF Closed
    <2>2. S = live
      BY <1>5, <2>1 DEF CoversInv
    <2>3. QED BY <1>5, <1>7, <2>2
  <1>8. QED BY <1>6, <1>7

LEMMA AheadAtStart ==
  ASSUME ListInv, CoversInv, NEW t, NEW i, UNCHANGED <<first, live, id, next>>,
         cur'[t] = first
  PROVE  Ahead(t, i)'
  <1>1. SUFFICES ASSUME NEW S \in SUBSET live, first \in S \cup {NULL}, Closed(S)
                 PROVE  \A a \in live : id[a] = i => a \in S
    BY DEF Ahead, Closed
  <1>2. CASE first = NULL   BY <1>2 DEF ListInv, LinksInv
  <1>3. CASE first # NULL   BY <1>1, <1>3 DEF CoversInv
  <1>4. QED BY <1>2, <1>3

LEMMA AheadAfterNext ==
  ASSUME ListInv, NEW t, NEW i, Ahead(t, i), UNCHANGED <<live, id, next>>,
         cur[t] \in live, id[cur[t]] # i, cur'[t] = next[cur[t]]
  PROVE  Ahead(t, i)'
  <1>1. SUFFICES ASSUME NEW S \in SUBSET live, next[cur[t]] \in S \cup {NULL}, Closed(S),
                        NEW a \in live, id[a] = i
                 PROVE  a \in S
    BY DEF Ahead, Closed
  <1>2. Closed(S \cup {cur[t]}) /\ S \cup {cur[t]} \in SUBSET live
    BY <1>1 DEF Closed
  <1>3. a \in S \cup {cur[t]}
    BY <1>1, <1>2 DEF Ahead
  <1>4. QED BY <1>1, <1>3

(* A walk at the end of the list has missed nothing.                       *)
LEMMA NothingAhead ==
  ASSUME NEW t, NEW i, Ahead(t, i), cur[t] = NULL
  PROVE  \A a \in live : id[a] # i
  <1>1. Closed({}) /\ {} \in SUBSET live
    BY DEF Closed
  <1>2. \A a \in live : id[a] = i => a \in {}
    BY <1>1 DEF Ahead
  <1>3. QED BY <1>2

LEMMA AheadKept ==
  ASSUME NEW t, NEW i, Ahead(t, i), UNCHANGED <<live, id, next>>, cur'[t] = cur[t]
  PROVE  Ahead(t, i)'
  BY DEF Ahead, Closed

LEMMA StepFoundInv == FoundInv /\ [Next /\ ~HeadLost]_vars => FoundInv'
  <1> SUFFICES ASSUME FoundInv, [Next /\ ~HeadLost]_vars PROVE CoversInv' /\ AheadInv'
    BY StepListInv DEF FoundInv
  <1> USE ConstantsAssumption
  <1> DEFINE Goal == CoversInv' /\ AheadInv'
  <1>1. ListInv /\ CoversInv /\ AheadInv /\ WalkInv /\ TypeOK
    BY DEF FoundInv, ListInv, WalkInv, TInv
  <1>2. ASSUME UNCHANGED <<first, live, next>> PROVE CoversInv'
    BY <1>1, <1>2 DEF CoversInv, Closed
  <1>3. ASSUME UNCHANGED <<first, live, id, next, cur>>,
               \A t \in Threads, i \in Ids : Seeks(t, i)' => Seeks(t, i)
        PROVE  Goal
    <2>1. ASSUME NEW t \in Threads, NEW i \in Ids, Seeks(t, i)' PROVE Ahead(t, i)'
      BY <1>1, <1>3, <2>1, AheadKept DEF AheadInv
    <2>2. QED BY <1>2, <1>3, <2>1 DEF AheadInv
  <1>4. ASSUME NEW c \in Callers, Send(c) \/ WaitStart(c) \/ WaitPoll(c) \/ WaitEnd(c)
                                   \/ RemoveMiss(c)
        PROVE  Goal
    <2>1. /\ UNCHANGED <<first, live, id, next, cur, ppc, reply>>
          /\ \A d \in Callers : pc'[d] = "unlink" => pc[d] = "unlink" /\ msg_id'[d] = msg_id[d]
      BY <1>1, <1>4 DEF Send, Call, GenId, Pack, SendCheck, SendFrame, WaitStart, WaitPoll,
           WaitEnd, AfterWait, RemoveMiss, Goto, TypeOK, heapVars, pollVars
    <2>2. QED BY <1>3, <2>1 DEF Seeks
  <1>5. ASSUME NEW c \in Callers, AddRequest(c) \/ RemoveUnlink(c), ~HeadLost PROVE Goal
    <2>1. /\ \A d \in Callers : pc[d] = "unlink" => d = c /\ RemoveUnlink(c)
          /\ ppc # "walk"
      BY <1>1, <1>5 DEF AddRequest, RemoveUnlink, Unlocked, Goto, WalkInv, MutexInv,
                        ConstantsAssumption
    <2>2. \A d \in Callers : pc'[d] # "unlink"
      BY <1>1, <1>5, <2>1 DEF AddRequest, RemoveUnlink, Goto, TypeOK
    <2>3. ppc' = ppc
      BY <1>5 DEF AddRequest, RemoveUnlink, pollVars
    <2>4. AheadInv'
      BY <2>1, <2>2, <2>3 DEF AheadInv, Seeks
    <2>5. QED BY <1>1, <1>5, <2>4, AddKeepsCover, UnlinkKeepsCover
  <1>6. ASSUME NEW c \in Callers, RemoveLock(c) PROVE Goal
    <2>1. /\ UNCHANGED <<first, live, id, next, ppc, reply, msg_id>>
          /\ cur'[c] = first
          /\ \A t \in Threads \ {c} : cur'[t] = cur[t]
          /\ \A d \in Callers \ {c} : pc'[d] = pc[d]
      BY <1>1, <1>6 DEF RemoveLock, Goto, TypeOK, Threads, heapVars, pollVars
    <2>2. ASSUME NEW t \in Threads, NEW i \in Ids, Seeks(t, i)' PROVE Ahead(t, i)'
      <3>1. CASE t = c  BY <1>1, <2>1, <3>1, AheadAtStart
      <3>2. CASE t # c
        <4>1. Ahead(t, i)
          BY <1>1, <2>1, <2>2, <3>2 DEF Seeks, AheadInv
        <4>2. QED BY <2>1, <3>2, <4>1, AheadKept
      <3>3. QED BY <3>1, <3>2
    <2>3. QED BY <1>2, <2>1, <2>2 DEF AheadInv
  <1>7. ASSUME NEW c \in Callers, RemoveNext(c) PROVE Goal
    <2>1. /\ UNCHANGED <<first, live, id, next, ppc, reply, msg_id>>
          /\ cur[c] \in live /\ id[cur[c]] # msg_id[c] /\ cur'[c] = next[cur[c]]
          /\ \A t \in Threads \ {c} : cur'[t] = cur[t]
          /\ \A d \in Callers : pc'[d] = pc[d]
          /\ c # Poll
      BY <1>1, <1>7 DEF RemoveNext, Goto, ListInv, CursorsInv, TypeOK, Threads, heapVars,
                        pollVars, ConstantsAssumption
    <2>2. ASSUME NEW t \in Threads, NEW i \in Ids, Seeks(t, i)' PROVE Ahead(t, i)'
      <3>1. Ahead(t, i)
        BY <1>1, <2>1, <2>2 DEF Seeks, AheadInv
      <3>2. CASE t = c
        <4>1. msg_id[c] = i
          BY <2>1, <2>2, <3>2 DEF Seeks
        <4>2. QED BY <1>1, <2>1, <3>1, <3>2, <4>1, AheadAfterNext
      <3>3. CASE t # c  BY <2>1, <3>1, <3>3, AheadKept
      <3>4. QED BY <3>2, <3>3
    <2>3. QED BY <1>2, <2>1, <2>2 DEF AheadInv
  <1>8. ASSUME NEW j \in Ids, FrameArrives(j) PROVE Goal
    <2>1. /\ UNCHANGED <<first, live, id, next, pc, msg_id>>
          /\ cur'[Poll] = first
          /\ \A t \in Callers : cur'[t] = cur[t]
      BY <1>1, <1>8 DEF FrameArrives, TypeOK, Threads, heapVars, ConstantsAssumption
    <2>2. ASSUME NEW t \in Threads, NEW i \in Ids, Seeks(t, i)' PROVE Ahead(t, i)'
      <3>1. CASE t = Poll  BY <1>1, <2>1, <3>1, AheadAtStart
      <3>2. CASE t # Poll
        <4>1. t \in Callers /\ Ahead(t, i)
          BY <1>1, <2>1, <2>2, <3>2 DEF Seeks, AheadInv, Threads
        <4>2. QED BY <2>1, <4>1, AheadKept
      <3>3. QED BY <3>1, <3>2
    <2>3. QED BY <1>2, <2>1, <2>2 DEF AheadInv
  <1>9. CASE NotifyNext
    <2>1. /\ UNCHANGED <<first, live, id, next, pc, reply, msg_id>>
          /\ cur[Poll] \in live /\ id[cur[Poll]] # reply /\ cur'[Poll] = next[cur[Poll]]
          /\ \A t \in Callers : cur'[t] = cur[t]
          /\ Poll \notin Callers /\ ppc = "walk"
      BY <1>1, <1>9 DEF NotifyNext, PollGoto, ListInv, CursorsInv, TypeOK, Threads, heapVars,
                        ConstantsAssumption
    <2>2. ASSUME NEW t \in Threads, NEW i \in Ids, Seeks(t, i)' PROVE Ahead(t, i)'
      <3>1. Ahead(t, i)
        BY <1>1, <2>1, <2>2 DEF Seeks, AheadInv
      <3>2. CASE t = Poll
        <4>1. reply = i
          BY <2>1, <2>2, <3>2 DEF Seeks
        <4>2. QED BY <1>1, <2>1, <3>1, <3>2, <4>1, AheadAfterNext
      <3>3. CASE t # Poll  BY <2>1, <3>1, <3>3, AheadKept DEF Threads
      <3>4. QED BY <3>2, <3>3
    <2>3. QED BY <1>2, <2>1, <2>2 DEF AheadInv
  <1>10. ASSUME NEW r \in {"OK", "ERROR"}, NotifyCallback(r) PROVE Goal
    <2>1. /\ UNCHANGED <<first, live, id, next, pc, msg_id>>
          /\ \A t \in Callers : cur'[t] = cur[t]
          /\ ppc' # "walk"
      BY <1>1, <1>10 DEF NotifyCallback, PollGoto, TypeOK, Threads, ConstantsAssumption
    <2>2. ASSUME NEW t \in Threads, NEW i \in Ids, Seeks(t, i)' PROVE Ahead(t, i)'
      <3>1. t \in Callers /\ Ahead(t, i)
        BY <1>1, <2>1, <2>2 DEF Seeks, AheadInv
      <3>2. QED BY <2>1, <3>1, AheadKept
    <2>3. QED BY <1>2, <2>1, <2>2 DEF AheadInv
  <1>11. ASSUME \/ NotifyMiss \/ CloseEvent \/ CloseFree \/ Fault \/ UNCHANGED vars
                \/ \E ms \in Timeouts : SetTimeout(ms)
         PROVE  Goal
    <2>1. UNCHANGED <<first, live, id, next, cur, pc, reply, msg_id>>
          /\ (ppc' = "walk" => ppc = "walk")
      BY <1>11 DEF NotifyMiss, CloseEvent, CloseFree, Fault, SetTimeout, PollGoto, vars,
                   heapVars, pollVars
    <2>2. QED BY <1>3, <2>1 DEF Seeks
  <1>12. QED
    BY <1>4, <1>5, <1>6, <1>7, <1>8, <1>9, <1>10, <1>11 DEF Next, Wait, Remove, Notify

LEMMA InitFoundInv == Init => FoundInv
  <1> SUFFICES ASSUME Init PROVE FoundInv
    OBVIOUS
  <1>1. ListInv
    BY InitListInv
  <1>2. CoversInv
    BY DEF Init, CoversInv
  <1>3. AheadInv
    BY DEF Init, AheadInv, Seeks
  <1>4. QED BY <1>1, <1>2, <1>3 DEF FoundInv

(* Each registered request belongs to the call that still waits for it or  *)
(* is about to remove it.                                                  *)
OwnedInv == \A a \in live : \E c \in Callers : rq[c] = a

ServedInv == IInv /\ FoundInv /\ OwnedInv

LEMMA StepOwnedInv ==
  ASSUME ~Collide
  PROVE  ServedInv /\ [Next /\ ~HeadLost]_vars => OwnedInv'
  <1> SUFFICES ASSUME ServedInv, [Next /\ ~HeadLost]_vars PROVE OwnedInv'
    OBVIOUS
  <1> USE ConstantsAssumption
  <1>1. /\ TypeOK /\ HasIdInv /\ IdsInv /\ KeptInv /\ FoundInv /\ OwnedInv
        /\ live \subseteq Addrs /\ NULL \notin Addrs
    BY DEF ServedInv, IInv, TInv, TypeOK, ConstantsAssumption
  <1>2. ASSUME UNCHANGED <<live, rq>> PROVE OwnedInv'
    BY <1>1, <1>2 DEF OwnedInv
  <1>3. ASSUME NEW c \in Callers, AddRequest(c) PROVE OwnedInv'
    <2>1. PICK a \in Addrs : live' = live \cup {a} /\ rq' = [rq EXCEPT ![c] = a]
      BY <1>3 DEF AddRequest
    <2>2. rq[c] = NULL
      BY <1>1, <1>3 DEF KeptInv, Waiting, AddRequest, Goto
    <2>3. ASSUME NEW x \in live' PROVE \E d \in Callers : rq'[d] = x
      <3>1. CASE x = a  BY <1>1, <2>1, <3>1 DEF TypeOK
      <3>2. CASE x # a
        <4>1. PICK d \in Callers : rq[d] = x
          BY <1>1, <2>1, <2>3, <3>2 DEF OwnedInv
        <4>2. d # c
          BY <1>1, <2>1, <2>2, <2>3, <3>2, <4>1
        <4>3. QED BY <1>1, <2>1, <4>1, <4>2 DEF TypeOK
      <3>3. QED BY <3>1, <3>2
    <2>4. QED BY <2>3 DEF OwnedInv
  <1>4. ASSUME NEW c \in Callers, RemoveMiss(c) PROVE OwnedInv'
    <2>1. cur[c] = NULL /\ pc[c] = "unlink" /\ live' = live /\ rq' = [rq EXCEPT ![c] = NULL]
      BY <1>4 DEF RemoveMiss, Goto, heapVars
    <2>2. msg_id[c] \in Ids /\ Ahead(c, msg_id[c])
      BY <1>1, <2>1 DEF HasIdInv, HasId, FoundInv, AheadInv, Seeks, Threads
    <2>3. \A a \in live : id[a] # msg_id[c]
      BY <2>1, <2>2, NothingAhead
    <2>4. rq[c] = NULL
      BY <1>1, <2>3 DEF KeptInv
    <2>5. QED BY <1>1, <2>1, <2>4 DEF OwnedInv, TypeOK
  <1>5. ASSUME NEW c \in Callers, RemoveUnlink(c) PROVE OwnedInv'
    <2>1. /\ pc[c] = "unlink" /\ cur[c] \in live /\ id[cur[c]] = msg_id[c]
          /\ live' = live \ {cur[c]} /\ rq' = [rq EXCEPT ![c] = NULL]
      BY <1>5 DEF RemoveUnlink, Goto
    <2>2. PICK d \in Callers : rq[d] = cur[c]
      BY <1>1, <2>1 DEF OwnedInv
    <2>3. d = c
      BY <1>1, <2>1, <2>2 DEF KeptInv, Waiting, IdsInv, HasId
    <2>4. QED BY <1>1, <2>1, <2>2, <2>3 DEF OwnedInv, TypeOK
  <1>6. ASSUME NEW c \in Callers, Send(c) \/ Wait(c) \/ Remove(c) PROVE OwnedInv'
    BY <1>2, <1>3, <1>4, <1>5, <1>6
       DEF Send, Wait, Remove, Call, GenId, Pack, SendCheck, SendFrame, WaitStart, WaitPoll,
           WaitEnd, RemoveLock, RemoveNext, heapVars, waitVars
  <1>7. ASSUME \/ \E i \in Ids : FrameArrives(i)
               \/ Notify \/ CloseEvent \/ CloseFree \/ Fault \/ UNCHANGED vars
               \/ \E ms \in Timeouts : SetTimeout(ms)
        PROVE  OwnedInv'
    BY <1>2, <1>7 DEF FrameArrives, Notify, NotifyNext, NotifyMiss, NotifyCallback, CloseEvent,
         CloseFree, Fault, SetTimeout, heapVars, waitVars, vars
  <1>8. QED BY <1>6, <1>7 DEF Next

LEMMA ServedInvHolds ==
  ASSUME ~Collide
  PROVE  Init /\ [][Next /\ ~HeadLost]_vars => []ServedInv
  <1>1. Init => ServedInv
    BY InitIInv, InitFoundInv DEF Init, ServedInv, OwnedInv
  <1>2. ServedInv /\ [Next /\ ~HeadLost]_vars => ServedInv'
    BY StepIInv, StepFoundInv, StepOwnedInv DEF ServedInv
  <1>3. QED BY <1>1, <1>2, PTL

(* A walk of notify_request that ends without a match was for a reply that *)
(* no registered call waits for.                                           *)
RegisteredReplyIsFound ==
  [][ppc = "walk" /\ ppc' = "idle" /\ cur[Poll] = NULL
       => ~\E c \in Callers : pc[c] \in {"start", "loop"} /\ msg_id[c] = reply]_vars

(* Until the head is lost no reply to a registered request is dropped,     *)
(* however other calls come and go: only the gap between the frame and     *)
(* add_request (ReplyReachesCallback) loses replies.                       *)
THEOREM RegisteredRepliesAreFound ==
  ASSUME ~Collide
  PROVE  Init /\ [][Next /\ ~HeadLost]_vars => RegisteredReplyIsFound
  <1> DEFINE Found == ppc = "walk" /\ ppc' = "idle" /\ cur[Poll] = NULL
                        => ~\E c \in Callers : pc[c] \in {"start", "loop"} /\ msg_id[c] = reply
  <1>1. ServedInv => Found
    <2> SUFFICES ASSUME ServedInv, ppc = "walk", cur[Poll] = NULL, NEW c \in Callers,
                        pc[c] \in {"start", "loop"}, msg_id[c] = reply
                 PROVE  FALSE
      OBVIOUS
    <2>1. reply \in Ids /\ rq[c] \in live /\ id[rq[c]] = reply
      BY ConstantsAssumption
         DEF ServedInv, IInv, TInv, TypeOK, HasIdInv, HasId, KeptInv, ConstantsAssumption
    <2>2. Ahead(Poll, reply)
      BY <2>1 DEF ServedInv, FoundInv, AheadInv, Seeks, Threads
    <2>3. QED BY <2>1, <2>2, NothingAhead
  <1>2. ServedInv /\ [Next /\ ~HeadLost]_vars => [Found]_vars
    BY <1>1
  <1>3. QED BY <1>2, ServedInvHolds, PTL DEF RegisteredReplyIsFound

(* Until the head is lost no request stays on the list, or in memory, when *)
(* its call has returned: remove_request finds it wherever it is.          *)
THEOREM NoRequestIsLeft ==
  ASSUME ~Collide
  PROVE  Init /\ [][Next /\ ~HeadLost]_vars
           => [](\A a \in live : \E c \in Callers : InCall(c) /\ rq[c] = a)
  <1>1. ServedInv => \A a \in live : \E c \in Callers : InCall(c) /\ rq[c] = a
    <2> SUFFICES ASSUME ServedInv, NEW a \in live
                 PROVE  \E c \in Callers : InCall(c) /\ rq[c] = a
      OBVIOUS
    <2>1. PICK c \in Callers : rq[c] = a
      BY DEF ServedInv, OwnedInv
    <2>2. a # NULL
      BY ConstantsAssumption DEF ServedInv, IInv, TInv, TypeOK, ConstantsAssumption
    <2>3. InCall(c)
      BY <2>1, <2>2 DEF ServedInv, IInv, KeptInv, Waiting, InCall
    <2>4. QED BY <2>1, <2>3
  <1>2. QED BY <1>1, ServedInvHolds, PTL
-----------------------------------------------------------------------------
(* Walks end.                                                              *)

(* No request comes after itself: behind each one lies a set of others     *)
(* that the links do not leave.                                            *)
LoopFree ==
  \A a \in live : \E S \in SUBSET live :
    a \notin S /\ Closed(S) /\ next[a] \in S \cup {NULL}

AcyclicInv == ListInv /\ LoopFree

LEMMA AddKeepsLoopFree ==
  ASSUME ConstantsAssumption, AcyclicInv, NEW c \in Callers, AddRequest(c)
  PROVE  LoopFree'
  <1>1. PICK a \in Addrs \ live :
          live' = live \cup {a} /\ next' = [next EXCEPT ![a] = first]
    BY DEF AddRequest
  <1>2. /\ live \subseteq Addrs /\ first \in live \cup {NULL}
        /\ \A x \in live : next[x] \in live \cup {NULL}
        /\ next'[a] = first /\ \A x \in live : next'[x] = next[x]
    BY <1>1 DEF AcyclicInv, ListInv, WalkInv, TInv, TypeOK, LinksInv
  <1>3. SUFFICES ASSUME NEW x \in live'
                 PROVE  \E S \in SUBSET live' : /\ x \notin S
                                                /\ \A y \in S : next'[y] \in S \cup {NULL}
                                                /\ next'[x] \in S \cup {NULL}
    BY DEF LoopFree, Closed
  <1>4. CASE x = a
    BY <1>1, <1>2, <1>4
  <1>5. CASE x # a
    <2>1. PICK S \in SUBSET live : x \notin S /\ Closed(S) /\ next[x] \in S \cup {NULL}
      BY <1>1, <1>3, <1>5 DEF AcyclicInv, LoopFree
    <2>2. \A y \in S : next'[y] \in S \cup {NULL}
      BY <1>2, <2>1 DEF Closed
    <2>3. QED BY <1>1, <1>2, <1>3, <1>5, <2>1, <2>2
  <1>6. QED BY <1>4, <1>5

LEMMA UnlinkKeepsLoopFree ==
  ASSUME ConstantsAssumption, AcyclicInv, NEW c \in Callers, RemoveUnlink(c)
  PROVE  LoopFree'
  <1> DEFINE r == cur[c]
             p == prev[r]
             n == next[r]
  <1>1. /\ r \in live /\ live' = live \ {r} /\ live \subseteq Addrs /\ NULL \notin Addrs
        /\ \A x \in live : next'[x] = IF x = p THEN n ELSE next[x]
    BY DEF RemoveUnlink, AcyclicInv, ListInv, WalkInv, TInv, TypeOK, ConstantsAssumption
  <1>2. \A x \in live : next[x] = r <=> x = p
    BY <1>1 DEF AcyclicInv, ListInv, LinksInv
  <1>3. n # r
    <2>1. PICK S \in SUBSET live : r \notin S /\ n \in S \cup {NULL}
      BY <1>1 DEF AcyclicInv, LoopFree
    <2>2. QED BY <1>1, <2>1
  <1>4. SUFFICES ASSUME NEW x \in live'
                 PROVE  \E S \in SUBSET live' : /\ x \notin S
                                                /\ \A y \in S : next'[y] \in S \cup {NULL}
                                                /\ next'[x] \in S \cup {NULL}
    BY DEF LoopFree, Closed
  <1>5. PICK S \in SUBSET live : x \notin S /\ Closed(S) /\ next[x] \in S \cup {NULL}
    BY <1>1, <1>4 DEF AcyclicInv, LoopFree
  <1>6. ASSUME NEW y \in live, y # r, next[y] \in S \cup {NULL}
        PROVE  next'[y] \in (S \ {r}) \cup {NULL}
    <2>1. CASE y = p
      <3>1. r \in S
        BY <1>1, <1>2, <1>6, <2>1
      <3>2. n \in S \cup {NULL}
        BY <1>5, <3>1 DEF Closed
      <3>3. QED BY <1>1, <1>3, <2>1, <3>2
    <2>2. CASE y # p  BY <1>1, <1>2, <1>6, <2>2
    <2>3. QED BY <2>1, <2>2
  <1>7. \A y \in S \ {r} : next'[y] \in (S \ {r}) \cup {NULL}
    BY <1>5, <1>6 DEF Closed
  <1>8. next'[x] \in (S \ {r}) \cup {NULL} /\ S \ {r} \in SUBSET live' /\ x \notin S \ {r}
    BY <1>1, <1>4, <1>5, <1>6
  <1>9. QED BY <1>7, <1>8

LEMMA StepAcyclicInv == AcyclicInv /\ [Next /\ ~HeadLost]_vars => AcyclicInv'
  <1> SUFFICES ASSUME AcyclicInv, [Next /\ ~HeadLost]_vars PROVE LoopFree'
    BY StepListInv DEF AcyclicInv
  <1> USE ConstantsAssumption
  <1>1. ASSUME UNCHANGED <<live, next>> PROVE LoopFree'
    BY <1>1 DEF AcyclicInv, LoopFree, Closed
  <1>2. ASSUME NEW c \in Callers, Send(c) \/ Wait(c) \/ Remove(c) PROVE LoopFree'
    BY <1>1, <1>2, AddKeepsLoopFree, UnlinkKeepsLoopFree
       DEF Send, Wait, Remove, Call, GenId, Pack, SendCheck, SendFrame, WaitStart, WaitPoll,
           WaitEnd, RemoveLock, RemoveNext, RemoveMiss, heapVars
  <1>3. ASSUME \/ \E i \in Ids : FrameArrives(i)
               \/ Notify \/ CloseEvent \/ CloseFree \/ Fault \/ UNCHANGED vars
               \/ \E ms \in Timeouts : SetTimeout(ms)
        PROVE  LoopFree'
    BY <1>1, <1>3 DEF FrameArrives, Notify, NotifyNext, NotifyMiss, NotifyCallback, CloseEvent,
         CloseFree, Fault, SetTimeout, heapVars, vars
  <1>4. QED BY <1>2, <1>3 DEF Next

LEMMA AcyclicInvHolds == Init /\ [][Next /\ ~HeadLost]_vars => []AcyclicInv
  <1>1. Init => AcyclicInv
    BY InitListInv DEF Init, AcyclicInv, LoopFree
  <1>2. QED BY <1>1, StepAcyclicInv, PTL

(* The requests that a walk of thread t still reaches from its cursor.     *)
ToVisit(t) ==
  {a \in live : \A S \in SUBSET live : cur[t] \in S \cup {NULL} /\ Closed(S) => a \in S}

(* Thread t goes on to the next request: remove_request, notify_request.   *)
MovesOn(t) == (t \in Callers /\ RemoveNext(t)) \/ (t = Poll /\ NotifyNext)

(* Until the head is lost, every step of a walk leaves the request it was  *)
(* at behind for good and adds none: a walk visits each registered request *)
(* at most once, so remove_request and notify_request, which hold the      *)
(* mutex meanwhile, come to an end.                                        *)
THEOREM WalksMakeProgress ==
  Init /\ [][Next /\ ~HeadLost]_vars
    => [][\A t \in Threads : MovesOn(t) =>
            cur[t] \in ToVisit(t) /\ ToVisit(t)' \subseteq ToVisit(t) \ {cur[t]}]_vars
  <1> DEFINE Progress(t) == cur[t] \in ToVisit(t) /\ ToVisit(t)' \subseteq ToVisit(t) \ {cur[t]}
             Progresses == \A t \in Threads : MovesOn(t) => Progress(t)
  <1>1. AcyclicInv => Progresses
    <2> SUFFICES ASSUME AcyclicInv, NEW t \in Threads, MovesOn(t) PROVE Progress(t)
      OBVIOUS
    <2>1. UNCHANGED <<live, next>> /\ cur[t] # NULL /\ cur'[t] = next[cur[t]]
      BY ConstantsAssumption
         DEF MovesOn, RemoveNext, NotifyNext, heapVars, AcyclicInv, ListInv, WalkInv, TInv,
             TypeOK, Threads
    <2>2. cur[t] \in live /\ NULL \notin live
      BY <2>1, ConstantsAssumption
         DEF AcyclicInv, ListInv, CursorsInv, WalkInv, TInv, TypeOK, ConstantsAssumption
    <2>3. cur[t] \in ToVisit(t)
      BY <2>1, <2>2 DEF ToVisit
    <2>4. ASSUME NEW a \in ToVisit(t)' PROVE a \in ToVisit(t) \ {cur[t]}
      <3>1. /\ a \in live
            /\ \A S \in SUBSET live : next[cur[t]] \in S \cup {NULL} /\ Closed(S) => a \in S
        BY <2>1, <2>4 DEF ToVisit, Closed
      <3>2. ASSUME NEW S \in SUBSET live, cur[t] \in S \cup {NULL}, Closed(S) PROVE a \in S
        BY <2>1, <3>1, <3>2 DEF Closed
      <3>3. a # cur[t]
        BY <2>2, <3>1 DEF AcyclicInv, LoopFree
      <3>4. QED BY <3>1, <3>2, <3>3 DEF ToVisit
    <2>5. QED BY <2>3, <2>4
  <1>2. AcyclicInv /\ [Next /\ ~HeadLost]_vars => [Progresses]_vars
    BY <1>1
  <1>3. QED BY <1>2, AcyclicInvHolds, PTL
-----------------------------------------------------------------------------
(* Freed memory, and how long a call waits.                                *)

(* Ids do not repeat and the head has never been lost: then the one place  *)
(* where a thread may use freed memory is send_str after the poll thread   *)
(* has freed the mg_connection, and the program crashes for no other       *)
(* reason.                                                                 *)
THEOREM OnlyTheCloseIsDangerous ==
  ASSUME ~Collide
  PROVE  Init /\ [][Next /\ ~HeadLost]_vars
           => [](/\ ~PollTouchesFreed
                 /\ \A c \in Callers : CallerTouchesFreed(c) => pc[c] = "send" /\ nc = "freed"
                 /\ crashed => nc = "freed")
  <1> DEFINE Safe == /\ ~PollTouchesFreed
                     /\ \A c \in Callers : CallerTouchesFreed(c) => pc[c] = "send" /\ nc = "freed"
             Blamed == crashed => nc = "freed"
  <1>1. ServedInv => Safe
    <2> SUFFICES ASSUME ServedInv PROVE Safe
      OBVIOUS
    <2>1. /\ first \in live \cup {NULL} /\ NULL \notin Addrs /\ live \subseteq Addrs
          /\ \A t \in Threads : cur[t] \in live \cup {NULL}
          /\ \A a \in live : next[a] \in live \cup {NULL} /\ prev[a] \in live \cup {NULL}
          /\ \A c \in Callers : pc[c] \in {"start", "loop"} => rq[c] \in live
      BY ConstantsAssumption
         DEF ServedInv, FoundInv, ListInv, LinksInv, CursorsInv, IInv, TInv, TypeOK, KeptInv,
             ConstantsAssumption
    <2>2. QED BY <2>1 DEF PollTouchesFreed, CallerTouchesFreed, Freed, Threads
  <1>2. Init => Blamed
    BY DEF Init
  <1>3. ServedInv /\ Blamed /\ [Next /\ ~HeadLost]_vars => Blamed'
    <2> SUFFICES ASSUME Safe, Blamed, [Next]_vars PROVE Blamed'
      BY <1>1
    <2>1. CASE Fault
      BY <2>1 DEF Fault, connVars
    <2>2. ASSUME NEW c \in Callers, Send(c) \/ Wait(c) \/ Remove(c) PROVE Blamed'
      BY <2>2 DEF Send, Call, GenId, Pack, SendCheck, SendFrame, Wait, AddRequest, WaitStart,
           WaitPoll, WaitEnd, Remove, RemoveLock, RemoveNext, RemoveMiss, RemoveUnlink, connVars
    <2>3. ASSUME \/ \E i \in Ids : FrameArrives(i)
                 \/ Notify \/ CloseEvent \/ CloseFree \/ UNCHANGED vars
                 \/ \E ms \in Timeouts : SetTimeout(ms)
          PROVE  Blamed'
      BY <2>3 DEF FrameArrives, Notify, NotifyNext, NotifyMiss, NotifyCallback, CloseEvent,
           CloseFree, SetTimeout, connVars, vars
    <2>4. QED BY <2>1, <2>2, <2>3 DEF Next
  <1>4. QED BY <1>1, <1>2, <1>3, ServedInvHolds, PTL

(* A call never waits longer than the timeout it read when it started plus *)
(* one round of the loop, whatever wsc_set_timeout does meanwhile and even *)
(* if threads use freed memory; with a negative timeout it does not wait.  *)
WaitInv ==
  \A c \in Callers : /\ elapsed[c] >= 0
                     /\ elapsed[c] > 0 => elapsed[c] <= max_timeout[c] + Tick

THEOREM WaitIsBounded == Spec => []WaitInv
  <1>1. Init => WaitInv
    BY DEF Init, WaitInv
  <1>2. TInv /\ WaitInv /\ [Next]_vars => WaitInv'
    <2> SUFFICES ASSUME TInv, WaitInv, [Next]_vars PROVE WaitInv'
      OBVIOUS
    <2>1. TypeOK
      BY DEF TInv
    <2>2. ASSUME UNCHANGED <<elapsed, max_timeout>> PROVE WaitInv'
      BY <2>2 DEF WaitInv
    <2>3. ASSUME NEW c \in Callers, WaitStart(c) PROVE WaitInv'
      BY <2>1, <2>3 DEF WaitStart, WaitInv, TypeOK
    <2>4. ASSUME NEW c \in Callers, WaitPoll(c) PROVE WaitInv'
      BY <2>1, <2>4 DEF WaitPoll, KeepWaiting, Tick, WaitInv, TypeOK
    <2>5. ASSUME NEW c \in Callers, Send(c) \/ Wait(c) \/ Remove(c) PROVE WaitInv'
      BY <2>2, <2>3, <2>4, <2>5
         DEF Send, Call, GenId, Pack, SendCheck, SendFrame, Wait, AddRequest, WaitEnd, Remove,
             RemoveLock, RemoveNext, RemoveMiss, RemoveUnlink, waitVars
    <2>6. ASSUME \/ \E i \in Ids : FrameArrives(i)
                 \/ Notify \/ CloseEvent \/ CloseFree \/ Fault \/ UNCHANGED vars
                 \/ \E ms \in Timeouts : SetTimeout(ms)
          PROVE  WaitInv'
      BY <2>2, <2>6 DEF FrameArrives, Notify, NotifyNext, NotifyMiss, NotifyCallback, CloseEvent,
           CloseFree, Fault, SetTimeout, waitVars, vars
    <2>7. QED BY <2>5, <2>6 DEF Next
  <1>3. Init => TInv
    BY InitTInv
  <1>4. QED BY <1>1, <1>2, <1>3, StepTInv, PTL DEF Spec
=============================================================================
