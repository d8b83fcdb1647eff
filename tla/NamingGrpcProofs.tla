-------------------------- MODULE NamingGrpcProofs --------------------------
(***************************************************************************)
(* Proofs about NamingGrpc for any services, instances, users and bounds.  *)
(* AskedIsHeld and SubscriberIsFed speak of services that are at rest.  To *)
(* be inductive they need what holds of one while calls and the redo are   *)
(* under way: who will still bring the cache, and the server, to what was  *)
(* asked for.  The same invariant shows that the module implements         *)
(* NamingRegistry.                                                         *)
(***************************************************************************)
EXTENDS NamingGrpc, TLAPS

(* The operation that a step of a call belongs to. *)
StepOfOp ==
    \A t \in Threads :
        /\ call[t].pc = "cache" => call[t].op = "register"
        /\ call[t].pc = "remove" => call[t].op = "deregister"
        /\ call[t].pc \in {"addCb", "check", "cacheSub"} => call[t].op = "subscribe"
        /\ call[t].pc \in {"removeCb", "isSub", "stop", "removeSub"} => call[t].op = "unsubscribe"
        /\ call[t].op = "deregister" => call[t].reg = NoRegistration

(* The server forgets a connection with what came over it. *)
ServerForgets == ~connected => serverReg = Nothing

RegCall(t, s) == call[t].op \in RegOps /\ call[t].svc = s

(* The cache will be set by a call in progress. *)
CachePending(s) ==
    \E t \in Threads : RegCall(t, s) /\ (call[t].pc = "cache" \/ call[t].op = "deregister")

(* The request is still to be made, or failed. *)
RegPending(s) ==
    \/ <<"reg", s>> \in missed
    \/ \E t \in Threads : RegCall(t, s) /\ call[t].pc \in {"cache", "request"}

RegRedoLeft(s) == ~connected \/ event \/ redo = "subs" \/ todoRegs[s] # NoRegistration

(* Everybody who is at work for a service works for what was asked last. *)
RegAgrees(s) ==
    /\ \A t \in Threads : RegCall(t, s) => call[t].reg = asked[s]
    /\ todoRegs[s] \in {NoRegistration, asked[s]}

RegHeld(s) ==
    /\ registeredInstanceCached[s] = asked[s] \/ CachePending(s)
    /\ serverReg[s] \in {NoRegistration, asked[s]} \/ RegPending(s)
    /\ serverReg[s] = asked[s] \/ RegPending(s) \/ RegRedoLeft(s)

RegInv == \A s \in Services : <<"reg", s>> \notin loose => RegAgrees(s) /\ RegHeld(s)

SubCall(t, s) == call[t].op = "subscribe" /\ call[t].svc = s
UnsubCall(t, s) == call[t].op = "unsubscribe" /\ call[t].svc = s

(* Nobody subscribes to a service with an Unsubscribe in progress, and one  *)
(* that goes to the server is for a service without callbacks.              *)
UnsubAlone(s) ==
    \A t \in Threads : UnsubCall(t, s) =>
        /\ t \in Users /\ ~Subscribing(s)
        /\ call[t].pc \in {"stop", "removeSub", "request"} => callbacks[s] = {}
        /\ call[t].pc = "request" => s \notin subscribes

SubPending(s) ==
    \/ <<"sub", s>> \in missed \/ ~connected \/ event \/ s \in todoSubs
    \/ \E t \in Threads : SubCall(t, s) /\ call[t].pc \in {"cacheSub", "request"}

(* A service with a callback is redone, or a user is about to cache it. *)
SubFed(s) ==
    callbacks[s] # {} => \/ s \in subscribes
                         \/ \E u \in Users : SubCall(u, s) /\ call[u].pc \in {"check", "cacheSub"}

SubHeld(s) ==
    /\ SubFed(s)
    /\ s \in subscribes => s \in serverSub \/ SubPending(s)

SubInv == \A s \in Services : <<"sub", s>> \notin loose => UnsubAlone(s) /\ SubHeld(s)

GrpcInv == TypeOK /\ StepOfOp /\ ServerForgets /\ RegInv /\ SubInv
-----------------------------------------------------------------------------
(* Types, and which steps an operation takes. *)

CallRecord == [op : Ops, svc : Services, reg : Reg, pc : PCs]

BasicInv == TypeOK /\ StepOfOp /\ ServerForgets

(* A thread that is at a step of a call has a call. *)
LEMMA InProgress ==
    ASSUME TypeOK, NEW t \in Threads, call[t].pc # "idle" \/ call[t].op \in Ops
    PROVE  call[t] \in CallRecord
  <1>1. call[t] # Idle
    BY DEF Idle, Ops
  <1> QED BY <1>1 DEF TypeOK, Call, CallRecord

(* What becomes of the calls when one of them moves. *)
LEMMA OneMoves ==
    ASSUME TypeOK, NEW t \in Threads
    PROVE  /\ \A pc : Goes(t, pc) =>
                /\ call' = [call EXCEPT ![t].pc = pc]
                /\ call[t] \in CallRecord => /\ call'[t].pc = pc /\ call'[t].op = call[t].op
                                             /\ call'[t].svc = call[t].svc /\ call'[t].reg = call[t].reg
                /\ \A q \in Threads \ {t} : call'[q] = call[q]
           /\ Returns(t) => call'[t] = Idle /\ \A q \in Threads \ {t} : call'[q] = call[q]
  BY DEF TypeOK, Goes, Returns, CallRecord

(* What becomes of the calls when one starts. *)
LEMMA OneStarts ==
    ASSUME TypeOK, NEW t \in Threads, NEW op, NEW s, NEW r, NEW pc, Starts(t, op, s, r, pc)
    PROVE  /\ call'[t] = [op |-> op, svc |-> s, reg |-> r, pc |-> pc]
           /\ \A q \in Threads \ {t} : call'[q] = call[q]
  BY DEF TypeOK, Starts

(* The record of a call stays one. *)
LEMMA CallsTyped ==
    ASSUME TypeOK, NEW t \in Threads
    PROVE  /\ \A pc \in PCs : Goes(t, pc) /\ call[t] \in CallRecord => call' \in [Threads -> Call]
           /\ Returns(t) => call' \in [Threads -> Call]
           /\ \A op \in Ops, s \in Services, r \in Reg, pc \in PCs :
                  Starts(t, op, s, r, pc) => call' \in [Threads -> Call]
  <1>1. ASSUME NEW pc \in PCs, Goes(t, pc), call[t] \in CallRecord PROVE call' \in [Threads -> Call]
    BY <1>1 DEF TypeOK, Goes, Call, CallRecord
  <1>2. ASSUME Returns(t) PROVE call' \in [Threads -> Call]
    BY <1>2 DEF TypeOK, Returns, Call
  <1>3. ASSUME NEW op \in Ops, NEW s \in Services, NEW r \in Reg, NEW pc \in PCs,
               Starts(t, op, s, r, pc)
        PROVE  call' \in [Threads -> Call]
    BY <1>3 DEF TypeOK, Starts, Call
  <1> QED BY <1>1, <1>2, <1>3

(* A call that starts, whatever it asks for. *)
LEMMA StartsBasic ==
    ASSUME BasicInv, NEW t \in Threads, NEW op \in Ops, NEW s \in Services, NEW r \in Reg, NEW pc \in PCs,
           Starts(t, op, s, r, pc),
           <<op, pc>> \in {<<"register", "cache">>, <<"subscribe", "addCb">>, <<"subscribe", "check">>,
                           <<"subscribe", "cacheSub">>, <<"unsubscribe", "removeCb">>}
             \/ (op = "deregister" /\ pc = "request" /\ r = NoRegistration)
    PROVE  call' \in [Threads -> Call] /\ StepOfOp'
  <1>1. call' \in [Threads -> Call]
    BY CallsTyped DEF BasicInv
  <1>2. call'[t] = [op |-> op, svc |-> s, reg |-> r, pc |-> pc] /\ \A q \in Threads \ {t} : call'[q] = call[q]
    BY OneStarts DEF BasicInv
  <1>3. /\ call'[t].op = op /\ call'[t].pc = pc /\ call'[t].reg = r
    BY <1>2
  <1>4. ASSUME NEW q \in Threads
        PROVE  /\ call'[q].pc = "cache" => call'[q].op = "register"
               /\ call'[q].pc = "remove" => call'[q].op = "deregister"
               /\ call'[q].pc \in {"addCb", "check", "cacheSub"} => call'[q].op = "subscribe"
               /\ call'[q].pc \in {"removeCb", "isSub", "stop", "removeSub"} => call'[q].op = "unsubscribe"
               /\ call'[q].op = "deregister" => call'[q].reg = NoRegistration
    <2>1. CASE q = t
      BY <1>3, <2>1
    <2>2. CASE q # t
      BY <1>2, <2>2 DEF BasicInv, StepOfOp
    <2> QED BY <2>1, <2>2
  <1> QED BY <1>1, <1>4 DEF StepOfOp

(* A call of a user keeps the types. *)
LEMMA UserCallsBasic ==
    ASSUME BasicInv, NEW u \in Users, UserCalls(u)
    PROVE  BasicInv'
  <1> USE NamingAssumption DEF BasicInv
  <1>0. u \in Threads /\ NoRegistration \in Reg
    BY DEF Threads, Reg
  <1>1. ASSUME NEW s \in Services, NEW r \in Reg, Free(u), Asks(s, r), call' \in [Threads -> Call], StepOfOp',
               UNCHANGED <<cacheVars, copy, redoVars, connVars, serverVars>>
        PROVE  BasicInv'
    <2>1. calls' \in 0..MaxCalls
      BY <1>1 DEF Free, Asks, TypeOK
    <2>2. loose' \subseteq Kinds \X Services /\ asked' \in [Services -> Reg] /\ missed' = missed
      BY <1>1 DEF Asks, TypeOK, Kinds
    <2>3. TypeOK'
      BY <1>1, <2>1, <2>2 DEF TypeOK, cacheVars, redoVars, connVars, serverVars
    <2>4. ServerForgets'
      BY <1>1 DEF ServerForgets, connVars, serverVars
    <2> QED BY <1>1, <2>3, <2>4
  <1>2. ASSUME NEW s \in Services, NEW crosses \in BOOLEAN, Free(u), AsksFeed(s, crosses),
               call' \in [Threads -> Call], StepOfOp', copy' \in [Users -> SUBSET Users],
               UNCHANGED <<cacheVars, redoVars, connVars, serverVars>>
        PROVE  BasicInv'
    <2>1. calls' \in 0..MaxCalls
      BY <1>2 DEF Free, AsksFeed, TypeOK
    <2>2. loose' \subseteq Kinds \X Services /\ asked' = asked /\ missed' = missed
      BY <1>2 DEF AsksFeed, TypeOK, Kinds
    <2>3. TypeOK'
      BY <1>2, <2>1, <2>2 DEF TypeOK, cacheVars, redoVars, connVars, serverVars
    <2>4. ServerForgets'
      BY <1>2 DEF ServerForgets, connVars, serverVars
    <2> QED BY <1>2, <2>3, <2>4
  <1>3. ASSUME NEW s \in Services, NEW i \in Instances, RegisterInstance(u, s, i) PROVE BasicInv'
    <2>1. {i} \in Reg
      BY DEF Reg, Registrations
    <2>2. call' \in [Threads -> Call] /\ StepOfOp'
      BY <1>0, <1>3, <2>1, StartsBasic DEF RegisterInstance, Ops, PCs
    <2> QED BY <1>1, <1>3, <2>1, <2>2 DEF RegisterInstance
  <1>4. ASSUME NEW s \in Services, NEW i \in Instances, DeregisterInstance(u, s, i) PROVE BasicInv'
    <2>1. call' \in [Threads -> Call] /\ StepOfOp'
      BY <1>0, <1>4, StartsBasic DEF DeregisterInstance, Ops, PCs
    <2> QED BY <1>0, <1>1, <1>4, <2>1 DEF DeregisterInstance
  <1>5. ASSUME NEW s \in Services, NEW b \in Batches, BatchRegisterInstance(u, s, b) PROVE BasicInv'
    <2>1. b \in Reg
      BY DEF Reg, Registrations
    <2>2. call' \in [Threads -> Call] /\ StepOfOp'
      BY <1>0, <1>5, <2>1, StartsBasic DEF BatchRegisterInstance, Ops, PCs
    <2> QED BY <1>1, <1>5, <2>1, <2>2 DEF BatchRegisterInstance
  <1>6. \A s : Unsubscribing(s) \in BOOLEAN /\ Subscribing(s) \in BOOLEAN
    BY DEF Unsubscribing, Subscribing
  <1>7. ASSUME NEW s \in Services, Subscribe(u, s) PROVE BasicInv'
    <2>1. call' \in [Threads -> Call] /\ StepOfOp'
      BY <1>0, <1>7, StartsBasic DEF Subscribe, Ops, PCs
    <2>2. copy' \in [Users -> SUBSET Users]
      BY <1>7 DEF Subscribe, TypeOK
    <2> QED BY <1>2, <1>6, <1>7, <2>1, <2>2 DEF Subscribe
  <1>8. ASSUME NEW s \in Services, GetService(u, s) PROVE BasicInv'
    <2>1. call' \in [Threads -> Call] /\ StepOfOp'
      BY <1>0, <1>8, StartsBasic DEF GetService, Ops, PCs
    <2>2. copy' \in [Users -> SUBSET Users]
      BY <1>8 DEF GetService, TypeOK
    <2> QED BY <1>2, <1>6, <1>8, <2>1, <2>2 DEF GetService
  <1>9. ASSUME NEW s \in Services, Unsubscribe(u, s) PROVE BasicInv'
    <2>1. call' \in [Threads -> Call] /\ StepOfOp'
      BY <1>0, <1>9, StartsBasic DEF Unsubscribe, Ops, PCs
    <2>2. copy' \in [Users -> SUBSET Users]
      BY <1>9 DEF Unsubscribe, TypeOK
    <2> QED BY <1>2, <1>6, <1>9, <2>1, <2>2 DEF Unsubscribe
  <1> QED BY <1>3, <1>4, <1>5, <1>7, <1>8, <1>9 DEF UserCalls, UpdateInstance

(* So does a step of a call. *)
LEMMA StepBasic ==
    ASSUME BasicInv, NEW t \in Threads, Step(t)
    PROVE  BasicInv'
  <1> USE DEF BasicInv
  <1>1. call[t] \in CallRecord
    <2>1. call[t].pc # "idle"
      BY DEF Step, LocalStep, CacheInstanceForRedo, RemoveInstanceForRedo, DelegateSubscribe, CacheSubscriberForRedo,
             StopUpdateIfContain, RemoveSubscriberForRedo, RequestServed, RequestFails, At
    <2> QED BY <2>1, InProgress
  <1>2. call[t].svc \in Services /\ call[t].reg \in Reg /\ call[t].op \in Ops
    BY <1>1 DEF CallRecord
  <1>3. ASSUME NEW pc \in PCs, Goes(t, pc),
               \/ pc = "request"
               \/ pc = "cacheSub" /\ call[t].op = "subscribe"
               \/ pc = "removeSub" /\ call[t].op = "unsubscribe"
               \/ pc = "remove" /\ call[t].op = "deregister"
        PROVE  call' \in [Threads -> Call] /\ StepOfOp'
    <2>1. call' \in [Threads -> Call]
      BY <1>1, <1>3, CallsTyped
    <2>2. /\ call'[t].pc = pc /\ call'[t].op = call[t].op /\ call'[t].reg = call[t].reg
          /\ \A q \in Threads \ {t} : call'[q] = call[q]
      BY <1>1, <1>3, OneMoves
    <2> QED BY <1>3, <2>1, <2>2 DEF StepOfOp
  <1>4. ASSUME Returns(t)
        PROVE  call' \in [Threads -> Call] /\ StepOfOp'
    <2>1. call' \in [Threads -> Call]
      BY <1>4, CallsTyped
    <2>2. call'[t] = Idle /\ \A q \in Threads \ {t} : call'[q] = call[q]
      BY <1>4, OneMoves
    <2> QED BY <2>1, <2>2 DEF StepOfOp, Idle
  <1>5. CASE CacheInstanceForRedo(t) \/ RemoveInstanceForRedo(t)
    <2>1. call' \in [Threads -> Call] /\ StepOfOp'
      BY <1>3, <1>4, <1>5 DEF CacheInstanceForRedo, RemoveInstanceForRedo, PCs
    <2>2. registeredInstanceCached' \in [Services -> Reg]
      BY <1>2, <1>5 DEF CacheInstanceForRedo, RemoveInstanceForRedo, TypeOK, Reg
    <2>3. UNCHANGED <<subscribes, serviceInfoMap, callbacks, copy, redoVars, connVars, serverVars, history>>
      BY <1>5 DEF CacheInstanceForRedo, RemoveInstanceForRedo
    <2> QED BY <2>1, <2>2, <2>3 DEF TypeOK, ServerForgets, redoVars, connVars, serverVars, history
  <1>6. CASE DelegateSubscribe(t)
    <2>1. call' \in [Threads -> Call] /\ StepOfOp'
      <3>1. call[t].op = "subscribe"
        BY <1>6 DEF DelegateSubscribe, At, StepOfOp
      <3> QED BY <1>3, <1>4, <1>6, <3>1 DEF DelegateSubscribe, PCs
    <2> QED BY <1>6, <2>1 DEF DelegateSubscribe, TypeOK, ServerForgets, cacheVars, redoVars, connVars,
                              serverVars, history
  <1>7. CASE CacheSubscriberForRedo(t) \/ RemoveSubscriberForRedo(t)
    <2>1. call' \in [Threads -> Call] /\ StepOfOp'
      BY <1>3, <1>7 DEF CacheSubscriberForRedo, RemoveSubscriberForRedo, PCs
    <2>2. subscribes' \subseteq Services
      BY <1>2, <1>7 DEF CacheSubscriberForRedo, RemoveSubscriberForRedo, TypeOK
    <2>3. UNCHANGED <<registeredInstanceCached, serviceInfoMap, callbacks, copy, redoVars, connVars, serverVars,
                      history>>
      BY <1>7 DEF CacheSubscriberForRedo, RemoveSubscriberForRedo
    <2> QED BY <2>1, <2>2, <2>3 DEF TypeOK, ServerForgets, redoVars, connVars, serverVars, history
  <1>8. CASE StopUpdateIfContain(t)
    <2>1. call' \in [Threads -> Call] /\ StepOfOp'
      <3>1. call[t].op = "unsubscribe"
        BY <1>8 DEF StopUpdateIfContain, At, StepOfOp
      <3> QED BY <1>3, <1>8, <3>1 DEF StopUpdateIfContain, PCs
    <2>2. serviceInfoMap' \subseteq Services
      BY <1>8 DEF StopUpdateIfContain, TypeOK
    <2> QED BY <1>8, <2>1, <2>2 DEF StopUpdateIfContain, TypeOK, ServerForgets, redoVars, connVars,
                                    serverVars, history
  <1>9. CASE RequestServed(t) \/ RequestFails(t)
    <2>1. \E ok \in BOOLEAN : Answered(t, ok)
      BY <1>9 DEF RequestServed, RequestFails
    <2>2. /\ call' \in [Threads -> Call] /\ StepOfOp'
          /\ serviceInfoMap' \subseteq Services
          /\ UNCHANGED <<registeredInstanceCached, subscribes, callbacks, copy>>
      <3>1. call' \in [Threads -> Call] /\ StepOfOp'
        BY <1>3, <1>4, <2>1 DEF Answered, PCs
      <3>2. serviceInfoMap' \subseteq Services
        BY <1>2, <2>1 DEF Answered, TypeOK
      <3> QED BY <2>1, <3>1, <3>2 DEF Answered
    <2>3. missed' \subseteq Kinds \X Services
      <3>1. <<Kind(call[t]), call[t].svc>> \in Kinds \X Services
        BY <1>2 DEF Kind, Kinds
      <3> QED BY <1>9, <3>1 DEF RequestServed, RequestFails, TypeOK
    <2>4. serverReg' \in [Services -> Reg] /\ serverSub' \subseteq Services /\ ServerForgets'
      <3>1. CASE UNCHANGED serverVars
        BY <1>9, <3>1 DEF RequestServed, RequestFails, serverVars, TypeOK, ServerForgets, connVars
      <3>2. CASE connected /\ Applied(call[t])
        <4>1. serverReg' \in [Services -> Reg] /\ serverSub' \subseteq Services
          <5>1. CASE call[t].op \in RegOps
            BY <1>2, <3>2, <5>1 DEF Applied, TypeOK, RegOps
          <5>2. CASE call[t].op = "subscribe"
            BY <1>2, <3>2, <5>2 DEF Applied, TypeOK, RegOps
          <5>3. CASE call[t].op = "unsubscribe"
            BY <1>2, <3>2, <5>3 DEF Applied, TypeOK, RegOps
          <5> QED BY <1>2, <5>1, <5>2, <5>3 DEF Ops, RegOps
        <4> QED BY <1>9, <3>2, <4>1 DEF RequestServed, RequestFails, connVars, ServerForgets
      <3> QED BY <1>9, <3>1, <3>2 DEF RequestServed, RequestFails
    <2>5. UNCHANGED <<redoVars, connVars, asked, loose, calls>>
      BY <1>9 DEF RequestServed, RequestFails
    <2> QED BY <2>2, <2>3, <2>4, <2>5 DEF TypeOK, redoVars, connVars
  <1> QED BY <1>5, <1>6, <1>7, <1>8, <1>9 DEF Step, LocalStep

(* What a step at the list of callbacks does. *)
LEMMA CallbackSteps ==
    ASSUME BasicInv, NEW u \in Users, CallbackStep(u)
    PROVE  /\ u \in Threads /\ call[u] \in CallRecord
           /\ \/ call[u].op = "subscribe" /\ AddCallbackFunc(u)
              \/ call[u].op = "unsubscribe" /\ (RemoveCallbackFunc(u) \/ IsSubscribed(u))
           /\ UNCHANGED <<registeredInstanceCached, subscribes, serviceInfoMap, redoVars, connVars, serverVars,
                          asked, missed, calls>>
           /\ \A q \in Services \ {call[u].svc} : callbacks'[q] = callbacks[q]
           /\ loose' \in {loose, loose \union {<<"sub", call[u].svc>>}}
           /\ \A q \in Threads \ {u} : call'[q] = call[q]
           /\ call'[u] = Idle \/ (call'[u].op = call[u].op /\ call'[u].svc = call[u].svc)
  <1>1. u \in Threads /\ call[u].pc \in {"addCb", "removeCb", "isSub"}
    BY DEF Threads, CallbackStep, AddCallbackFunc, RemoveCallbackFunc, IsSubscribed, At
  <1>2. call[u] \in CallRecord
    BY <1>1, InProgress DEF BasicInv
  <1>3. \/ call[u].op = "subscribe" /\ AddCallbackFunc(u)
        \/ call[u].op = "unsubscribe" /\ (RemoveCallbackFunc(u) \/ IsSubscribed(u))
    BY <1>1 DEF CallbackStep, AddCallbackFunc, RemoveCallbackFunc, IsSubscribed, At, BasicInv, StepOfOp
  <1>4. UNCHANGED <<registeredInstanceCached, subscribes, serviceInfoMap, redoVars, connVars, serverVars,
                    asked, missed, calls>>
    BY <1>3 DEF AddCallbackFunc, RemoveCallbackFunc, IsSubscribed, cacheVars, history
  <1>5. /\ \A q \in Services \ {call[u].svc} : callbacks'[q] = callbacks[q]
        /\ loose' \in {loose, loose \union {<<"sub", call[u].svc>>}}
    BY <1>3 DEF AddCallbackFunc, RemoveCallbackFunc, IsSubscribed, cacheVars, history, BasicInv, TypeOK
  <1>6. Returns(u) \/ \E pc : Goes(u, pc)
    BY <1>3 DEF AddCallbackFunc, RemoveCallbackFunc, IsSubscribed
  <1>7. CASE Returns(u)
    BY <1>1, <1>2, <1>3, <1>4, <1>5, <1>7, OneMoves DEF BasicInv
  <1>8. ASSUME NEW pc, Goes(u, pc)
        PROVE  /\ \A q \in Threads \ {u} : call'[q] = call[q]
               /\ call'[u].op = call[u].op /\ call'[u].svc = call[u].svc
    BY <1>1, <1>2, <1>8, OneMoves DEF BasicInv
  <1> QED BY <1>1, <1>2, <1>3, <1>4, <1>5, <1>6, <1>7, <1>8

(* Such a step keeps the types. *)
LEMMA CallbackStepBasic ==
    ASSUME BasicInv, NEW u \in Users, CallbackStep(u)
    PROVE  BasicInv'
  <1> USE DEF BasicInv
  <1>1. /\ u \in Threads /\ call[u] \in CallRecord
        /\ \/ call[u].op = "subscribe" /\ AddCallbackFunc(u)
           \/ call[u].op = "unsubscribe" /\ (RemoveCallbackFunc(u) \/ IsSubscribed(u))
        /\ UNCHANGED <<registeredInstanceCached, subscribes, serviceInfoMap, redoVars, connVars, serverVars,
                       asked, missed, calls>>
        /\ loose' \in {loose, loose \union {<<"sub", call[u].svc>>}}
    BY CallbackSteps
  <1>2. call[u].svc \in Services
    BY <1>1 DEF CallRecord
  <1>3. \/ Returns(u)
        \/ Goes(u, "check") /\ call[u].op = "subscribe"
        \/ (Goes(u, "isSub") \/ Goes(u, "stop")) /\ call[u].op = "unsubscribe"
    BY <1>1 DEF AddCallbackFunc, RemoveCallbackFunc, IsSubscribed
  <1>4. call' \in [Threads -> Call]
    BY <1>1, <1>3, CallsTyped DEF PCs
  <1>5. StepOfOp'
    <2>1. CASE Returns(u)
      <3>1. call'[u] = Idle /\ \A q \in Threads \ {u} : call'[q] = call[q]
        BY <1>1, <2>1, OneMoves
      <3> QED BY <3>1 DEF StepOfOp, Idle
    <2>2. ASSUME NEW pc \in {"check", "isSub", "stop"}, Goes(u, pc),
                 IF pc = "check" THEN call[u].op = "subscribe" ELSE call[u].op = "unsubscribe"
          PROVE  StepOfOp'
      <3>1. /\ call'[u].pc = pc /\ call'[u].op = call[u].op /\ call'[u].reg = call[u].reg
            /\ \A q \in Threads \ {u} : call'[q] = call[q]
        BY <1>1, <2>2, OneMoves
      <3> QED BY <2>2, <3>1 DEF StepOfOp
    <2> QED BY <1>3, <2>1, <2>2
  <1>6. callbacks' \in [Services -> SUBSET Users] /\ copy' \in [Users -> SUBSET Users]
    <2>1. copy[u] \subseteq Users
      BY DEF TypeOK
    <2> QED BY <1>1, <1>2, <2>1 DEF AddCallbackFunc, RemoveCallbackFunc, IsSubscribed, cacheVars, TypeOK
  <1>7. loose' \subseteq Kinds \X Services
    BY <1>1, <1>2 DEF TypeOK, Kinds
  <1> QED BY <1>1, <1>4, <1>5, <1>6, <1>7 DEF TypeOK, ServerForgets, redoVars, connVars, serverVars

(* So do the redo, the connection and the pushes. *)
LEMMA OthersBasic ==
    ASSUME BasicInv,
           RedoStep \/ Drop \/ Connect \/ CloseClient \/ (\E s \in Services : PushArrives(s))
    PROVE  BasicInv'
  <1> USE NamingAssumption DEF BasicInv
  <1>0. Redo \in Threads /\ NoRegistration \in Reg
    BY DEF Threads, Reg
  <1>1. CASE OnConnected
    <2>1. loose' \subseteq Kinds \X Services
      BY <1>1 DEF OnConnected, TypeOK, Kinds
    <2> QED BY <1>1, <2>1 DEF OnConnected, TypeOK, StepOfOp, ServerForgets, cacheVars, connVars, serverVars
  <1>2. CASE redoRegisterEachService
    <2>1. loose' \subseteq Kinds \X Services
      BY <1>2 DEF redoRegisterEachService, TypeOK, Kinds
    <2> QED BY <1>2, <2>1 DEF redoRegisterEachService, TypeOK, StepOfOp, ServerForgets, cacheVars, connVars,
                              serverVars
  <1>3. CASE RedoDone
    BY <1>3 DEF RedoDone, TypeOK, StepOfOp, ServerForgets, cacheVars, connVars, serverVars, history
  <1>4. ASSUME NEW s \in Services, redoSubscribe(s) PROVE BasicInv'
    <2>1. call' \in [Threads -> Call] /\ StepOfOp'
      BY <1>0, <1>4, StartsBasic DEF redoSubscribe, Ops, PCs
    <2> QED BY <1>4, <2>1 DEF redoSubscribe, TypeOK, ServerForgets, cacheVars, connVars, serverVars, history
  <1>5. ASSUME NEW s \in Services, redoRegister(s) PROVE BasicInv'
    <2>1. todoRegs[s] \in Reg /\ todoRegs' \in [Services -> Reg]
      BY <1>0, <1>5 DEF TypeOK, redoRegister
    <2>2. call' \in [Threads -> Call] /\ StepOfOp'
      BY <1>0, <1>5, <2>1, StartsBasic DEF redoRegister, Ops, PCs
    <2> QED BY <1>5, <2>1, <2>2 DEF redoRegister, TypeOK, ServerForgets, cacheVars, connVars, serverVars,
                                    history
  <1>6. CASE Drop
    <2>1. drops' \in 0..MaxDrops /\ Nothing \in [Services -> Reg]
      BY <1>0, <1>6 DEF Drop, TypeOK, Nothing
    <2> QED BY <1>6, <2>1 DEF Drop, TypeOK, StepOfOp, ServerForgets, cacheVars, redoVars, history
  <1>7. CASE Connect
    BY <1>7 DEF Connect, TypeOK, StepOfOp, ServerForgets, cacheVars, serverVars
  <1>8. CASE CloseClient
    <2>1. Nothing \in [Services -> Reg]
      BY <1>0 DEF Nothing
    <2> QED BY <1>8, <2>1 DEF CloseClient, TypeOK, StepOfOp, ServerForgets, cacheVars, redoVars, history
  <1>9. ASSUME NEW s \in Services, PushArrives(s) PROVE BasicInv'
    BY <1>9 DEF PushArrives, TypeOK, StepOfOp, ServerForgets, redoVars, connVars, serverVars, history
  <1> QED BY <1>1, <1>2, <1>3, <1>4, <1>5, <1>6, <1>7, <1>8, <1>9 DEF RedoStep

-----------------------------------------------------------------------------
(* Registrations. *)

(* Nothing that matters to the registration of service s happens. *)
RegFrame(s) ==
    /\ \A t \in Threads : RegCall(t, s) \/ RegCall(t, s)' => call'[t] = call[t]
    /\ asked'[s] = asked[s] /\ todoRegs'[s] = todoRegs[s]
    /\ registeredInstanceCached'[s] = registeredInstanceCached[s]
    /\ serverReg'[s] = serverReg[s]
    /\ connected' = connected /\ (event => event') /\ redo' = redo
    /\ <<"reg", s>> \in missed => <<"reg", s>> \in missed'
    /\ loose \subseteq loose'

(* A step that does nothing to the registration of s keeps what is known.  *)
LEMMA RegFrameKeeps ==
    ASSUME NEW s \in Services, RegFrame(s), <<"reg", s>> \notin loose => RegAgrees(s) /\ RegHeld(s)
    PROVE  (<<"reg", s>> \notin loose => RegAgrees(s) /\ RegHeld(s))'
  <1> SUFFICES ASSUME <<"reg", s>> \notin loose'
               PROVE  RegAgrees(s)' /\ RegHeld(s)'
    OBVIOUS
  <1>1. RegAgrees(s) /\ RegHeld(s)
    BY DEF RegFrame
  <1>2. \A t \in Threads : (RegCall(t, s)' <=> RegCall(t, s)) /\ (RegCall(t, s) => call'[t] = call[t])
    BY DEF RegFrame, RegCall
  <1>3. RegAgrees(s)'
    BY <1>1, <1>2 DEF RegFrame, RegAgrees
  <1>4. CachePending(s) => CachePending(s)'
    BY <1>2 DEF CachePending
  <1>5. RegPending(s) => RegPending(s)'
    BY <1>2 DEF RegPending, RegFrame
  <1>6. RegRedoLeft(s) => RegRedoLeft(s)'
    BY DEF RegRedoLeft, RegFrame
  <1> QED BY <1>1, <1>3, <1>4, <1>5, <1>6 DEF RegHeld, RegFrame

(* A call that asks for r: it brings cache and server there, and if it      *)
(* crosses nothing everybody else at work for the service agrees with it.   *)
LEMMA AsksKeepsReg ==
    ASSUME BasicInv, RegInv, NEW u \in Threads, NEW s \in Services, NEW r \in Reg, At(u, "idle"), Asks(s, r),
           \/ Starts(u, "register", s, r, "cache")
           \/ Starts(u, "deregister", s, NoRegistration, "request") /\ r = NoRegistration,
           UNCHANGED <<cacheVars, copy, redoVars, connVars, serverVars>>
    PROVE  RegInv'
  <1>1. /\ asked' = [asked EXCEPT ![s] = r] /\ missed' = missed
        /\ loose' = IF Crosses(s, r) THEN loose \union {<<"reg", s>>} ELSE loose
    BY DEF Asks
  <1>2. \A q \in Threads \ {u} : call'[q] = call[q]
    BY OneStarts DEF BasicInv
  <1>3. /\ call'[u].svc = s /\ call'[u].reg = r /\ call'[u].op \in RegOps /\ call'[u].pc \in {"cache", "request"}
        /\ call'[u].pc = "cache" \/ call'[u].op = "deregister"
    <2>1. CASE Starts(u, "register", s, r, "cache")
      <3>1. call'[u] = [op |-> "register", svc |-> s, reg |-> r, pc |-> "cache"]
        BY <2>1, OneStarts DEF BasicInv
      <3> QED BY <3>1 DEF RegOps
    <2>2. CASE Starts(u, "deregister", s, NoRegistration, "request") /\ r = NoRegistration
      <3>1. call'[u] = [op |-> "deregister", svc |-> s, reg |-> NoRegistration, pc |-> "request"]
        BY <2>2, OneStarts DEF BasicInv
      <3> QED BY <2>2, <3>1 DEF RegOps
    <2> QED BY <2>1, <2>2
  <1>4. call[u].op \notin RegOps
    BY DEF BasicInv, TypeOK, At, Call, PCs, Idle, RegOps
  <1> SUFFICES ASSUME NEW q \in Services
               PROVE  (<<"reg", q>> \notin loose => RegAgrees(q) /\ RegHeld(q))'
    BY DEF RegInv
  <1>5. CASE q # s
    <2>1. RegFrame(q)
      BY <1>1, <1>2, <1>3, <1>4, <1>5
      DEF RegFrame, RegCall, BasicInv, TypeOK, cacheVars, redoVars, connVars, serverVars
    <2> QED BY <2>1, RegFrameKeeps DEF RegInv
  <1>6. CASE q = s
    <2> SUFFICES ASSUME <<"reg", s>> \notin loose' PROVE RegAgrees(s)' /\ RegHeld(s)'
      BY <1>6
    <2>1. ~Crosses(s, r) /\ asked'[s] = r
      BY <1>1 DEF BasicInv, TypeOK
    <2>2. RegAgrees(s)'
      <3>1. \A t \in Threads : RegCall(t, s)' => call'[t].reg = r
        BY <1>2, <1>3, <2>1 DEF Crosses, RegCall
      <3>2. todoRegs'[s] \in {NoRegistration, r}
        BY <2>1 DEF Crosses, redoVars
      <3> QED BY <2>1, <3>1, <3>2 DEF RegAgrees
    <2>3. CachePending(s)' /\ RegPending(s)'
      BY <1>3 DEF CachePending, RegPending, RegCall
    <2> QED BY <2>2, <2>3 DEF RegHeld
  <1> QED BY <1>5, <1>6

(* A call of a user. *)
LEMMA UserCallsKeepReg ==
    ASSUME BasicInv, RegInv, NEW u \in Users, UserCalls(u)
    PROVE  RegInv'
  <1>0. u \in Threads /\ NoRegistration \in Reg
    BY DEF Threads, Reg
  <1>1. ASSUME NEW s \in Services, NEW i \in Instances, RegisterInstance(u, s, i) PROVE RegInv'
    <2>1. {i} \in Reg
      BY DEF Reg, Registrations
    <2> QED BY <1>0, <1>1, <2>1, AsksKeepsReg DEF RegisterInstance, Free
  <1>2. ASSUME NEW s \in Services, NEW i \in Instances, DeregisterInstance(u, s, i) PROVE RegInv'
    BY <1>0, <1>2, AsksKeepsReg DEF DeregisterInstance, Free
  <1>3. ASSUME NEW s \in Services, NEW b \in Batches, BatchRegisterInstance(u, s, b) PROVE RegInv'
    <2>1. b \in Reg
      BY DEF Reg, Registrations
    <2> QED BY <1>0, <1>3, <2>1, AsksKeepsReg DEF BatchRegisterInstance, Free
  <1>4. ASSUME NEW s \in Services, Subscribe(u, s) \/ GetService(u, s) \/ Unsubscribe(u, s) PROVE RegInv'
    <2>1. /\ \A q \in Threads \ {u} : call'[q] = call[q]
          /\ call'[u].op \notin RegOps
      <3>1. PICK op \in {"subscribe", "unsubscribe"}, pc \in PCs : Starts(u, op, s, NoRegistration, pc)
        BY <1>4 DEF Subscribe, GetService, Unsubscribe, PCs
      <3>2. /\ call'[u] = [op |-> op, svc |-> s, reg |-> NoRegistration, pc |-> pc]
            /\ \A q \in Threads \ {u} : call'[q] = call[q]
        BY <1>0, <3>1, OneStarts DEF BasicInv
      <3> QED BY <3>2 DEF RegOps
    <2>2. call[u].op \notin RegOps
      BY <1>0, <1>4 DEF Subscribe, GetService, Unsubscribe, Free, BasicInv, TypeOK, At, Call, PCs, Idle, RegOps
    <2>3. /\ UNCHANGED <<registeredInstanceCached, redoVars, connVars, serverVars, asked, missed>>
          /\ loose \subseteq loose'
      BY <1>4 DEF Subscribe, GetService, Unsubscribe, AsksFeed, cacheVars
    <2>4. \A q \in Services : RegFrame(q)
      BY <2>1, <2>2, <2>3 DEF RegFrame, RegCall, redoVars, connVars, serverVars
    <2> QED BY <2>4, RegFrameKeeps DEF RegInv
  <1> QED BY <1>1, <1>2, <1>3, <1>4 DEF UserCalls, UpdateInstance

(* A step of a call that registers or deregisters: the cache, then the     *)
(* server, or the other way round.                                         *)
LEMMA RegStepKeepsReg ==
    ASSUME BasicInv, RegInv, NEW t \in Threads, Step(t), call[t].op \in RegOps
    PROVE  RegInv'
  <1>0. call[t] \in CallRecord
    BY InProgress DEF BasicInv, Ops, RegOps
  <1> PICK s \in Services : s = call[t].svc
    BY <1>0 DEF CallRecord
  <1>1. call[t] \in CallRecord /\ s = call[t].svc /\ s \in Services /\ call[t].reg \in Reg
    BY <1>0 DEF CallRecord
  <1>2. \A q \in Threads \ {t} : call'[q] = call[q]
    <2>1. Returns(t) \/ (\E pc : Goes(t, pc))
      BY DEF Step, LocalStep, CacheInstanceForRedo, RemoveInstanceForRedo, DelegateSubscribe, CacheSubscriberForRedo,
             StopUpdateIfContain, RemoveSubscriberForRedo, RequestServed, RequestFails, Answered
    <2> QED BY <2>1, OneMoves DEF BasicInv
  <1>3. \/ CacheInstanceForRedo(t) \/ RemoveInstanceForRedo(t) \/ RequestServed(t) \/ RequestFails(t)
    BY DEF Step, LocalStep, BasicInv, StepOfOp, DelegateSubscribe, CacheSubscriberForRedo, StopUpdateIfContain,
           RemoveSubscriberForRedo, At, RegOps
  <1>4. /\ asked' = asked /\ loose' = loose /\ UNCHANGED <<redoVars, connVars>>
    BY <1>3 DEF CacheInstanceForRedo, RemoveInstanceForRedo, RequestServed, RequestFails, history
  <1>5. ASSUME NEW q \in Services, q # s
        PROVE  RegFrame(q)
    <2>1. serverReg'[q] = serverReg[q] /\ registeredInstanceCached'[q] = registeredInstanceCached[q]
      BY <1>1, <1>3, <1>5 DEF CacheInstanceForRedo, RemoveInstanceForRedo, RequestServed, RequestFails,
            Answered, Applied, BasicInv, TypeOK, serverVars, RegOps
    <2>2. <<"reg", q>> \in missed => <<"reg", q>> \in missed'
      BY <1>3, <1>5 DEF CacheInstanceForRedo, RemoveInstanceForRedo, RequestServed, RequestFails, history
    <2>3. ~RegCall(t, q) /\ ~RegCall(t, q)'
      <3>1. call'[t].svc = s \/ call'[t] = Idle
        BY <1>1, <1>3, OneMoves DEF CacheInstanceForRedo, RemoveInstanceForRedo, RequestServed, RequestFails,
              Answered, BasicInv
      <3> QED BY <1>5, <3>1 DEF RegCall, Idle, RegOps
    <2> QED BY <1>2, <1>4, <2>1, <2>2, <2>3 DEF RegFrame, redoVars, connVars
  <1>6. ASSUME <<"reg", s>> \notin loose
        PROVE  RegAgrees(s)' /\ RegHeld(s)'
    <2>1. RegAgrees(s) /\ RegHeld(s)
      BY <1>1, <1>6 DEF RegInv
    <2>2. call[t].reg = asked[s]
      BY <2>1 DEF RegAgrees, RegCall
    <2>3. RegAgrees(s)'
      <3>1. call'[t].reg = call[t].reg \/ call'[t] = Idle
        BY <1>1, <1>3, OneMoves DEF CacheInstanceForRedo, RemoveInstanceForRedo, RequestServed, RequestFails,
              Answered, BasicInv
      <3>2. \A q \in Threads : RegCall(q, s)' => call'[q].reg = asked[s]
        BY <1>2, <2>1, <2>2, <3>1 DEF RegAgrees, RegCall, Idle, RegOps
      <3> QED BY <1>4, <2>1, <3>2 DEF RegAgrees, redoVars
    <2>4. RegRedoLeft(s)' <=> RegRedoLeft(s)
      BY <1>4 DEF RegRedoLeft, redoVars, connVars
    <2>5. CASE CacheInstanceForRedo(t)
      <3>1. registeredInstanceCached'[s] = asked[s]
        BY <1>1, <2>2, <2>5 DEF CacheInstanceForRedo, BasicInv, TypeOK
      <3>2. call'[t].op = call[t].op /\ call'[t].svc = s /\ call'[t].pc = "request"
        BY <1>1, <2>5, OneMoves DEF CacheInstanceForRedo, BasicInv
      <3>3. RegPending(s)'
        BY <3>2 DEF RegPending, RegCall
      <3> QED BY <1>4, <2>3, <3>1, <3>3 DEF RegHeld
    <2>6. CASE RemoveInstanceForRedo(t)
      <3>1. asked[s] = NoRegistration
        BY <2>2, <2>6 DEF RemoveInstanceForRedo, At, BasicInv, StepOfOp
      <3>2. registeredInstanceCached'[s] = asked[s]
        BY <1>1, <2>6, <3>1 DEF RemoveInstanceForRedo, BasicInv, TypeOK
      <3>3. RegPending(s) => RegPending(s)'
        BY <1>2, <2>6 DEF RegPending, RegCall, RemoveInstanceForRedo, At, history
      <3>4. serverReg' = serverReg
        BY <2>6 DEF RemoveInstanceForRedo, serverVars
      <3> QED BY <1>4, <2>1, <2>3, <2>4, <3>2, <3>3, <3>4 DEF RegHeld
    <2>7. CASE RequestServed(t) \/ RequestFails(t)
      <3>1. At(t, "request") /\ (\E ok \in BOOLEAN : Answered(t, ok))
        BY <2>7 DEF RequestServed, RequestFails
      <3>2. registeredInstanceCached'[s] = asked[s] \/ CachePending(s)'
        <4>1. CASE registeredInstanceCached[s] = asked[s]
          BY <3>1, <4>1 DEF Answered
        <4>2. ASSUME NEW q \in Threads, RegCall(q, s), call[q].pc = "cache" \/ call[q].op = "deregister"
              PROVE  CachePending(s)'
          <5>1. CASE q # t
            BY <1>2, <4>2, <5>1 DEF CachePending, RegCall
          <5>2. CASE q = t
            <6>1. call[t].op = "deregister" /\ Goes(t, "remove")
              BY <3>1, <4>2, <5>2 DEF At, Answered
            <6>2. call'[t].op = "deregister" /\ call'[t].svc = s
              BY <1>1, <6>1, OneMoves DEF BasicInv
            <6> QED BY <6>2 DEF CachePending, RegCall, RegOps
          <5> QED BY <5>1, <5>2
        <4> QED BY <2>1, <4>1, <4>2 DEF RegHeld, CachePending
      <3>3. serverReg'[s] = asked[s] \/ RegPending(s)'
        <4>1. CASE RequestServed(t)
          BY <1>1, <2>2, <4>1 DEF RequestServed, Applied, BasicInv, TypeOK, RegOps
        <4>2. CASE RequestFails(t)
          BY <4>2 DEF RequestFails, Kind, RegPending
        <4> QED BY <2>7, <4>1, <4>2
      <3> QED BY <1>4, <2>3, <3>2, <3>3 DEF RegHeld
    <2> QED BY <1>3, <2>5, <2>6, <2>7
  <1>7. ASSUME NEW q \in Services
        PROVE  (<<"reg", q>> \notin loose => RegAgrees(q) /\ RegHeld(q))'
    <2>1. CASE q = s
      BY <1>4, <1>6, <2>1
    <2>2. CASE q # s
      BY <1>5, <2>2, RegFrameKeeps DEF RegInv
    <2> QED BY <2>1, <2>2
  <1> QED BY <1>7 DEF RegInv

(* A step of a call that subscribes or unsubscribes leaves registrations.  *)
LEMMA SubStepKeepsReg ==
    ASSUME BasicInv, RegInv, NEW t \in Threads, Step(t), call[t].op \notin RegOps
    PROVE  RegInv'
  <1>1. call[t].pc # "idle" /\ ~CacheInstanceForRedo(t) /\ ~RemoveInstanceForRedo(t)
    BY DEF Step, LocalStep, CacheInstanceForRedo, RemoveInstanceForRedo, DelegateSubscribe, CacheSubscriberForRedo,
           StopUpdateIfContain, RemoveSubscriberForRedo, RequestServed, RequestFails, At, BasicInv, StepOfOp,
           RegOps
  <1>2. call[t] \in CallRecord /\ call[t].op \in {"subscribe", "unsubscribe"}
    <2>1. call[t] \in CallRecord
      BY <1>1, InProgress DEF BasicInv
    <2> QED BY <2>1 DEF CallRecord, Ops, RegOps
  <1>3. /\ \A q \in Threads \ {t} : call'[q] = call[q]
        /\ call'[t].op \notin RegOps
    <2>1. Returns(t) \/ (\E pc : Goes(t, pc))
      BY DEF Step, LocalStep, CacheInstanceForRedo, RemoveInstanceForRedo, DelegateSubscribe, CacheSubscriberForRedo,
             StopUpdateIfContain, RemoveSubscriberForRedo, RequestServed, RequestFails, Answered
    <2>2. CASE Returns(t)
      BY <2>2, OneMoves DEF BasicInv, Idle, RegOps
    <2>3. ASSUME NEW pc, Goes(t, pc)
          PROVE  (\A q \in Threads \ {t} : call'[q] = call[q]) /\ call'[t].op = call[t].op
      BY <1>2, <2>3, OneMoves DEF BasicInv
    <2> QED BY <2>1, <2>2, <2>3
  <1>4. /\ UNCHANGED <<registeredInstanceCached, redoVars, connVars, asked, loose>>
        /\ serverReg' = serverReg
        /\ \A q \in Services : <<"reg", q>> \in missed => <<"reg", q>> \in missed'
    <2>1. CASE DelegateSubscribe(t) \/ CacheSubscriberForRedo(t) \/ StopUpdateIfContain(t)
                 \/ RemoveSubscriberForRedo(t)
      BY <2>1 DEF DelegateSubscribe, CacheSubscriberForRedo, StopUpdateIfContain, RemoveSubscriberForRedo,
                  cacheVars, serverVars, history
    <2>2. CASE RequestServed(t) \/ RequestFails(t)
      <3>1. serverReg' = serverReg
        BY <1>2, <2>2 DEF RequestServed, RequestFails, Applied, serverVars, RegOps
      <3>2. Kind(call[t]) = "sub"
        BY DEF Kind
      <3> QED BY <2>2, <3>1, <3>2 DEF RequestServed, RequestFails, Answered
    <2> QED BY <1>1, <2>1, <2>2 DEF Step, LocalStep
  <1>5. \A q \in Services : RegFrame(q)
    BY <1>3, <1>4 DEF RegFrame, RegCall, redoVars, connVars
  <1> QED BY <1>5, RegFrameKeeps DEF RegInv

(* A step at the list of callbacks. *)
LEMMA CallbackStepKeepsReg ==
    ASSUME BasicInv, RegInv, NEW u \in Users, CallbackStep(u)
    PROVE  RegInv'
  <1>1. /\ call[u].op \in {"subscribe", "unsubscribe"}
        /\ UNCHANGED <<registeredInstanceCached, redoVars, connVars, serverVars, asked, missed>>
        /\ loose \subseteq loose'
        /\ \A q \in Threads \ {u} : call'[q] = call[q]
        /\ call'[u] = Idle \/ call'[u].op = call[u].op
    BY CallbackSteps
  <1>2. \A q \in Services : RegFrame(q)
    BY <1>1 DEF RegFrame, RegCall, Idle, RegOps, redoVars, connVars, serverVars
  <1> QED BY <1>2, RegFrameKeeps DEF RegInv

(* The redo, the connection and the pushes. *)
LEMMA OthersKeepReg ==
    ASSUME BasicInv, RegInv,
           RedoStep \/ Drop \/ Connect \/ CloseClient \/ (\E s \in Services : PushArrives(s))
    PROVE  RegInv'
  <1>0. Redo \in Threads
    BY DEF Threads
  <1>1. CASE OnConnected
    <2>1. ASSUME NEW s \in Services, <<"reg", s>> \notin loose'
          PROVE  RegAgrees(s)' /\ RegHeld(s)'
      <3>1. RegAgrees(s) /\ RegHeld(s)
        BY <1>1, <2>1 DEF RegInv, OnConnected
      <3>2. RegAgrees(s)'
        BY <1>1, <3>1 DEF OnConnected, RegAgrees, RegCall
      <3>3. CachePending(s) => CachePending(s)'
        BY <1>1 DEF OnConnected, CachePending, RegCall
      <3>4. RegPending(s) => RegPending(s)'
        BY <1>1 DEF OnConnected, RegPending, RegCall
      <3>5. RegRedoLeft(s)'
        BY <1>1 DEF OnConnected, RegRedoLeft
      <3> QED BY <1>1, <3>1, <3>2, <3>3, <3>4, <3>5 DEF OnConnected, RegHeld, cacheVars, serverVars
    <2> QED BY <2>1 DEF RegInv
  <1>2. CASE redoRegisterEachService
    <2>1. ASSUME NEW s \in Services, <<"reg", s>> \notin loose'
          PROVE  RegAgrees(s)' /\ RegHeld(s)'
      <3>1. RegAgrees(s) /\ RegHeld(s) /\ registeredInstanceCached[s] \in {NoRegistration, asked[s]}
        BY <1>2, <2>1 DEF RegInv, redoRegisterEachService
      <3>2. todoRegs'[s] = registeredInstanceCached[s]
        BY <1>2 DEF redoRegisterEachService
      <3>3. RegAgrees(s)'
        BY <1>2, <3>1, <3>2 DEF redoRegisterEachService, RegAgrees, RegCall
      <3>4. CachePending(s) <=> CachePending(s)'
        BY <1>2 DEF redoRegisterEachService, CachePending, RegCall
      <3>5. RegPending(s) <=> RegPending(s)'
        BY <1>2 DEF redoRegisterEachService, RegPending, RegCall
      <3>6. serverReg[s] = asked[s] \/ RegPending(s) \/ RegRedoLeft(s)'
        <4>1. CASE registeredInstanceCached[s] # NoRegistration
          BY <3>2, <4>1 DEF RegRedoLeft
        <4>2. CASE registeredInstanceCached[s] = NoRegistration /\ asked[s] = NoRegistration
          BY <3>1, <4>2 DEF RegHeld
        <4>3. CASE registeredInstanceCached[s] = NoRegistration /\ asked[s] # NoRegistration
          <5>1. PICK t \in Threads : RegCall(t, s) /\ (call[t].pc = "cache" \/ call[t].op = "deregister")
            BY <3>1, <4>3 DEF RegHeld, CachePending
          <5>2. call[t].reg # NoRegistration
            BY <3>1, <4>3, <5>1 DEF RegAgrees
          <5>3. call[t].pc = "cache"
            BY <5>1, <5>2 DEF BasicInv, StepOfOp
          <5> QED BY <5>1, <5>3 DEF RegPending
        <4> QED BY <4>1, <4>2, <4>3
      <3> QED BY <1>2, <3>1, <3>3, <3>4, <3>5, <3>6 DEF redoRegisterEachService, RegHeld, cacheVars, serverVars
    <2> QED BY <2>1 DEF RegInv
  <1>3. CASE RedoDone
    <2>1. ASSUME NEW s \in Services, <<"reg", s>> \notin loose'
          PROVE  RegAgrees(s)' /\ RegHeld(s)'
      <3>1. RegAgrees(s) /\ RegHeld(s)
        BY <1>3, <2>1 DEF RegInv, RedoDone, history
      <3>2. RegAgrees(s)'
        BY <1>3, <3>1 DEF RedoDone, RegAgrees, RegCall, history
      <3>3. (CachePending(s) => CachePending(s)') /\ (RegPending(s) => RegPending(s)')
        BY <1>3 DEF RedoDone, CachePending, RegPending, RegCall, history
      <3>4. RegRedoLeft(s) => RegRedoLeft(s)'
        BY <1>3 DEF RedoDone, RegRedoLeft, connVars
      <3> QED BY <1>3, <3>1, <3>2, <3>3, <3>4 DEF RedoDone, RegHeld, cacheVars, serverVars, history
    <2> QED BY <2>1 DEF RegInv
  <1>4. ASSUME NEW s \in Services, redoSubscribe(s) PROVE RegInv'
    <2>1. call[Redo].op \notin RegOps
      BY <1>0, <1>4 DEF redoSubscribe, At, BasicInv, TypeOK, Call, PCs, Idle, RegOps
    <2>2. /\ \A q \in Threads \ {Redo} : call'[q] = call[q]
          /\ call'[Redo].op \notin RegOps
      <3>1. Starts(Redo, "subscribe", s, NoRegistration, "cacheSub")
        BY <1>4 DEF redoSubscribe
      <3>2. /\ call'[Redo] = [op |-> "subscribe", svc |-> s, reg |-> NoRegistration, pc |-> "cacheSub"]
            /\ \A q \in Threads \ {Redo} : call'[q] = call[q]
        BY <1>0, <3>1, OneStarts DEF BasicInv
      <3> QED BY <3>2 DEF RegOps
    <2>3. \A q \in Services : RegFrame(q)
      BY <1>4, <2>1, <2>2 DEF redoSubscribe, RegFrame, RegCall, cacheVars, connVars, serverVars, history
    <2> QED BY <2>3, RegFrameKeeps DEF RegInv
  <1>5. ASSUME NEW s \in Services, redoRegister(s) PROVE RegInv'
    <2>1. call[Redo].op \notin RegOps
      BY <1>0, <1>5 DEF redoRegister, At, BasicInv, TypeOK, Call, PCs, Idle, RegOps
    <2>2. /\ \A q \in Threads \ {Redo} : call'[q] = call[q]
          /\ call'[Redo] = [op |-> "register", svc |-> s, reg |-> todoRegs[s], pc |-> "cache"]
      BY <1>0, <1>5, OneStarts DEF redoRegister, BasicInv
    <2>3. /\ UNCHANGED <<event, redo, registeredInstanceCached, connected, serverReg, asked, missed, loose>>
          /\ todoRegs' = [todoRegs EXCEPT ![s] = NoRegistration] /\ todoRegs[s] # NoRegistration
      BY <1>5 DEF redoRegister, cacheVars, connVars, serverVars, history
    <2>4. ASSUME NEW q \in Services, q # s PROVE RegFrame(q)
      BY <2>1, <2>2, <2>3, <2>4 DEF RegFrame, RegCall, BasicInv, TypeOK
    <2>5. ASSUME <<"reg", s>> \notin loose PROVE RegAgrees(s)' /\ RegHeld(s)'
      <3>1. RegAgrees(s) /\ RegHeld(s)
        BY <2>5 DEF RegInv
      <3>2. RegAgrees(s)'
        BY <2>2, <2>3, <3>1 DEF RegAgrees, RegCall, BasicInv, TypeOK
      <3>3. CachePending(s)' /\ RegPending(s)'
        BY <1>0, <2>2 DEF CachePending, RegPending, RegCall, RegOps
      <3> QED BY <3>2, <3>3 DEF RegHeld
    <2>6. ASSUME NEW q \in Services
          PROVE  (<<"reg", q>> \notin loose => RegAgrees(q) /\ RegHeld(q))'
      <3>1. CASE q = s
        BY <2>3, <2>5, <3>1
      <3>2. CASE q # s
        BY <2>4, <3>2, RegFrameKeeps DEF RegInv
      <3> QED BY <3>1, <3>2
    <2> QED BY <2>6 DEF RegInv
  <1>6. CASE Drop \/ CloseClient
    <2>1. /\ connected' = FALSE /\ serverReg' = Nothing
          /\ UNCHANGED <<registeredInstanceCached, call, todoRegs, asked, loose, missed>>
      BY <1>6 DEF Drop, CloseClient, cacheVars, redoVars, history
    <2>2. ASSUME NEW s \in Services, <<"reg", s>> \notin loose'
          PROVE  RegAgrees(s)' /\ RegHeld(s)'
      <3>1. RegAgrees(s) /\ RegHeld(s)
        BY <2>1, <2>2 DEF RegInv
      <3>2. RegAgrees(s)'
        BY <2>1, <3>1 DEF RegAgrees, RegCall
      <3>3. CachePending(s) => CachePending(s)'
        BY <2>1 DEF CachePending, RegCall
      <3>4. RegRedoLeft(s)' /\ serverReg'[s] = NoRegistration
        BY <2>1 DEF RegRedoLeft, Nothing
      <3> QED BY <2>1, <3>1, <3>2, <3>3, <3>4 DEF RegHeld
    <2> QED BY <2>2 DEF RegInv
  <1>7. CASE Connect
    <2>1. /\ event' = TRUE /\ serverReg = Nothing
          /\ UNCHANGED <<registeredInstanceCached, call, todoRegs, serverReg, asked, loose>>
      BY <1>7 DEF Connect, cacheVars, serverVars, BasicInv, ServerForgets
    <2>2. ASSUME NEW s \in Services, <<"reg", s>> \notin loose'
          PROVE  RegAgrees(s)' /\ RegHeld(s)'
      <3>1. RegAgrees(s) /\ RegHeld(s)
        BY <2>1, <2>2 DEF RegInv
      <3>2. RegAgrees(s)'
        BY <2>1, <3>1 DEF RegAgrees, RegCall
      <3>3. CachePending(s) => CachePending(s)'
        BY <2>1 DEF CachePending, RegCall
      <3>4. RegRedoLeft(s)' /\ serverReg'[s] = NoRegistration
        BY <2>1 DEF RegRedoLeft, Nothing
      <3> QED BY <2>1, <3>1, <3>2, <3>3, <3>4 DEF RegHeld
    <2> QED BY <2>2 DEF RegInv
  <1>8. ASSUME NEW s \in Services, PushArrives(s) PROVE RegInv'
    <2>1. \A q \in Services : RegFrame(q)
      BY <1>8 DEF PushArrives, RegFrame, RegCall, redoVars, connVars, serverVars, history
    <2> QED BY <2>1, RegFrameKeeps DEF RegInv
  <1> QED BY <1>1, <1>2, <1>3, <1>4, <1>5, <1>6, <1>7, <1>8 DEF RedoStep

-----------------------------------------------------------------------------
(* Subscriptions. *)

FeedCall(t, s) == SubCall(t, s) \/ UnsubCall(t, s)

(* Nothing that matters to the subscription of service s happens. *)
SubFrame(s) ==
    /\ \A t \in Threads : FeedCall(t, s) \/ FeedCall(t, s)' => call'[t] = call[t]
    /\ callbacks'[s] = callbacks[s]
    /\ s \in subscribes' <=> s \in subscribes
    /\ s \in serverSub' <=> s \in serverSub
    /\ s \in todoSubs' <=> s \in todoSubs
    /\ ~connected \/ event => ~connected' \/ event'
    /\ <<"sub", s>> \in missed => <<"sub", s>> \in missed'
    /\ loose \subseteq loose'

(* A step that does nothing to the subscription of s keeps what is known. *)
LEMMA SubFrameKeeps ==
    ASSUME NEW s \in Services, SubFrame(s), <<"sub", s>> \notin loose => UnsubAlone(s) /\ SubHeld(s)
    PROVE  (<<"sub", s>> \notin loose => UnsubAlone(s) /\ SubHeld(s))'
  <1> SUFFICES ASSUME <<"sub", s>> \notin loose'
               PROVE  UnsubAlone(s)' /\ SubHeld(s)'
    OBVIOUS
  <1>1. UnsubAlone(s) /\ SubHeld(s)
    BY DEF SubFrame
  <1>2. \A t \in Threads : /\ SubCall(t, s)' <=> SubCall(t, s)
                           /\ UnsubCall(t, s)' <=> UnsubCall(t, s)
                           /\ FeedCall(t, s) => call'[t] = call[t]
    BY DEF SubFrame, FeedCall, SubCall, UnsubCall
  <1>3. Subscribing(s)' <=> Subscribing(s)
    BY <1>2 DEF SubFrame, Subscribing, SubCall
  <1>4. UnsubAlone(s)'
    BY <1>1, <1>2, <1>3 DEF UnsubAlone, SubFrame, FeedCall
  <1>5. SubPending(s) => SubPending(s)'
    BY <1>2 DEF SubPending, SubFrame, FeedCall
  <1>6. ASSUME NEW u \in Users, SubCall(u, s) /\ call[u].pc \in {"check", "cacheSub"}
        PROVE  SubCall(u, s)' /\ call'[u].pc \in {"check", "cacheSub"}
    BY <1>2, <1>6 DEF FeedCall, Threads
  <1> QED BY <1>1, <1>4, <1>5, <1>6 DEF SubHeld, SubFed, SubFrame

(* Who subscribes, seen by an Unsubscribe. *)
LEMMA SubscribingDef ==
    \A s : Subscribing(s) <=> s \in todoSubs \/ \E t \in Threads : SubCall(t, s)
  BY DEF Subscribing, SubCall

(* A call of a user. *)
LEMMA UserCallsKeepSub ==
    ASSUME BasicInv, SubInv, NEW u \in Users, UserCalls(u)
    PROVE  SubInv'
  <1>0. u \in Threads /\ call[u] = Idle
    <2>1. u \in Threads /\ At(u, "idle")
      BY DEF Threads, UserCalls, UpdateInstance, RegisterInstance, DeregisterInstance, BatchRegisterInstance,
             Subscribe, GetService, Unsubscribe, Free
    <2> QED BY <2>1 DEF At, BasicInv, TypeOK, Call, PCs
  <1>1. ASSUME NEW s \in Services, NEW r, Asks(s, r),
               \E op \in RegOps : \E pc : Starts(u, op, s, r, pc),
               UNCHANGED <<cacheVars, copy, redoVars, connVars, serverVars>>
        PROVE  SubInv'
    <2>0. PICK op \in RegOps : \E pc : Starts(u, op, s, r, pc)
      BY <1>1
    <2>1. PICK pc : Starts(u, op, s, r, pc)
      BY <2>0
    <2>2. /\ call'[u] = [op |-> op, svc |-> s, reg |-> r, pc |-> pc]
          /\ \A q \in Threads \ {u} : call'[q] = call[q]
      BY <1>0, <2>1, OneStarts DEF BasicInv
    <2>3. call'[u].op \in RegOps
      BY <2>2
    <2>4. \A q \in Services : ~FeedCall(u, q) /\ ~FeedCall(u, q)'
      BY <1>0, <2>3 DEF FeedCall, SubCall, UnsubCall, Idle, RegOps
    <2>5. loose \subseteq loose' /\ missed' = missed
      BY <1>1 DEF Asks
    <2>6. \A q \in Services : SubFrame(q)
      BY <1>1, <2>2, <2>4, <2>5 DEF SubFrame, cacheVars, redoVars, connVars, serverVars
    <2> QED BY <2>6, SubFrameKeeps DEF SubInv
  <1>2. ASSUME NEW s \in Services, NEW i \in Instances, RegisterInstance(u, s, i) PROVE SubInv'
    BY <1>1, <1>2 DEF RegisterInstance, RegOps
  <1>3. ASSUME NEW s \in Services, NEW i \in Instances, DeregisterInstance(u, s, i) PROVE SubInv'
    BY <1>1, <1>3 DEF DeregisterInstance, RegOps
  <1>4. ASSUME NEW s \in Services, NEW b \in Batches, BatchRegisterInstance(u, s, b) PROVE SubInv'
    BY <1>1, <1>4 DEF BatchRegisterInstance, RegOps
  <1>5. ASSUME NEW s \in Services, Subscribe(u, s) \/ GetService(u, s) \/ Unsubscribe(u, s)
        PROVE  SubInv'
    <2>1. /\ UNCHANGED <<subscribes, callbacks, redoVars, connVars, serverVars, missed>>
          /\ loose \subseteq loose'
      BY <1>5 DEF Subscribe, GetService, Unsubscribe, AsksFeed, cacheVars
    <2>2. /\ \A q \in Threads \ {u} : call'[q] = call[q]
          /\ call'[u].svc = s
      <3>1. PICK op, pc : Starts(u, op, s, NoRegistration, pc)
        BY <1>5 DEF Subscribe, GetService, Unsubscribe
      <3>2. /\ call'[u] = [op |-> op, svc |-> s, reg |-> NoRegistration, pc |-> pc]
            /\ \A q \in Threads \ {u} : call'[q] = call[q]
        BY <1>0, <3>1, OneStarts DEF BasicInv
      <3> QED BY <3>2
    <2>3. \A q \in Services : ~FeedCall(u, q)
      BY <1>0 DEF FeedCall, SubCall, UnsubCall, Idle
    <2>4. ASSUME NEW q \in Services, q # s PROVE SubFrame(q)
      BY <2>1, <2>2, <2>3, <2>4 DEF SubFrame, FeedCall, SubCall, UnsubCall, redoVars, connVars, serverVars
    <2>5. SubPending(s) => SubPending(s)'
      BY <2>1, <2>2, <2>3 DEF SubPending, SubCall, FeedCall, redoVars, connVars
    <2>6. SubFed(s) => SubFed(s)'
      BY <1>0, <2>1, <2>2, <2>3 DEF SubFed, SubCall, FeedCall, Threads
    <2>7. ASSUME <<"sub", s>> \notin loose' PROVE UnsubAlone(s)' /\ SubHeld(s)'
      <3>1. UnsubAlone(s) /\ SubHeld(s)
        BY <2>1, <2>7 DEF SubInv
      <3>2. s \in subscribes' => s \in serverSub' \/ SubPending(s)'
        BY <2>1, <2>5, <3>1 DEF SubHeld, serverVars
      <3>3. CASE Subscribe(u, s) \/ GetService(u, s)
        <4>1. ~Unsubscribing(s)
          BY <2>7, <3>3 DEF Subscribe, GetService, AsksFeed
        <4>2. \A t \in Threads : ~UnsubCall(t, s)
          BY <3>1, <4>1 DEF UnsubAlone, Unsubscribing, UnsubCall
        <4>3. PICK pc : Starts(u, "subscribe", s, NoRegistration, pc)
          BY <3>3 DEF Subscribe, GetService
        <4>4. call'[u] = [op |-> "subscribe", svc |-> s, reg |-> NoRegistration, pc |-> pc]
          BY <1>0, <4>3, OneStarts DEF BasicInv
        <4>5. \A t \in Threads : ~UnsubCall(t, s)'
          BY <2>2, <4>2, <4>4 DEF UnsubCall
        <4> QED BY <2>6, <3>1, <3>2, <4>5 DEF UnsubAlone, SubHeld
      <3>4. CASE Unsubscribe(u, s)
        <4>1. ~Subscribing(s) /\ Starts(u, "unsubscribe", s, NoRegistration, "removeCb")
          BY <2>7, <3>4 DEF Unsubscribe, AsksFeed
        <4>2. \A t \in Threads : ~SubCall(t, s)
          BY <4>1, SubscribingDef
        <4>3. call'[u] = [op |-> "unsubscribe", svc |-> s, reg |-> NoRegistration, pc |-> "removeCb"]
          BY <1>0, <4>1, OneStarts DEF BasicInv
        <4>4. call'[u].op = "unsubscribe" /\ call'[u].pc = "removeCb"
          BY <4>3
        <4>5. \A t \in Threads : ~SubCall(t, s)'
          BY <2>2, <4>2, <4>4 DEF SubCall
        <4>6. ~Subscribing(s)'
          BY <2>1, <4>1, <4>5 DEF Subscribing, SubCall, redoVars
        <4>7. UnsubAlone(s)'
          <5> SUFFICES ASSUME NEW t \in Threads, UnsubCall(t, s)'
                       PROVE  /\ t \in Users
                              /\ call'[t].pc \in {"stop", "removeSub", "request"} => callbacks'[s] = {}
                              /\ call'[t].pc = "request" => s \notin subscribes'
            BY <4>6 DEF UnsubAlone
          <5>1. CASE t = u
            BY <4>4, <5>1
          <5>2. CASE t # u
            BY <2>1, <2>2, <3>1, <5>2 DEF UnsubAlone, UnsubCall
          <5> QED BY <5>1, <5>2
        <4> QED BY <2>6, <3>1, <3>2, <4>7 DEF SubHeld
      <3> QED BY <1>5, <3>3, <3>4
    <2>8. ASSUME NEW q \in Services
          PROVE  (<<"sub", q>> \notin loose => UnsubAlone(q) /\ SubHeld(q))'
      <3>1. CASE q = s
        BY <2>7, <3>1
      <3>2. CASE q # s
        BY <2>4, <3>2, SubFrameKeeps DEF SubInv
      <3> QED BY <3>1, <3>2
    <2> QED BY <2>8 DEF SubInv
  <1> QED BY <1>2, <1>3, <1>4, <1>5 DEF UserCalls, UpdateInstance

(* A step of a call that registers or deregisters leaves subscriptions. *)
LEMMA RegStepKeepsSub ==
    ASSUME BasicInv, SubInv, NEW t \in Threads, Step(t), call[t].op \in RegOps
    PROVE  SubInv'
  <1>0. call[t] \in CallRecord
    BY InProgress DEF BasicInv, Ops, RegOps
  <1>1. \/ CacheInstanceForRedo(t) \/ RemoveInstanceForRedo(t) \/ RequestServed(t) \/ RequestFails(t)
    BY DEF Step, LocalStep, BasicInv, StepOfOp, DelegateSubscribe, CacheSubscriberForRedo, StopUpdateIfContain,
           RemoveSubscriberForRedo, At, RegOps
  <1>2. /\ \A q \in Threads \ {t} : call'[q] = call[q]
        /\ call'[t].op \in RegOps \/ call'[t] = Idle
    <2>1. Returns(t) \/ (\E pc : Goes(t, pc))
      BY <1>1 DEF CacheInstanceForRedo, RemoveInstanceForRedo, RequestServed, RequestFails, Answered
    <2>2. CASE Returns(t)
      BY <2>2, OneMoves DEF BasicInv
    <2>3. ASSUME NEW pc, Goes(t, pc)
          PROVE  (\A q \in Threads \ {t} : call'[q] = call[q]) /\ call'[t].op = call[t].op
      BY <1>0, <2>3, OneMoves DEF BasicInv
    <2> QED BY <2>1, <2>2, <2>3
  <1>3. \A q \in Services : ~FeedCall(t, q) /\ ~FeedCall(t, q)'
    BY <1>2 DEF FeedCall, SubCall, UnsubCall, Idle, RegOps
  <1>4. UNCHANGED <<subscribes, callbacks, redoVars, connVars, loose, serverSub>>
    BY <1>1 DEF CacheInstanceForRedo, RemoveInstanceForRedo, RequestServed, RequestFails, Answered, Applied,
                serverVars, history, RegOps
  <1>5. \A q \in Services : <<"sub", q>> \in missed => <<"sub", q>> \in missed'
    <2>1. Kind(call[t]) = "reg"
      BY DEF Kind
    <2> QED BY <1>1, <2>1 DEF CacheInstanceForRedo, RemoveInstanceForRedo, RequestServed, RequestFails, history
  <1>6. \A q \in Services : SubFrame(q)
    BY <1>2, <1>3, <1>4, <1>5 DEF SubFrame, redoVars, connVars
  <1> QED BY <1>6, SubFrameKeeps DEF SubInv

(* A step of a call that subscribes or unsubscribes. *)
LEMMA SubStepKeepsSub ==
    ASSUME BasicInv, SubInv, NEW t \in Threads, Step(t), call[t].op \notin RegOps
    PROVE  SubInv'
  <1>0. /\ \/ DelegateSubscribe(t) \/ CacheSubscriberForRedo(t) \/ StopUpdateIfContain(t)
           \/ RemoveSubscriberForRedo(t) \/ RequestServed(t) \/ RequestFails(t)
        /\ call[t].pc # "idle"
    BY DEF Step, LocalStep, CacheInstanceForRedo, RemoveInstanceForRedo, DelegateSubscribe, CacheSubscriberForRedo,
           StopUpdateIfContain, RemoveSubscriberForRedo, RequestServed, RequestFails, At, BasicInv, StepOfOp,
           RegOps
  <1>1. call[t] \in CallRecord /\ call[t].op \in {"subscribe", "unsubscribe"}
    <2>1. call[t] \in CallRecord
      BY <1>0, InProgress DEF BasicInv
    <2> QED BY <2>1 DEF CallRecord, Ops, RegOps
  <1> PICK s \in Services : s = call[t].svc
    BY <1>1 DEF CallRecord
  <1>2. /\ \A q \in Threads \ {t} : call'[q] = call[q]
        /\ call'[t] = Idle \/ (call'[t].op = call[t].op /\ call'[t].svc = s)
    <2>1. Returns(t) \/ (\E pc : Goes(t, pc))
      BY <1>0 DEF DelegateSubscribe, CacheSubscriberForRedo, StopUpdateIfContain, RemoveSubscriberForRedo,
                  RequestServed, RequestFails, Answered
    <2>2. CASE Returns(t)
      BY <2>2, OneMoves DEF BasicInv
    <2>3. ASSUME NEW pc, Goes(t, pc)
          PROVE  /\ \A q \in Threads \ {t} : call'[q] = call[q]
                 /\ call'[t].op = call[t].op /\ call'[t].svc = s
      BY <1>1, <2>3, OneMoves DEF BasicInv
    <2> QED BY <2>1, <2>2, <2>3
  <1>3. UNCHANGED <<callbacks, redoVars, connVars, loose>>
    BY <1>0 DEF DelegateSubscribe, CacheSubscriberForRedo, StopUpdateIfContain, RemoveSubscriberForRedo,
                RequestServed, RequestFails, Answered, cacheVars, history
  <1>4. ASSUME NEW q \in Services, q # s PROVE SubFrame(q)
    <2>1. /\ q \in subscribes' <=> q \in subscribes
          /\ q \in serverSub' <=> q \in serverSub
      <3>1. CASE DelegateSubscribe(t) \/ StopUpdateIfContain(t)
        BY <3>1 DEF DelegateSubscribe, StopUpdateIfContain, cacheVars, serverVars
      <3>2. CASE CacheSubscriberForRedo(t) \/ RemoveSubscriberForRedo(t)
        BY <1>4, <3>2 DEF CacheSubscriberForRedo, RemoveSubscriberForRedo, serverVars
      <3>3. CASE RequestServed(t) \/ RequestFails(t)
        <4>1. subscribes' = subscribes /\ (UNCHANGED serverVars \/ Applied(call[t]))
          BY <3>3 DEF RequestServed, RequestFails, Answered
        <4>2. CASE UNCHANGED serverVars
          BY <4>1, <4>2 DEF serverVars
        <4>3. CASE Applied(call[t])
          <5>1. \/ serverSub' = serverSub \union {s}
                \/ serverSub' = serverSub \ {s}
            <6>1. CASE call[t].op = "subscribe"
              BY <4>3, <6>1 DEF Applied, RegOps
            <6>2. CASE call[t].op = "unsubscribe"
              BY <4>3, <6>2 DEF Applied, RegOps
            <6> QED BY <1>1, <6>1, <6>2
          <5> QED BY <1>4, <4>1, <5>1
        <4> QED BY <4>1, <4>2, <4>3
      <3> QED BY <1>0, <3>1, <3>2, <3>3
    <2>2. <<"sub", q>> \in missed => <<"sub", q>> \in missed'
      BY <1>0, <1>4 DEF DelegateSubscribe, CacheSubscriberForRedo, StopUpdateIfContain, RemoveSubscriberForRedo,
                        RequestServed, RequestFails, history
    <2>3. ~FeedCall(t, q) /\ ~FeedCall(t, q)'
      BY <1>2, <1>4 DEF FeedCall, SubCall, UnsubCall, Idle
    <2> QED BY <1>2, <1>3, <2>1, <2>2, <2>3 DEF SubFrame, redoVars, connVars
  <1>5. ASSUME <<"sub", s>> \notin loose PROVE UnsubAlone(s)' /\ SubHeld(s)'
    <2>1. UnsubAlone(s) /\ SubHeld(s)
      BY <1>5 DEF SubInv
    <2>2. CASE call[t].op = "subscribe"
      <3>1. SubCall(t, s)
        BY <2>2 DEF SubCall
      <3>2. UnsubAlone(s)'
        <4>1. \A q \in Threads : ~UnsubCall(q, s)
          BY <2>1, <3>1, SubscribingDef DEF UnsubAlone
        <4>2. \A q \in Threads : ~UnsubCall(q, s)'
          BY <1>2, <2>2, <4>1 DEF UnsubCall, Idle
        <4> QED BY <4>2 DEF UnsubAlone
      <3>3. CASE DelegateSubscribe(t)
        <4>1. UNCHANGED <<subscribes, serverSub, missed>> /\ call[t].pc = "check"
          BY <3>3 DEF DelegateSubscribe, cacheVars, serverVars, history, At
        <4>2. SubPending(s) => SubPending(s)'
          BY <1>2, <1>3, <4>1 DEF SubPending, SubCall, redoVars, connVars
        <4>3. CASE s \in subscribes
          BY <2>1, <4>1, <4>2, <4>3, <3>2 DEF SubHeld, SubFed
        <4>4. CASE s \notin subscribes
          <5>1. Goes(t, "cacheSub")
            BY <3>3, <4>4 DEF DelegateSubscribe
          <5>2. call'[t].pc = "cacheSub" /\ SubCall(t, s)'
            BY <1>1, <2>2, <5>1, OneMoves DEF BasicInv, SubCall
          <5>3. ASSUME NEW u \in Users, SubCall(u, s) /\ call[u].pc \in {"check", "cacheSub"}
                PROVE  SubCall(u, s)' /\ call'[u].pc \in {"check", "cacheSub"}
            BY <1>2, <5>2, <5>3 DEF SubCall, Threads
          <5> QED BY <1>3, <2>1, <3>2, <4>1, <4>4, <5>3 DEF SubHeld, SubFed
        <4> QED BY <4>3, <4>4
      <3>4. CASE CacheSubscriberForRedo(t)
        <4>1. s \in subscribes' /\ Goes(t, "request")
          BY <3>4 DEF CacheSubscriberForRedo
        <4>2. call'[t].pc = "request" /\ SubCall(t, s)'
          BY <1>1, <2>2, <4>1, OneMoves DEF BasicInv, SubCall
        <4> QED BY <3>2, <4>1, <4>2 DEF SubHeld, SubFed, SubPending
      <3>5. CASE RequestServed(t) \/ RequestFails(t)
        <4>1. call[t].pc = "request" /\ subscribes' = subscribes
          BY <3>5 DEF RequestServed, RequestFails, At, Answered
        <4>2. callbacks'[s] # {} => \/ s \in subscribes'
                                    \/ \E u \in Users : SubCall(u, s)' /\ call'[u].pc \in {"check", "cacheSub"}
          <5>1. ASSUME NEW u \in Users, SubCall(u, s) /\ call[u].pc \in {"check", "cacheSub"}
                PROVE  SubCall(u, s)' /\ call'[u].pc \in {"check", "cacheSub"}
            BY <1>2, <4>1, <5>1 DEF SubCall, Threads
          <5> QED BY <1>3, <2>1, <4>1, <5>1 DEF SubHeld, SubFed
        <4>3. s \in serverSub' \/ <<"sub", s>> \in missed'
          BY <2>2, <3>5 DEF RequestServed, RequestFails, Applied, Kind, RegOps
        <4> QED BY <3>2, <4>2, <4>3 DEF SubHeld, SubFed, SubPending
      <3>6. ~StopUpdateIfContain(t) /\ ~RemoveSubscriberForRedo(t)
        BY <2>2 DEF StopUpdateIfContain, RemoveSubscriberForRedo, At, BasicInv, StepOfOp
      <3> QED BY <1>0, <3>3, <3>4, <3>5, <3>6
    <2>3. CASE call[t].op = "unsubscribe"
      <3>4. ~DelegateSubscribe(t) /\ ~CacheSubscriberForRedo(t)
        BY <2>3 DEF DelegateSubscribe, CacheSubscriberForRedo, At, BasicInv, StepOfOp
      <3>0. call[t].pc \in {"stop", "removeSub", "request"}
        BY <1>0, <3>4 DEF StopUpdateIfContain, RemoveSubscriberForRedo, RequestServed, RequestFails, At
      <3>1. /\ UnsubCall(t, s) /\ t \in Users /\ callbacks[s] = {} /\ ~Subscribing(s)
            /\ call[t].pc = "request" => s \notin subscribes
        BY <2>1, <2>3, <3>0 DEF UnsubAlone, UnsubCall
      <3>2. \A q \in Threads : ~SubCall(q, s)' /\ (UnsubCall(q, s)' => UnsubCall(q, s))
        <4>1. \A q \in Threads : ~SubCall(q, s)
          BY <3>1, SubscribingDef
        <4> QED BY <1>2, <2>3, <3>1, <4>1 DEF SubCall, UnsubCall, Idle
      <3>3. ~Subscribing(s)'
        BY <1>3, <3>1, <3>2 DEF Subscribing, SubCall, redoVars
      <3>5. CASE StopUpdateIfContain(t)
        <4>1. UNCHANGED <<subscribes, serverSub, missed>> /\ Goes(t, "removeSub")
          BY <3>5 DEF StopUpdateIfContain, serverVars, history
        <4>2. call'[t].pc = "removeSub"
          BY <1>1, <4>1, OneMoves DEF BasicInv
        <4>3. UnsubAlone(s)'
          BY <1>2, <1>3, <2>1, <3>1, <3>2, <3>3, <4>1, <4>2 DEF UnsubAlone
        <4>4. SubPending(s) => SubPending(s)'
          <5>1. ASSUME NEW q \in Threads, SubCall(q, s) PROVE FALSE
            BY <3>1, <5>1, SubscribingDef
          <5> QED BY <1>3, <4>1, <5>1 DEF SubPending, redoVars, connVars
        <4> QED BY <1>3, <2>1, <3>1, <4>1, <4>3, <4>4 DEF SubHeld, SubFed
      <3>6. CASE RemoveSubscriberForRedo(t)
        <4>1. s \notin subscribes'
          BY <3>6 DEF RemoveSubscriberForRedo
        <4>2. UnsubAlone(s)'
          BY <1>3, <2>1, <3>1, <3>2, <3>3, <4>1 DEF UnsubAlone
        <4> QED BY <1>3, <3>1, <4>1, <4>2 DEF SubHeld, SubFed
      <3>7. CASE RequestServed(t) \/ RequestFails(t)
        <4>1. s \notin subscribes'
          BY <3>1, <3>7 DEF RequestServed, RequestFails, At, Answered
        <4>2. UnsubAlone(s)'
          BY <1>3, <2>1, <3>1, <3>2, <3>3, <4>1 DEF UnsubAlone
        <4> QED BY <1>3, <3>1, <4>1, <4>2 DEF SubHeld, SubFed
      <3> QED BY <1>0, <3>4, <3>5, <3>6, <3>7
    <2> QED BY <1>1, <2>2, <2>3
  <1>6. ASSUME NEW q \in Services
        PROVE  (<<"sub", q>> \notin loose => UnsubAlone(q) /\ SubHeld(q))'
    <2>1. CASE q = s
      BY <1>3, <1>5, <2>1
    <2>2. CASE q # s
      BY <1>4, <2>2, SubFrameKeeps DEF SubInv
    <2> QED BY <2>1, <2>2
  <1> QED BY <1>6 DEF SubInv

(* A step at the list of callbacks: one who adds a callback goes on to      *)
(* subscribe, and a list that was not overwritten only gets shorter when    *)
(* one is removed.                                                          *)
LEMMA CallbackStepKeepsSub ==
    ASSUME BasicInv, SubInv, NEW u \in Users, CallbackStep(u)
    PROVE  SubInv'
  <1>1. /\ u \in Threads /\ call[u] \in CallRecord
        /\ \/ call[u].op = "subscribe" /\ AddCallbackFunc(u)
           \/ call[u].op = "unsubscribe" /\ (RemoveCallbackFunc(u) \/ IsSubscribed(u))
        /\ UNCHANGED <<subscribes, redoVars, connVars, serverVars, missed>>
        /\ loose \subseteq loose'
        /\ \A q \in Threads \ {u} : call'[q] = call[q]
        /\ call'[u] = Idle \/ (call'[u].op = call[u].op /\ call'[u].svc = call[u].svc)
    BY CallbackSteps
  <1> PICK s \in Services : s = call[u].svc
    BY <1>1 DEF CallRecord
  <1>2. \A q \in Services \ {s} : callbacks'[q] = callbacks[q]
    BY CallbackSteps
  <1>3. ASSUME NEW q \in Services, q # s PROVE SubFrame(q)
    BY <1>1, <1>2, <1>3 DEF SubFrame, FeedCall, SubCall, UnsubCall, Idle, redoVars, connVars, serverVars
  <1>4. ASSUME <<"sub", s>> \notin loose' PROVE UnsubAlone(s)' /\ SubHeld(s)'
    <2>1. UnsubAlone(s) /\ SubHeld(s)
      BY <1>1, <1>4 DEF SubInv
    <2>2. call[u].pc \in {"addCb", "removeCb", "isSub"}
      BY <1>1 DEF AddCallbackFunc, RemoveCallbackFunc, IsSubscribed, At
    <2>3. s \in subscribes' => s \in serverSub' \/ SubPending(s)'
      <3>1. SubPending(s) => SubPending(s)'
        BY <1>1, <2>2 DEF SubPending, SubCall, redoVars, connVars
      <3> QED BY <1>1, <2>1, <3>1 DEF SubHeld, serverVars
    <2>4. CASE call[u].op = "subscribe" /\ AddCallbackFunc(u)
      <3>1. SubCall(u, s) /\ Goes(u, "check")
        BY <2>4 DEF SubCall, AddCallbackFunc
      <3>2. SubCall(u, s)' /\ call'[u].pc = "check" /\ call'[u].op = "subscribe"
        BY <1>1, <3>1, OneMoves DEF BasicInv, SubCall
      <3>3. \A t \in Threads : ~UnsubCall(t, s)
        BY <1>1, <2>1, <3>1, SubscribingDef DEF UnsubAlone
      <3>4. \A t \in Threads : ~UnsubCall(t, s)'
        BY <1>1, <3>2, <3>3 DEF UnsubCall
      <3> QED BY <2>3, <3>2, <3>4 DEF UnsubAlone, SubHeld, SubFed
    <2>5. CASE call[u].op = "unsubscribe" /\ (RemoveCallbackFunc(u) \/ IsSubscribed(u))
      <3>1. UnsubCall(u, s) /\ ~Subscribing(s)
        BY <1>1, <2>1, <2>5 DEF UnsubAlone, UnsubCall
      <3>2. \A t \in Threads : ~SubCall(t, s)
        BY <3>1, SubscribingDef
      <3>3. \A t \in Threads : ~SubCall(t, s)' /\ (UnsubCall(t, s)' => UnsubCall(t, s))
        BY <1>1, <2>5, <3>1, <3>2 DEF SubCall, UnsubCall, Idle
      <3>4. ~Subscribing(s)'
        BY <1>1, <3>1, <3>3 DEF Subscribing, SubCall, redoVars
      <3>5. callbacks[s] = {} => callbacks'[s] = {}
        <4>1. CASE RemoveCallbackFunc(u)
          <5>1. callbacks[s] = copy[u]
            BY <1>4, <4>1 DEF RemoveCallbackFunc
          <5> QED BY <4>1, <5>1 DEF RemoveCallbackFunc, BasicInv, TypeOK
        <4>2. CASE IsSubscribed(u)
          BY <4>2 DEF IsSubscribed, cacheVars
        <4> QED BY <2>5, <4>1, <4>2
      <3>6. call'[u].pc \in {"isSub", "idle"} \/ (call'[u].pc = "stop" /\ callbacks'[s] = {})
        <4>1. CASE RemoveCallbackFunc(u)
          BY <1>1, <4>1, OneMoves DEF RemoveCallbackFunc, BasicInv
        <4>2. CASE IsSubscribed(u)
          BY <1>1, <4>2, OneMoves DEF IsSubscribed, BasicInv, Idle, cacheVars
        <4> QED BY <2>5, <4>1, <4>2
      <3>7. UnsubAlone(s)'
        <4> SUFFICES ASSUME NEW t \in Threads, UnsubCall(t, s)'
                     PROVE  /\ t \in Users
                            /\ call'[t].pc \in {"stop", "removeSub", "request"} => callbacks'[s] = {}
                            /\ call'[t].pc = "request" => s \notin subscribes'
          BY <3>4 DEF UnsubAlone
        <4>1. CASE t = u
          BY <3>6, <4>1
        <4>2. CASE t # u
          BY <1>1, <2>1, <3>3, <3>5, <4>2 DEF UnsubAlone
        <4> QED BY <4>1, <4>2
      <3>8. SubFed(s)'
        BY <1>1, <2>1, <3>2, <3>5 DEF SubHeld, SubFed, Threads
      <3> QED BY <2>3, <3>7, <3>8 DEF SubHeld
    <2> QED BY <1>1, <2>4, <2>5
  <1>5. ASSUME NEW q \in Services
        PROVE  (<<"sub", q>> \notin loose => UnsubAlone(q) /\ SubHeld(q))'
    <2>1. CASE q = s
      BY <1>4, <2>1
    <2>2. CASE q # s
      BY <1>3, <2>2, SubFrameKeeps DEF SubInv
    <2> QED BY <2>1, <2>2
  <1> QED BY <1>5 DEF SubInv

(* The redo, the connection and the pushes. *)
LEMMA OthersKeepSub ==
    ASSUME BasicInv, SubInv,
           RedoStep \/ Drop \/ Connect \/ CloseClient \/ (\E s \in Services : PushArrives(s))
    PROVE  SubInv'
  <1>0. Redo \in Threads /\ Redo \notin Users
    BY NamingAssumption DEF Threads
  <1>1. CASE OnConnected
    <2>1. ASSUME NEW s \in Services, <<"sub", s>> \notin loose'
          PROVE  UnsubAlone(s)' /\ SubHeld(s)'
      <3>1. UnsubAlone(s) /\ SubHeld(s) /\ (s \in subscribes => ~Unsubscribing(s))
        BY <1>1, <2>1 DEF SubInv, OnConnected
      <3>2. /\ todoSubs' = subscribes
            /\ UNCHANGED <<call, subscribes, callbacks, serverSub>>
        BY <1>1 DEF OnConnected, cacheVars, serverVars
      <3>3. ASSUME NEW t \in Threads, UnsubCall(t, s)
            PROVE  s \notin subscribes
        BY <3>1, <3>3 DEF UnsubAlone, Unsubscribing, UnsubCall
      <3>4. UnsubAlone(s)'
        <4> SUFFICES ASSUME NEW t \in Threads, UnsubCall(t, s)
                     PROVE  /\ t \in Users /\ ~Subscribing(s)' /\ s \notin subscribes
                            /\ call[t].pc \in {"stop", "removeSub", "request"} => callbacks[s] = {}
          BY <3>2 DEF UnsubAlone, UnsubCall
        <4> QED BY <3>1, <3>2, <3>3 DEF UnsubAlone, Subscribing
      <3>5. s \in subscribes => SubPending(s)'
        BY <3>2 DEF SubPending
      <3> QED BY <3>1, <3>2, <3>4, <3>5 DEF SubHeld, SubFed, SubCall
    <2> QED BY <2>1 DEF SubInv
  <1>2. CASE redoRegisterEachService \/ RedoDone
    <2>0. /\ UNCHANGED <<call, event, todoSubs, subscribes, callbacks, connected, serverSub, missed>>
          /\ loose \subseteq loose'
      BY <1>2 DEF redoRegisterEachService, RedoDone, cacheVars, connVars, serverVars, history
    <2>1. \A s \in Services : SubFrame(s)
      BY <2>0 DEF SubFrame
    <2> QED BY <2>1, SubFrameKeeps DEF SubInv
  <1>3. ASSUME NEW s \in Services, redoSubscribe(s) PROVE SubInv'
    <2>1. call[Redo] = Idle
      BY <1>0, <1>3 DEF redoSubscribe, At, BasicInv, TypeOK, Call, PCs
    <2>2. /\ \A q \in Threads \ {Redo} : call'[q] = call[q]
          /\ call'[Redo] = [op |-> "subscribe", svc |-> s, reg |-> NoRegistration, pc |-> "cacheSub"]
      BY <1>0, <1>3, OneStarts DEF redoSubscribe, BasicInv
    <2>3. /\ UNCHANGED <<event, subscribes, callbacks, connected, serverSub, missed, loose>>
          /\ todoSubs' = todoSubs \ {s} /\ s \in todoSubs
      BY <1>3 DEF redoSubscribe, cacheVars, connVars, serverVars, history
    <2>4. call'[Redo].op = "subscribe" /\ call'[Redo].svc = s /\ call'[Redo].pc = "cacheSub"
      BY <2>2
    <2>5. ASSUME NEW q \in Services, q # s PROVE SubFrame(q)
      BY <2>1, <2>2, <2>3, <2>4, <2>5 DEF SubFrame, FeedCall, SubCall, UnsubCall, Idle
    <2>6. ASSUME <<"sub", s>> \notin loose PROVE UnsubAlone(s)' /\ SubHeld(s)'
      <3>1. UnsubAlone(s) /\ SubHeld(s)
        BY <2>6 DEF SubInv
      <3>2. \A t \in Threads : ~UnsubCall(t, s)
        BY <2>3, <3>1, SubscribingDef DEF UnsubAlone
      <3>3. \A t \in Threads : ~UnsubCall(t, s)'
        BY <2>2, <2>4, <3>2 DEF UnsubCall
      <3>4. SubPending(s)'
        BY <1>0, <2>4 DEF SubPending, SubCall
      <3>5. ASSUME NEW u \in Users, SubCall(u, s) /\ call[u].pc \in {"check", "cacheSub"}
            PROVE  SubCall(u, s)' /\ call'[u].pc \in {"check", "cacheSub"}
        BY <1>0, <2>2, <3>5 DEF SubCall, Threads
      <3> QED BY <2>3, <3>1, <3>3, <3>4, <3>5 DEF UnsubAlone, SubHeld, SubFed
    <2>7. ASSUME NEW q \in Services
          PROVE  (<<"sub", q>> \notin loose => UnsubAlone(q) /\ SubHeld(q))'
      <3>1. CASE q = s
        BY <2>3, <2>6, <3>1
      <3>2. CASE q # s
        BY <2>5, <3>2, SubFrameKeeps DEF SubInv
      <3> QED BY <3>1, <3>2
    <2> QED BY <2>7 DEF SubInv
  <1>4. ASSUME NEW s \in Services, redoRegister(s) PROVE SubInv'
    <2>1. call[Redo] = Idle
      BY <1>0, <1>4 DEF redoRegister, At, BasicInv, TypeOK, Call, PCs
    <2>2. /\ \A q \in Threads \ {Redo} : call'[q] = call[q]
          /\ call'[Redo] = [op |-> "register", svc |-> s, reg |-> todoRegs[s], pc |-> "cache"]
      BY <1>0, <1>4, OneStarts DEF redoRegister, BasicInv
    <2>3. call'[Redo].op = "register"
      BY <2>2
    <2>4. \A q \in Services : SubFrame(q)
      BY <1>4, <2>1, <2>2, <2>3
      DEF redoRegister, SubFrame, FeedCall, SubCall, UnsubCall, Idle, cacheVars, connVars, serverVars, history
    <2> QED BY <2>4, SubFrameKeeps DEF SubInv
  <1>5. CASE Drop \/ CloseClient \/ Connect
    <2>1. /\ ~connected' \/ event'
          /\ UNCHANGED <<call, subscribes, callbacks, todoSubs, loose>>
      BY <1>5 DEF Drop, CloseClient, Connect, cacheVars, redoVars, history
    <2>2. ASSUME NEW s \in Services, <<"sub", s>> \notin loose'
          PROVE  UnsubAlone(s)' /\ SubHeld(s)'
      <3>1. UnsubAlone(s) /\ SubHeld(s)
        BY <2>1, <2>2 DEF SubInv
      <3>2. UnsubAlone(s)'
        BY <2>1, <3>1 DEF UnsubAlone, UnsubCall, Subscribing
      <3>3. SubPending(s)'
        BY <2>1 DEF SubPending
      <3> QED BY <2>1, <3>1, <3>2, <3>3 DEF SubHeld, SubFed, SubCall
    <2> QED BY <2>2 DEF SubInv
  <1>6. ASSUME NEW s \in Services, PushArrives(s) PROVE SubInv'
    <2>1. \A q \in Services : SubFrame(q)
      BY <1>6 DEF PushArrives, SubFrame, redoVars, connVars, serverVars, history
    <2> QED BY <2>1, SubFrameKeeps DEF SubInv
  <1> QED BY <1>1, <1>2, <1>3, <1>4, <1>5, <1>6 DEF RedoStep

-----------------------------------------------------------------------------
(* The theorems. *)

(* The client starts with nothing asked for and nothing held. *)
LEMMA InitInv == Init => GrpcInv
  <1> SUFFICES ASSUME Init PROVE GrpcInv
    OBVIOUS
  <1> USE NamingAssumption DEF Init
  <1>0. Nothing \in [Services -> Reg] /\ [t \in Threads |-> Idle] \in [Threads -> Call]
    BY DEF Nothing, Call, Reg
  <1>1. TypeOK
    <2>1. /\ registeredInstanceCached \in [Services -> Reg] /\ todoRegs \in [Services -> Reg]
          /\ serverReg \in [Services -> Reg] /\ asked \in [Services -> Reg]
          /\ call \in [Threads -> Call]
      BY <1>0
    <2>2. callbacks \in [Services -> SUBSET Users] /\ serviceInfoMap \subseteq Services
      OBVIOUS
    <2>3. calls \in 0..MaxCalls /\ drops \in 0..MaxDrops
      OBVIOUS
    <2> QED BY <2>1, <2>2, <2>3 DEF TypeOK
  <1>2. StepOfOp /\ ServerForgets
    BY DEF StepOfOp, ServerForgets, Idle
  <1>3. \A t \in Threads : \A s : ~RegCall(t, s) /\ ~SubCall(t, s) /\ ~UnsubCall(t, s)
    BY DEF RegCall, SubCall, UnsubCall, Idle, RegOps
  <1>4. RegInv
    BY <1>3 DEF RegInv, RegAgrees, RegHeld, Nothing
  <1>5. SubInv
    BY <1>3 DEF SubInv, UnsubAlone, SubHeld, SubFed
  <1> QED BY <1>1, <1>2, <1>4, <1>5 DEF GrpcInv

(* Every step keeps the inductive invariant. *)
LEMMA NextInv == GrpcInv /\ [Next]_vars => GrpcInv'
  <1> SUFFICES ASSUME GrpcInv, [Next]_vars PROVE GrpcInv'
    OBVIOUS
  <1>0. BasicInv /\ RegInv /\ SubInv
    BY DEF GrpcInv, BasicInv
  <1>1. ASSUME NEW u \in Users, UserCalls(u) PROVE GrpcInv'
    BY <1>0, <1>1, UserCallsBasic, UserCallsKeepReg, UserCallsKeepSub DEF GrpcInv, BasicInv
  <1>2. ASSUME NEW u \in Users, CallbackStep(u) PROVE GrpcInv'
    BY <1>0, <1>2, CallbackStepBasic, CallbackStepKeepsReg, CallbackStepKeepsSub DEF GrpcInv, BasicInv
  <1>3. ASSUME NEW t \in Threads, Step(t) PROVE GrpcInv'
    <2>1. BasicInv'
      BY <1>0, <1>3, StepBasic
    <2>2. RegInv'
      BY <1>0, <1>3, RegStepKeepsReg, SubStepKeepsReg
    <2>3. SubInv'
      BY <1>0, <1>3, RegStepKeepsSub, SubStepKeepsSub
    <2> QED BY <2>1, <2>2, <2>3 DEF GrpcInv, BasicInv
  <1>4. CASE RedoStep \/ Drop \/ Connect \/ CloseClient \/ (\E s \in Services : PushArrives(s))
    BY <1>0, <1>4, OthersBasic, OthersKeepReg, OthersKeepSub DEF GrpcInv, BasicInv
  <1>5. CASE UNCHANGED vars
    <2>1. BasicInv'
      BY <1>0, <1>5 DEF BasicInv, TypeOK, StepOfOp, ServerForgets, vars, cacheVars, redoVars, connVars,
                        serverVars, history
    <2>2. \A s \in Services : RegFrame(s) /\ SubFrame(s)
      BY <1>5 DEF RegFrame, SubFrame, vars, cacheVars, redoVars, connVars, serverVars, history
    <2>3. RegInv'
      BY <1>0, <2>2, RegFrameKeeps DEF RegInv
    <2>4. SubInv'
      BY <1>0, <2>2, SubFrameKeeps DEF SubInv
    <2> QED BY <2>1, <2>3, <2>4 DEF GrpcInv, BasicInv
  <1> QED BY <1>1, <1>2, <1>3, <1>4, <1>5 DEF Next

(* The inductive invariant holds of every behaviour. *)
LEMMA Invariants == Spec => []GrpcInv
  BY InitInv, NextInv, PTL DEF Spec

(* The redo caches, the calls in progress and what the server holds have    *)
(* their types, for any number of services, instances and users.            *)
THEOREM TypeCorrect == Spec => []TypeOK
  <1>1. GrpcInv => TypeOK
    BY DEF GrpcInv
  <1> QED BY <1>1, Invariants, PTL

(* Registrations survive reconnects: whatever the number of users and       *)
(* connections, a service at rest is held by the server, and by the redo    *)
(* cache, as the last RegisterInstance, BatchRegisterInstance,              *)
(* UpdateInstance or DeregisterInstance asked.                              *)
THEOREM AskedHeld == Spec => []AskedIsHeld
  <1>1. GrpcInv => AskedIsHeld
    <2> SUFFICES ASSUME GrpcInv, NEW s \in Services,
                        Quiet("reg", s), ~RedoLeft("reg", s), ~Excused("reg", s)
                 PROVE  serverReg[s] = asked[s] /\ registeredInstanceCached[s] = asked[s]
      BY DEF AskedIsHeld
    <2>1. RegHeld(s)
      BY DEF GrpcInv, RegInv, Excused
    <2>2. \A t \in Threads : ~RegCall(t, s)
      BY DEF Quiet, RedoLeft, RegCall, Kind, Threads
    <2>3. ~CachePending(s) /\ ~RegPending(s) /\ ~RegRedoLeft(s)
      BY <2>2 DEF CachePending, RegPending, RegRedoLeft, Excused, RedoLeft
    <2> QED BY <2>1, <2>3 DEF RegHeld
  <1> QED BY <1>1, Invariants, PTL

(* Subscriptions survive reconnects: a service with a callback is in the    *)
(* redo cache and subscribed at the server, or about to be, unless an       *)
(* Unsubscribe crossed a Subscribe or a redo, or wrote an old list of       *)
(* callbacks over a newer one.                                              *)
THEOREM SubscribersFed == Spec => []SubscriberIsFed
  <1>1. GrpcInv => SubscriberIsFed
    <2> SUFFICES ASSUME GrpcInv, NEW s \in Services,
                        callbacks[s] # {}, Quiet("sub", s), <<"sub", s>> \notin loose
                 PROVE  /\ s \in subscribes
                        /\ s \in serverSub \/ RedoLeft("sub", s) \/ <<"sub", s>> \in missed
      BY DEF SubscriberIsFed
    <2>1. SubHeld(s)
      BY DEF GrpcInv, SubInv
    <2>2. \A u \in Users : ~SubCall(u, s)
      BY DEF Quiet, SubCall, Kind, RegOps
    <2>3. s \in subscribes
      BY <2>1, <2>2 DEF SubHeld, SubFed
    <2>4. SubPending(s) => RedoLeft("sub", s) \/ <<"sub", s>> \in missed
      <3>1. ASSUME NEW t \in Threads, SubCall(t, s) PROVE call[Redo].svc = s /\ Kind(call[Redo]) = "sub"
        BY <2>2, <3>1 DEF Threads, SubCall, Kind, RegOps
      <3> QED BY <3>1 DEF SubPending, RedoLeft
    <2> QED BY <2>1, <2>3, <2>4 DEF SubHeld, SubFed
  <1> QED BY <1>1, Invariants, PTL

(* The proxy and its redo implement NamingRegistry.  A call that starts is  *)
(* the abstract Ask, a registration or deregistration that the server       *)
(* carries out is Serve, of what was asked last unless operations crossed,  *)
(* the loss of the connection is Forget, the redo's copy at most Loosen,    *)
(* and every other step stutters.                                           *)
THEOREM ProxyImplementsRegistry == Spec => ImplementsRegistry
  <1> DEFINE crossed == {s \in Services : <<"reg", s>> \in loose}
  <1>1. Init => Registry!Init
    <2> SUFFICES ASSUME Init PROVE Registry!Init
      OBVIOUS
    <2>1. asked = [s \in Services |-> NoRegistration] /\ serverReg = [s \in Services |-> NoRegistration]
      BY DEF Init, Nothing
    <2>2. {s \in Services : <<"reg", s>> \in loose} = {}
      BY DEF Init
    <2> QED BY <2>1, <2>2 DEF Registry!Init
  <1>2. GrpcInv /\ [Next]_vars => [Registry!Next]_<<asked, serverReg, crossed>>
    <2> SUFFICES ASSUME GrpcInv, [Next]_vars
                 PROVE  Registry!Next \/ UNCHANGED <<asked, serverReg, crossed>>
      OBVIOUS
    <2>0. Registry!Held = Reg
      BY DEF Registry!Held, Reg
    <2>1. ASSUME NEW s \in Services, NEW r \in Reg, Asks(s, r), UNCHANGED serverVars
          PROVE  Registry!Next
      <3>1. crossed' \in {crossed, crossed \union {s}}
        BY <2>1 DEF Asks
      <3>2. Registry!Ask(s, r)
        BY <2>1, <3>1 DEF Asks, Registry!Ask, serverVars
      <3> QED BY <2>0, <3>2 DEF Registry!Next
    <2>2. ASSUME UNCHANGED <<asked, serverReg>>, \A s \in Services : <<"reg", s>> \in loose => <<"reg", s>> \in loose'
          PROVE  Registry!Next
      <3>1. crossed \subseteq crossed'
        BY <2>2
      <3>2. Registry!Loosen
        BY <2>2, <3>1 DEF Registry!Loosen
      <3> QED BY <3>2 DEF Registry!Next
    <2>3. ASSUME NEW u \in Users, UserCalls(u) PROVE Registry!Next
      <3>1. ASSUME NEW s \in Services, NEW i \in Instances, RegisterInstance(u, s, i) \/ DeregisterInstance(u, s, i)
            PROVE  Registry!Next
        <4>1. {i} \in Reg /\ NoRegistration \in Reg
          BY DEF Reg, Registrations
        <4> QED BY <2>1, <3>1, <4>1 DEF RegisterInstance, DeregisterInstance
      <3>2. ASSUME NEW s \in Services, NEW b \in Batches, BatchRegisterInstance(u, s, b) PROVE Registry!Next
        <4>1. b \in Reg
          BY DEF Reg, Registrations
        <4> QED BY <2>1, <3>2, <4>1 DEF BatchRegisterInstance
      <3>3. ASSUME NEW s \in Services, Subscribe(u, s) \/ GetService(u, s) \/ Unsubscribe(u, s)
            PROVE  Registry!Next
        BY <2>2, <3>3 DEF Subscribe, GetService, Unsubscribe, AsksFeed, serverVars
      <3> QED BY <2>3, <3>1, <3>2, <3>3 DEF UserCalls, UpdateInstance
    <2>4. ASSUME NEW u \in Users, CallbackStep(u) PROVE Registry!Next
      <3>1. /\ UNCHANGED <<asked, serverReg>>
            /\ \A s \in Services : <<"reg", s>> \in loose => <<"reg", s>> \in loose'
        BY <2>4, CallbackSteps DEF GrpcInv, BasicInv, serverVars
      <3> QED BY <2>2, <3>1
    <2>5. ASSUME NEW t \in Threads, Step(t) PROVE Registry!Next
      <3>1. CASE serverReg' = serverReg
        <4>1. asked' = asked /\ loose' = loose
          BY <2>5 DEF Step, LocalStep, CacheInstanceForRedo, RemoveInstanceForRedo, DelegateSubscribe,
                CacheSubscriberForRedo, StopUpdateIfContain, RemoveSubscriberForRedo, RequestServed,
                RequestFails, history
        <4> QED BY <2>2, <3>1, <4>1
      <3>2. CASE serverReg' # serverReg
        <4>1. (RequestServed(t) \/ RequestFails(t)) /\ Applied(call[t])
          BY <2>5, <3>2 DEF Step, LocalStep, CacheInstanceForRedo, RemoveInstanceForRedo, DelegateSubscribe,
                CacheSubscriberForRedo, StopUpdateIfContain, RemoveSubscriberForRedo, RequestServed,
                RequestFails, serverVars
        <4>2. call[t] \in CallRecord
          BY <4>1, InProgress DEF GrpcInv, RequestServed, RequestFails, At
        <4>3. call[t].op \in RegOps /\ call[t].svc \in Services /\ call[t].reg \in Reg
          BY <3>2, <4>1, <4>2 DEF Applied, CallRecord, Ops, RegOps
        <4>4. PICK s \in Services : s = call[t].svc
          BY <4>3
        <4>5. /\ serverReg' = [serverReg EXCEPT ![s] = call[t].reg]
              /\ asked' = asked /\ crossed' = crossed
          BY <4>1, <4>3, <4>4 DEF Applied, RequestServed, RequestFails, RegOps
        <4>6. s \in crossed \/ call[t].reg = asked[s]
          BY <4>3, <4>4 DEF GrpcInv, RegInv, RegAgrees, RegCall
        <4>7. Registry!Serve(s)
          BY <2>0, <4>3, <4>5, <4>6 DEF Registry!Serve
        <4> QED BY <4>7 DEF Registry!Next
      <3> QED BY <3>1, <3>2
    <2>6. CASE RedoStep \/ Connect \/ (\E s \in Services : PushArrives(s))
      <3>1. UNCHANGED <<asked, serverReg>> /\ loose \subseteq loose'
        BY <2>6 DEF RedoStep, OnConnected, redoSubscribe, redoRegisterEachService, redoRegister, RedoDone,
                    Connect, PushArrives, serverVars, history
      <3> QED BY <2>2, <3>1
    <2>7. CASE Drop \/ CloseClient
      <3>1. Registry!Forget
        BY <2>7 DEF Drop, CloseClient, Registry!Forget, Nothing, history
      <3> QED BY <3>1 DEF Registry!Next
    <2>8. CASE UNCHANGED vars
      BY <2>8 DEF vars, serverVars, history
    <2> QED BY <2>3, <2>4, <2>5, <2>6, <2>7, <2>8 DEF Next
  <1> QED BY <1>1, <1>2, Invariants, PTL DEF Spec, ImplementsRegistry, Registry!Spec
=============================================================================
