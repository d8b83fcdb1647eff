----------------------------- MODULE NamingGrpc -----------------------------
(***************************************************************************)
(* Registrations and subscriptions of the naming client over gRPC:         *)
(* naming_client.go, naming_proxy_delegate.go, naming_grpc.  Goroutines    *)
(* that run the proxy's operations:                                        *)
(*   Users   callers of the client's methods                               *)
(*   Redo    the RPC client's event loop in OnConnected, which repeats     *)
(*           from the redo caches what a new connection has to know        *)
(* An operation touches the redo cache and sends its request in separate   *)
(* steps, without a lock.  A call is [op, svc, reg, pc]; pc names the step *)
(* that comes next.  The connection stands for RpcClient: it is replaced   *)
(* now and then, and a request that fails may or may not cost it.          *)
(***************************************************************************)
EXTENDS Naturals, FiniteSets

CONSTANTS
    Services,        \* grouped service names, cluster ""
    Instances,
    Ephemeral,       \* instances with Ephemeral set
    Users, Redo,
    NoRegistration,
    Batches,         \* the lists of instances that BatchRegisterInstance is called with
    MaxCalls,        \* bound: calls of the users
    MaxDrops         \* bound: connections lost

Registrations == {{i} : i \in Instances} \union Batches
Threads == Users \union {Redo}

ASSUME NamingAssumption ==
    /\ Ephemeral \subseteq Instances
    /\ Redo \notin Users
    /\ NoRegistration \notin Registrations \union Services
    /\ Batches \subseteq SUBSET Instances
    /\ MaxCalls \in Nat /\ MaxDrops \in Nat

VARIABLES
    registeredInstanceCached,   \* service -> registration, or NoRegistration
    subscribes,                 \* the services whose subscription is redone
    serviceInfoMap,             \* the services that the cache has an entry of
    callbacks,                  \* service -> the users whose callback is registered
    copy,                       \* user -> the callbacks it read, to write them back changed
    call,                       \* thread -> operation in progress
    connected,                  \* the RPC client is RUNNING
    event,                      \* a CONNECTED event waits in eventChan
    redo, todoSubs, todoRegs,   \* OnConnected: where it is; keys and items that are left
    closed,
    serverReg, serverSub,       \* external: what the server holds for the connection
    asked,                      \* history: what the last call asked for
    loose,                      \* history: <<kind, service>> with operations that crossed
    missed,                     \* history: <<kind, service>> whose request failed
    calls, drops                \* counters against the bounds

cacheVars   == <<registeredInstanceCached, subscribes, serviceInfoMap, callbacks>>
redoVars    == <<event, redo, todoSubs, todoRegs>>
serverVars  == <<serverReg, serverSub>>
connVars    == <<connected, closed, drops>>
history     == <<asked, loose, missed, calls>>
vars == <<cacheVars, copy, call, redoVars, connVars, serverVars, history>>

Idle == [op |-> "none", svc |-> NoRegistration, reg |-> NoRegistration, pc |-> "idle"]
PCs == {"cache", "request", "remove", "addCb", "check", "cacheSub",
        "removeCb", "isSub", "stop", "removeSub"}
Ops == {"register", "deregister", "subscribe", "unsubscribe"}
Kinds == {"reg", "sub"}
Reg == Registrations \union {NoRegistration}
Call == [op : Ops, svc : Services, reg : Reg, pc : PCs] \union {Idle}

TypeOK ==
    /\ registeredInstanceCached \in [Services -> Reg]
    /\ subscribes \subseteq Services /\ serviceInfoMap \subseteq Services
    /\ callbacks \in [Services -> SUBSET Users] /\ copy \in [Users -> SUBSET Users]
    /\ call \in [Threads -> Call]
    /\ connected \in BOOLEAN /\ event \in BOOLEAN /\ closed \in BOOLEAN
    /\ redo \in {"idle", "subs", "regs"}
    /\ todoSubs \subseteq Services
    /\ todoRegs \in [Services -> Reg]
    /\ serverReg \in [Services -> Reg] /\ serverSub \subseteq Services
    /\ asked \in [Services -> Reg]
    /\ loose \subseteq Kinds \X Services /\ missed \subseteq Kinds \X Services
    /\ calls \in 0..MaxCalls /\ drops \in 0..MaxDrops

Nothing == [s \in Services |-> NoRegistration]

(* NewNamingGrpcProxy: the connection is made, then the listener registered. *)
(* The cache may have been filled from the disk.                             *)
Init ==
    /\ registeredInstanceCached = Nothing /\ subscribes = {}
    /\ serviceInfoMap \in SUBSET Services
    /\ callbacks = [s \in Services |-> {}] /\ copy = [u \in Users |-> {}]
    /\ call = [t \in Threads |-> Idle]
    /\ connected = TRUE /\ event = FALSE /\ closed = FALSE
    /\ redo = "idle" /\ todoSubs = {} /\ todoRegs = Nothing
    /\ serverReg = Nothing /\ serverSub = {}
    /\ asked = Nothing /\ loose = {} /\ missed = {}
    /\ calls = 0 /\ drops = 0

-----------------------------------------------------------------------------
(* Steps of a call.                                                         *)

At(t, pc) == call[t].pc = pc
Goes(t, pc) == call' = [call EXCEPT ![t].pc = pc]
Returns(t) == call' = [call EXCEPT ![t] = Idle]
Starts(t, op, s, r, pc) ==
    call' = [call EXCEPT ![t] = [op |-> op, svc |-> s, reg |-> r, pc |-> pc]]

RegOps == {"register", "deregister"}
Kind(c) == IF c.op \in RegOps THEN "reg" ELSE "sub"

(* A call that asks for r crosses what is under way for the service: a call  *)
(* that asks for something else, or a redo that still has an older           *)
(* registration to repeat.                                                   *)
Crosses(s, r) ==
    \/ \E t \in Threads : call[t].op \in RegOps /\ call[t].svc = s /\ call[t].reg # r
    \/ todoRegs[s] \notin {NoRegistration, r}

Asks(s, r) ==
    /\ calls' = calls + 1
    /\ asked' = [asked EXCEPT ![s] = r]
    /\ loose' = IF Crosses(s, r) THEN loose \union {<<"reg", s>>} ELSE loose
    /\ UNCHANGED missed

(* Subscribing, by a user or by the redo, crosses an unsubscription in      *)
(* progress, and the other way round.                                       *)
Unsubscribing(s) == \E u \in Users : call[u].op = "unsubscribe" /\ call[u].svc = s
Subscribing(s) ==
    s \in todoSubs \/ \E t \in Threads : call[t].op = "subscribe" /\ call[t].svc = s

AsksFeed(s, crosses) ==
    /\ calls' = calls + 1
    /\ loose' = IF crosses THEN loose \union {<<"sub", s>>} ELSE loose
    /\ UNCHANGED <<asked, missed>>

(* A user is a goroutine that calls one method after the other.             *)
Free(u) == At(u, "idle") /\ calls < MaxCalls

-----------------------------------------------------------------------------
(* Registering.  An instance that is not ephemeral goes to the HTTP proxy,  *)
(* which keeps nothing for a redo.                                          *)

getExecuteClientProxy(i) == IF i \in Ephemeral THEN "grpc" ELSE "http"

RegisterInstance(u, s, i) ==
    /\ Free(u) /\ getExecuteClientProxy(i) = "grpc"
    /\ Starts(u, "register", s, {i}, "cache")
    /\ Asks(s, {i})
    /\ UNCHANGED <<cacheVars, copy, redoVars, connVars, serverVars>>

(* UpdateInstance: a registration again, with other properties.             *)
UpdateInstance(u, s, i) == RegisterInstance(u, s, i)

(* Refused when the list is empty or one of the instances is persistent.    *)
BatchRegisterInstance(u, s, instances) ==
    /\ Free(u)
    /\ instances # {} /\ instances \subseteq Ephemeral
    /\ Starts(u, "register", s, instances, "cache")
    /\ Asks(s, instances)
    /\ UNCHANGED <<cacheVars, copy, redoVars, connVars, serverVars>>

DeregisterInstance(u, s, i) ==
    /\ Free(u) /\ getExecuteClientProxy(i) = "grpc"
    /\ Starts(u, "deregister", s, NoRegistration, "request")
    /\ Asks(s, NoRegistration)
    /\ UNCHANGED <<cacheVars, copy, redoVars, connVars, serverVars>>

(* Mutant: the request is sent first, and the cache is set by nobody.       *)
CacheNothing(t) ==
    /\ At(t, "cache")
    /\ Goes(t, "request")
    /\ UNCHANGED <<cacheVars, copy, redoVars, connVars, serverVars, history>>

(* Mutant: the instance joins those that are kept for the service.          *)
CacheInstanceJoined(t) ==
    /\ At(t, "cache")
    /\ registeredInstanceCached' = [registeredInstanceCached EXCEPT ![call[t].svc] =
           IF @ = NoRegistration THEN call[t].reg ELSE @ \union call[t].reg]
    /\ Goes(t, "request")
    /\ UNCHANGED <<subscribes, serviceInfoMap, callbacks, copy, redoVars, connVars, serverVars, history>>

(* One entry per service, whatever the instance.                            *)
CacheInstanceForRedo(t) ==
    /\ At(t, "cache")
    /\ registeredInstanceCached' = [registeredInstanceCached EXCEPT ![call[t].svc] = call[t].reg]
    /\ Goes(t, "request")
    /\ UNCHANGED <<subscribes, serviceInfoMap, callbacks, copy, redoVars, connVars, serverVars, history>>

RemoveInstanceForRedo(t) ==
    /\ At(t, "remove")
    /\ registeredInstanceCached' =
           [registeredInstanceCached EXCEPT ![call[t].svc] = NoRegistration]
    /\ Returns(t)
    /\ UNCHANGED <<subscribes, serviceInfoMap, callbacks, copy, redoVars, connVars, serverVars, history>>

-----------------------------------------------------------------------------
(* Subscribing.                                                             *)

(* AddCallbackFunc copies the list of callbacks and writes the longer one   *)
(* back, under a mutex that is shared by all services.                      *)
Subscribe(u, s) ==
    /\ Free(u) /\ \A q \in Users : ~At(q, "addCb")
    /\ copy' = [copy EXCEPT ![u] = callbacks[s]]
    /\ Starts(u, "subscribe", s, NoRegistration, "addCb")
    /\ AsksFeed(s, Unsubscribing(s))
    /\ UNCHANGED <<cacheVars, redoVars, connVars, serverVars>>

AddCallbackFunc(u) ==
    /\ At(u, "addCb")
    /\ callbacks' = [callbacks EXCEPT ![call[u].svc] = copy[u] \union {u}]
    /\ copy' = [copy EXCEPT ![u] = {}]
    /\ Goes(u, "check")
    /\ UNCHANGED <<registeredInstanceCached, subscribes, serviceInfoMap, redoVars, connVars,
                   serverVars, history>>

(* GetService and the Select methods read the cache, and subscribe to a     *)
(* service that it does not have.                                           *)
GetService(u, s) ==
    /\ Free(u) /\ s \notin serviceInfoMap
    /\ Starts(u, "subscribe", s, NoRegistration, "check")
    /\ AsksFeed(s, Unsubscribing(s))
    /\ UNCHANGED <<cacheVars, copy, redoVars, connVars, serverVars>>

(* Mutant: the delegate asks the cache only.                                *)
DelegateTrustsCache(t) ==
    /\ At(t, "check")
    /\ IF call[t].svc \in serviceInfoMap THEN Returns(t) ELSE Goes(t, "cacheSub")
    /\ UNCHANGED <<cacheVars, copy, redoVars, connVars, serverVars, history>>

(* The delegate's Subscribe: nothing is sent for a service that is          *)
(* subscribed and cached.  The cached service is processed again, and       *)
(* dropped because its time is not newer.                                   *)
DelegateSubscribe(t) ==
    /\ At(t, "check")
    /\ IF call[t].svc \in subscribes /\ call[t].svc \in serviceInfoMap
       THEN Returns(t)
       ELSE Goes(t, "cacheSub")
    /\ UNCHANGED <<cacheVars, copy, redoVars, connVars, serverVars, history>>

CacheSubscriberForRedo(t) ==
    /\ At(t, "cacheSub")
    /\ subscribes' = subscribes \union {call[t].svc}
    /\ Goes(t, "request")
    /\ UNCHANGED <<registeredInstanceCached, serviceInfoMap, callbacks, copy, redoVars, connVars,
                   serverVars, history>>

(* RemoveCallbackFunc does the same without the mutex.                      *)
Unsubscribe(u, s) ==
    /\ Free(u)
    /\ copy' = [copy EXCEPT ![u] = callbacks[s]]
    /\ Starts(u, "unsubscribe", s, NoRegistration, "removeCb")
    /\ AsksFeed(s, Subscribing(s))
    /\ UNCHANGED <<cacheVars, redoVars, connVars, serverVars>>

(* A list that is not there is not written; one that is there may be empty. *)
(* What others wrote since it was read is lost.                             *)
RemoveCallbackFunc(u) ==
    /\ At(u, "removeCb")
    /\ \/ callbacks' = [callbacks EXCEPT ![call[u].svc] = copy[u] \ {u}]
       \/ copy[u] = {} /\ UNCHANGED callbacks
    /\ copy' = [copy EXCEPT ![u] = {}]
    /\ Goes(u, "isSub")
    /\ loose' = IF callbacks[call[u].svc] # copy[u]
                THEN loose \union {<<"sub", call[u].svc>>} ELSE loose
    /\ UNCHANGED <<registeredInstanceCached, subscribes, serviceInfoMap, redoVars, connVars,
                   serverVars, asked, missed, calls>>

(* More is done only if no callback is left.                                *)
IsSubscribed(u) ==
    /\ At(u, "isSub")
    /\ IF callbacks[call[u].svc] = {} THEN Goes(u, "stop") ELSE Returns(u)
    /\ UNCHANGED <<cacheVars, copy, redoVars, connVars, serverVars, history>>

StopUpdateIfContain(t) ==
    /\ At(t, "stop")
    /\ serviceInfoMap' = serviceInfoMap \ {call[t].svc}
    /\ Goes(t, "removeSub")
    /\ UNCHANGED <<registeredInstanceCached, subscribes, callbacks, copy, redoVars, connVars,
                   serverVars, history>>

RemoveSubscriberForRedo(t) ==
    /\ At(t, "removeSub")
    /\ subscribes' = subscribes \ {call[t].svc}
    /\ Goes(t, "request")
    /\ UNCHANGED <<registeredInstanceCached, serviceInfoMap, callbacks, copy, redoVars, connVars,
                   serverVars, history>>

(* A push for a service, possibly one that was sent before Unsubscribe.     *)
PushArrives(s) ==
    /\ serviceInfoMap' = serviceInfoMap \union {s}
    /\ UNCHANGED <<registeredInstanceCached, subscribes, callbacks, copy, call, redoVars, connVars,
                   serverVars, history>>

-----------------------------------------------------------------------------
(* Requests.                                                                *)

(* What the server does for a request; one registration per service and     *)
(* connection.                                                              *)
Applied(c) ==
    CASE c.op \in RegOps ->
             /\ serverReg' = [serverReg EXCEPT ![c.svc] = c.reg]
             /\ UNCHANGED serverSub
      [] c.op = "subscribe" -> serverSub' = serverSub \union {c.svc} /\ UNCHANGED serverReg
      [] c.op = "unsubscribe" -> serverSub' = serverSub \ {c.svc} /\ UNCHANGED serverReg

(* The step after the request, and what a Subscribe does with its answer:   *)
(* ProcessService caches it, unless it has no instance.                     *)
Answered(t, ok) ==
    /\ IF call[t].op = "deregister" THEN Goes(t, "remove") ELSE Returns(t)
    /\ IF ok /\ call[t].op = "subscribe"
       THEN serviceInfoMap' \in {serviceInfoMap, serviceInfoMap \union {call[t].svc}}
       ELSE UNCHANGED serviceInfoMap
    /\ UNCHANGED <<registeredInstanceCached, subscribes, callbacks, copy>>

RequestServed(t) ==
    /\ At(t, "request") /\ connected
    /\ Applied(call[t]) /\ Answered(t, TRUE)
    /\ missed' = missed \ {<<Kind(call[t]), call[t].svc>>}
    /\ UNCHANGED <<redoVars, connVars, asked, loose, calls>>

(* Request gives up: the request was lost, or served and its answer lost.   *)
(* OnConnected goes on with the next item, and nobody repeats the request   *)
(* unless the failure makes the RPC client replace the connection.          *)
RequestFails(t) ==
    /\ At(t, "request")
    /\ \/ UNCHANGED serverVars
       \/ connected /\ Applied(call[t])
    /\ Answered(t, FALSE)
    /\ missed' = missed \union {<<Kind(call[t]), call[t].svc>>}
    /\ UNCHANGED <<redoVars, connVars, asked, loose, calls>>

-----------------------------------------------------------------------------
(* The connection, and the redo on a new one.                               *)

Drop ==
    /\ connected /\ drops < MaxDrops /\ drops' = drops + 1
    /\ connected' = FALSE
    /\ serverReg' = Nothing /\ serverSub' = {}
    /\ UNCHANGED <<cacheVars, copy, call, redoVars, closed, history>>

(* Mutant: the new connection is not announced.                             *)
ConnectSilently ==
    /\ ~connected /\ ~closed
    /\ connected' = TRUE /\ missed' = {}
    /\ UNCHANGED <<event, cacheVars, copy, call, redo, todoSubs, todoRegs, closed, drops, serverVars, asked, loose, calls>>

(* RpcClient: the new connection is installed and announced.                *)
Connect ==
    /\ ~connected /\ ~closed
    /\ connected' = TRUE /\ event' = TRUE
    /\ missed' = {}
    /\ UNCHANGED <<cacheVars, copy, call, redo, todoSubs, todoRegs, closed, drops, serverVars, asked, loose, calls>>

(* OnConnected, redoSubscribe: over the keys of the moment.                 *)
OnConnected ==
    /\ event /\ redo = "idle"
    /\ event' = FALSE /\ redo' = "subs" /\ todoSubs' = subscribes
    /\ loose' = loose \union {<<"sub", s>> : s \in {q \in subscribes : Unsubscribing(q)}}
    /\ UNCHANGED <<todoRegs, cacheVars, copy, call, connVars, serverVars, asked, missed, calls>>

redoSubscribe(s) ==
    /\ redo = "subs" /\ At(Redo, "idle") /\ s \in todoSubs
    /\ Starts(Redo, "subscribe", s, NoRegistration, "cacheSub")
    /\ todoSubs' = todoSubs \ {s}
    /\ UNCHANGED <<event, redo, todoRegs, cacheVars, copy, connVars, serverVars, history>>

(* redoRegisterEachService: over the items of the moment.  An item that is  *)
(* not what the last call asked for belongs to a call in progress.          *)
redoRegisterEachService ==
    /\ redo = "subs" /\ At(Redo, "idle") /\ todoSubs = {}
    /\ redo' = "regs"
    /\ todoRegs' = registeredInstanceCached
    /\ loose' = loose \union
           {<<"reg", s>> : s \in {q \in Services :
               registeredInstanceCached[q] \notin {NoRegistration, asked[q]}}}
    /\ UNCHANGED <<event, todoSubs, cacheVars, copy, call, connVars, serverVars, asked, missed, calls>>

(* Mutant: an item is registered without looking at which one it is.        *)
redoRegisterStale(s) ==
    /\ redo = "regs" /\ At(Redo, "idle") /\ todoRegs[s] # NoRegistration
    /\ \E r \in Registrations : Starts(Redo, "register", s, r, "cache")
    /\ todoRegs' = [todoRegs EXCEPT ![s] = NoRegistration]
    /\ UNCHANGED <<event, redo, todoSubs, cacheVars, copy, connVars, serverVars, history>>

redoRegister(s) ==
    /\ redo = "regs" /\ At(Redo, "idle") /\ todoRegs[s] # NoRegistration
    /\ Starts(Redo, "register", s, todoRegs[s], "cache")
    /\ todoRegs' = [todoRegs EXCEPT ![s] = NoRegistration]
    /\ UNCHANGED <<event, redo, todoSubs, cacheVars, copy, connVars, serverVars, history>>

RedoDone ==
    /\ redo = "regs" /\ At(Redo, "idle") /\ todoRegs = Nothing
    /\ redo' = "idle"
    /\ UNCHANGED <<event, todoSubs, todoRegs, cacheVars, copy, call, connVars, serverVars, history>>

(* The client's CloseClient: once, and the server forgets the connection.   *)
CloseClient ==
    /\ ~closed
    /\ closed' = TRUE /\ connected' = FALSE
    /\ serverReg' = Nothing /\ serverSub' = {}
    /\ UNCHANGED <<cacheVars, copy, call, redoVars, drops, history>>

-----------------------------------------------------------------------------
UserCalls(u) ==
    \E s \in Services :
        \/ \E i \in Instances : RegisterInstance(u, s, i) \/ UpdateInstance(u, s, i) \/ DeregisterInstance(u, s, i)
        \/ \E b \in Batches : BatchRegisterInstance(u, s, b)
        \/ Subscribe(u, s) \/ GetService(u, s) \/ Unsubscribe(u, s)

LocalStep(t) ==
    \/ CacheInstanceForRedo(t) \/ RemoveInstanceForRedo(t)
    \/ DelegateSubscribe(t) \/ CacheSubscriberForRedo(t)
    \/ StopUpdateIfContain(t) \/ RemoveSubscriberForRedo(t)

CallbackStep(u) == AddCallbackFunc(u) \/ RemoveCallbackFunc(u) \/ IsSubscribed(u)

Step(t) == LocalStep(t) \/ RequestServed(t) \/ RequestFails(t)

RedoStep ==
    \/ OnConnected \/ redoRegisterEachService \/ RedoDone
    \/ \E s \in Services : redoSubscribe(s) \/ redoRegister(s)

Next ==
    \/ \E u \in Users : UserCalls(u) \/ CallbackStep(u)
    \/ \E t \in Threads : Step(t)
    \/ RedoStep
    \/ \E s \in Services : PushArrives(s)
    \/ Drop \/ Connect \/ CloseClient

Spec == Init /\ [][Next]_vars

(* Goroutines that can run do run, but a request may wait for ever: when    *)
(* the event loop's does, the RPC client may never reconnect or announce    *)
(* its connection.  It does while the event loop is not in one              *)
(* (OnlyRedoHoldsUp of RpcClient).                                          *)
FairSpec ==
    /\ Spec
    /\ \A t \in Threads : WF_vars(LocalStep(t))
    /\ \A u \in Users : WF_vars(CallbackStep(u))
    /\ WF_vars(RedoStep)
    /\ WF_vars(Connect /\ ~At(Redo, "request"))

-----------------------------------------------------------------------------
(* Properties.                                                              *)

Quiet(k, s) == \A u \in Users : ~(call[u].svc = s /\ Kind(call[u]) = k)
RedoLeft(k, s) ==
    \/ ~connected \/ event
    \/ call[Redo].svc = s /\ Kind(call[Redo]) = k
    \/ k = "sub" /\ s \in todoSubs
    \/ k = "reg" /\ (redo = "subs" \/ todoRegs[s] # NoRegistration)
Excused(k, s) == <<k, s>> \in loose \union missed

(* While no call on a service is in progress, the server holds for it what  *)
(* the last call asked for, and so does the redo cache, unless the redo has *)
(* the service before it, its request failed, or operations on it crossed:  *)
(* the order of cache and request in RegisterInstance and                   *)
(* DeregisterInstance against OnConnected's copy.                           *)
AskedIsHeld ==
    \A s \in Services : Quiet("reg", s) /\ ~RedoLeft("reg", s) /\ ~Excused("reg", s) =>
        serverReg[s] = asked[s] /\ registeredInstanceCached[s] = asked[s]

(* A service with a callback is in the redo cache, and the server knows the *)
(* subscription unless the redo has it before it or its request failed,     *)
(* except when an Unsubscribe of the service crosses a Subscribe or a redo, *)
(* or writes an old list of callbacks over a newer one.                     *)
SubscriberIsFed ==
    \A s \in Services : callbacks[s] # {} /\ Quiet("sub", s) /\ <<"sub", s>> \notin loose =>
        /\ s \in subscribes
        /\ s \in serverSub \/ RedoLeft("sub", s) \/ <<"sub", s>> \in missed

(* Seen through the server's registrations, the client is NamingRegistry.   *)
Registry == INSTANCE NamingRegistry WITH
    held <- serverReg, loose <- {s \in Services : <<"reg", s>> \in loose}

(* The proxy and the redo implement the abstract registry: a request never  *)
(* leaves on the server what nobody asked for.                              *)
ImplementsRegistry == Registry!Spec

(* After every loss of the connection the registration asked for last is on *)
(* the server again, unless a request failed or operations crossed, or the  *)
(* client waits for ever in the request of the redo or of a call on the     *)
(* service.                                                                 *)
Waits(s) == At(Redo, "request") \/ \E u \in Users : At(u, "request") /\ call[u].svc = s
Restored ==
    \A s \in Services :
        \/ []<>(closed \/ Excused("reg", s) \/ serverReg[s] = asked[s])
        \/ <>[]Waits(s)
=============================================================================
