---------------------------- MODULE ServiceCache ----------------------------
(***************************************************************************)
(* The naming client's cache of services, who feeds it and who hears of    *)
(* changes: naming_cache, service_info_updater.go, push_receiver.go, the   *)
(* push handler.  Goroutines that run ProcessService, which has no lock:   *)
(*   Feeders   the stream's receiver, the UDP receiver, and the answers    *)
(*             that Subscribe and the redo process                         *)
(*   Pollers   updateServiceNow, started by the updater under a semaphore  *)
(* A job is [pc, key, new, old]: ProcessService of new, with what it read. *)
(* Users add and remove callbacks; a callback is named after its user.     *)
(* That the context ends the loops is left out: nothing is promised then.  *)
(***************************************************************************)
EXTENDS Naturals, FiniteSets

CONSTANTS
    Services,              \* cache keys
    Instances, HostLists,  \* instances, and the lists of them that a service may have
    Feeders, Users,
    Pollers,               \* goroutines of the updater, numbers, the lowest one is started
    NoService,
    UpdateThreadNum,       \* permits of the updater's semaphore
    UpdateCacheWhenEmpty,  \* updateCacheWhenEmpty
    NotLoadCacheAtStart,
    MaxTime,               \* bound: LastRefTime on the server
    MaxCalls               \* bound: callbacks added and removed

Service == [time : 0..MaxTime, hosts : HostLists]

ASSUME CacheAssumption ==
    /\ HostLists \subseteq SUBSET Instances
    /\ Pollers \subseteq Nat /\ Feeders \intersect Pollers = {}
    /\ NoService \notin Service
    /\ UpdateThreadNum \in Nat \ {0}
    /\ UpdateCacheWhenEmpty \in BOOLEAN /\ NotLoadCacheAtStart \in BOOLEAN
    /\ MaxTime \in Nat \ {0} /\ MaxCalls \in Nat

VARIABLES
    serviceInfoMap,    \* key -> Service, or NoService
    fresh,             \* UpdateTimeMap: keys updated less than CacheMillis ago
    file,              \* key -> what the cache directory has
    callbackFuncMap,   \* key -> the callbacks
    mux,               \* the user in AddCallbackFunc, or NoService
    user,              \* user -> [pc, key, funcs]: in Add- or RemoveCallbackFunc
    job,               \* goroutine -> ProcessService in progress
    updater, todo,     \* asyncUpdateService: where it is; keys that Range has left
    due,               \* the key, if any, that was found due and waits for a permit
    permits,           \* free permits of its semaphore
    server,            \* external: key -> Service
    told,              \* history: key -> user -> instances its callback was called with last
                       \* since it is registered, or NoService
    overlap,           \* history: keys with two ProcessService at once
    calls              \* counter against the bound

userVars    == <<callbackFuncMap, mux, user, calls>>
updaterVars == <<updater, todo, due, permits>>
historyVars == <<told, overlap>>
vars == <<serviceInfoMap, fresh, file, userVars, job, updaterVars, server, historyVars>>

Goroutines == Feeders \union Pollers
Old == Service \union {NoService}
NoJob == [pc |-> "idle", key |-> NoService, new |-> NoService, old |-> NoService]
NoCall == [pc |-> "idle", key |-> NoService, funcs |-> {}]

TypeOK ==
    /\ serviceInfoMap \in [Services -> Old] /\ file \in [Services -> Old]
    /\ fresh \subseteq Services
    /\ callbackFuncMap \in [Services -> SUBSET Users]
    /\ mux \in Users \union {NoService}
    /\ user \in [Users -> [pc : {"add", "remove", "check", "stop"}, key : Services, funcs : SUBSET Users]
                          \union {NoCall}]
    /\ job \in [Goroutines -> [pc : {"query", "load", "store", "write", "notify"}, key : Services,
                               new : Old, old : Old] \union {NoJob}]
    /\ updater \in {"sleep", "range"} /\ todo \subseteq Services /\ due \subseteq Services
    /\ permits \in 0..UpdateThreadNum
    /\ server \in [Services -> Service]
    /\ told \in [Services -> [Users -> HostLists \union {NoService}]]
    /\ overlap \subseteq Services
    /\ calls \in 0..MaxCalls

Refused(new) == new = NoService \/ (~UpdateCacheWhenEmpty /\ new.hosts = {})

(* ReadServicesFromFile, which skips a file that it cannot read or parse:    *)
(* such a file counts as none.                                               *)
loadCacheFromDisk ==
    serviceInfoMap = IF NotLoadCacheAtStart THEN [s \in Services |-> NoService] ELSE file

(* NewServiceInfoHolder: the files are from an earlier life of the client,   *)
(* and not newer than the server.                                            *)
Init ==
    /\ server \in [Services -> {[time |-> 1, hosts |-> h] : h \in HostLists}]
    /\ file \in [Services -> {NoService} \union
           {f \in {[time |-> 0, hosts |-> h] : h \in HostLists} : ~Refused(f)}]
    /\ loadCacheFromDisk
    /\ fresh = {}
    /\ callbackFuncMap = [s \in Services |-> {}] /\ mux = NoService
    /\ user = [u \in Users |-> NoCall]
    /\ job = [g \in Goroutines |-> NoJob]
    /\ updater = "range" /\ todo = {} /\ due = {} /\ permits = UpdateThreadNum
    /\ told = [s \in Services |-> [u \in Users |-> NoService]] /\ overlap = {} /\ calls = 0

-----------------------------------------------------------------------------
(* The semaphore, and where a goroutine's job ends.                         *)

(* Mutant: a permit is taken where there is none.                           *)
AcquireNothing == UNCHANGED permits

Acquire == permits > 0 /\ permits' = permits - 1
Release == permits' = permits + 1

(* Mutant: everybody gives a permit back.                                   *)
EndsReleasing(g) ==
    /\ job' = [job EXCEPT ![g] = NoJob]
    /\ Release

Ends(g) ==
    /\ job' = [job EXCEPT ![g] = NoJob]
    /\ IF g \in Pollers THEN Release ELSE UNCHANGED permits

Goes(g, pc) == job' = [job EXCEPT ![g].pc = pc]
At(g, pc) == job[g].pc = pc

-----------------------------------------------------------------------------
(* ProcessService.                                                          *)

Processing(s) == {g \in Goroutines : job[g].key = s /\ job[g].pc \in {"store", "write", "notify"}}

OutOfDate(old, new) == old # NoService /\ old.time >= new.time

(* The cached service is read and its time compared.                        *)
ProcessLoads(g) ==
    /\ At(g, "load")
    /\ LET s == job[g].key
           old == serviceInfoMap[s]
       IN IF Refused(job[g].new) \/ OutOfDate(old, job[g].new)
          THEN Ends(g) /\ UNCHANGED overlap
          ELSE /\ job' = [job EXCEPT ![g].pc = "store", ![g].old = old]
               /\ overlap' = IF Processing(s) = {} THEN overlap ELSE overlap \union {s}
               /\ UNCHANGED permits
    /\ UNCHANGED <<serviceInfoMap, fresh, file, userVars, updater, todo, due, server, told>>

(* Mutant: only a change in the number of instances counts.                 *)
checkLengthChanged(old, new) ==
    {old = NoService \/ Cardinality(old.hosts) # Cardinality(new.hosts)}

(* isServiceInstanceChanged sorts both lists with an order that is none (an  *)
(* address or a port that is less), so that equal lists of several instances *)
(* may compare as different.                                                 *)
checkInstanceChanged(old, new) ==
    CASE old = NoService -> {TRUE}
      [] old # NoService /\ old.hosts # new.hosts -> {TRUE}
      [] OTHER -> IF Cardinality(new.hosts) > 1 THEN BOOLEAN ELSE {FALSE}

ProcessStores(g) ==
    /\ At(g, "store")
    /\ serviceInfoMap' = [serviceInfoMap EXCEPT ![job[g].key] = job[g].new]
    /\ fresh' = fresh \union {job[g].key}
    /\ \E changed \in checkInstanceChanged(job[g].old, job[g].new) :
           IF changed THEN Goes(g, "write") /\ UNCHANGED permits ELSE Ends(g)
    /\ UNCHANGED <<file, userVars, updater, todo, due, server, historyVars>>

WriteServicesToFile(g) ==
    /\ At(g, "write")
    /\ file' = [file EXCEPT ![job[g].key] = job[g].new]
    /\ Goes(g, "notify")
    /\ UNCHANGED <<serviceInfoMap, fresh, userVars, updaterVars, server, historyVars>>

(* ServiceChanged and notifyListener: every callback of the moment.         *)
ServiceChanged(g) ==
    /\ At(g, "notify")
    /\ told' = [told EXCEPT ![job[g].key] =
           [u \in Users |-> IF u \in callbackFuncMap[job[g].key] THEN job[g].new.hosts ELSE @[u]]]
    /\ Ends(g)
    /\ UNCHANGED <<serviceInfoMap, fresh, file, userVars, updater, todo, due, server, overlap>>

-----------------------------------------------------------------------------
(* Who brings services.                                                     *)

Brings(g, s, new) ==
    /\ At(g, "idle")
    /\ job' = [job EXCEPT ![g] = [pc |-> "load", key |-> s, new |-> new, old |-> NoService]]
    /\ UNCHANGED <<serviceInfoMap, fresh, file, userVars, updaterVars, server, historyVars>>

(* NamingPushRequestHandler, and the answers to Subscribe: the service as it *)
(* is on the server when the message is sent.                                *)
NamingPush(g, s) == g \in Feeders /\ Brings(g, s, server[s])

(* handleClient for a packet with a service; JsonToService gives nil for one *)
(* that is no JSON.  Other packets are only answered.                        *)
handleClient(g, s) ==
    g \in Feeders /\ \E new \in {server[s], NoService} : Brings(g, s, new)

Publish(s) ==
    /\ server[s].time < MaxTime
    /\ \E h \in HostLists :
           server' = [server EXCEPT ![s] = [time |-> @.time + 1, hosts |-> h]]
    /\ UNCHANGED <<serviceInfoMap, fresh, file, userVars, job, updaterVars, historyVars>>

-----------------------------------------------------------------------------
(* The updater.                                                             *)

TimePasses(s) ==
    /\ s \in fresh
    /\ fresh' = fresh \ {s}
    /\ UNCHANGED <<serviceInfoMap, file, userVars, job, updaterVars, server, historyVars>>

UpdaterVars(pc, keys, wait) ==
    /\ updater' = pc /\ todo' = keys /\ due' = wait
    /\ UNCHANGED <<serviceInfoMap, fresh, file, userVars, server, historyVars>>

Cached == {s \in Services : serviceInfoMap[s] # NoService}

UpdaterWakes ==
    /\ updater = "sleep"
    /\ UpdaterVars("range", Cached, {})
    /\ UNCHANGED <<job, permits>>

UpdaterSkips(s) ==
    /\ updater = "range" /\ due = {} /\ s \in todo
    /\ s \in fresh \/ s \notin Cached
    /\ UpdaterVars("range", todo \ {s}, {})
    /\ UNCHANGED <<job, permits>>

(* A key that is due is one until there is a permit, though it may be       *)
(* updated or dropped in the meantime.                                      *)
UpdaterFinds(s) ==
    /\ updater = "range" /\ due = {} /\ s \in todo
    /\ s \notin fresh
    /\ UpdaterVars("range", todo \ {s}, {s})
    /\ UNCHANGED <<job, permits>>

(* Acquire returns, and a goroutine of its own queries. *)
UpdaterPolls(s, p) ==
    /\ s \in due
    /\ Acquire
    /\ At(p, "idle") /\ \A q \in Pollers : q < p => ~At(q, "idle")
    /\ job' = [job EXCEPT ![p] = [pc |-> "query", key |-> s, new |-> NoService, old |-> NoService]]
    /\ UpdaterVars("range", todo, {})

UpdaterSleeps ==
    /\ updater = "range" /\ todo = {} /\ due = {}
    /\ UpdaterVars("sleep", {}, {})
    /\ UNCHANGED <<job, permits>>

(* Mutant: the permit is given back only after ProcessService.              *)
QueryFailsKeeps(p) ==
    /\ At(p, "query")
    /\ job' = [job EXCEPT ![p] = NoJob]
    /\ UNCHANGED <<serviceInfoMap, fresh, file, userVars, updaterVars, server, historyVars>>

(* updateServiceNow.                                                        *)
QueryFails(p) ==
    /\ At(p, "query")
    /\ Ends(p)
    /\ UNCHANGED <<serviceInfoMap, fresh, file, userVars, updater, todo, due, server, historyVars>>

updateServiceNow(p) ==
    /\ At(p, "query")
    /\ job' = [job EXCEPT ![p].pc = "load", ![p].new = server[job[p].key]]
    /\ UNCHANGED <<serviceInfoMap, fresh, file, userVars, updaterVars, server, historyVars>>

-----------------------------------------------------------------------------
(* Callbacks.  AddCallbackFunc holds the mutex, RemoveCallbackFunc does not. *)

UserVars == UNCHANGED <<fresh, file, job, updaterVars, server, overlap>>

(* The callbacks of s become funcs; who is not among them was told nothing. *)
Registers(s, funcs) ==
    /\ callbackFuncMap' = [callbackFuncMap EXCEPT ![s] = funcs]
    /\ told' = [told EXCEPT ![s] = [u \in Users |-> IF u \in funcs THEN @[u] ELSE NoService]]

AddReads(u, s) ==
    /\ user[u].pc = "idle" /\ mux = NoService /\ calls < MaxCalls
    /\ u \notin callbackFuncMap[s]
    /\ mux' = u /\ calls' = calls + 1
    /\ user' = [user EXCEPT ![u] = [pc |-> "add", key |-> s, funcs |-> callbackFuncMap[s]]]
    /\ UNCHANGED <<serviceInfoMap, callbackFuncMap, told>> /\ UserVars

AddCallbackFunc(u) ==
    /\ user[u].pc = "add"
    /\ Registers(user[u].key, user[u].funcs \union {u})
    /\ mux' = NoService
    /\ user' = [user EXCEPT ![u] = NoCall]
    /\ UNCHANGED <<serviceInfoMap, calls>> /\ UserVars

RemoveReads(u, s) ==
    /\ user[u].pc = "idle" /\ calls < MaxCalls
    /\ u \in callbackFuncMap[s]
    /\ calls' = calls + 1
    /\ user' = [user EXCEPT ![u] = [pc |-> "remove", key |-> s, funcs |-> callbackFuncMap[s]]]
    /\ UNCHANGED <<serviceInfoMap, callbackFuncMap, mux, told>> /\ UserVars

RemoveCallbackFunc(u) ==
    /\ user[u].pc = "remove"
    /\ Registers(user[u].key, user[u].funcs \ {u})
    /\ user' = [user EXCEPT ![u].pc = "check", ![u].funcs = {}]
    /\ UNCHANGED <<serviceInfoMap, mux, calls>> /\ UserVars

IsSubscribed(u) ==
    /\ user[u].pc = "check"
    /\ user' = [user EXCEPT ![u] =
           IF callbackFuncMap[@.key] = {} THEN [@ EXCEPT !.pc = "stop"] ELSE NoCall]
    /\ UNCHANGED <<serviceInfoMap, callbackFuncMap, mux, told, calls>> /\ UserVars

StopUpdateIfContain(u) ==
    /\ user[u].pc = "stop"
    /\ serviceInfoMap' = [serviceInfoMap EXCEPT ![user[u].key] = NoService]
    /\ user' = [user EXCEPT ![u] = NoCall]
    /\ UNCHANGED <<callbackFuncMap, mux, told, calls>> /\ UserVars

-----------------------------------------------------------------------------
Process(g) ==
    ProcessLoads(g) \/ ProcessStores(g) \/ WriteServicesToFile(g) \/ ServiceChanged(g)

Update == UpdaterWakes \/ UpdaterSleeps \/
    \E s \in Services : UpdaterSkips(s) \/ UpdaterFinds(s) \/ \E p \in Pollers : UpdaterPolls(s, p)

UserStep(u) ==
    \/ AddCallbackFunc(u) \/ RemoveCallbackFunc(u) \/ IsSubscribed(u) \/ StopUpdateIfContain(u)
    \/ \E s \in Services : AddReads(u, s) \/ RemoveReads(u, s)

Next ==
    \/ \E g \in Goroutines : Process(g)
    \/ \E g \in Feeders, s \in Services : NamingPush(g, s) \/ handleClient(g, s)
    \/ Update
    \/ \E p \in Pollers : QueryFails(p) \/ updateServiceNow(p)
    \/ \E u \in Users : UserStep(u)
    \/ \E s \in Services : TimePasses(s) \/ Publish(s)

Spec == Init /\ [][Next]_vars

(* Goroutines that can run do run, time passes, and a query that is repeated *)
(* is answered in the end.                                                   *)
FairSpec ==
    /\ Spec
    /\ WF_vars(Update)
    /\ \A g \in Goroutines : WF_vars(Process(g))
    /\ \A p \in Pollers : WF_vars(QueryFails(p) \/ updateServiceNow(p)) /\ SF_vars(updateServiceNow(p))
    /\ \A s \in Services : WF_vars(TimePasses(s))

-----------------------------------------------------------------------------
(* Properties.                                                              *)

(* The updater never has more queries running than it has permits, although *)
(* its goroutines end on several paths.                                     *)
QueriesBounded == Cardinality({p \in Pollers : ~At(p, "idle")}) <= UpdateThreadNum

(* What a callback was called with last is what the cache holds, once no    *)
(* ProcessService of the service is under way, as long as no two of them    *)
(* ever ran at once: read, compare, store and notify are not one step.      *)
LastToldIsCached ==
    \A s \in Services : \A u \in callbackFuncMap[s] :
        (/\ s \notin overlap /\ Processing(s) = {}
         /\ told[s][u] # NoService /\ serviceInfoMap[s] # NoService)
        => told[s][u] = serviceInfoMap[s].hosts

(* With the updater, a cached service ends up as the server has it, although *)
(* overlapping updates may store an older one over a newer one, queries may  *)
(* fail, and Unsubscribe may remove what a late push adds again.             *)
CacheConverges ==
    \A s \in Services :
        []<>(\/ serviceInfoMap[s] \in {NoService, server[s]}
             \/ Refused(server[s]))
=============================================================================
